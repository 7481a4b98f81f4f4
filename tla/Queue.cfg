SPECIFICATION FairWriterSpec
CONSTANTS
  Messages = {m1, m2, large}
  NoMessage = noMessage
  Large = {large}
  MaxPending = 1
  MaxBytes = 2
  FrameLen = 2
  BufferLen = 1
INVARIANTS
  BudgetHolds
  OutgoingWhole
PROPERTIES
  SendSettles
  WriterObeysStop
CHECK_DEADLOCK FALSE
