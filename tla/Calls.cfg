SPECIFICATION CallsSpec
CONSTANTS
  Senders = {s1, s2, s3, s4}
  NoSender = noSender
  FrameLen = 4
  HeaderLen = 2
  BufferLen = 3
  MaxRequests = 2
  Timeouts = {1, 2}
  ConnectTimeout = 1
  MaxExtension = 3
  Grace = 1
  MaxSilence = 2
INVARIANTS
  FramesArriveWhole
  PendingIsOwed
PROPERTIES
  GivesUpWhenDue
  AnswerArrives
  ExitIsCertain
CHECK_DEADLOCK FALSE
