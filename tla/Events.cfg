SPECIFICATION FairSpec
CONSTANTS
  Producers = {p1, p2}
  NoMessage = noMessage
  QueueSize = 1
  BatchSize = 2
  PriorityBurst = 1
  EvictAttempts = 2
  MaxMessages = 3
INVARIANTS
  Accounted
  ProducerOrder
  OvertakingBounded
PROPERTIES
  LossIsDue
  AcceptedIsDelivered
CHECK_DEADLOCK FALSE
