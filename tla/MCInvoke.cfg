SPECIFICATION Spec
CONSTANTS
  Callers = {"g1", "g2"}
  MaxAttempts = 2
  TicksPerSecond = 1
  MaxCalls = 2
  MaxClock = 1
  MaxSalt = 1
  MaxPushes = 1
INVARIANTS
  TypeOK
  OwnResult
  SentInOrder
  NoInterleavedRequests
  RunsOnceUnlessMisled
PROPERTIES
  InvokeReturns
CHECK_DEADLOCK FALSE
