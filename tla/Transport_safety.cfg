SPECIFICATION Spec
CONSTANTS
  Callers = {net, compute}
  Net = net
  MaxCalls = 2
  MaxRetries = 0
  MaxSessions = 2
  ForeignStop = FALSE
INVARIANTS
  TypeOK
  PendingIsQueued
  OneWriteAtATime
  WaitingHasWaker
  NothingOutlivesSession
PROPERTIES
  LowLaneYields
  InOrderAtMostOnce
