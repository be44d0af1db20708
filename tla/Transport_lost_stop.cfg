SPECIFICATION FairSpec
CONSTANTS
  Callers = {net, compute}
  Net = net
  MaxCalls = 0
  MaxRetries = 0
  MaxSessions = 1
  ForeignStop = TRUE
PROPERTIES
  StopReturns
