SPECIFICATION FairSpec
CONSTANTS
  net = net
  compute = compute
  Callers = {net, compute}
  Net = net
  MaxCalls = 1
  MaxRetries = 1
  MaxSessions = 2
  ForeignStop = TRUE
INVARIANTS
  GivesUpAfterRetries
PROPERTIES
  LanesDrain
  SessionResumes
  StopOfSessionReturns
