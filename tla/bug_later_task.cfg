SPECIFICATION FairSpec
CONSTANTS
  Workers = {w1}
  Cmds = {c1}
  ConsumersBefore = {"subscribed"}
  FaultKinds = {}
  MaxFaults = 0
  SleepSuffices = TRUE
  MaxRetries = 2
  NoExec = NoExec
PROPERTY
  LaterTaskReturns
CHECK_DEADLOCK FALSE
