SPECIFICATION FairSpec
CONSTANTS
  Workers = {w1, w2}
  Cmds = {c1, c2}
  ConsumersBefore = {"nil"}
  FaultKinds = {}
  MaxFaults = 0
  SleepSuffices = TRUE
  MaxRetries = 2
  NoExec = NoExec
PROPERTIES
  TaskReturns
  QueueDrains
CHECK_DEADLOCK FALSE
