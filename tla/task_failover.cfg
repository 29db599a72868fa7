SPECIFICATION FairFullSpec
CONSTANTS
  Workers = {w1, w2}
  Cmds = {c1}
  ConsumersBefore = {"nil"}
  FaultKinds = {"conn", "crash"}
  MaxFaults = 1
  SleepSuffices = TRUE
  MaxRetries = 2
  NoExec = NoExec
PROPERTIES
  Failover
  GoroutinesEnd
CHECK_DEADLOCK FALSE
