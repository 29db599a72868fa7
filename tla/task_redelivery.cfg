SPECIFICATION FullSpec
CONSTANTS
  Workers = {w1, w2}
  Cmds = {c1, c2}
  ConsumersBefore = {"nil"}
  FaultKinds = {"crash"}
  MaxFaults = 1
  SleepSuffices = TRUE
  MaxRetries = 2
  NoExec = NoExec
SYMMETRY Symmetry
INVARIANTS
  TypeOK
  NoCommandVanishes
  RunAtMostOnce
  NeverPanics
  CompleteReport
PROPERTIES
  NoCommandRunsAfterWait
  KeepsContract
CHECK_DEADLOCK FALSE
