SPECIFICATION Spec
CONSTANTS
  Workers = {w1, w2}
  Cmds = {c1}
  ConsumersBefore = {"nil", "subscribed", "dead"}
  FaultKinds = {"dial", "mq", "stream", "conn", "crash"}
  MaxFaults = 2
  SleepSuffices = FALSE
  MaxRetries = 2
  NoExec = NoExec
SYMMETRY Symmetry
INVARIANTS
  NoCommandVanishes
  RunAtMostOnce
  NeverPanics
  CompleteReport
  NoResultVanishes
PROPERTIES
  NoCommandRunsAfterWait
  KeepsContract
CHECK_DEADLOCK FALSE
