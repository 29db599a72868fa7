CONSTANTS
  h1 = h1
  h2 = h2
  w1 = w1
  w2 = w2
  NoConsumer = NoConsumer
  NoCmd = NoCmd
  Tasks <- OneEach
SPECIFICATION Spec
INVARIANTS RunsOnItsMachines
CHECK_DEADLOCK FALSE
