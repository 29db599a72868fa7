CONSTANTS
  h1 = h1
  h2 = h2
  w1 = w1
  w2 = w2
  NoConsumer = NoConsumer
  NoCmd = NoCmd
  Tasks <- TurnAndTurn
SPECIFICATION Spec
INVARIANTS PipelineTypeOK NothingLost TwiceOnlyWhenClosed OneConsumer PanicNeedsMixing ReportsItsOwn
PROPERTY CallsKeepContract
CHECK_DEADLOCK FALSE
