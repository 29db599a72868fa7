CONSTANTS
  Nil = Nil
  NotANumber = NotANumber
  Empty = ""
  Variables <- MCVariables
  Workers <- MCWorkers
  Holdings <- MCHoldings
  Requests = {r1, r2}
  Contents <- MCContents
  MaxEdits = 1
  MaxFound = 1
SPECIFICATION FairSpec
PROPERTIES ValidIsAnswered
CHECK_DEADLOCK FALSE
