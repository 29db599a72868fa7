CONSTANTS
  Nil = Nil
  NotANumber = NotANumber
  Empty = ""
  Variables <- MCVariables
  Workers <- MCWorkers
  Holdings <- MCHoldings
  Requests = {r1, r2, r3}
  Contents <- MCContents
  MaxEdits = 1
  MaxFound = 1
SPECIFICATION Spec
SYMMETRY Symmetry
INVARIANTS OrchestratorTypeOK NilConfigOnlyByRace AddressSurvives
PROPERTIES StartConfigStays
CHECK_DEADLOCK FALSE
