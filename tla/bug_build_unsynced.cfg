SPECIFICATION Spec
CONSTANTS
  Endpoints = {e1, e2}
  Machines = {m1, m2}
  Local = m1
  Hooks = {h1}
  PRs = {p1}
  MaxPushes = 1
  MaxFaults = 0
INVARIANTS
  EveryEndpointSynced
CHECK_DEADLOCK FALSE
