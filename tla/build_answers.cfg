SPECIFICATION FairSpec
CONSTANTS
  Endpoints = {e1, e2}
  Machines = {m1}
  Local = m1
  Hooks = {h1, h2}
  PRs = {p1}
  MaxPushes = 1
  MaxFaults = 1
PROPERTY
  BuildsEnd
CHECK_DEADLOCK FALSE
