SPECIFICATION Spec
CONSTANTS
  Endpoints = {e1, e2}
  Machines = {m1, m2}
  Local = m1
  Hooks = {h1, h2}
  PRs = {p1}
  MaxPushes = 2
  MaxFaults = 1
SYMMETRY Symmetry
INVARIANTS
  BuildTypeOK
  BuildsWhatWasPushed
  NoWorktreeLeft
  WarmBuildSyncs
CHECK_DEADLOCK FALSE
