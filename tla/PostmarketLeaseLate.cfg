\* What follows the completed terminal raises.
SPECIFICATION Spec
CONSTANTS
  None = None
  PmrRuns = {a, b}
  ReconRuns = {c}
  Procs = {p1, p2}
  Pids = {n1, n2}
  MaxSession = 2
  StoreMayFail = FALSE
  LateFailure = TRUE
PROPERTY LiveOwnerNeverStolen
SYMMETRY Symmetry
CHECK_DEADLOCK FALSE
