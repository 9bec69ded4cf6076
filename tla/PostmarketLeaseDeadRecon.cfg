\* A dead reconciliation and its successor.
SPECIFICATION Spec
CONSTANTS
  None = None
  PmrRuns = {a}
  ReconRuns = {c, d}
  Procs = {p1, p2}
  Pids = {n1, n2}
  MaxSession = 2
  StoreMayFail = FALSE
  LateFailure = FALSE
PROPERTY DeadReconciliationRecovered
SYMMETRY Symmetry
CHECK_DEADLOCK FALSE
