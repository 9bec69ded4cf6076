\* Nothing fails but processes: two reviews and one reconciliation.
SPECIFICATION Spec
CONSTANTS
  None = None
  PmrRuns = {a, b}
  ReconRuns = {c}
  Procs = {p1, p2, p3}
  Pids = {n1, n2}
  MaxSession = 2
  StoreMayFail = FALSE
  LateFailure = FALSE
INVARIANTS
  MutualExclusion
  OneTerminalStatus
  CompletedTwiceOnlyAfterCrash
  LastSessionCompleted
  NoLeakedLease
PROPERTIES
  LiveOwnerNeverStolen
  ImplementsContract
SYMMETRY Symmetry
CHECK_DEADLOCK FALSE
