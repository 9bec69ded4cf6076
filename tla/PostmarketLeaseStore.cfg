\* Any write of the store may raise; jobs end all the same.
SPECIFICATION FairSpec
CONSTANTS
  None = None
  PmrRuns = {a, b}
  ReconRuns = {}
  Procs = {p1, p2}
  Pids = {n1, n2}
  MaxSession = 2
  StoreMayFail = TRUE
  LateFailure = FALSE
INVARIANTS
  MutualExclusion
  OneTerminalStatus
PROPERTIES
  EveryJobEnds
  ProcessedStays
CHECK_DEADLOCK FALSE
