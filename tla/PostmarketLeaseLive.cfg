\* Liveness: jobs end and leases are given back.
SPECIFICATION FairSpec
CONSTANTS
  None = None
  PmrRuns = {a, b}
  ReconRuns = {c}
  Procs = {p1, p2}
  Pids = {n1, n2}
  MaxSession = 1
  StoreMayFail = FALSE
  LateFailure = FALSE
PROPERTIES
  EveryJobEnds
  LeaseIsGivenBack
CHECK_DEADLOCK FALSE
