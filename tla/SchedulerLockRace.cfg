\* Two starts race over the orphan lock of a dead scheduler.
SPECIFICATION Spec
CONSTANTS
  None = None
  Legacy = Legacy
  Garbage = Garbage
  Procs = {p1, p2, p3}
  Pids = {n1, n2}
  LegacyPid = n1
  Found = {None, Legacy, Garbage}
INVARIANT MutualExclusion
SYMMETRY Symmetry
CHECK_DEADLOCK FALSE
