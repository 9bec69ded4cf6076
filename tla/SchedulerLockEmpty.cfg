\* A scheduler dies between the creation of its lock and the writing of it.
SPECIFICATION Spec
CONSTANTS
  None = None
  Legacy = Legacy
  Garbage = Garbage
  Procs = {p1, p2, p3}
  Pids = {n1, n2, n3}
  LegacyPid = n1
  Found = {None}
INVARIANT EmptyFileIsRecovered
SYMMETRY Symmetry
CHECK_DEADLOCK FALSE
