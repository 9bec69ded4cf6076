\* Three schedulers, whatever file the first one finds.
SPECIFICATION Spec
CONSTANTS
  None = None
  Legacy = Legacy
  Garbage = Garbage
  Procs = {p1, p2, p3}
  Pids = {n1, n2, n3}
  LegacyPid = n1
  Found = {None, Legacy, Garbage}
INVARIANTS
  RaceNeedsRecovery
  LoneStartAcquires
  BurstLeavesAScheduler
SYMMETRY Symmetry
CHECK_DEADLOCK FALSE
