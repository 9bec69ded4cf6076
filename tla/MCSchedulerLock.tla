-------------------------- MODULE MCSchedulerLock --------------------------
(***************************************************************************)
(* SchedulerLock for TLC: three process incarnations over three pids.        *)
(***************************************************************************)
EXTENDS SchedulerLock, TLC

\* Processes are interchangeable; so are pids, but for the legacy one.
Symmetry == Permutations(Procs) \cup Permutations(Pids \ {LegacyPid})
=============================================================================
