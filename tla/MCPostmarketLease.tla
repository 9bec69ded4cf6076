------------------------- MODULE MCPostmarketLease -------------------------
(***************************************************************************)
(* PostmarketLease for TLC: two reviews and one or two reconciliations     *)
(* over two or three process incarnations, two pids and two sessions.      *)
(***************************************************************************)
EXTENDS PostmarketLease, TLC

\* Runs of one kind, processes and pids are interchangeable.
Symmetry ==
  Permutations(PmrRuns) \cup Permutations(ReconRuns)
    \cup Permutations(Procs) \cup Permutations(Pids)
=============================================================================
