------------------------- MODULE MCFillReconciliation -------------------------
(***************************************************************************)
(* Instances of FillReconciliation.  Two reconciliations at once are the   *)
(* race tests/test_p69_r1_downstream_finalization.py provokes.             *)
(***************************************************************************)
EXTENDS FillReconciliation

CONSTANTS pmr, job, script

=============================================================================
