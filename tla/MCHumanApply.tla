--------------------------- MODULE MCHumanApply ---------------------------
(* Instances of HumanApply for TLC.                                        *)
EXTENDS HumanApply, TLC

CONSTANTS p, q, code, test, doc

\* One proposal changes a module and adds its test, the other a document.
MCTargets == p :> {code, test} @@ q :> {doc}
=============================================================================
