------------------------- MODULE MCOrderSubmission -------------------------
(* Instances of OrderSubmission for TLC.                                    *)
EXTENDS OrderSubmission, TLC

Symmetry == Permutations(Symbols) \cup Permutations(Cycles)

\* Every property makes an exception of runs that decided at the same time, and
\* either of plans sent by hand or of an error of the budget: TLC need not go
\* on from there.
Excepted == overlap \/ (ByHand /\ unchecked)

\* Bound: the portfolio watch is followed only as long as no cycle has bought
\* without a limit.
WatchOrNoLimit ==
  \/ \A r \in Watches : pc[r] = "off"
  \/ \A p \in Plans : p[1] \in Cycles /\ IsBuy(p) /\ plan[p].status # "none" => limit[p[1]] # 0

Followed == ~Excepted /\ WatchOrNoLimit
=============================================================================
