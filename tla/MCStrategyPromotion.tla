----------------------- MODULE MCStrategyPromotion -----------------------
(* Instances of StrategyPromotion for TLC.                                *)
EXTENDS StrategyPromotion, TLC

CONSTANTS breakout, s1, s2, w1, w2, w3, k1, k2, night

\* Nothing tells two windows apart, nor two strategies that are not built in.
Symmetry == Permutations(Windows) \cup Permutations(Strategies \ {Builtin})
=============================================================================
