------------------------------ MODULE MCRouter ------------------------------
(* Small instances of Router: two models that fit the budget together and  *)
(* one that fits only alone.                                               *)
EXTENDS Router, TLC

CONSTANTS m1, m2, m3

MCMem == m1 :> 1 @@ m2 :> 1 @@ m3 :> 2

\* The third model needs more than the whole budget of the liveness run.
MCMemLarge == m1 :> 1 @@ m2 :> 1 @@ m3 :> 9

MCSymmetry == Permutations(Requests) \cup Permutations({m1, m2})
=============================================================================
