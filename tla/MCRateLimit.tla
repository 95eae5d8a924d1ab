----------------------------- MODULE MCRateLimit -----------------------------
(* Model values, rules and limits for the run of RateLimit. *)
EXTENDS RateLimit, TLC

CONSTANTS r1, r2

Priority == <<r1, r2>>
LimitOne == [limit |-> 1, burst |-> 0]
BurstTwo == [limit |-> 1, burst |-> 2]
LimitTwo == [limit |-> 2, burst |-> 0]
TwoRules == (r1 :> {LimitOne} @@ r2 :> {BurstTwo, LimitTwo})

Symmetry == Permutations(Workers)
=============================================================================
