---------------------------- MODULE MCTieredCache ----------------------------
(* Model values for the runs of TieredCache: two threads of one process    *)
(* and one of another; a tuple becomes a list in Redis.                    *)
EXTENDS TieredCache, TLC

CONSTANTS c1, c2, c3, p, q, list, tuple, other

TwoAndOne == c1 :> p @@ c2 :> p @@ c3 :> q

TupleToList == [v \in Values |-> IF v = tuple THEN list ELSE v]

(* The keys, and the two threads of the one process. *)
Symmetry == Permutations(Keys) \cup Permutations({c1, c2})
=============================================================================
