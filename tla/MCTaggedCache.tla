---------------------------- MODULE MCTaggedCache ----------------------------
(* Model values and timeouts for the run of TaggedCache. *)
EXTENDS TaggedCache, TLC

CONSTANTS k1, k2

Unequal == k1 :> 1 @@ k2 :> 2
=============================================================================
