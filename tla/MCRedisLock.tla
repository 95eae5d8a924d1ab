----------------------------- MODULE MCRedisLock -----------------------------
(* Model values and timeouts for the run of RedisLock. *)
EXTENDS RedisLock, TLC

CONSTANTS c1, c2

Unequal == (c1 :> 1 @@ c2 :> 2)
=============================================================================
