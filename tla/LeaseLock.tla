------------------------------ MODULE LeaseLock ------------------------------
(***************************************************************************)
(* What a lock with an expiry promises, without identifiers, WATCH and the *)
(* commands to a server: it has at most one owner, is freed by nobody but  *)
(* its owner and only after the owner's block, or by time, and a client    *)
(* believes to have it for no longer than it does.                         *)
(***************************************************************************)
EXTENDS Naturals

CONSTANTS Clients, NoOne, Timeout

VARIABLES
  owner,   \* who has the lock, or NoOne
  ttl,     \* what is left until it is free again
  claim,   \* claim[c]: for how long c believes to have it, 0: it does not
  asking   \* who is asking for it

vars == <<owner, ttl, claim, asking>>

Init == owner = NoOne /\ ttl = 0 /\ claim = [c \in Clients |-> 0] /\ asking = {}

(* The lock can no longer be told from another's: neither it nor the claim counts. *)
Void ==
  /\ owner' = NoOne
  /\ ttl' = 0
  /\ claim' = [c \in Clients |-> IF c = owner THEN 0 ELSE claim[c]]

(* A client begins to ask; by that, and by nothing else, the lock may become void. *)
Ask(c) ==
  /\ c \notin asking
  /\ asking' = asking \cup {c}
  /\ Void \/ UNCHANGED <<owner, ttl, claim>>

(* One who asks gets the lock, and may never learn of it. *)
Take(c) ==
  /\ c \in asking
  /\ owner = NoOne
  /\ owner' = c
  /\ ttl' = Timeout[c]
  /\ claim' \in {claim, [claim EXCEPT ![c] = Timeout[c]]}
  /\ asking' \in {asking, asking \ {c}}

(* The client no longer asks, its block ends, or its process does. *)
Leave(c) ==
  /\ claim' = [claim EXCEPT ![c] = 0]
  /\ asking' = asking \ {c}
  /\ UNCHANGED <<owner, ttl>>

Free(c) ==
  /\ owner = c /\ claim[c] = 0
  /\ owner' = NoOne
  /\ ttl' = 0
  /\ UNCHANGED <<claim, asking>>

Less(n) == IF n = 0 THEN 0 ELSE n - 1

Tick ==
  /\ owner' = IF ttl = 1 THEN NoOne ELSE owner
  /\ ttl' = Less(ttl)
  /\ claim' = [c \in Clients |-> Less(claim[c])]
  /\ UNCHANGED asking

Next == (\E c \in Clients : Ask(c) \/ Take(c) \/ Leave(c) \/ Free(c)) \/ Tick

Spec == Init /\ [][Next]_vars
=============================================================================
