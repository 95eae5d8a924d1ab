----------------------------- MODULE TieredCache -----------------------------
(***************************************************************************)
(* platform_core/cache/backends.py, TieredCache: a bounded dictionary in   *)
(* every process (L1) before one Redis (L2).                               *)
(*                                                                         *)
(* What a thread does under l1_lock is one step, and so is every command   *)
(* to Redis; between the two anything may happen.  RedisCache swallows     *)
(* every exception: a failed get looks like a miss, a failed set or delete *)
(* returns False.  Statistics are left out.                                *)
(***************************************************************************)
EXTENDS Naturals, Sequences, SequencesExt

CONSTANTS
  Keys,
  Values,     \* what callers cache; None is never cached
  Json,       \* Json[v]: what v is after _serialize and _deserialize
  None,       \* absent, the key's default
  Unknown,    \* history: nothing is known of the last write
  Procs,      \* processes, each with a TieredCache
  Clients,    \* threads
  Home,       \* Home[c]: the process of c
  L1Size

ASSUME TieredAssumption ==
  /\ None \notin Values /\ Unknown \notin Values /\ None # Unknown
  /\ Json \in [Values -> Values] /\ \A v \in Values : Json[Json[v]] = Json[v]
  /\ Home \in [Clients -> Procs]
  /\ L1Size \in Nat

VARIABLES
  l1,       \* l1[p]: the entries of p's l1_cache, the least recently used first
  l2,       \* l2[k]: what Redis holds for k
  at,       \* what each client has still to do: fetch from Redis, promote what
            \* it has fetched, or write to Redis
  on,       \* the keys its operation is on (clear: all of them)
  with,     \* the value it promotes or writes; None to delete
  alone,    \* history: it writes, and no other operation has overlapped its own
  settled   \* history: settled[k] is what the last write of k left (None: it
            \* was deleted), if it succeeded and was alone

vars == <<l1, l2, at, on, with, alone, settled>>

Entry == [key : Keys, value : Values]

TypeOK ==
  /\ l1 \in [Procs -> Seq(Entry)]
  /\ l2 \in [Keys -> Values \cup {None}]
  /\ at \in [Clients -> {"idle", "fetch", "promote", "write"}]
  /\ on \in [Clients -> SUBSET Keys]
  /\ with \in [Clients -> Values \cup {None}]
  /\ alone \in [Clients -> BOOLEAN]
  /\ settled \in [Keys -> Values \cup {None, Unknown}]

Init ==
  /\ l1 = [p \in Procs |-> <<>>]
  /\ l2 = [k \in Keys |-> None]
  /\ at = [c \in Clients |-> "idle"]
  /\ on = [c \in Clients |-> {}]
  /\ with = [c \in Clients |-> None]
  /\ alone = [c \in Clients |-> FALSE]
  /\ settled = [k \in Keys |-> Unknown]

(* c begins an operation on the keys K; the writes it overlaps are no      *)
(* longer alone.                                                           *)
Begin(c, place, K, v) ==
  LET rivals == {d \in Clients \ {c} : on[d] \cap K # {}}
  IN
  /\ at[c] = "idle"
  /\ at' = [at EXCEPT ![c] = place]
  /\ on' = [on EXCEPT ![c] = K]
  /\ with' = [with EXCEPT ![c] = v]
  /\ alone' = [d \in Clients |-> IF d = c THEN place = "write" /\ rivals = {}
                                 ELSE alone[d] /\ d \notin rivals]

BeginWrite(c, K, v) ==
  /\ Begin(c, "write", K, v)
  /\ settled' = [k \in Keys |-> IF k \in K THEN Unknown ELSE settled[k]]

(* c returns: its local variables are gone. *)
End(c) ==
  /\ at' = [at EXCEPT ![c] = "idle"]
  /\ on' = [on EXCEPT ![c] = {}]
  /\ with' = [with EXCEPT ![c] = None]
  /\ alone' = [alone EXCEPT ![c] = FALSE]

-----------------------------------------------------------------------------
(* The dictionary of a process. *)

Places(s, k) == {i \in 1 .. Len(s) : s[i].key = k}

Has(s, k) == Places(s, k) # {}

Place(s, k) == CHOOSE i \in Places(s, k) : TRUE

ToEnd(s, k) == Append(RemoveAt(s, Place(s, k)), s[Place(s, k)])

Without(s, k) == IF Has(s, k) THEN RemoveAt(s, Place(s, k)) ELSE s

(* _set_l1.  A key that is there is moved to the end, with the value it has. *)
Put(s, k, v) ==
  IF Has(s, k) THEN ToEnd(s, k)
  ELSE LET t == Append(s, [key |-> k, value |-> v])
       IN  IF Len(t) > L1Size THEN Tail(t) ELSE t

SetL1(c, k, v) == l1' = [l1 EXCEPT ![Home[c]] = Put(@, k, v)]

-----------------------------------------------------------------------------
(* get *)

GetHit(c, k) ==
  /\ at[c] = "idle"
  /\ Has(l1[Home[c]], k)
  /\ l1' = [l1 EXCEPT ![Home[c]] = ToEnd(@, k)]
  /\ UNCHANGED <<l2, at, on, with, alone, settled>>

GetMiss(c, k) ==
  /\ ~Has(l1[Home[c]], k)
  /\ Begin(c, "fetch", {k}, None)
  /\ UNCHANGED <<l1, l2, settled>>

(* Mutant: the answer is not looked at, a miss is promoted, too. *)
Fetch_Unchecked(c) ==
  /\ at[c] = "fetch"
  /\ \E k \in on[c] : with' = [with EXCEPT ![c] = l2[k]]
  /\ at' = [at EXCEPT ![c] = "promote"]
  /\ UNCHANGED <<l1, l2, on, alone, settled>>

(* Redis has the key. *)
Fetch(c) ==
  /\ at[c] = "fetch"
  /\ \E k \in on[c] : l2[k] # None /\ with' = [with EXCEPT ![c] = l2[k]]
  /\ at' = [at EXCEPT ![c] = "promote"]
  /\ UNCHANGED <<l1, l2, on, alone, settled>>

(* Redis has not, or does not answer: the default is returned. *)
FetchMiss(c) ==
  /\ at[c] = "fetch"
  /\ End(c)
  /\ UNCHANGED <<l1, l2, settled>>

Promote(c) ==
  /\ at[c] = "promote"
  /\ \E k \in on[c] : SetL1(c, k, with[c])
  /\ End(c)
  /\ UNCHANGED <<l2, settled>>

-----------------------------------------------------------------------------
(* set, delete and clear: first the dictionary, *)

Set(c, k, v) ==
  /\ SetL1(c, k, v)
  /\ BeginWrite(c, {k}, v)
  /\ UNCHANGED l2

(* Mutant: only Redis is asked to delete. *)
Delete_KeepsL1(c, k) ==
  /\ BeginWrite(c, {k}, None)
  /\ UNCHANGED <<l1, l2>>

Delete(c, k) ==
  /\ l1' = [l1 EXCEPT ![Home[c]] = Without(@, k)]
  /\ BeginWrite(c, {k}, None)
  /\ UNCHANGED l2

Clear(c) ==
  /\ l1' = [l1 EXCEPT ![Home[c]] = <<>>]
  /\ BeginWrite(c, Keys, None)
  /\ UNCHANGED l2

(* then Redis. *)

Left(c) == IF with[c] = None THEN None ELSE Json[with[c]]

Written(c) == [k \in Keys |-> IF k \in on[c] THEN Left(c) ELSE l2[k]]

Settle(c) ==
  settled' = [k \in Keys |-> IF k \in on[c] /\ alone[c] THEN Left(c) ELSE settled[k]]

WriteL2(c) ==
  /\ at[c] = "write"
  /\ l2' = Written(c)
  /\ Settle(c)
  /\ End(c)
  /\ UNCHANGED l1

(* Mutant: a write that failed is reported as a success. *)
WriteFails_Unnoticed(c) ==
  /\ at[c] = "write"
  /\ l2' \in {l2, Written(c)}
  /\ Settle(c)
  /\ End(c)
  /\ UNCHANGED l1

(* The value cannot be serialised, or Redis does not answer (it may have   *)
(* carried out the command): False.                                        *)
WriteFails(c) ==
  /\ at[c] = "write"
  /\ l2' \in {l2, Written(c)}
  /\ End(c)
  /\ UNCHANGED <<l1, settled>>

(* The timeout of a key passes in Redis; a dictionary has no timeouts. *)
Expire(k) ==
  /\ l2[k] # None
  /\ l2' = [l2 EXCEPT ![k] = None]
  /\ UNCHANGED <<l1, at, on, with, alone, settled>>

(* A process ends and a new one takes its place. *)
Restart(p) ==
  LET Dies(c) == Home[c] = p
  IN
  /\ l1' = [l1 EXCEPT ![p] = <<>>]
  /\ at' = [c \in Clients |-> IF Dies(c) THEN "idle" ELSE at[c]]
  /\ on' = [c \in Clients |-> IF Dies(c) THEN {} ELSE on[c]]
  /\ with' = [c \in Clients |-> IF Dies(c) THEN None ELSE with[c]]
  /\ alone' = [c \in Clients |-> alone[c] /\ ~Dies(c)]
  /\ UNCHANGED <<l2, settled>>

Next ==
  \/ \E c \in Clients :
       \/ \E k \in Keys : GetHit(c, k) \/ GetMiss(c, k) \/ Delete(c, k)
       \/ \E k \in Keys, v \in Values : Set(c, k, v)
       \/ Fetch(c) \/ FetchMiss(c) \/ Promote(c)
       \/ Clear(c) \/ WriteL2(c) \/ WriteFails(c)
  \/ \E k \in Keys : Expire(k)
  \/ \E p \in Procs : Restart(p)

Spec == Init /\ [][Next]_vars

-----------------------------------------------------------------------------
(* No dictionary grows past l1_size, and none holds a key twice, however   *)
(* many threads fill it (backends.py:416-419).                             *)
L1Bounded ==
  \A p \in Procs :
    /\ Len(l1[p]) <= L1Size
    /\ \A i, j \in 1 .. Len(l1[p]) : l1[p][i].key = l1[p][j].key => i = j

(* v is not what the last write of k left. *)
Differs(k, v) == settled[k] = None \/ Json[v] # settled[k]

(* The processes that serve, or are about to, another value of k than the  *)
(* last write left.                                                        *)
Stale(k) ==
  {p \in Procs :
     \/ \E i \in Places(l1[p], k) : Differs(k, l1[p][i].value)
     \/ \E c \in Clients : /\ Home[c] = p /\ at[c] = "promote"
                           /\ k \in on[c] /\ Differs(k, with[c])}

Known(k) == settled[k] # Unknown

(* What the last write left is all that Redis can answer. *)
Settled == \A k \in Keys : Known(k) => l2[k] \in {settled[k], None}

(* A stale value does not spread: after a write that succeeded and was     *)
(* alone, until the next, no process that serves it begins to serve        *)
(* anything else, whoever promotes, evicts, restarts or lets expire        *)
(* (backends.py:345-361).                                                  *)
StaleOnlyShrinks ==
  [][\A k \in Keys : Known(k) /\ settled'[k] = settled[k] => Stale(k)' \subseteq Stale(k)]_vars

(* The process that has deleted a key, or cleared the cache, with no other *)
(* operation on the key meanwhile, no longer serves it                     *)
(* (backends.py:372-385).                                                  *)
DeleterForgets ==
  [][\A c \in Clients, k \in Keys :
       /\ at[c] = "write" /\ k \in on[c] /\ with[c] = None
       /\ ~Known(k) /\ Known(k)'
       => Home[c] \notin Stale(k)']_vars

(* "Set in both levels" (backends.py:368): the process that has set a key, *)
(* with no other operation on it meanwhile, serves what it has set.        *)
SetInBothLevels ==
  [][\A c \in Clients, k \in Keys :
       /\ at[c] = "write" /\ k \in on[c] /\ with[c] # None
       /\ ~Known(k) /\ Known(k)'
       => Home[c] \notin Stale(k)']_vars
=============================================================================
