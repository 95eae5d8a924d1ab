----------------------------- MODULE TaggedCache -----------------------------
(***************************************************************************)
(* platform_core/cache: values computed from one table and cached under    *)
(* one tag (decorators.py, cache_method with backend 'tagged'; backends.py,*)
(* TaggedCache), and the invalidation of the tag when a row is saved       *)
(* (signals.py, handle_model_save).                                        *)
(*                                                                         *)
(* Every command to Redis is one step, and may fail: RedisCache swallows   *)
(* the exception and the caller goes on.  A value is "current" while it is *)
(* what the method would return now, and "old" after the next commit.      *)
(*                                                                         *)
(* Redis answers SMEMBERS with bytes.  TaggedCache puts them into the names*)
(* of other sets ("keytag:b'...'", "tag:b'...'"), which do not exist: in   *)
(* delete, only the last command, DEL of the key itself, does anything,    *)
(* and the "keytag:" sets change nothing.  They are left out.              *)
(***************************************************************************)
EXTENDS Naturals

CONSTANTS
  Keys,           \* the cache keys that carry the tag
  Timeout,        \* Timeout[k]: the timeout k is cached with, in ticks
  Readers,        \* threads that read through the cache
  Savers,         \* threads that save rows
  Transactional   \* are rows saved inside a transaction?

Clients == Readers \cup Savers

ASSUME TaggedAssumption ==
  /\ Keys # {}
  /\ Timeout \in [Keys -> Nat \ {0}]
  /\ Transactional \subseteq BOOLEAN

VARIABLES
  value,     \* value[k]: what Redis holds for k
  ttl,       \* what is left of its expiry
  members,   \* the tag set
  tagttl,    \* what is left of its expiry; 0 if it has none
  at,        \* where each client is
  on,        \* the key it caches
  loaded,    \* what its method has returned
  batch,     \* the keys it has still to delete
  tx,        \* has it a transaction that is not committed?
  clean,     \* history: its read has met no write, no failure, no other read
             \* of the key, and no tick between the last two commands
  tracked    \* history: the keys whose invalidation should not miss them

vars == <<value, ttl, members, tagttl, at, on, loaded, batch, tx, clean, tracked>>

Reading == {"set", "tag", "expire"}
Saving == {"members", "delete", "drop", "commit"}

TypeOK ==
  /\ value \in [Keys -> {"none", "current", "old"}]
  /\ ttl \in [Keys -> Nat]
  /\ members \in SUBSET Keys
  /\ tagttl \in Nat
  /\ at \in [Clients -> {"idle"} \cup Reading \cup Saving]
  /\ on \in [Clients -> Keys]
  /\ loaded \in [Clients -> {"none", "current", "old"}]
  /\ batch \in [Clients -> SUBSET Keys]
  /\ tx \in [Clients -> BOOLEAN]
  /\ clean \in [Clients -> BOOLEAN]
  /\ tracked \in SUBSET Keys

SomeKey == CHOOSE k \in Keys : TRUE

Init ==
  /\ value = [k \in Keys |-> "none"]
  /\ ttl = [k \in Keys |-> 0]
  /\ members = {} /\ tagttl = 0
  /\ at = [c \in Clients |-> "idle"]
  /\ on = [c \in Clients |-> SomeKey]
  /\ loaded = [c \in Clients |-> "none"]
  /\ batch = [c \in Clients |-> {}]
  /\ tx = [c \in Clients |-> FALSE]
  /\ clean = [c \in Clients |-> FALSE]
  /\ tracked = {}

Goto(c, place) == at' = [at EXCEPT ![c] = place]

(* The client returns: its local variables are gone. *)
Return(c) ==
  /\ Goto(c, "idle")
  /\ on' = [on EXCEPT ![c] = SomeKey]
  /\ loaded' = [loaded EXCEPT ![c] = "none"]
  /\ batch' = [batch EXCEPT ![c] = {}]
  /\ tx' = [tx EXCEPT ![c] = FALSE]
  /\ clean' = [clean EXCEPT ![c] = FALSE]

-----------------------------------------------------------------------------
(* A read that misses (a get that fails is a miss, too). *)

(* The method is called and reads the committed rows. *)
Load(c, k) ==
  LET rivals == {d \in Clients \ {c} : at[d] \in Reading /\ on[d] = k}
  IN
  /\ at[c] = "idle"
  /\ Goto(c, "set")
  /\ on' = [on EXCEPT ![c] = k]
  /\ loaded' = [loaded EXCEPT ![c] = "current"]
  /\ clean' = [d \in Clients |->
                 IF d = c THEN rivals = {} /\ \A e \in Clients : at[e] \notin Saving
                 ELSE clean[d] /\ d \notin rivals]
  /\ UNCHANGED <<value, ttl, members, tagttl, batch, tx, tracked>>

(* Mutant: SET in place of SETEX. *)
Write_NoExpiry(c) ==
  /\ value' = [value EXCEPT ![on[c]] = loaded[c]]
  /\ ttl' = [ttl EXCEPT ![on[c]] = 0]
  /\ tracked' = tracked \ {on[c]}

(* SETEX key timeout value. *)
Write(c) ==
  /\ value' = [value EXCEPT ![on[c]] = loaded[c]]
  /\ ttl' = [ttl EXCEPT ![on[c]] = Timeout[on[c]]]
  /\ tracked' = tracked \ {on[c]}

SetValue(c) ==
  /\ at[c] = "set"
  /\ Write(c)
  /\ Goto(c, "tag")
  /\ UNCHANGED <<members, tagttl, on, loaded, batch, tx, clean>>

(* set returns False, whether Redis has stored the value or not. *)
SetFails(c) ==
  /\ at[c] = "set"
  /\ Write(c) \/ UNCHANGED <<value, ttl, tracked>>
  /\ Return(c)
  /\ UNCHANGED <<members, tagttl>>

(* Mutant: the tag remembers the last key only. *)
AddTag_Replaces(c) ==
  /\ at[c] = "tag"
  /\ members' = {on[c]}
  /\ Goto(c, "expire")
  /\ UNCHANGED <<value, ttl, tagttl, on, loaded, batch, tx, clean, tracked>>

(* SADD of the key to the tag set. *)
AddTag(c) ==
  /\ at[c] = "tag"
  /\ members' = members \cup {on[c]}
  /\ Goto(c, "expire")
  /\ UNCHANGED <<value, ttl, tagttl, on, loaded, batch, tx, clean, tracked>>

AddTagFails(c) ==
  /\ at[c] = "tag"
  /\ Goto(c, "expire")
  /\ clean' = [clean EXCEPT ![c] = FALSE]
  /\ UNCHANGED <<value, ttl, members, tagttl, on, loaded, batch, tx, tracked>>

(* EXPIRE of the tag set: the keys that live longer are no longer covered. *)
ExpireTag(c) ==
  LET k == on[c]
      cut == {j \in Keys : ttl[j] > Timeout[k]}
  IN
  /\ at[c] = "expire"
  /\ tagttl' = IF members = {} THEN 0 ELSE Timeout[k]
  /\ tracked' = (tracked \ cut) \cup (IF clean[c] THEN {k} ELSE {})
  /\ Return(c)
  /\ UNCHANGED <<value, ttl, members>>

ExpireTagFails(c) ==
  /\ at[c] = "expire"
  /\ Return(c)
  /\ UNCHANGED <<value, ttl, members, tagttl, tracked>>

-----------------------------------------------------------------------------
(* A save and the invalidation its post_save handler makes. *)

(* A transaction commits: what was computed before is old. *)
Outdate(v) == IF v = "current" THEN "old" ELSE v

Commits ==
  /\ value' = [k \in Keys |-> Outdate(value[k])]
  /\ loaded' = [c \in Clients |-> Outdate(loaded[c])]

(* A row is updated.  Outside a transaction that commits it; inside one,   *)
(* the handler runs first.                                                 *)
Save(c) ==
  /\ at[c] = "idle"
  /\ Goto(c, "members")
  /\ \E t \in Transactional :
       /\ tx' = [tx EXCEPT ![c] = t]
       /\ IF t THEN UNCHANGED <<value, loaded>> ELSE Commits
  /\ clean' = [d \in Clients |-> FALSE]
  /\ UNCHANGED <<ttl, members, tagttl, on, batch, tracked>>

(* invalidate_tag returns. *)
Invalidated(c) ==
  IF tx[c] THEN Goto(c, "commit") /\ UNCHANGED <<on, loaded, batch, tx, clean>>
           ELSE Return(c)

(* SMEMBERS of the tag set. *)
Members(c) ==
  /\ at[c] = "members"
  /\ IF members = {} THEN Invalidated(c)
     ELSE /\ Goto(c, "delete")
          /\ batch' = [batch EXCEPT ![c] = members]
          /\ UNCHANGED <<on, loaded, tx, clean>>
  /\ UNCHANGED <<value, ttl, members, tagttl, tracked>>

MembersFails(c) ==
  /\ at[c] = "members"
  /\ Invalidated(c)
  /\ tracked' = {}
  /\ UNCHANGED <<value, ttl, members, tagttl>>

Gone(k) ==
  /\ value' = [value EXCEPT ![k] = "none"]
  /\ ttl' = [ttl EXCEPT ![k] = 0]

Done(c, k) ==
  /\ batch' = [batch EXCEPT ![c] = @ \ {k}]
  /\ Goto(c, IF batch[c] = {k} THEN "drop" ELSE "delete")

DeleteMember(c) ==
  /\ at[c] = "delete"
  /\ \E k \in batch[c] : Gone(k) /\ Done(c, k)
  /\ UNCHANGED <<members, tagttl, on, loaded, tx, clean, tracked>>

DeleteMemberFails(c) ==
  /\ at[c] = "delete"
  /\ \E k \in batch[c] : Done(c, k) /\ tracked' = tracked \ {k}
  /\ UNCHANGED <<value, ttl, members, tagttl, on, loaded, tx, clean>>

DropTag(c) ==
  /\ at[c] = "drop"
  /\ members' = {} /\ tagttl' = 0
  /\ Invalidated(c)
  /\ UNCHANGED <<value, ttl, tracked>>

DropTagFails(c) ==
  /\ at[c] = "drop"
  /\ Invalidated(c)
  /\ UNCHANGED <<value, ttl, members, tagttl, tracked>>

Commit(c) ==
  /\ at[c] = "commit"
  /\ Commits
  /\ Goto(c, "idle")
  /\ tx' = [tx EXCEPT ![c] = FALSE]
  /\ UNCHANGED <<ttl, members, tagttl, on, batch, clean, tracked>>

Rollback(c) ==
  /\ at[c] = "commit"
  /\ Return(c)
  /\ UNCHANGED <<value, ttl, members, tagttl, tracked>>

-----------------------------------------------------------------------------
(* cache_manager.delete of one key: the tag set keeps it. *)
Delete(k) ==
  /\ value[k] # "none"
  /\ Gone(k)
  /\ UNCHANGED <<members, tagttl, at, on, loaded, batch, tx, clean, tracked>>

(* clear of the backend 'redis' or 'tiered' flushes the whole database. *)
Clear ==
  /\ value' = [k \in Keys |-> "none"]
  /\ ttl' = [k \in Keys |-> 0]
  /\ members' = {} /\ tagttl' = 0
  /\ UNCHANGED <<at, on, loaded, batch, tx, clean, tracked>>

(* The client's process dies; its transaction is rolled back. *)
Crash(c) ==
  /\ at[c] # "idle"
  /\ Return(c)
  /\ tracked' = IF at[c] \in Saving /\ ~tx[c] THEN {} ELSE tracked
  /\ UNCHANGED <<value, ttl, members, tagttl>>

(* Mutant: a key without an expiry is counted down, too. *)
Minus_Below(n) == n - 1

Minus(n) == IF n = 0 THEN 0 ELSE n - 1

Tick ==
  /\ value' = [k \in Keys |-> IF ttl[k] = 1 THEN "none" ELSE value[k]]
  /\ ttl' = [k \in Keys |-> Minus(ttl[k])]
  /\ members' = IF tagttl = 1 THEN {} ELSE members
  /\ tagttl' = Minus(tagttl)
  /\ clean' = [c \in Clients |-> clean[c] /\ at[c] # "expire"]
  /\ UNCHANGED <<at, on, loaded, batch, tx, tracked>>

Step(c) ==
  \/ SetValue(c) \/ SetFails(c) \/ AddTag(c) \/ AddTagFails(c)
  \/ ExpireTag(c) \/ ExpireTagFails(c)
  \/ Members(c) \/ MembersFails(c) \/ DeleteMember(c) \/ DeleteMemberFails(c)
  \/ DropTag(c) \/ DropTagFails(c) \/ Commit(c) \/ Rollback(c)

Next ==
  \/ \E c \in Clients : Step(c) \/ Crash(c)
  \/ \E c \in Readers, k \in Keys : Load(c, k)
  \/ \E c \in Savers : Save(c)
  \/ \E k \in Keys : Delete(k)
  \/ Clear
  \/ Tick

(* Time passes, and a client that has begun goes on, Redis answering or    *)
(* not.  Nobody has to read, to save or to crash.                          *)
Fairness == WF_vars(Tick) /\ \A c \in Clients : WF_vars(Step(c))

Spec == Init /\ [][Next]_vars
FairSpec == Spec /\ Fairness

-----------------------------------------------------------------------------
(* An invalidation misses no key that was cached with its tag before it    *)
(* began: when no save is under way, such a key is not old                 *)
(* (backends.py:440-495, signals.py:75-95).  Excepted are keys cached while*)
(* a row was being saved, by two readers at once or with a command that    *)
(* failed, and keys that live longer than a key tagged after them.         *)
NoneMissed ==
  (\A c \in Clients : at[c] \notin Saving) => \A k \in tracked : value[k] # "old"

(* Whatever races, fails or crashes: when the rows are no longer written,  *)
(* the cache is one day free of old values for good, because every value   *)
(* is stored with its timeout (cache.py:84, backends.py:84).               *)
Converges ==
  []<><<Commits /\ \E c \in Clients : Save(c) \/ Commit(c)>>_vars
    \/ <>[](\A k \in Keys : value[k] # "old")
=============================================================================
