------------------------------ MODULE RedisLock ------------------------------
(***************************************************************************)
(* platform_core/cache/backends.py, RedisLock: the lock cache_manager.lock *)
(* hands out, for ONE key of one Redis server.                             *)
(*                                                                         *)
(* Every command to Redis is one step (it is atomic there) and so is every *)
(* comparison in the client; clients, their crashes and the clock          *)
(* interleave between them.  Times are kept as what is left of them, in    *)
(* ticks: nothing here grows.                                              *)
(*                                                                         *)
(* An identifier is str(time.time()).  Two calls made in the same tick may *)
(* draw the same one, calls of different ticks never do: an identifier is  *)
(* a value of Ids, drawn anew or shared with a call of this tick.          *)
(***************************************************************************)
EXTENDS Naturals

CONSTANTS
  Clients,   \* threads, of any process, that use a lock object for the key
  Timeout,   \* Timeout[c]: the timeout of c's lock object, in ticks
  Ids,       \* the identifiers
  NoId,      \* no identifier: RedisLock.identifier is None, the key is absent
  Decoding,  \* may the connection decode replies (decode_responses)?
  Uses       \* "with", "blocking" (acquire()), "try" (acquire(blocking=False))

ASSUME LockAssumption ==
  /\ Timeout \in [Clients -> Nat \ {0}]
  /\ NoId \notin Ids \cup Clients
  /\ Decoding \subseteq BOOLEAN
  /\ Uses \subseteq {"with", "blocking", "try"}

VARIABLES
  key,     \* the key in Redis: its value, what is left of its expiry, and
           \* (history) the client whose SET wrote it
  at,      \* where each client is: in acquire, by the way it asked; in its
           \* block; or in release
  left,    \* what is left until "end" of acquire
  mine,    \* the local "identifier" of acquire
  ident,   \* RedisLock.identifier
  lease,   \* in its block: what is left of the expiry it asked for, if it got the lock
  dirty,   \* has the watched key changed since WATCH?
  decode,  \* does the connection decode replies?
  recent,  \* identifiers drawn since the last tick
  twins    \* history: identifiers two calls have drawn

vars == <<key, at, left, mine, ident, lease, dirty, decode, recent, twins>>

Places == {"idle", "with", "blocking", "try", "inside", "watch", "compare", "exec"}

TypeOK ==
  /\ key \in [value : Ids \cup {NoId}, ttl : Nat, by : Clients]
  /\ at \in [Clients -> Places]
  /\ left \in [Clients -> Nat]
  /\ mine \in [Clients -> Ids \cup {NoId}]
  /\ ident \in [Clients -> Ids \cup {NoId}]
  /\ lease \in [Clients -> Nat]
  /\ dirty \in [Clients -> BOOLEAN]
  /\ decode \in BOOLEAN
  /\ recent \in SUBSET Ids
  /\ twins \in SUBSET Ids

Locked == key.value # NoId

(* c is in the loop of acquire. *)
Trying(c) == at[c] \in {"with", "blocking", "try"}

(* c has been told that it has the lock and its expiry has not passed. *)
Holds(c) == at[c] = "inside" /\ lease[c] > 0

Init ==
  /\ \E c \in Clients : key = [value |-> NoId, ttl |-> 0, by |-> c]
  /\ at = [c \in Clients |-> "idle"]
  /\ left = [c \in Clients |-> 0]
  /\ mine = [c \in Clients |-> NoId]
  /\ ident = [c \in Clients |-> NoId]
  /\ lease = [c \in Clients |-> 0]
  /\ dirty = [c \in Clients |-> FALSE]
  /\ decode \in Decoding
  /\ recent = {}
  /\ twins = {}

(* Identifiers that nothing refers to any more. *)
Unused == {i \in Ids : /\ i # key.value
                       /\ \A c \in Clients : i # mine[c] /\ i # ident[c]}

Fresh == CHOOSE i \in Unused : TRUE

(* The call draws its identifier, a new one (which one does not matter) or *)
(* that of another call of this tick, and its deadline.  Every use makes   *)
(* its own lock object (cache.lock): the identifier is None.               *)
Acquire(c) ==
  /\ at[c] = "idle"
  /\ \E u \in Uses : at' = [at EXCEPT ![c] = u]
  /\ left' = [left EXCEPT ![c] = Timeout[c]]
  /\ \/ /\ Unused # {}
        /\ mine' = [mine EXCEPT ![c] = Fresh]
        /\ recent' = (recent \ Unused) \cup {Fresh}
        /\ twins' = twins \ Unused
     \/ \E i \in recent \ Unused :
          /\ mine' = [mine EXCEPT ![c] = i]
          /\ twins' = twins \cup {i}
          /\ UNCHANGED recent
  /\ UNCHANGED <<key, ident, lease, dirty, decode>>

(* A write to the key is seen by the EXEC of every client that watches it. *)
Touch == dirty' = [c \in Clients |-> at[c] \in {"compare", "exec"}]

(* Mutant: NX is forgotten. *)
Write_Overwrites(c) ==
  /\ key' = [value |-> mine[c], ttl |-> Timeout[c], by |-> c]
  /\ Touch

(* Mutant: EX is forgotten. *)
Write_NoExpiry(c) ==
  /\ ~Locked
  /\ key' = [value |-> mine[c], ttl |-> 0, by |-> c]
  /\ Touch

(* SET key identifier NX EX timeout. *)
Write(c) ==
  /\ ~Locked
  /\ key' = [value |-> mine[c], ttl |-> Timeout[c], by |-> c]
  /\ Touch

(* acquire returns: its local variables are gone. *)
Return(c, place) ==
  /\ at' = [at EXCEPT ![c] = place]
  /\ mine' = [mine EXCEPT ![c] = NoId]
  /\ left' = [left EXCEPT ![c] = 0]

(* The SET succeeds: the client has the lock. *)
Obtain(c) ==
  /\ Trying(c) /\ left[c] > 0
  /\ Write(c)
  /\ Return(c, "inside")
  /\ ident' = [ident EXCEPT ![c] = mine[c]]
  /\ lease' = [lease EXCEPT ![c] = Timeout[c]]
  /\ UNCHANGED <<decode, recent, twins>>

(* The caller is told False.  __enter__ does not look: the block runs.     *)
Refuse(c) ==
  /\ Return(c, IF at[c] = "with" THEN "inside" ELSE "idle")
  /\ UNCHANGED <<key, ident, lease, dirty, decode, recent, twins>>

(* The one attempt of a call that does not block fails. *)
TryFails(c) ==
  /\ at[c] = "try" /\ left[c] > 0
  /\ Locked
  /\ Refuse(c)

(* Mutant: the deadline is looked at only after an attempt that found no key. *)
GiveUp_WhenFree(c) ==
  /\ Trying(c) /\ left[c] = 0
  /\ ~Locked
  /\ Refuse(c)

(* The deadline passes: time.time() < end is false. *)
GiveUp(c) ==
  /\ Trying(c) /\ left[c] = 0
  /\ Refuse(c)

(* The reply to a SET that Redis carried out is lost: the error reaches    *)
(* the caller, or the connection repeats the command (retry_on_timeout)    *)
(* and finds the key, which is the client's own.                           *)
ReplyLost(c) ==
  /\ Trying(c) /\ left[c] > 0
  /\ Write(c)
  /\ Return(c, "idle") \/ UNCHANGED <<at, mine, left>>
  /\ UNCHANGED <<ident, lease, decode, recent, twins>>

(* The block ends.  An object without an identifier has nothing to release.*)
Release(c) ==
  /\ at[c] = "inside"
  /\ at' = [at EXCEPT ![c] = IF ident[c] = NoId THEN "idle" ELSE "watch"]
  /\ lease' = [lease EXCEPT ![c] = 0]
  /\ UNCHANGED <<key, left, mine, ident, dirty, decode, recent, twins>>

Watch(c) ==
  /\ at[c] = "watch"
  /\ at' = [at EXCEPT ![c] = "compare"]
  /\ dirty' = [dirty EXCEPT ![c] = FALSE]
  /\ UNCHANGED <<key, left, mine, ident, lease, decode, recent, twins>>

(* Mutant: release does not compare. *)
Matches_Any(c) == decode

(* GET returns bytes unless the connection decodes, and bytes equal no str.*)
Matches(c) == decode /\ key.value = ident[c]

(* release returns: the lock object is gone. *)
Finish(c) ==
  /\ at' = [at EXCEPT ![c] = "idle"]
  /\ ident' = [ident EXCEPT ![c] = NoId]

Compare(c) ==
  /\ at[c] = "compare"
  /\ IF Matches(c) THEN at' = [at EXCEPT ![c] = "exec"] /\ UNCHANGED ident
                   ELSE Finish(c)
  /\ UNCHANGED <<key, left, mine, lease, dirty, decode, recent, twins>>

(* Mutant: GET and DEL without WATCH. *)
Exec_Unwatched(c) ==
  /\ at[c] = "exec"
  /\ Finish(c)
  /\ key' = [key EXCEPT !.value = NoId, !.ttl = 0]
  /\ Touch
  /\ UNCHANGED <<left, mine, lease, decode, recent, twins>>

(* EXEC refuses (WatchError: from the start) or deletes the key. *)
Exec(c) ==
  /\ at[c] = "exec"
  /\ IF dirty[c]
     THEN /\ at' = [at EXCEPT ![c] = "watch"]
          /\ UNCHANGED <<key, ident, dirty>>
     ELSE /\ Finish(c)
          /\ key' = [key EXCEPT !.value = NoId, !.ttl = 0]
          /\ Touch
  /\ UNCHANGED <<left, mine, lease, decode, recent, twins>>

(* The client's process dies and comes back; what it wrote stays. *)
Crash(c) ==
  /\ at[c] # "idle"
  /\ Return(c, "idle")
  /\ ident' = [ident EXCEPT ![c] = NoId]
  /\ lease' = [lease EXCEPT ![c] = 0]
  /\ UNCHANGED <<key, dirty, decode, recent, twins>>

(* Mutant: the time left goes on below zero. *)
Minus_Below(n) == n - 1

(* What is left after a tick. *)
Minus(n) == IF n = 0 THEN 0 ELSE n - 1

(* Time passes; a key whose time is up is gone.  Whether a transaction that*)
(* watched it still runs depends on the version of the server.             *)
Tick ==
  /\ key' = IF key.ttl = 1 THEN [key EXCEPT !.value = NoId, !.ttl = 0]
                           ELSE [key EXCEPT !.ttl = Minus(@)]
  /\ \/ UNCHANGED dirty
     \/ key.ttl = 1 /\ Touch
  /\ left' = [c \in Clients |-> Minus(left[c])]
  /\ lease' = [c \in Clients |-> Minus(lease[c])]
  /\ recent' = {}
  /\ UNCHANGED <<at, mine, ident, decode, twins>>

Attempt(c) == Obtain(c) \/ TryFails(c) \/ GiveUp(c)

Step(c) == Attempt(c) \/ Watch(c) \/ Compare(c) \/ Exec(c)

Next ==
  \/ \E c \in Clients :
       \/ Acquire(c) \/ Obtain(c) \/ TryFails(c) \/ GiveUp(c) \/ ReplyLost(c)
       \/ Release(c) \/ Watch(c) \/ Compare(c) \/ Exec(c) \/ Crash(c)
  \/ Tick

(* Time passes, and a client that is inside acquire or release goes on.    *)
(* Nothing is assumed of how long a block runs or of when a lock is asked  *)
(* for.                                                                    *)
Fairness == WF_vars(Tick) /\ \A c \in Clients : WF_vars(Step(c))

Spec == Init /\ [][Next]_vars
FairSpec == Spec /\ Fairness

-----------------------------------------------------------------------------
(* Two clients never both have the lock, each within the expiry it asked   *)
(* for: the key outlives no lease, nobody else's release removes it, and a *)
(* lost reply or a crash gives nobody the lock.  Calls that drew the same  *)
(* identifier are excepted: the late release of one removes the key of the *)
(* other (backends.py:289, :313).                                          *)
MutualExclusion ==
  \A c, d \in Clients :
    c # d /\ Holds(c) /\ Holds(d) => ident[c] \in twins \/ ident[d] \in twins

(* release deletes the key only while the key is the one the client's own  *)
(* SET wrote, however much time passes between its GET and its EXEC        *)
(* (backends.py:309-321); calls with the same identifier are excepted.     *)
OwnerDeletes ==
  [][\A c \in Clients :
       /\ at[c] = "exec" /\ at'[c] = "idle"
       /\ Locked /\ ~Locked'
       => key.by = c \/ ident[c] \in twins]_vars

(* Calls whose identifier nobody shares see a lock as LeaseLock promises it:   *)
(* one owner at a time, freed by its owner after the block or by time, whoever *)
(* crashes and whatever reply is lost; the owner's claim ends with the key, to *)
(* the tick; only a call that draws its identifier again takes a lock out of   *)
(* that promise (backends.py:286-323).                                         *)
Owned == Locked /\ key.value \notin twins

Owner == IF Owned THEN key.by ELSE NoId
Remaining == IF Owned THEN key.ttl ELSE 0
Claim == [c \in Clients |-> IF Holds(c) /\ ident[c] \notin twins THEN lease[c] ELSE 0]
Asking == {c \in Clients : Trying(c)}

Lease == INSTANCE LeaseLock WITH
  NoOne <- NoId, owner <- Owner, ttl <- Remaining, claim <- Claim, asking <- Asking

ImplementsLease == Lease!Spec

(* A key always goes away, whatever became of the client that wrote it:    *)
(* every SET carries an expiry (backends.py:293).                          *)
KeyExpires == Locked ~> ~Locked

(* acquire and release return: the deadline ends the first loop            *)
(* (backends.py:292), and the second goes round again only when the key    *)
(* has changed, after which it is no longer the client's (:310-321).       *)
CallsReturn == \A c \in Clients : at[c] \notin {"idle", "inside"} ~> at[c] \in {"idle", "inside"}
=============================================================================
