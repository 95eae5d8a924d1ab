--------------------------- MODULE RedisLockProofs ---------------------------
(***************************************************************************)
(* Theorems about RedisLock, for any number of clients, any timeouts and   *)
(* both kinds of connection; last, that it implements LeaseLock.           *)
(***************************************************************************)
EXTENDS RedisLock, TLAPS

(* The identifiers a client refers to. *)
Tokens(c) == {mine[c], ident[c]}

(* A lease belongs to a block, a call in the loop has drawn an identifier, *)
(* and so has an object that is being released.                            *)
Located ==
  \A c \in Clients :
    /\ at[c] # "inside" => lease[c] = 0
    /\ Trying(c) => mine[c] \in Ids
    /\ at[c] \in {"watch", "compare", "exec"} => ident[c] \in Ids

(* Two clients refer to one identifier only if it was drawn twice. *)
Apart == \A c, d \in Clients : c # d => Tokens(c) \cap Tokens(d) \subseteq twins \cup {NoId}

(* A client that refers to the value of the key wrote it. *)
Wrote == \A c \in Clients : Locked /\ key.value \in Tokens(c) => key.by = c \/ key.value \in twins

(* The key is there as long as its owner's lease, to the tick. *)
Backed ==
  \A c \in Clients :
    Holds(c) /\ ident[c] \notin twins =>
      key.value = ident[c] /\ Locked /\ key.ttl = lease[c] /\ key.by = c

(* A transaction that will run was begun on the client's own key, which    *)
(* has since at most expired.                                              *)
Watched == \A c \in Clients : at[c] = "exec" /\ ~dirty[c] /\ Locked => key.value = ident[c]

IInv == TypeOK /\ Located /\ Apart /\ Wrote /\ Backed /\ Watched

LEMMA FreshUnused == Unused # {} => Fresh \in Unused
  BY DEF Fresh

LEMMA InitIInv == ASSUME LockAssumption, Init PROVE IInv
  BY DEF Init, IInv, TypeOK, Located, Apart, Tokens, Wrote, Backed, Watched, Locked,
         Holds, Trying, Places, LockAssumption

LEMMA MinusType == ASSUME NEW n \in Nat PROVE Minus(n) \in Nat /\ (n > 1 => Minus(n) = n - 1)
                                              /\ (Minus(n) > 0 => n > 1)
  BY DEF Minus

USE DEF Places

LEMMA AcquireStep == ASSUME LockAssumption, IInv, NEW c \in Clients, Acquire(c) PROVE IInv'
<1>1. PICK u \in Uses : at' = [at EXCEPT ![c] = u]
  BY DEF Acquire
<1>2. u \in {"with", "blocking", "try"}
  BY DEF LockAssumption
<1>3. /\ at[c] = "idle"
      /\ left' = [left EXCEPT ![c] = Timeout[c]]
      /\ UNCHANGED <<key, ident, lease, dirty, decode>>
  BY DEF Acquire
<1>4. PICK i \in Ids : /\ mine' = [mine EXCEPT ![c] = i]
                       /\ twins' \in SUBSET Ids /\ recent' \in SUBSET Ids
                       /\ \A j \in twins : j \in twins' \/ j \in Unused
                       /\ twins' \subseteq twins \cup {i}
                       /\ i \in Unused \/ i \in twins'
  <2>1. CASE Unused # {} /\ mine' = [mine EXCEPT ![c] = Fresh]
             /\ recent' = (recent \ Unused) \cup {Fresh} /\ twins' = twins \ Unused
    BY <2>1, FreshUnused DEF IInv, TypeOK, Unused
  <2>2. CASE \E i \in recent \ Unused : /\ mine' = [mine EXCEPT ![c] = i]
                                        /\ twins' = twins \cup {i}
                                        /\ UNCHANGED recent
    <3>1. PICK i \in recent \ Unused : mine' = [mine EXCEPT ![c] = i] /\ twins' = twins \cup {i}
                                      /\ UNCHANGED recent
      BY <2>2
    <3>2. i \in Ids /\ twins \in SUBSET Ids /\ recent \in SUBSET Ids
      BY <3>1 DEF IInv, TypeOK
    <3> QED BY <3>1, <3>2
  <2> QED BY <2>1, <2>2 DEF Acquire
<1>5. TypeOK'
  BY <1>1, <1>2, <1>3, <1>4 DEF IInv, TypeOK, LockAssumption
<1>6. Located'
  BY <1>1, <1>2, <1>3, <1>4 DEF IInv, TypeOK, Located, Trying
<1>7. Apart'
  <2> SUFFICES ASSUME NEW d \in Clients, NEW e \in Clients, d # e, NEW j \in (Tokens(d) \cap Tokens(e))'
               PROVE  j \in twins' \cup {NoId}
    BY DEF Apart
  <2>1. j \in (Tokens(d) \cup {i}) /\ j \in (Tokens(e) \cup {i})
    BY <1>3, <1>4 DEF IInv, TypeOK, Tokens
  <2>2. d = c => j \in Tokens(e)
    BY <1>3, <1>4 DEF IInv, TypeOK, Tokens
  <2>3. d # c => j \in Tokens(d)
    BY <1>3, <1>4 DEF IInv, TypeOK, Tokens
  <2>4. j \notin Unused
    BY <2>2, <2>3 DEF Unused, Tokens
  <2>5. CASE j = i
    BY <2>5, <2>4, <1>4
  <2>6. CASE j # i
    BY <2>6, <2>1, <2>4, <1>4 DEF IInv, Apart
  <2> QED BY <2>5, <2>6
<1>8. Wrote'
  <2> SUFFICES ASSUME NEW d \in Clients, Locked', (key.value \in Tokens(d))'
               PROVE  key'.by = d \/ key'.value \in twins'
    BY DEF Wrote
  <2>1. key'.value \notin Unused
    BY <1>3 DEF Unused
  <2>2. CASE key.value \in Tokens(d)
    BY <2>2, <2>1, <1>3, <1>4 DEF IInv, Wrote, Locked, TypeOK
  <2>3. CASE key.value \notin Tokens(d)
    BY <2>3, <2>1, <1>3, <1>4 DEF IInv, TypeOK, Tokens
  <2> QED BY <2>2, <2>3
<1>9. Backed'
  <2> SUFFICES ASSUME NEW d \in Clients, Holds(d)', (ident[d] \notin twins)'
               PROVE  (key.value = ident[d] /\ Locked /\ key.ttl = lease[d] /\ key.by = d)'
    BY DEF Backed
  <2>1. Holds(d)
    BY <1>1, <1>2, <1>3 DEF Holds, IInv, TypeOK
  <2>2. ident[d] \notin twins
    BY <1>3, <1>4 DEF Unused
  <2> QED BY <2>1, <2>2, <1>3 DEF IInv, Backed, Locked
<1>10. Watched'
  BY <1>1, <1>2, <1>3 DEF IInv, TypeOK, Watched, Locked
<1> QED BY <1>5, <1>6, <1>7, <1>8, <1>9, <1>10 DEF IInv

LEMMA TouchType ==
  ASSUME Touch PROVE dirty' \in [Clients -> BOOLEAN] /\ \A c \in Clients : at[c] = "exec" => dirty'[c]
<1>1. \A c \in Clients : (at[c] \in {"compare", "exec"}) \in BOOLEAN
  OBVIOUS
<1>2. dirty' = [c \in Clients |-> at[c] \in {"compare", "exec"}]
  BY DEF Touch
<1>3. dirty' \in [Clients -> BOOLEAN]
  BY <1>1, <1>2, Zenon
<1>4. ASSUME NEW c \in Clients, at[c] = "exec" PROVE dirty'[c]
  <2>1. dirty'[c] = (at[c] \in {"compare", "exec"})
    BY <1>2, Zenon
  <2> QED BY <2>1, <1>4, Zenon
<1> QED BY <1>3, <1>4

(* A SET that Redis carries out, whether the client hears of it or not. *)
LEMMA WriteFacts ==
  ASSUME LockAssumption, IInv, NEW c \in Clients, Trying(c), Write(c)
  PROVE  /\ key' = [value |-> mine[c], ttl |-> Timeout[c], by |-> c]
         /\ mine[c] \in Ids /\ mine[c] # NoId
         /\ key' \in [value : Ids \cup {NoId}, ttl : Nat, by : Clients]
         /\ dirty' \in [Clients -> BOOLEAN]
         /\ ~Locked /\ Locked'
         /\ \A d \in Clients : at[d] = "exec" => dirty'[d]
         /\ \A d \in Clients : Holds(d) => ident[d] \in twins
         /\ \A d \in Clients : d # c /\ mine[c] \in Tokens(d) => mine[c] \in twins
<1>1. /\ key' = [value |-> mine[c], ttl |-> Timeout[c], by |-> c]
      /\ dirty' = [d \in Clients |-> at[d] \in {"compare", "exec"}]
      /\ ~Locked
  BY DEF Write, Touch
<1>2. mine[c] \in Ids /\ mine[c] # NoId /\ Timeout[c] \in Nat
  BY DEF IInv, Located, LockAssumption
<1>3. Locked'
  BY <1>1, <1>2 DEF Locked
<1>4. \A d \in Clients : Holds(d) => ident[d] \in twins
  BY <1>1 DEF IInv, Backed
<1>5. \A d \in Clients : d # c /\ mine[c] \in Tokens(d) => mine[c] \in twins
  <2> SUFFICES ASSUME NEW d \in Clients, d # c, mine[c] \in Tokens(d)
               PROVE  mine[c] \in twins
    OBVIOUS
  <2>1. Tokens(c) \cap Tokens(d) \subseteq twins \cup {NoId}
    BY DEF IInv, Apart
  <2>2. mine[c] \in Tokens(c)
    BY DEF Tokens
  <2> QED BY <2>1, <2>2, <1>2
<1>6. key' \in [value : Ids \cup {NoId}, ttl : Nat, by : Clients]
  BY <1>1, <1>2
<1>7. /\ dirty' \in [Clients -> BOOLEAN]
      /\ \A d \in Clients : at[d] = "exec" => dirty'[d]
  BY TouchType DEF Write
<1> QED BY <1>1, <1>2, <1>3, <1>4, <1>5, <1>6, <1>7

LEMMA ObtainStep == ASSUME LockAssumption, IInv, NEW c \in Clients, Obtain(c) PROVE IInv'
<1>1. /\ Trying(c) /\ Write(c)
      /\ at' = [at EXCEPT ![c] = "inside"]
      /\ mine' = [mine EXCEPT ![c] = NoId]
      /\ left' = [left EXCEPT ![c] = 0]
      /\ ident' = [ident EXCEPT ![c] = mine[c]]
      /\ lease' = [lease EXCEPT ![c] = Timeout[c]]
      /\ UNCHANGED <<decode, recent, twins>>
  BY DEF Obtain, Return
<1> DEFINE Facts ==
      /\ key' = [value |-> mine[c], ttl |-> Timeout[c], by |-> c]
      /\ mine[c] \in Ids /\ mine[c] # NoId
      /\ key' \in [value : Ids \cup {NoId}, ttl : Nat, by : Clients]
      /\ dirty' \in [Clients -> BOOLEAN]
      /\ ~Locked /\ Locked'
      /\ \A d \in Clients : at[d] = "exec" => dirty'[d]
      /\ \A d \in Clients : Holds(d) => ident[d] \in twins
      /\ \A d \in Clients : d # c /\ mine[c] \in Tokens(d) => mine[c] \in twins
<1>2. Facts
  BY <1>1, WriteFacts
<1>3. \A d \in Clients : d # c => Tokens(d)' = Tokens(d)
  BY <1>1 DEF Tokens, IInv, TypeOK
<1>4. Tokens(c)' = {NoId, mine[c]}
  BY <1>1 DEF Tokens, IInv, TypeOK
<1>5. TypeOK'
  BY <1>1, <1>2 DEF IInv, TypeOK, LockAssumption
<1>6. Located'
  BY <1>1, <1>2 DEF IInv, TypeOK, Located, Trying
<1>7. Apart'
  BY <1>1, <1>2, <1>3, <1>4 DEF IInv, Apart
<1>8. Wrote'
  BY <1>1, <1>2, <1>3, <1>4 DEF Wrote
<1>9. Backed'
  <2> SUFFICES ASSUME NEW d \in Clients, Holds(d)', (ident[d] \notin twins)'
               PROVE  (key.value = ident[d] /\ Locked /\ key.ttl = lease[d] /\ key.by = d)'
    BY DEF Backed
  <2>1. CASE d = c
    BY <2>1, <1>1, <1>2 DEF IInv, TypeOK
  <2>2. CASE d # c
    BY <2>2, <1>1, <1>2 DEF IInv, TypeOK, Holds
  <2> QED BY <2>1, <2>2
<1>10. Watched'
  BY <1>1, <1>2 DEF IInv, TypeOK, Watched
<1> QED BY <1>5, <1>6, <1>7, <1>8, <1>9, <1>10 DEF IInv

(* acquire ends without the lock, or the process does: nothing is written  *)
(* and nobody refers to more than before.                                  *)
LEMMA LeaveStep ==
  ASSUME LockAssumption, IInv, NEW c \in Clients, NEW place \in {"idle", "inside"},
         at[c] # "inside" \/ place = "idle",
         Return(c, place), ident' \in [Clients -> Ids \cup {NoId}],
         ident' = ident \/ ident' = [ident EXCEPT ![c] = NoId],
         lease' = lease \/ lease' = [lease EXCEPT ![c] = 0],
         at[c] = "inside" => lease'[c] = 0,
         UNCHANGED <<key, dirty, decode, recent, twins>>
  PROVE  IInv'
<1>1. /\ at' = [at EXCEPT ![c] = place]
      /\ mine' = [mine EXCEPT ![c] = NoId]
      /\ left' = [left EXCEPT ![c] = 0]
  BY DEF Return
<1>2. \A d \in Clients : d # c => ident'[d] = ident[d] /\ lease'[d] = lease[d] /\ at'[d] = at[d]
  BY <1>1 DEF IInv, TypeOK
<1>3. at'[c] = place /\ lease'[c] = 0
  <2>1. lease \in [Clients -> Nat] /\ at \in [Clients -> Places]
    BY DEF IInv, TypeOK
  <2>2. at[c] # "inside" => lease[c] = 0
    BY DEF IInv, Located
  <2> QED BY <1>1, <2>1, <2>2
<1>4. \A d \in Clients : Tokens(d)' \subseteq Tokens(d) \cup {NoId}
  BY <1>1 DEF IInv, TypeOK, Tokens
<1>5. TypeOK'
  BY <1>1 DEF IInv, TypeOK
<1>6. Located'
  BY <1>1, <1>2, <1>3 DEF IInv, TypeOK, Located, Trying
<1>7. Apart'
  BY <1>4 DEF IInv, Apart
<1>8. Wrote'
  BY <1>4 DEF IInv, Wrote, Locked
<1>9. Backed'
  BY <1>1, <1>2, <1>3 DEF IInv, Backed, Holds, Locked
<1>10. Watched'
  BY <1>1, <1>2, <1>3 DEF IInv, Watched, Locked
<1> QED BY <1>5, <1>6, <1>7, <1>8, <1>9, <1>10 DEF IInv

LEMMA RefuseStep == ASSUME LockAssumption, IInv, NEW c \in Clients, Trying(c), Refuse(c) PROVE IInv'
<1>1. PICK place \in {"idle", "inside"} : Return(c, place)
  BY DEF Refuse
<1>2. /\ at[c] # "inside"
      /\ UNCHANGED <<key, ident, lease, dirty, decode, recent, twins>>
      /\ ident' \in [Clients -> Ids \cup {NoId}]
  BY DEF Refuse, Trying, IInv, TypeOK
<1> QED BY <1>1, <1>2, LeaveStep

LEMMA CrashStep == ASSUME LockAssumption, IInv, NEW c \in Clients, Crash(c) PROVE IInv'
<1>1. /\ Return(c, "idle")
      /\ ident' = [ident EXCEPT ![c] = NoId]
      /\ lease' = [lease EXCEPT ![c] = 0]
      /\ UNCHANGED <<key, dirty, decode, recent, twins>>
  BY DEF Crash
<1>2. ident' \in [Clients -> Ids \cup {NoId}] /\ lease'[c] = 0
  BY <1>1 DEF IInv, TypeOK
<1> QED BY <1>1, <1>2, LeaveStep

LEMMA ReplyLostStep == ASSUME LockAssumption, IInv, NEW c \in Clients, ReplyLost(c) PROVE IInv'
<1>1. /\ Trying(c) /\ Write(c)
      /\ UNCHANGED <<ident, lease, decode, recent, twins>>
      /\ \/ /\ at' = [at EXCEPT ![c] = "idle"]
            /\ mine' = [mine EXCEPT ![c] = NoId]
            /\ left' = [left EXCEPT ![c] = 0]
         \/ UNCHANGED <<at, mine, left>>
  BY DEF ReplyLost, Return
<1> DEFINE Facts ==
      /\ key' = [value |-> mine[c], ttl |-> Timeout[c], by |-> c]
      /\ mine[c] \in Ids /\ mine[c] # NoId
      /\ key' \in [value : Ids \cup {NoId}, ttl : Nat, by : Clients]
      /\ dirty' \in [Clients -> BOOLEAN]
      /\ ~Locked /\ Locked'
      /\ \A d \in Clients : at[d] = "exec" => dirty'[d]
      /\ \A d \in Clients : Holds(d) => ident[d] \in twins
      /\ \A d \in Clients : d # c /\ mine[c] \in Tokens(d) => mine[c] \in twins
<1>2. Facts
  BY <1>1, WriteFacts
<1>3. \A d \in Clients : Tokens(d)' \subseteq Tokens(d) \cup {NoId}
  BY <1>1 DEF Tokens, IInv, TypeOK
<1>4. \A d \in Clients : at'[d] # at[d] => d = c /\ at'[d] = "idle" /\ at[d] # "inside"
  BY <1>1 DEF IInv, TypeOK, Trying
<1>5. TypeOK'
  BY <1>1, <1>2 DEF IInv, TypeOK
<1>6. Located'
  BY <1>1 DEF IInv, TypeOK, Located, Trying
<1>7. Apart'
  BY <1>1, <1>3 DEF IInv, Apart
<1>8. Wrote'
  BY <1>1, <1>2, <1>3 DEF Wrote
<1>9. Backed'
  BY <1>1, <1>2, <1>4 DEF IInv, Backed, Holds
<1>10. Watched'
  BY <1>1, <1>2, <1>4 DEF IInv, Watched
<1> QED BY <1>5, <1>6, <1>7, <1>8, <1>9, <1>10 DEF IInv

LEMMA ReleaseStep == ASSUME LockAssumption, IInv, NEW c \in Clients, Release(c) PROVE IInv'
<1>1. /\ at[c] = "inside"
      /\ at' = [at EXCEPT ![c] = IF ident[c] = NoId THEN "idle" ELSE "watch"]
      /\ lease' = [lease EXCEPT ![c] = 0]
      /\ UNCHANGED <<key, left, mine, ident, dirty, decode, recent, twins>>
  BY DEF Release
<1>2. TypeOK'
  BY <1>1 DEF IInv, TypeOK
<1>3. Located'
  BY <1>1 DEF IInv, TypeOK, Located, Trying
<1>4. Apart' /\ Wrote'
  BY <1>1 DEF IInv, Apart, Wrote, Tokens, Locked
<1>5. Backed'
  BY <1>1 DEF IInv, TypeOK, Backed, Holds, Locked
<1>6. Watched'
  BY <1>1 DEF IInv, TypeOK, Watched, Locked
<1> QED BY <1>2, <1>3, <1>4, <1>5, <1>6 DEF IInv

LEMMA WatchStep == ASSUME LockAssumption, IInv, NEW c \in Clients, Watch(c) PROVE IInv'
<1>1. /\ at[c] = "watch"
      /\ at' = [at EXCEPT ![c] = "compare"]
      /\ dirty' = [dirty EXCEPT ![c] = FALSE]
      /\ UNCHANGED <<key, left, mine, ident, lease, decode, recent, twins>>
  BY DEF Watch
<1>2. TypeOK'
  BY <1>1 DEF IInv, TypeOK
<1>3. Located'
  BY <1>1 DEF IInv, TypeOK, Located, Trying
<1>4. Apart' /\ Wrote'
  BY <1>1 DEF IInv, Apart, Wrote, Tokens, Locked
<1>5. Backed'
  BY <1>1 DEF IInv, TypeOK, Backed, Holds, Locked
<1>6. Watched'
  BY <1>1 DEF IInv, TypeOK, Watched, Locked
<1> QED BY <1>2, <1>3, <1>4, <1>5, <1>6 DEF IInv

(* release goes on to EXEC only if it has read its own identifier. *)
LEMMA MatchStep ==
  ASSUME LockAssumption, IInv, NEW c \in Clients, at[c] = "compare", Matches(c),
         at' = [at EXCEPT ![c] = "exec"],
         UNCHANGED <<key, left, mine, ident, lease, dirty, decode, recent, twins>>
  PROVE  IInv'
<1>1. key.value = ident[c]
  BY DEF Matches
<1>2. TypeOK'
  BY DEF IInv, TypeOK
<1>3. Located'
  BY DEF IInv, TypeOK, Located, Trying
<1>4. Apart' /\ Wrote'
  BY DEF IInv, Apart, Wrote, Tokens, Locked
<1>5. Backed'
  BY DEF IInv, TypeOK, Backed, Holds, Locked
<1>6. Watched'
  BY <1>1 DEF IInv, TypeOK, Watched, Locked
<1> QED BY <1>2, <1>3, <1>4, <1>5, <1>6 DEF IInv

(* release returns, with or without having deleted the key. *)
LEMMA FinishStep ==
  ASSUME LockAssumption, IInv, NEW c \in Clients, at[c] \in {"compare", "exec"}, Finish(c),
         \/ UNCHANGED <<key, dirty>>
         \/ /\ at[c] = "exec" /\ ~dirty[c]
            /\ key' = [key EXCEPT !.value = NoId, !.ttl = 0]
            /\ Touch,
         UNCHANGED <<left, mine, lease, decode, recent, twins>>
  PROVE  IInv'
<1>1. /\ at' = [at EXCEPT ![c] = "idle"]
      /\ ident' = [ident EXCEPT ![c] = NoId]
  BY DEF Finish
<1>2. \A d \in Clients : Tokens(d)' \subseteq Tokens(d) \cup {NoId}
  BY <1>1 DEF Tokens, IInv, TypeOK
<1>3. dirty' \in [Clients -> BOOLEAN]
  BY TouchType DEF IInv, TypeOK
<1>4. key' \in [value : Ids \cup {NoId}, ttl : Nat, by : Clients]
  <2>1. key \in [value : Ids \cup {NoId}, ttl : Nat, by : Clients]
    BY DEF IInv, TypeOK
  <2>2. [key EXCEPT !.value = NoId, !.ttl = 0] \in [value : Ids \cup {NoId}, ttl : Nat, by : Clients]
    BY <2>1
  <2> QED BY <2>1, <2>2
<1>5. key' = key \/ ~Locked'
  BY DEF IInv, TypeOK, Locked
<1>6. TypeOK'
  BY <1>1, <1>3, <1>4 DEF IInv, TypeOK
<1>7. Located'
  BY <1>1 DEF IInv, TypeOK, Located, Trying
<1>8. Apart'
  BY <1>2 DEF IInv, Apart
<1>9. Wrote'
  BY <1>2, <1>5 DEF IInv, Wrote, Locked
<1>10. Backed'
  <2> SUFFICES ASSUME NEW d \in Clients, Holds(d)', (ident[d] \notin twins)'
               PROVE  (key.value = ident[d] /\ Locked /\ key.ttl = lease[d] /\ key.by = d)'
    BY DEF Backed
  <2>1. d # c /\ Holds(d) /\ ident[d] \notin twins /\ ident'[d] = ident[d]
    BY <1>1 DEF IInv, TypeOK, Holds
  <2>2. key.value = ident[d] /\ Locked /\ key.ttl = lease[d] /\ key.by = d
    BY <2>1 DEF IInv, Backed
  <2>3. CASE UNCHANGED key
    BY <2>1, <2>2, <2>3 DEF Locked
  <2>4. CASE at[c] = "exec" /\ ~dirty[c]
    <3>1. ident[c] = ident[d]
      BY <2>2, <2>4 DEF IInv, Watched
    <3>2. ident[d] \in Tokens(c) \cap Tokens(d)
      BY <3>1 DEF Tokens
    <3>3. Tokens(c) \cap Tokens(d) \subseteq twins \cup {NoId}
      BY <2>1 DEF IInv, Apart
    <3>4. ident[d] # NoId
      BY <2>2 DEF Locked
    <3> QED BY <3>2, <3>3, <3>4, <2>1
  <2> QED BY <2>3, <2>4
<1>11. Watched'
  <2> SUFFICES ASSUME NEW d \in Clients, at'[d] = "exec", ~dirty'[d], Locked'
               PROVE  key'.value = ident'[d]
    BY DEF Watched
  <2>1. d # c /\ at[d] = "exec" /\ ident'[d] = ident[d]
    BY <1>1 DEF IInv, TypeOK
  <2>2. UNCHANGED <<key, dirty>>
    BY <1>5, <2>1 DEF Touch, Locked
  <2> QED BY <2>1, <2>2 DEF IInv, Watched, Locked
<1> QED BY <1>6, <1>7, <1>8, <1>9, <1>10, <1>11 DEF IInv

LEMMA CompareStep == ASSUME LockAssumption, IInv, NEW c \in Clients, Compare(c) PROVE IInv'
<1>1. at[c] = "compare" /\ UNCHANGED <<key, left, mine, lease, dirty, decode, recent, twins>>
  BY DEF Compare
<1>2. CASE Matches(c)
  BY <1>1, <1>2, MatchStep DEF Compare
<1>3. CASE ~Matches(c)
  <2>1. Finish(c)
    BY <1>3 DEF Compare
  <2> QED BY <1>1, <2>1, FinishStep
<1> QED BY <1>2, <1>3

(* EXEC has refused: release starts again. *)
LEMMA RewatchStep ==
  ASSUME LockAssumption, IInv, NEW c \in Clients, at[c] = "exec",
         at' = [at EXCEPT ![c] = "watch"],
         UNCHANGED <<key, left, mine, ident, lease, dirty, decode, recent, twins>>
  PROVE  IInv'
<1>1. TypeOK'
  BY DEF IInv, TypeOK
<1>2. Located'
  BY DEF IInv, TypeOK, Located, Trying
<1>3. Apart' /\ Wrote'
  BY DEF IInv, Apart, Wrote, Tokens, Locked
<1>4. Backed'
  BY DEF IInv, TypeOK, Backed, Holds, Locked
<1>5. Watched'
  BY DEF IInv, TypeOK, Watched, Locked
<1> QED BY <1>1, <1>2, <1>3, <1>4, <1>5 DEF IInv

LEMMA ExecStep == ASSUME LockAssumption, IInv, NEW c \in Clients, Exec(c) PROVE IInv'
<1>1. at[c] = "exec" /\ UNCHANGED <<left, mine, lease, decode, recent, twins>>
  BY DEF Exec
<1>2. CASE dirty[c]
  BY <1>1, <1>2, RewatchStep DEF Exec
<1>3. CASE ~dirty[c]
  BY <1>1, <1>3, FinishStep DEF Exec
<1> QED BY <1>2, <1>3

LEMMA TickStep == ASSUME LockAssumption, IInv, Tick PROVE IInv'
<1>1. /\ key' = IF key.ttl = 1 THEN [key EXCEPT !.value = NoId, !.ttl = 0]
                               ELSE [key EXCEPT !.ttl = Minus(key.ttl)]
      /\ left' = [c \in Clients |-> Minus(left[c])]
      /\ lease' = [c \in Clients |-> Minus(lease[c])]
      /\ recent' = {}
      /\ UNCHANGED <<at, mine, ident, decode, twins>>
      /\ dirty' = dirty \/ (key.ttl = 1 /\ Touch)
  BY DEF Tick
<1>2. key \in [value : Ids \cup {NoId}, ttl : Nat, by : Clients] /\ Minus(key.ttl) \in Nat
  BY MinusType DEF IInv, TypeOK
<1>3. key' \in [value : Ids \cup {NoId}, ttl : Nat, by : Clients] /\ key'.by = key.by
  <2>1. CASE key.ttl = 1
    BY <2>1, <1>1, <1>2
  <2>2. CASE key.ttl # 1
    BY <2>2, <1>1, <1>2
  <2> QED BY <2>1, <2>2
<1>4. \A c \in Clients : /\ lease[c] \in Nat /\ lease'[c] = Minus(lease[c])
                          /\ Minus(lease[c]) \in Nat /\ Minus(left[c]) \in Nat
  BY <1>1, MinusType DEF IInv, TypeOK
<1>5. dirty' \in [Clients -> BOOLEAN]
  BY <1>1, TouchType DEF IInv, TypeOK
<1>6. Locked' => key'.value = key.value /\ Locked /\ key.ttl # 1
  BY <1>1, <1>2 DEF Locked
<1>7. TypeOK'
  BY <1>1, <1>3, <1>4, <1>5 DEF IInv, TypeOK
<1>8. Located'
  <2>1. \A c \in Clients : lease[c] = 0 => lease'[c] = 0
    BY <1>4 DEF Minus
  <2> QED BY <1>1, <2>1 DEF IInv, Located, Trying
<1>9. Apart'
  BY <1>1 DEF IInv, Apart, Tokens
<1>10. Wrote'
  BY <1>1, <1>3, <1>6 DEF IInv, Wrote, Tokens
<1>11. Backed'
  <2> SUFFICES ASSUME NEW d \in Clients, Holds(d)', (ident[d] \notin twins)'
               PROVE  (key.value = ident[d] /\ Locked /\ key.ttl = lease[d] /\ key.by = d)'
    BY DEF Backed
  <2>1. at[d] = "inside" /\ Minus(lease[d]) > 0 /\ ident[d] \notin twins
    BY <1>1, <1>4 DEF Holds
  <2>2. lease[d] > 1 /\ Minus(lease[d]) = lease[d] - 1
    BY <2>1, <1>4, MinusType
  <2>3. Holds(d)
    BY <2>1, <2>2, <1>4 DEF Holds
  <2>4. key.value = ident[d] /\ Locked /\ key.ttl = lease[d] /\ key.by = d
    BY <2>1, <2>3 DEF IInv, Backed
  <2>5. key' = [key EXCEPT !.ttl = Minus(key.ttl)]
    BY <2>2, <2>4, <1>1, <1>4
  <2>6. key'.value = key.value /\ key'.ttl = Minus(key.ttl)
    BY <2>5, <1>2
  <2> QED BY <2>4, <2>6, <1>1, <1>3, <1>4 DEF Locked
<1>12. Watched'
  <2> SUFFICES ASSUME NEW d \in Clients, at'[d] = "exec", ~dirty'[d], Locked'
               PROVE  key'.value = ident'[d]
    BY DEF Watched
  <2>1. dirty' = dirty
    BY <1>1, <1>6
  <2> QED BY <2>1, <1>1, <1>6 DEF IInv, Watched
<1> QED BY <1>7, <1>8, <1>9, <1>10, <1>11, <1>12 DEF IInv

LEMMA NextStep == ASSUME LockAssumption, IInv, [Next]_vars PROVE IInv'
<1>1. CASE \E c \in Clients : Trying(c) /\ Refuse(c)
  BY <1>1, RefuseStep
<1>2. CASE UNCHANGED vars
  BY <1>2 DEF vars, IInv, TypeOK, Located, Apart, Tokens, Wrote, Backed, Watched, Locked, Holds, Trying
<1>3. ASSUME NEW c \in Clients, TryFails(c) \/ GiveUp(c)
      PROVE  Trying(c) /\ Refuse(c)
  BY <1>3 DEF TryFails, GiveUp, Trying
<1> QED
  BY <1>1, <1>2, <1>3, AcquireStep, ObtainStep, ReplyLostStep, ReleaseStep, WatchStep,
     CompareStep, ExecStep, CrashStep, TickStep DEF Next

LEMMA Invariance == Spec => []IInv
<1>1. Init => IInv
  BY InitIInv, LockAssumption
<1>2. IInv /\ [Next]_vars => IInv'
  BY NextStep, LockAssumption
<1> QED BY <1>1, <1>2, PTL DEF Spec

(* Every reachable state has the types of the model. *)
THEOREM TypeCorrect == Spec => []TypeOK
<1>1. IInv => TypeOK
  BY DEF IInv
<1> QED BY <1>1, Invariance, PTL

(* No two clients have the lock at once, for any number of clients, any    *)
(* timeouts, crashes and lost replies, except by equal identifiers.        *)
THEOREM LockExcludes == Spec => []MutualExclusion
<1>1. IInv => MutualExclusion
  BY DEF IInv, Backed, MutualExclusion
<1> QED BY <1>1, Invariance, PTL

(* release deletes no key but the one its own client wrote, except by      *)
(* equal identifiers.                                                      *)
THEOREM DeletesOwn == Spec => OwnerDeletes
<1> DEFINE Own == \A c \in Clients :
                    /\ at[c] = "exec" /\ at'[c] = "idle"
                    /\ Locked /\ ~Locked'
                    => key.by = c \/ ident[c] \in twins
<1>1. ASSUME IInv, [Next]_vars
      PROVE  [Own]_vars
  <2> SUFFICES ASSUME NEW c \in Clients, at[c] = "exec", at'[c] = "idle", Locked, ~Locked'
               PROVE  key.by = c \/ ident[c] \in twins
    OBVIOUS
  <2>1. CASE ~dirty[c]
    <3>1. key.value \in Tokens(c) /\ key.value = ident[c]
      BY <1>1, <2>1 DEF IInv, Watched, Tokens
    <3> QED BY <1>1, <3>1 DEF IInv, Wrote
  <2>2. CASE dirty[c]
    <3>1. ~Exec(c)
      BY <1>1, <2>2 DEF Exec, IInv, TypeOK
    <3>2. \A d \in Clients : Crash(d) => Locked'
      BY DEF Crash, Locked
    <3>3. ~Tick
      BY DEF Tick
    <3>4. \A d \in Clients : d # c => ~Exec(d)
      BY <1>1 DEF Exec, Finish, IInv, TypeOK
    <3>5. \A d \in Clients : ~(Acquire(d) \/ TryFails(d) \/ GiveUp(d) \/ Release(d) \/ Watch(d) \/ Compare(d))
      BY DEF Acquire, TryFails, GiveUp, Refuse, Release, Watch, Compare, Locked
    <3>6. \A d \in Clients : ~(Obtain(d) \/ ReplyLost(d))
      BY DEF Obtain, ReplyLost, Write
    <3> QED BY <1>1, <3>1, <3>2, <3>3, <3>4, <3>5, <3>6 DEF Next, vars
  <2> QED BY <2>1, <2>2
<1> QED BY <1>1, Invariance, PTL DEF Spec, OwnerDeletes

(* A key never lacks an expiry. *)
Expiring == Locked => key.ttl > 0

LEMMA ExpiringStep == ASSUME LockAssumption, TypeOK, Expiring, [Next]_vars PROVE Expiring'
<1>1. key.ttl \in Nat /\ key = [value |-> key.value, ttl |-> key.ttl, by |-> key.by]
  BY DEF TypeOK
<1>2. ASSUME NEW c \in Clients, Write(c) PROVE Expiring'
  BY <1>2 DEF Write, Expiring, LockAssumption
<1>3. CASE Tick
  BY <1>1, <1>3 DEF Tick, Minus, Expiring, Locked
<1>4. ASSUME key' = key \/ key' = [key EXCEPT !.value = NoId, !.ttl = 0] PROVE Expiring'
  BY <1>1, <1>4 DEF Expiring, Locked
<1>5. ASSUME NEW c \in Clients,
             \/ Acquire(c) \/ TryFails(c) \/ GiveUp(c) \/ Release(c) \/ Watch(c) \/ Compare(c)
             \/ Exec(c) \/ Crash(c)
      PROVE  key' = key \/ key' = [key EXCEPT !.value = NoId, !.ttl = 0]
  BY <1>5 DEF Acquire, TryFails, GiveUp, Refuse, Release, Watch, Compare, Exec, Crash
<1>. QED
  BY <1>2, <1>3, <1>4, <1>5 DEF Next, Obtain, ReplyLost, vars

(* What a client may claim: its lease, while the key is its own. *)
LEMMA ClaimOf ==
  ASSUME IInv, NEW d \in Clients
  PROVE  /\ Claim[d] = IF Holds(d) /\ ident[d] \notin twins THEN lease[d] ELSE 0
         /\ Claim[d] \in Nat
         /\ at[d] # "inside" => Claim[d] = 0
         /\ Claim[d] > 0 => /\ Holds(d) /\ ident[d] \notin twins
                            /\ Owned /\ key.value = ident[d] /\ key.by = d /\ key.ttl = Claim[d]
<1>1. Claim[d] = IF Holds(d) /\ ident[d] \notin twins THEN lease[d] ELSE 0
  BY DEF Claim
<1>2. lease[d] \in Nat
  BY DEF IInv, TypeOK
<1>. QED
  BY <1>1, <1>2 DEF IInv, Backed, Holds, Owned

LEMMA SameClaims ==
  ASSUME \A d \in Clients : Claim'[d] = Claim[d]
  PROVE  Claim' = Claim
<1>1. Claim = [d \in Clients |-> Claim[d]] /\ Claim' = [d \in Clients |-> Claim'[d]]
  BY DEF Claim
<1>. QED
  BY <1>1

LEMMA OneClaim ==
  ASSUME NEW c \in Clients, NEW n, Claim'[c] = n,
         \A d \in Clients : d # c => Claim'[d] = Claim[d]
  PROVE  Claim' = [Claim EXCEPT ![c] = n]
<1>1. Claim = [d \in Clients |-> Claim[d]] /\ Claim' = [d \in Clients |-> Claim'[d]]
  BY DEF Claim
<1>. QED
  BY <1>1

(* A step that touches neither the key nor the identifiers shares the others' claims. *)
LEMMA OthersClaim ==
  ASSUME TypeOK, NEW c \in Clients, UNCHANGED twins,
         \A d \in Clients : d # c => /\ at'[d] = at[d] /\ lease'[d] = lease[d]
                                     /\ ident'[d] = ident[d]
  PROVE  \A d \in Clients : d # c => Claim'[d] = Claim[d]
<1>. SUFFICES ASSUME NEW d \in Clients, d # c
              PROVE  Claim'[d] = Claim[d]
  OBVIOUS
<1>. QED
  BY DEF Claim, Holds

(* Who asks changes only with the place of the client that moves. *)
LEMMA AskingMoves ==
  ASSUME TypeOK, NEW c \in Clients, NEW p, at' = [at EXCEPT ![c] = p]
  PROVE  Asking' = IF p \in {"with", "blocking", "try"} THEN Asking \cup {c} ELSE Asking \ {c}
<1>1. \A d \in Clients : at'[d] = IF d = c THEN p ELSE at[d]
  BY DEF TypeOK
<1>. QED
  BY <1>1 DEF Asking, Trying

(* Drawing an identifier: the lock of the one who has drawn it before cannot be told from *)
(* another's any more.                                                                     *)
LEMMA AcquireVoids ==
  ASSUME LockAssumption, IInv, IInv', NEW c \in Clients, Acquire(c)
  PROVE  Lease!Void \/ UNCHANGED <<Owner, Remaining, Claim>>
<1>1. at[c] = "idle" /\ UNCHANGED <<key, ident, lease>> /\ \E u \in Uses : at' = [at EXCEPT ![c] = u]
  BY DEF Acquire
<1>2. \A d \in Clients : Holds(d)' <=> Holds(d)
  BY <1>1 DEF IInv, TypeOK, Holds, LockAssumption
<1>3. CASE twins' = twins \ Unused
  <2>1. \A j : j = key.value \/ (\E d \in Clients : j = ident[d]) => (j \in twins' <=> j \in twins)
    BY <1>3 DEF Unused
  <2>2. Owned' <=> Owned
    BY <1>1, <2>1 DEF Owned, Locked
  <2>3. \A d \in Clients : Claim'[d] = Claim[d]
    BY <1>1, <1>2, <2>1 DEF Claim
  <2>. QED
    BY <1>1, <2>2, <2>3, SameClaims DEF Owner, Remaining
<1>4. CASE \E i \in recent \ Unused : twins' = twins \cup {i}
  <2>1. PICK i \in recent \ Unused : twins' = twins \cup {i}
    BY <1>4
  <2>2. CASE Owned /\ key.value = i
    <3>1. ~Owned' /\ Owner = key.by
      BY <1>1, <2>1, <2>2 DEF Owned, Owner
    <3>2. \A d \in Clients : Claim'[d] = 0
      BY <1>1, <2>1, <2>2, <3>1, ClaimOf DEF Claim, IInv, Backed, Holds
    <3>3. \A d \in Clients : d # Owner => Claim[d] = 0
      BY <3>1, ClaimOf
    <3>4. Claim' = [d \in Clients |-> Claim'[d]]
      BY DEF Claim
    <3>5. Claim' = [d \in Clients |-> IF d = Owner THEN 0 ELSE Claim[d]]
      BY <3>2, <3>3, <3>4
    <3>. QED
      BY <3>1, <3>5 DEF Lease!Void, Owner, Remaining
  <2>3. CASE ~(Owned /\ key.value = i)
    <3>1. Owned' <=> Owned
      BY <1>1, <2>1, <2>3 DEF Owned, Locked
    <3>2. \A d \in Clients : Claim'[d] = Claim[d]
      <4>. SUFFICES ASSUME NEW d \in Clients
                    PROVE  Claim'[d] = Claim[d]
        OBVIOUS
      <4>1. Claim'[d] = IF Holds(d) /\ ident[d] \notin twins' THEN lease[d] ELSE 0
        BY <1>1, <1>2 DEF Claim
      <4>2. CASE Claim[d] > 0
        BY <2>1, <2>3, <4>1, <4>2, ClaimOf
      <4>3. CASE Claim[d] = 0
        BY <2>1, <4>1, <4>3, ClaimOf
      <4>. QED
        BY <4>2, <4>3, ClaimOf
    <3>. QED
      BY <1>1, <3>1, <3>2, SameClaims DEF Owner, Remaining
  <2>. QED
    BY <2>2, <2>3
<1>. QED
  BY <1>3, <1>4 DEF Acquire

(* A SET that Redis carries out takes the lock, unless its identifier is shared. *)
LEMMA WriteTakes ==
  ASSUME LockAssumption, IInv, NEW c \in Clients, Trying(c), Write(c), UNCHANGED twins,
         Asking' \in {Asking, Asking \ {c}},
         \/ Claim' = Claim
         \/ mine[c] \notin twins /\ Claim' = [Claim EXCEPT ![c] = Timeout[c]]
  PROVE  Lease!Take(c) \/ Lease!Leave(c) \/ UNCHANGED Lease!vars
<1>1. /\ ~Locked /\ Locked'
      /\ key'.value = mine[c] /\ key'.ttl = Timeout[c] /\ key'.by = c
  BY WriteFacts
<1>2. ~Owned /\ (Owned' <=> mine[c] \notin twins)
  BY <1>1 DEF Owned
<1>3. c \in Asking /\ Claim[c] = 0 /\ Claim = [Claim EXCEPT ![c] = 0]
  <2>1. Claim[c] = 0
    BY ClaimOf DEF Trying
  <2>2. Claim = [d \in Clients |-> Claim[d]]
    BY DEF Claim
  <2>. QED
    BY <2>1, <2>2 DEF Asking
<1>. QED
  BY <1>1, <1>2, <1>3 DEF Lease!Take, Lease!Leave, Lease!vars, Owner, Remaining

(* Every step of acquire, block, release, crash and clock is one LeaseLock allows. *)
LEMMA LeaseStep ==
  ASSUME LockAssumption, IInv, IInv', Expiring, [Next]_vars
  PROVE  [Lease!Next]_(Lease!vars)
<1>1. ASSUME NEW c \in Clients, Obtain(c)
      PROVE  Lease!Take(c) \/ Lease!Leave(c) \/ UNCHANGED Lease!vars
  <2>1. /\ Trying(c) /\ Write(c) /\ UNCHANGED twins
        /\ at' = [at EXCEPT ![c] = "inside"]
        /\ ident' = [ident EXCEPT ![c] = mine[c]]
        /\ lease' = [lease EXCEPT ![c] = Timeout[c]]
    BY <1>1 DEF Obtain, Return
  <2>6. Asking' = Asking \ {c}
    BY <2>1, AskingMoves DEF IInv
  <2>2. \A d \in Clients : d # c => Claim'[d] = Claim[d]
    BY <2>1, OthersClaim DEF IInv, TypeOK
  <2>3. Claim'[c] = (IF mine[c] \notin twins THEN Timeout[c] ELSE 0) /\ Claim[c] = 0
    <3>1. at'[c] = "inside" /\ ident'[c] = mine[c] /\ lease'[c] = Timeout[c] /\ Timeout[c] > 0
      BY <2>1 DEF IInv, TypeOK, LockAssumption
    <3>2. at[c] # "inside"
      BY <2>1 DEF Trying
    <3>. QED
      BY <2>1, <3>1, <3>2, ClaimOf DEF Claim, Holds
  <2>4. CASE mine[c] \notin twins
    <3>1. Claim' = [Claim EXCEPT ![c] = Timeout[c]]
      BY <2>2, <2>3, <2>4, OneClaim
    <3>. QED
      BY <2>1, <2>4, <2>6, <3>1, WriteTakes
  <2>5. CASE mine[c] \in twins
    <3>1. Claim' = Claim
      BY <2>2, <2>3, <2>5, SameClaims
    <3>. QED
      BY <2>1, <2>6, <3>1, WriteTakes
  <2>. QED
    BY <2>4, <2>5
<1>2. ASSUME NEW c \in Clients, ReplyLost(c)
      PROVE  Lease!Take(c) \/ Lease!Leave(c) \/ UNCHANGED Lease!vars
  <2>1. /\ Trying(c) /\ Write(c) /\ UNCHANGED <<ident, lease, twins>>
        /\ at' = at \/ at' = [at EXCEPT ![c] = "idle"]
    BY <1>2 DEF ReplyLost, Return
  <2>2. \A d \in Clients : d # c => Claim'[d] = Claim[d]
    BY <2>1, OthersClaim DEF IInv, TypeOK
  <2>3. Claim'[c] = Claim[c]
    <3>1. at[c] # "inside" /\ at'[c] # "inside"
      BY <2>1 DEF IInv, TypeOK, Trying
    <3>. QED
      BY <3>1 DEF Claim, Holds
  <2>4. Claim' = Claim
    BY <2>2, <2>3, SameClaims
  <2>5. Asking' \in {Asking, Asking \ {c}}
    BY <2>1, AskingMoves DEF IInv, Asking, Trying
  <2>. QED
    BY <2>1, <2>4, <2>5, WriteTakes
<1>3. ASSUME NEW c \in Clients, Release(c) \/ Crash(c)
      PROVE  Lease!Leave(c)
  <2>1. /\ UNCHANGED <<key, twins>>
        /\ lease' = [lease EXCEPT ![c] = 0]
        /\ at' = [at EXCEPT ![c] = at'[c]] /\ ident' = [ident EXCEPT ![c] = ident'[c]]
    BY <1>3 DEF Release, Crash, Return, IInv, TypeOK
  <2>2. \A d \in Clients : d # c => Claim'[d] = Claim[d]
    BY <2>1, OthersClaim DEF IInv, TypeOK
  <2>3. Claim'[c] = 0
    BY <2>1 DEF Claim, Holds, IInv, TypeOK
  <2>4. Claim' = [Claim EXCEPT ![c] = 0]
    BY <2>2, <2>3, OneClaim
  <2>5. Asking' = Asking \ {c}
    <3>1. \E p \in {"watch", "idle"} : at' = [at EXCEPT ![c] = p]
      BY <1>3 DEF Release, Crash, Return
    <3>. QED
      BY <3>1, AskingMoves DEF IInv
  <2>. QED
    BY <2>1, <2>4, <2>5 DEF Lease!Leave, Owner, Remaining, Owned, Locked
<1>4. ASSUME NEW c \in Clients, TryFails(c) \/ GiveUp(c) \/ Watch(c) \/ Compare(c) \/ Exec(c)
      PROVE  Claim' = Claim
  <2>1. /\ at[c] # "inside" /\ UNCHANGED <<lease, twins>>
        /\ at' = [at EXCEPT ![c] = at'[c]] /\ ident' = [ident EXCEPT ![c] = ident'[c]]
    BY <1>4 DEF TryFails, GiveUp, Trying, Refuse, Return, Watch, Compare, Exec, Finish, IInv, TypeOK
  <2>2. \A d \in Clients : d # c => Claim'[d] = Claim[d]
    BY <2>1, OthersClaim DEF IInv, TypeOK
  <2>3. Claim'[c] = Claim[c]
    <3>1. lease[c] = 0 /\ lease'[c] = 0
      BY <2>1 DEF IInv, Located
    <3>. QED
      BY <3>1 DEF Claim, Holds
  <2>. QED
    BY <2>2, <2>3, SameClaims
<1>5. ASSUME NEW c \in Clients, Exec(c)
      PROVE  Lease!Free(c) \/ UNCHANGED Lease!vars
  <2>1. at[c] = "exec" /\ UNCHANGED twins /\ Claim' = Claim /\ Claim[c] = 0
    BY <1>4, <1>5, ClaimOf DEF Exec
  <2>4. Asking' = Asking
    <3>1. \A p : at' = [at EXCEPT ![c] = p] /\ p \in {"watch", "idle"} => Asking' = Asking \ {c}
      BY AskingMoves DEF IInv
    <3>2. c \notin Asking
      BY <2>1 DEF Asking, Trying
    <3>. QED
      BY <1>5, <3>1, <3>2 DEF Exec, Finish
  <2>2. CASE UNCHANGED key
    BY <2>1, <2>2, <2>4 DEF Lease!vars, Owner, Remaining, Owned, Locked
  <2>3. CASE ~dirty[c] /\ key' = [key EXCEPT !.value = NoId, !.ttl = 0]
    <3>1. ~Owned'
      BY <2>3 DEF IInv, TypeOK, Owned, Locked
    <3>2. Owned => key.by = c
      BY <2>1, <2>3 DEF IInv, Watched, Wrote, Tokens, Owned
    <3>. QED
      BY <2>1, <2>4, <3>1, <3>2 DEF Lease!Free, Lease!vars, Owner, Remaining
  <2>. QED
    BY <1>5, <2>2, <2>3 DEF Exec
<1>6. ASSUME Tick
      PROVE  Lease!Tick
  <2>1. /\ key' = IF key.ttl = 1 THEN [key EXCEPT !.value = NoId, !.ttl = 0]
                                 ELSE [key EXCEPT !.ttl = Minus(key.ttl)]
        /\ lease' = [c \in Clients |-> Minus(lease[c])]
        /\ UNCHANGED <<at, ident, twins>>
    BY <1>6 DEF Tick
  <2>2. key.ttl \in Nat /\ key = [value |-> key.value, ttl |-> key.ttl, by |-> key.by]
    BY DEF IInv, TypeOK
  <2>3. Owned => key.ttl > 0
    BY DEF Expiring, Owned
  <2>4. /\ Owned' <=> Owned /\ key.ttl # 1
        /\ key'.by = key.by
        /\ Owned' => key'.ttl = key.ttl - 1
    BY <2>1, <2>2, <2>3 DEF Owned, Locked, Minus
  <2>5. Owner' = (IF Remaining = 1 THEN NoId ELSE Owner) /\ Remaining' = Lease!Less(Remaining)
    BY <2>2, <2>3, <2>4 DEF Owner, Remaining, Lease!Less
  <2>6. ASSUME NEW d \in Clients
        PROVE  Claim'[d] = Lease!Less(Claim[d])
    <3>1. lease[d] \in Nat /\ lease'[d] = Minus(lease[d]) /\ at'[d] = at[d]
      BY <2>1 DEF IInv, TypeOK
    <3>2. Claim'[d] = IF at[d] = "inside" /\ lease'[d] > 0 /\ ident[d] \notin twins
                      THEN lease'[d] ELSE 0
      BY <2>1, <3>1 DEF Claim, Holds
    <3>3. Claim[d] = IF at[d] = "inside" /\ lease[d] > 0 /\ ident[d] \notin twins
                     THEN lease[d] ELSE 0
      BY DEF Claim, Holds
    <3>. QED
      BY <3>1, <3>2, <3>3 DEF Minus, Lease!Less
  <2>7. Claim' = [d \in Clients |-> Lease!Less(Claim[d])]
    <3>1. Claim' = [d \in Clients |-> Claim'[d]]
      BY DEF Claim
    <3>. QED
      BY <2>6, <3>1
  <2>8. Asking' = Asking
    BY <2>1 DEF Asking, Trying
  <2>. QED
    BY <2>5, <2>7, <2>8 DEF Lease!Tick
<1>7. ASSUME NEW c \in Clients, TryFails(c) \/ GiveUp(c)
      PROVE  Lease!Leave(c)
  <2>1. UNCHANGED <<key, twins>> /\ Claim' = Claim /\ Trying(c)
    BY <1>4, <1>7 DEF TryFails, GiveUp, Refuse, Trying
  <2>2. Asking' = Asking \ {c}
    <3>1. \E p \in {"inside", "idle"} : at' = [at EXCEPT ![c] = p]
      BY <1>7 DEF TryFails, GiveUp, Refuse, Return
    <3>. QED
      BY <3>1, AskingMoves DEF IInv
  <2>3. Claim = [Claim EXCEPT ![c] = 0]
    <3>1. Claim[c] = 0
      BY <2>1, ClaimOf DEF Trying
    <3>2. Claim = [d \in Clients |-> Claim[d]]
      BY DEF Claim
    <3>. QED
      BY <3>1, <3>2
  <2>. QED
    BY <2>1, <2>2, <2>3 DEF Lease!Leave, Owner, Remaining, Owned, Locked
<1>8. ASSUME NEW c \in Clients, Watch(c) \/ Compare(c)
      PROVE  UNCHANGED Lease!vars
  <2>1. UNCHANGED <<key, twins>> /\ Claim' = Claim
    BY <1>4, <1>8 DEF Watch, Compare
  <2>2. Asking' = Asking
    <3>1. \A p : at' = [at EXCEPT ![c] = p] /\ p \in {"compare", "exec", "idle"} => Asking' = Asking \ {c}
      BY AskingMoves DEF IInv
    <3>2. c \notin Asking
      BY <1>8 DEF Watch, Compare, Asking, Trying
    <3>. QED
      BY <1>8, <3>1, <3>2 DEF Watch, Compare, Finish
  <2>. QED
    BY <2>1, <2>2 DEF Lease!vars, Owner, Remaining, Owned, Locked
<1>9. ASSUME NEW c \in Clients, Acquire(c)
      PROVE  Lease!Ask(c)
  <2>1. Asking' = Asking \cup {c} /\ c \notin Asking
    <3>1. \A u \in Uses : at' = [at EXCEPT ![c] = u] => Asking' = Asking \cup {c}
      BY LockAssumption, AskingMoves DEF IInv, LockAssumption
    <3>. QED
      BY <1>9, <3>1 DEF Acquire, Asking, Trying
  <2>. QED
    BY <1>9, <2>1, AcquireVoids DEF Lease!Ask
<1>10. CASE UNCHANGED vars
  BY <1>10 DEF vars, Lease!vars, Owner, Remaining, Claim, Asking, Trying, Owned, Locked, Holds
<1>. QED
  BY <1>1, <1>2, <1>3, <1>5, <1>6, <1>7, <1>8, <1>9, <1>10 DEF Next, Lease!Next

(* Calls whose identifier nobody shares see a lock with one owner, freed by its owner after *)
(* the block or by time, for any number of clients and any timeouts (RedisLock).            *)
THEOREM LeaseKept == Spec => ImplementsLease
<1>1. Init => IInv /\ Expiring
  BY InitIInv, LockAssumption DEF Init, Expiring, Locked
<1>2. IInv /\ Expiring /\ [Next]_vars => IInv' /\ Expiring'
  BY NextStep, ExpiringStep, LockAssumption DEF IInv
<1>3. Init => Lease!Init
  BY DEF Init, Lease!Init, Owner, Remaining, Claim, Asking, Trying, Owned, Locked, Holds
<1>4. IInv /\ Expiring /\ [Next]_vars => [Lease!Next]_(Lease!vars)
  BY <1>2, LeaseStep, LockAssumption
<1>. QED
  BY <1>1, <1>2, <1>3, <1>4, PTL DEF Spec, ImplementsLease, Lease!Spec

=============================================================================
