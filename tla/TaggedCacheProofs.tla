-------------------------- MODULE TaggedCacheProofs --------------------------
(***************************************************************************)
(* Theorems about TaggedCache, for any keys, timeouts, readers and savers. *)
(***************************************************************************)
EXTENDS TaggedCache, TLAPS

Live(k) == value[k] # "none"

(* What is cached has a timeout, at most the key's. *)
Timed == \A k \in Keys : Live(k) => ttl[k] > 0 /\ ttl[k] <= Timeout[k]

(* A clean read is alone with its key, and nobody saves. *)
Undisturbed ==
  \A c \in Clients : clean[c] =>
    /\ at[c] \in Reading
    /\ \A d \in Clients : at[d] \notin Saving
    /\ \A d \in Clients : d # c /\ at[d] \in Reading => on[d] # on[c]

(* What a clean read has loaded and stored is current, and tagged. *)
Right ==
  \A c \in Clients : clean[c] =>
    /\ at[c] = "set" => loaded[c] = "current"
    /\ at[c] # "set" => value[on[c]] # "old"
    /\ at[c] = "expire" /\ Live(on[c]) => on[c] \in members

(* The tag set holds the tracked keys, as long as they live. *)
Covered == \A k \in tracked : Live(k) => k \in members /\ (tagttl = 0 \/ ttl[k] <= tagttl)

(* An invalidation that has read the tag set has the tracked keys to       *)
(* delete, and has deleted them when it is past that.                      *)
Pending ==
  \A c \in Clients : \A k \in tracked : Live(k) =>
    /\ at[c] \notin {"drop", "commit"}
    /\ at[c] = "delete" => k \in batch[c]

(* A tracked key is old only while the save that made it old has it to     *)
(* delete.                                                                 *)
Overdue ==
  \A k \in tracked : value[k] = "old" =>
    \E c \in Clients : at[c] \in {"members", "delete"} /\ ~tx[c]

IInv == TypeOK /\ Timed /\ Undisturbed /\ Right /\ Covered /\ Pending /\ Overdue

LEMMA SomeKeyType == ASSUME TaggedAssumption PROVE SomeKey \in Keys
  BY DEF SomeKey, TaggedAssumption

LEMMA InitIInv == ASSUME TaggedAssumption, Init PROVE IInv
  BY SomeKeyType DEF Init, IInv, TypeOK, Timed, Undisturbed, Right, Covered, Pending, Overdue, Live

LEMMA MinusType ==
  ASSUME NEW n \in Nat
  PROVE  Minus(n) \in Nat /\ (n > 0 => Minus(n) = n - 1) /\ (n = 0 => Minus(n) = 0)
  BY DEF Minus

USE DEF Reading, Saving, Goto

LEMMA LoadStep == ASSUME TaggedAssumption, IInv, NEW c \in Clients, NEW k \in Keys, Load(c, k) PROVE IInv'
<1>1. TypeOK'
  BY SomeKeyType DEF IInv, TypeOK, TaggedAssumption, Load
<1>2. Timed'
  BY DEF IInv, TypeOK, Timed, Live, TaggedAssumption, Load
<1>3. Undisturbed'
  BY DEF IInv, TypeOK, Undisturbed, Load
<1>4. Right'
  BY DEF IInv, TypeOK, Undisturbed, Right, Live, Load
<1>5. Covered'
  BY DEF IInv, TypeOK, Timed, Covered, Right, Live, TaggedAssumption, Load
<1>6. Pending'
  BY DEF IInv, TypeOK, Undisturbed, Covered, Pending, Live, Load
<1>7. Overdue'
  BY DEF IInv, TypeOK, Undisturbed, Right, Covered, Pending, Overdue, Live, Load
<1> QED BY <1>1, <1>2, <1>3, <1>4, <1>5, <1>6, <1>7 DEF IInv

LEMMA SetValueStep == ASSUME TaggedAssumption, IInv, NEW c \in Clients, SetValue(c) PROVE IInv'
<1>1. TypeOK'
  BY SomeKeyType DEF IInv, TypeOK, TaggedAssumption, SetValue, Write
<1>2. Timed'
  BY DEF IInv, TypeOK, Timed, Live, TaggedAssumption, SetValue, Write
<1>3. Undisturbed'
  BY DEF IInv, TypeOK, Undisturbed, SetValue, Write
<1>4. Right'
  BY DEF IInv, TypeOK, Undisturbed, Right, Live, SetValue, Write
<1>5. Covered'
  BY DEF IInv, TypeOK, Timed, Covered, Right, Live, TaggedAssumption, SetValue, Write
<1>6. Pending'
  BY DEF IInv, TypeOK, Undisturbed, Covered, Pending, Live, SetValue, Write
<1>7. Overdue'
  BY DEF IInv, TypeOK, Undisturbed, Right, Covered, Pending, Overdue, Live, SetValue, Write
<1> QED BY <1>1, <1>2, <1>3, <1>4, <1>5, <1>6, <1>7 DEF IInv

LEMMA SetFailsStep == ASSUME TaggedAssumption, IInv, NEW c \in Clients, SetFails(c) PROVE IInv'
<1>1. TypeOK'
  BY SomeKeyType DEF IInv, TypeOK, TaggedAssumption, SetFails, Write, Return
<1>2. Timed'
  BY DEF IInv, TypeOK, Timed, Live, TaggedAssumption, SetFails, Write, Return
<1>3. Undisturbed'
  BY DEF IInv, TypeOK, Undisturbed, SetFails, Write, Return
<1>4. Right'
  BY DEF IInv, TypeOK, Undisturbed, Right, Live, SetFails, Write, Return
<1>5. Covered'
  BY DEF IInv, TypeOK, Timed, Covered, Right, Live, TaggedAssumption, SetFails, Write, Return
<1>6. Pending'
  BY DEF IInv, TypeOK, Undisturbed, Covered, Pending, Live, SetFails, Write, Return
<1>7. Overdue'
  BY DEF IInv, TypeOK, Undisturbed, Right, Covered, Pending, Overdue, Live, SetFails, Write, Return
<1> QED BY <1>1, <1>2, <1>3, <1>4, <1>5, <1>6, <1>7 DEF IInv

LEMMA AddTagStep == ASSUME TaggedAssumption, IInv, NEW c \in Clients, AddTag(c) PROVE IInv'
<1>1. TypeOK'
  BY SomeKeyType DEF IInv, TypeOK, TaggedAssumption, AddTag
<1>2. Timed'
  BY DEF IInv, TypeOK, Timed, Live, TaggedAssumption, AddTag
<1>3. Undisturbed'
  BY DEF IInv, TypeOK, Undisturbed, AddTag
<1>4. Right'
  BY DEF IInv, TypeOK, Undisturbed, Right, Live, AddTag
<1>5. Covered'
  BY DEF IInv, TypeOK, Timed, Covered, Right, Live, TaggedAssumption, AddTag
<1>6. Pending'
  BY DEF IInv, TypeOK, Undisturbed, Covered, Pending, Live, AddTag
<1>7. Overdue'
  BY DEF IInv, TypeOK, Undisturbed, Right, Covered, Pending, Overdue, Live, AddTag
<1> QED BY <1>1, <1>2, <1>3, <1>4, <1>5, <1>6, <1>7 DEF IInv

LEMMA AddTagFailsStep == ASSUME TaggedAssumption, IInv, NEW c \in Clients, AddTagFails(c) PROVE IInv'
<1>1. TypeOK'
  BY SomeKeyType DEF IInv, TypeOK, TaggedAssumption, AddTagFails
<1>2. Timed'
  BY DEF IInv, TypeOK, Timed, Live, TaggedAssumption, AddTagFails
<1>3. Undisturbed'
  BY DEF IInv, TypeOK, Undisturbed, AddTagFails
<1>4. Right'
  BY DEF IInv, TypeOK, Undisturbed, Right, Live, AddTagFails
<1>5. Covered'
  BY DEF IInv, TypeOK, Timed, Covered, Right, Live, TaggedAssumption, AddTagFails
<1>6. Pending'
  BY DEF IInv, TypeOK, Undisturbed, Covered, Pending, Live, AddTagFails
<1>7. Overdue'
  BY DEF IInv, TypeOK, Undisturbed, Right, Covered, Pending, Overdue, Live, AddTagFails
<1> QED BY <1>1, <1>2, <1>3, <1>4, <1>5, <1>6, <1>7 DEF IInv

LEMMA ExpireTagStep == ASSUME TaggedAssumption, IInv, NEW c \in Clients, ExpireTag(c) PROVE IInv'
<1>1. TypeOK'
  BY SomeKeyType DEF IInv, TypeOK, TaggedAssumption, ExpireTag, Return
<1>2. Timed'
  BY DEF IInv, TypeOK, Timed, Live, TaggedAssumption, ExpireTag, Return
<1>3. Undisturbed'
  BY DEF IInv, TypeOK, Undisturbed, ExpireTag, Return
<1>4. Right'
  BY DEF IInv, TypeOK, Undisturbed, Right, Live, ExpireTag, Return
<1>5. Covered'
  BY DEF IInv, TypeOK, Timed, Covered, Right, Live, TaggedAssumption, ExpireTag, Return
<1>6. Pending'
  BY DEF IInv, TypeOK, Undisturbed, Covered, Pending, Live, ExpireTag, Return
<1>7. Overdue'
  BY DEF IInv, TypeOK, Undisturbed, Right, Covered, Pending, Overdue, Live, ExpireTag, Return
<1> QED BY <1>1, <1>2, <1>3, <1>4, <1>5, <1>6, <1>7 DEF IInv

LEMMA ExpireTagFailsStep == ASSUME TaggedAssumption, IInv, NEW c \in Clients, ExpireTagFails(c) PROVE IInv'
<1>1. TypeOK'
  BY SomeKeyType DEF IInv, TypeOK, TaggedAssumption, ExpireTagFails, Return
<1>2. Timed'
  BY DEF IInv, TypeOK, Timed, Live, TaggedAssumption, ExpireTagFails, Return
<1>3. Undisturbed'
  BY DEF IInv, TypeOK, Undisturbed, ExpireTagFails, Return
<1>4. Right'
  BY DEF IInv, TypeOK, Undisturbed, Right, Live, ExpireTagFails, Return
<1>5. Covered'
  BY DEF IInv, TypeOK, Timed, Covered, Right, Live, TaggedAssumption, ExpireTagFails, Return
<1>6. Pending'
  BY DEF IInv, TypeOK, Undisturbed, Covered, Pending, Live, ExpireTagFails, Return
<1>7. Overdue'
  BY DEF IInv, TypeOK, Undisturbed, Right, Covered, Pending, Overdue, Live, ExpireTagFails, Return
<1> QED BY <1>1, <1>2, <1>3, <1>4, <1>5, <1>6, <1>7 DEF IInv

LEMMA SaveStep == ASSUME TaggedAssumption, IInv, NEW c \in Clients, Save(c) PROVE IInv'
<1>1. TypeOK'
  BY SomeKeyType DEF IInv, TypeOK, TaggedAssumption, Save, Commits, Outdate
<1>2. Timed'
  BY DEF IInv, TypeOK, Timed, Live, TaggedAssumption, Save, Commits, Outdate
<1>3. Undisturbed'
  BY DEF IInv, TypeOK, Undisturbed, Save, Commits, Outdate
<1>4. Right'
  BY DEF IInv, TypeOK, Undisturbed, Right, Live, Save, Commits, Outdate
<1>5. Covered'
  BY DEF IInv, TypeOK, Timed, Covered, Right, Live, TaggedAssumption, Save, Commits, Outdate
<1>6. Pending'
  BY DEF IInv, TypeOK, Undisturbed, Covered, Pending, Live, Save, Commits, Outdate
<1>7. Overdue'
  BY DEF IInv, TypeOK, Undisturbed, Right, Covered, Pending, Overdue, Live, Save, Commits, Outdate
<1> QED BY <1>1, <1>2, <1>3, <1>4, <1>5, <1>6, <1>7 DEF IInv

LEMMA InvalidatedType ==
  ASSUME TaggedAssumption, TypeOK, NEW c \in Clients, Invalidated(c)
  PROVE  /\ at' \in [Clients -> {"idle"} \cup Reading \cup Saving]
         /\ on' \in [Clients -> Keys]
         /\ loaded' \in [Clients -> {"none", "current", "old"}]
         /\ batch' \in [Clients -> SUBSET Keys]
         /\ tx' \in [Clients -> BOOLEAN]
         /\ clean' \in [Clients -> BOOLEAN]
<1>1. CASE tx[c]
  BY <1>1 DEF TypeOK, Invalidated
<1>2. CASE ~tx[c]
  BY <1>2, SomeKeyType DEF TypeOK, Invalidated, Return
<1> QED BY <1>1, <1>2

LEMMA MembersStep == ASSUME TaggedAssumption, IInv, NEW c \in Clients, Members(c) PROVE IInv'
<1>1. TypeOK'
  <2>1. CASE members = {}
    BY <2>1, InvalidatedType DEF IInv, TypeOK, Members
  <2>2. CASE members # {}
    BY <2>2 DEF IInv, TypeOK, Members
  <2> QED BY <2>1, <2>2
<1>2. Timed'
  BY DEF IInv, TypeOK, Timed, Live, TaggedAssumption, Members, Invalidated, Return
<1>3. Undisturbed'
  BY DEF IInv, TypeOK, Undisturbed, Members, Invalidated, Return
<1>4. Right'
  BY DEF IInv, TypeOK, Undisturbed, Right, Live, Members, Invalidated, Return
<1>5. Covered'
  BY DEF IInv, TypeOK, Timed, Covered, Right, Live, TaggedAssumption, Members, Invalidated, Return
<1>6. Pending'
  BY DEF IInv, TypeOK, Undisturbed, Covered, Pending, Live, Members, Invalidated, Return
<1>7. Overdue'
  BY DEF IInv, TypeOK, Undisturbed, Right, Covered, Pending, Overdue, Live, Members, Invalidated, Return
<1> QED BY <1>1, <1>2, <1>3, <1>4, <1>5, <1>6, <1>7 DEF IInv

LEMMA MembersFailsStep == ASSUME TaggedAssumption, IInv, NEW c \in Clients, MembersFails(c) PROVE IInv'
<1>1. TypeOK'
  BY InvalidatedType DEF IInv, TypeOK, MembersFails
<1>2. Timed'
  BY DEF IInv, TypeOK, Timed, Live, TaggedAssumption, MembersFails, Invalidated, Return
<1>3. Undisturbed'
  BY DEF IInv, TypeOK, Undisturbed, MembersFails, Invalidated, Return
<1>4. Right'
  BY DEF IInv, TypeOK, Undisturbed, Right, Live, MembersFails, Invalidated, Return
<1>5. Covered'
  BY DEF IInv, TypeOK, Timed, Covered, Right, Live, TaggedAssumption, MembersFails, Invalidated, Return
<1>6. Pending'
  BY DEF IInv, TypeOK, Undisturbed, Covered, Pending, Live, MembersFails, Invalidated, Return
<1>7. Overdue'
  BY DEF IInv, TypeOK, Undisturbed, Right, Covered, Pending, Overdue, Live, MembersFails, Invalidated, Return
<1> QED BY <1>1, <1>2, <1>3, <1>4, <1>5, <1>6, <1>7 DEF IInv

LEMMA DeleteMemberStep == ASSUME TaggedAssumption, IInv, NEW c \in Clients, DeleteMember(c) PROVE IInv'
<1>1. TypeOK'
  BY SomeKeyType DEF IInv, TypeOK, TaggedAssumption, DeleteMember, Gone, Done
<1>2. Timed'
  BY DEF IInv, TypeOK, Timed, Live, TaggedAssumption, DeleteMember, Gone, Done
<1>3. Undisturbed'
  BY DEF IInv, TypeOK, Undisturbed, DeleteMember, Gone, Done
<1>4. Right'
  BY DEF IInv, TypeOK, Undisturbed, Right, Live, DeleteMember, Gone, Done
<1>5. Covered'
  BY DEF IInv, TypeOK, Timed, Covered, Right, Live, TaggedAssumption, DeleteMember, Gone, Done
<1>6. Pending'
  BY DEF IInv, TypeOK, Undisturbed, Covered, Pending, Live, DeleteMember, Gone, Done
<1>7. Overdue'
  BY DEF IInv, TypeOK, Undisturbed, Right, Covered, Pending, Overdue, Live, DeleteMember, Gone, Done
<1> QED BY <1>1, <1>2, <1>3, <1>4, <1>5, <1>6, <1>7 DEF IInv

LEMMA DeleteMemberFailsStep == ASSUME TaggedAssumption, IInv, NEW c \in Clients, DeleteMemberFails(c) PROVE IInv'
<1>1. TypeOK'
  BY SomeKeyType DEF IInv, TypeOK, TaggedAssumption, DeleteMemberFails, Done
<1>2. Timed'
  BY DEF IInv, TypeOK, Timed, Live, TaggedAssumption, DeleteMemberFails, Done
<1>3. Undisturbed'
  BY DEF IInv, TypeOK, Undisturbed, DeleteMemberFails, Done
<1>4. Right'
  BY DEF IInv, TypeOK, Undisturbed, Right, Live, DeleteMemberFails, Done
<1>5. Covered'
  BY DEF IInv, TypeOK, Timed, Covered, Right, Live, TaggedAssumption, DeleteMemberFails, Done
<1>6. Pending'
  BY DEF IInv, TypeOK, Undisturbed, Covered, Pending, Live, DeleteMemberFails, Done
<1>7. Overdue'
  BY DEF IInv, TypeOK, Undisturbed, Right, Covered, Pending, Overdue, Live, DeleteMemberFails, Done
<1> QED BY <1>1, <1>2, <1>3, <1>4, <1>5, <1>6, <1>7 DEF IInv

LEMMA DropTagStep == ASSUME TaggedAssumption, IInv, NEW c \in Clients, DropTag(c) PROVE IInv'
<1>1. TypeOK'
  BY InvalidatedType DEF IInv, TypeOK, DropTag
<1>2. Timed'
  BY DEF IInv, TypeOK, Timed, Live, TaggedAssumption, DropTag, Invalidated, Return
<1>3. Undisturbed'
  BY DEF IInv, TypeOK, Undisturbed, DropTag, Invalidated, Return
<1>4. Right'
  BY DEF IInv, TypeOK, Undisturbed, Right, Live, DropTag, Invalidated, Return
<1>5. Covered'
  BY DEF IInv, TypeOK, Covered, Pending, Live, DropTag
<1>6. Pending'
  BY DEF IInv, TypeOK, Undisturbed, Covered, Pending, Live, DropTag, Invalidated, Return
<1>7. Overdue'
  BY DEF IInv, TypeOK, Undisturbed, Right, Covered, Pending, Overdue, Live, DropTag, Invalidated, Return
<1> QED BY <1>1, <1>2, <1>3, <1>4, <1>5, <1>6, <1>7 DEF IInv

LEMMA DropTagFailsStep == ASSUME TaggedAssumption, IInv, NEW c \in Clients, DropTagFails(c) PROVE IInv'
<1>1. TypeOK'
  BY InvalidatedType DEF IInv, TypeOK, DropTagFails
<1>2. Timed'
  BY DEF IInv, TypeOK, Timed, Live, TaggedAssumption, DropTagFails, Invalidated, Return
<1>3. Undisturbed'
  BY DEF IInv, TypeOK, Undisturbed, DropTagFails, Invalidated, Return
<1>4. Right'
  BY DEF IInv, TypeOK, Undisturbed, Right, Live, DropTagFails, Invalidated, Return
<1>5. Covered'
  BY DEF IInv, TypeOK, Timed, Covered, Right, Live, TaggedAssumption, DropTagFails, Invalidated, Return
<1>6. Pending'
  BY DEF IInv, TypeOK, Undisturbed, Covered, Pending, Live, DropTagFails, Invalidated, Return
<1>7. Overdue'
  BY DEF IInv, TypeOK, Undisturbed, Right, Covered, Pending, Overdue, Live, DropTagFails, Invalidated, Return
<1> QED BY <1>1, <1>2, <1>3, <1>4, <1>5, <1>6, <1>7 DEF IInv

LEMMA CommitStep == ASSUME TaggedAssumption, IInv, NEW c \in Clients, Commit(c) PROVE IInv'
<1>1. TypeOK'
  BY SomeKeyType DEF IInv, TypeOK, TaggedAssumption, Commit, Commits, Outdate
<1>2. Timed'
  BY DEF IInv, TypeOK, Timed, Live, TaggedAssumption, Commit, Commits, Outdate
<1>3. Undisturbed'
  BY DEF IInv, TypeOK, Undisturbed, Commit, Commits, Outdate
<1>4. Right'
  BY DEF IInv, TypeOK, Undisturbed, Right, Live, Commit, Commits, Outdate
<1>5. Covered'
  BY DEF IInv, TypeOK, Timed, Covered, Right, Live, TaggedAssumption, Commit, Commits, Outdate
<1>6. Pending'
  BY DEF IInv, TypeOK, Undisturbed, Covered, Pending, Live, Commit, Commits, Outdate
<1>7. Overdue'
  BY DEF IInv, TypeOK, Undisturbed, Right, Covered, Pending, Overdue, Live, Commit, Commits, Outdate
<1> QED BY <1>1, <1>2, <1>3, <1>4, <1>5, <1>6, <1>7 DEF IInv

LEMMA RollbackStep == ASSUME TaggedAssumption, IInv, NEW c \in Clients, Rollback(c) PROVE IInv'
<1>1. TypeOK'
  BY SomeKeyType DEF IInv, TypeOK, TaggedAssumption, Rollback, Return
<1>2. Timed'
  BY DEF IInv, TypeOK, Timed, Live, TaggedAssumption, Rollback, Return
<1>3. Undisturbed'
  BY DEF IInv, TypeOK, Undisturbed, Rollback, Return
<1>4. Right'
  BY DEF IInv, TypeOK, Undisturbed, Right, Live, Rollback, Return
<1>5. Covered'
  BY DEF IInv, TypeOK, Timed, Covered, Right, Live, TaggedAssumption, Rollback, Return
<1>6. Pending'
  BY DEF IInv, TypeOK, Undisturbed, Covered, Pending, Live, Rollback, Return
<1>7. Overdue'
  BY DEF IInv, TypeOK, Undisturbed, Right, Covered, Pending, Overdue, Live, Rollback, Return
<1> QED BY <1>1, <1>2, <1>3, <1>4, <1>5, <1>6, <1>7 DEF IInv

LEMMA CrashStep == ASSUME TaggedAssumption, IInv, NEW c \in Clients, Crash(c) PROVE IInv'
<1>1. TypeOK'
  BY SomeKeyType DEF IInv, TypeOK, TaggedAssumption, Crash, Return
<1>2. Timed'
  BY DEF IInv, TypeOK, Timed, Live, TaggedAssumption, Crash, Return
<1>3. Undisturbed'
  BY DEF IInv, TypeOK, Undisturbed, Crash, Return
<1>4. Right'
  BY DEF IInv, TypeOK, Undisturbed, Right, Live, Crash, Return
<1>5. Covered'
  BY DEF IInv, TypeOK, Timed, Covered, Right, Live, TaggedAssumption, Crash, Return
<1>6. Pending'
  BY DEF IInv, TypeOK, Undisturbed, Covered, Pending, Live, Crash, Return
<1>7. Overdue'
  BY DEF IInv, TypeOK, Undisturbed, Right, Covered, Pending, Overdue, Live, Crash, Return
<1> QED BY <1>1, <1>2, <1>3, <1>4, <1>5, <1>6, <1>7 DEF IInv

LEMMA DeleteStep == ASSUME TaggedAssumption, IInv, NEW k \in Keys, Delete(k) PROVE IInv'
<1>1. TypeOK' /\ Timed'
  BY DEF IInv, TypeOK, Timed, Live, Delete, Gone
<1>2. Undisturbed' /\ Right'
  BY DEF IInv, TypeOK, Undisturbed, Right, Live, Delete, Gone
<1>3. Covered' /\ Pending' /\ Overdue'
  BY DEF IInv, TypeOK, Covered, Pending, Overdue, Live, Delete, Gone
<1> QED BY <1>1, <1>2, <1>3 DEF IInv

LEMMA ClearStep == ASSUME TaggedAssumption, IInv, Clear PROVE IInv'
<1>1. TypeOK' /\ Timed'
  BY DEF IInv, TypeOK, Timed, Live, Clear
<1>2. Undisturbed' /\ Right'
  BY DEF IInv, TypeOK, Undisturbed, Right, Live, Clear
<1>3. Covered' /\ Pending' /\ Overdue'
  BY DEF IInv, TypeOK, Covered, Pending, Overdue, Live, Clear
<1> QED BY <1>1, <1>2, <1>3 DEF IInv

LEMMA TickStep == ASSUME TaggedAssumption, IInv, Tick PROVE IInv'
<1>1. \A k \in Keys : /\ ttl[k] \in Nat /\ ttl'[k] = Minus(ttl[k]) /\ ttl'[k] \in Nat
                      /\ value'[k] = (IF ttl[k] = 1 THEN "none" ELSE value[k])
                      /\ ttl[k] > 0 => ttl'[k] = ttl[k] - 1
  <2> TAKE k \in Keys
  <2>1. ttl[k] \in Nat
    BY DEF IInv, TypeOK
  <2>2. ttl'[k] = Minus(ttl[k]) /\ value'[k] = IF ttl[k] = 1 THEN "none" ELSE value[k]
    BY DEF Tick
  <2> QED BY <2>1, <2>2, MinusType
<1>2. /\ tagttl \in Nat /\ tagttl' = Minus(tagttl) /\ tagttl' \in Nat
      /\ tagttl > 0 => tagttl' = tagttl - 1
      /\ tagttl = 0 => tagttl' = 0
  <2>1. tagttl \in Nat /\ tagttl' = Minus(tagttl)
    BY DEF IInv, TypeOK, Tick
  <2> QED BY <2>1, MinusType
<1>3. /\ members' = IF tagttl = 1 THEN {} ELSE members
      /\ UNCHANGED <<at, on, loaded, batch, tx, tracked>>
      /\ clean' = [c \in Clients |-> clean[c] /\ at[c] # "expire"]
      /\ value' = [k \in Keys |-> IF ttl[k] = 1 THEN "none" ELSE value[k]]
      /\ ttl' = [k \in Keys |-> Minus(ttl[k])]
  BY DEF Tick
<1>4. /\ \A c \in Clients : clean'[c] => clean[c] /\ at[c] # "expire"
      /\ clean' \in [Clients -> BOOLEAN]
  <2>1. \A c \in Clients : (clean[c] /\ at[c] # "expire") \in BOOLEAN
    BY Zenon DEF IInv, TypeOK
  <2>2. clean' \in [Clients -> BOOLEAN]
    BY <2>1, <1>3, Zenon
  <2>3. ASSUME NEW c \in Clients, clean'[c]
        PROVE  clean[c] /\ at[c] # "expire"
    <3>1. clean'[c] = (clean[c] /\ at[c] # "expire")
      BY <1>3, Zenon
    <3> QED BY <3>1, <2>3
  <2> QED BY <2>2, <2>3
<1>5. TypeOK'
  <2>1. value' \in [Keys -> {"none", "current", "old"}]
    BY <1>3 DEF IInv, TypeOK
  <2>2. ttl' \in [Keys -> Nat]
    BY <1>1, <1>3
  <2> QED BY <2>1, <2>2, <1>2, <1>3, <1>4 DEF IInv, TypeOK
<1>6. Timed'
  BY <1>1 DEF IInv, TypeOK, Timed, Live, TaggedAssumption
<1>7. Undisturbed'
  BY <1>3, <1>4 DEF IInv, Undisturbed
<1>8. Right'
  BY <1>1, <1>3, <1>4 DEF IInv, TypeOK, Undisturbed, Right, Live
<1>9. Covered'
  <2> SUFFICES ASSUME NEW k \in tracked, Live(k)'
               PROVE  k \in members' /\ (tagttl' = 0 \/ ttl'[k] <= tagttl')
    BY <1>3 DEF Covered
  <2>1. k \in Keys /\ Live(k) /\ ttl[k] # 1
    BY <1>1 DEF IInv, TypeOK, Live
  <2>2. k \in members /\ (tagttl = 0 \/ ttl[k] <= tagttl) /\ ttl[k] > 0
    BY <2>1 DEF IInv, Covered, Timed
  <2> QED BY <1>1, <1>2, <1>3, <2>1, <2>2
<1>10. Pending' /\ Overdue'
  BY <1>1, <1>3 DEF IInv, TypeOK, Pending, Overdue, Live
<1> QED BY <1>5, <1>6, <1>7, <1>8, <1>9, <1>10 DEF IInv

LEMMA NextStep == ASSUME TaggedAssumption, IInv, [Next]_vars PROVE IInv'
<1>1. CASE UNCHANGED vars
  BY <1>1 DEF vars, IInv, TypeOK, Timed, Undisturbed, Right, Covered, Pending, Overdue, Live
<1>2. ASSUME NEW c \in Clients, Step(c)
      PROVE  IInv'
  BY <1>2, SetValueStep, SetFailsStep, AddTagStep, AddTagFailsStep, ExpireTagStep,
     ExpireTagFailsStep, MembersStep, MembersFailsStep, DeleteMemberStep,
     DeleteMemberFailsStep, DropTagStep, DropTagFailsStep, CommitStep, RollbackStep DEF Step
<1>3. Readers \subseteq Clients /\ Savers \subseteq Clients
  BY DEF Clients
<1> QED
  BY <1>1, <1>2, <1>3, LoadStep, SaveStep, CrashStep, DeleteStep, ClearStep, TickStep DEF Next

LEMMA Invariance == Spec => []IInv
<1>1. Init => IInv
  BY InitIInv, TaggedAssumption
<1>2. IInv /\ [Next]_vars => IInv'
  BY NextStep, TaggedAssumption
<1> QED BY <1>1, <1>2, PTL DEF Spec

(* Every reachable state has the types of the model. *)
THEOREM TypeCorrect == Spec => []TypeOK
<1>1. IInv => TypeOK
  BY DEF IInv
<1> QED BY <1>1, Invariance, PTL

(* Whoever reads, saves and crashes in whatever order: an invalidation     *)
(* misses only keys that the exceptions of NoneMissed name.                *)
THEOREM InvalidationComplete == Spec => []NoneMissed
<1>1. IInv => NoneMissed
  BY DEF IInv, Overdue, NoneMissed
<1> QED BY <1>1, Invariance, PTL

=============================================================================
