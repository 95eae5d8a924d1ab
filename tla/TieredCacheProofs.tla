-------------------------- MODULE TieredCacheProofs --------------------------
(***************************************************************************)
(* Theorems about TieredCache, for any keys, values, processes, threads    *)
(* and dictionary sizes.                                                   *)
(***************************************************************************)
EXTENDS TieredCache, TLAPS, SequenceTheorems

(* A thread that looks for a key looks for one, and promotes what it found.*)
Looking ==
  \A c \in Clients : at[c] \in {"fetch", "promote"} =>
    /\ \E k \in Keys : on[c] = {k}
    /\ at[c] = "promote" => with[c] \in Values

(* Nothing overlaps a write that is alone. *)
Lone ==
  \A c \in Clients : alone[c] =>
    at[c] = "write" /\ \A d \in Clients : d # c => on[d] \cap on[c] = {}

(* Nothing is settled of a key that is being written. *)
Open == \A c \in Clients : at[c] = "write" => \A k \in on[c] : settled[k] = Unknown

(* What is settled is what Redis gives back. *)
Normal == \A k \in Keys : settled[k] \in Values => Json[settled[k]] = settled[k]

Bounded(s) ==
  /\ s \in Seq(Entry) /\ Len(s) <= L1Size
  /\ \A i, j \in 1 .. Len(s) : s[i].key = s[j].key => i = j

IInv ==
  /\ TypeOK /\ L1Bounded /\ Settled
  /\ Looking /\ Lone /\ Open /\ Normal

-----------------------------------------------------------------------------
(* The dictionary. *)

LEMMA RemoveAtFacts ==
  ASSUME NEW S, NEW s \in Seq(S), NEW i \in 1 .. Len(s)
  PROVE  /\ RemoveAt(s, i) \in Seq(S)
         /\ Len(RemoveAt(s, i)) = Len(s) - 1
         /\ \A j \in 1 .. Len(s) - 1 : RemoveAt(s, i)[j] = IF j < i THEN s[j] ELSE s[j + 1]
<1> DEFINE t == SubSeq(s, 1, i - 1)
           u == SubSeq(s, i + 1, Len(s))
<1>1. /\ t \in Seq(S) /\ Len(t) = i - 1
      /\ \A j \in 1 .. i - 1 : t[j] = s[j]
  <2>1. \A j \in 1 .. i - 1 : s[j] \in S
    BY ElementOfSeq
  <2>2. 1 \in Int /\ i - 1 \in Int
    OBVIOUS
  <2> QED BY <2>1, <2>2, SubSeqProperties
<1>2. /\ u \in Seq(S) /\ Len(u) = Len(s) - i
      /\ \A j \in 1 .. Len(s) - i : u[j] = s[j + i]
  <2>1. \A j \in i + 1 .. Len(s) : s[j] \in S
    BY ElementOfSeq
  <2>2. i + 1 \in Int /\ Len(s) \in Int
    OBVIOUS
  <2>3. /\ u \in Seq(S) /\ Len(u) = IF i + 1 <= Len(s) THEN Len(s) - (i + 1) + 1 ELSE 0
        /\ \A j \in 1 .. Len(s) - (i + 1) + 1 : u[j] = s[(i + 1) + j - 1]
    BY <2>1, <2>2, SubSeqProperties
  <2> QED BY <2>3
<1>3. RemoveAt(s, i) = t \o u
  BY DEF RemoveAt
<1>4. /\ t \o u \in Seq(S) /\ Len(t \o u) = Len(t) + Len(u)
      /\ \A j \in 1 .. Len(t) + Len(u) : (t \o u)[j] = IF j <= Len(t) THEN t[j] ELSE u[j - Len(t)]
  BY <1>1, <1>2, ConcatProperties
<1> HIDE DEF t, u
<1>5. ASSUME NEW j \in 1 .. Len(s) - 1
      PROVE  (t \o u)[j] = IF j < i THEN s[j] ELSE s[j + 1]
  <2>1. CASE j < i
    BY <2>1, <1>1, <1>2, <1>4
  <2>2. CASE ~(j < i)
    <3>1. j - (i - 1) \in 1 .. Len(s) - i
      BY <2>2
    <3>2. u[j - (i - 1)] = s[(j - (i - 1)) + i]
      BY <3>1, <1>2
    <3>3. (j - (i - 1)) + i = j + 1
      OBVIOUS
    <3> QED BY <2>2, <3>2, <3>3, <1>1, <1>2, <1>4
  <2> QED BY <2>1, <2>2
<1> QED BY <1>1, <1>2, <1>3, <1>4, <1>5

LEMMA PlaceFacts ==
  ASSUME NEW s \in Seq(Entry), NEW k \in Keys, Has(s, k)
  PROVE  Place(s, k) \in 1 .. Len(s) /\ s[Place(s, k)].key = k
  BY DEF Has, Place, Places

(* Without the entry of k the dictionary is as it was, but one shorter. *)
LEMMA WithoutFacts ==
  ASSUME NEW s, Bounded(s), NEW k \in Keys
  PROVE  /\ Bounded(Without(s, k)) /\ ~Has(Without(s, k), k)
         /\ Len(Without(s, k)) <= Len(s)
         /\ Has(s, k) => Without(s, k) = RemoveAt(s, Place(s, k)) /\ Len(Without(s, k)) = Len(s) - 1
         /\ \A i \in 1 .. Len(Without(s, k)) : \E j \in 1 .. Len(s) : Without(s, k)[i] = s[j]
<1>1. CASE ~Has(s, k)
  BY <1>1 DEF Without, Bounded
<1>2. CASE Has(s, k)
  <2> DEFINE p == Place(s, k)
             t == RemoveAt(s, p)
  <2>1. p \in 1 .. Len(s) /\ s[p].key = k /\ s \in Seq(Entry)
    BY <1>2, PlaceFacts DEF Bounded
  <2>2. /\ t \in Seq(Entry) /\ Len(t) = Len(s) - 1
        /\ \A j \in 1 .. Len(s) - 1 : t[j] = IF j < p THEN s[j] ELSE s[j + 1]
    BY <2>1, RemoveAtFacts
  <2>3. Without(s, k) = t
    BY <1>2 DEF Without
  <2> HIDE DEF p, t
  <2>4. /\ \A i, j \in 1 .. Len(s) : s[i].key = s[j].key => i = j
        /\ Len(s) <= L1Size /\ Len(s) \in Nat /\ L1Size \in Nat
    BY <2>1, TieredAssumption DEF Bounded
  <2>5. ASSUME NEW i \in 1 .. Len(t)
        PROVE  \E j \in 1 .. Len(s) : j # p /\ (j = i \/ j = i + 1) /\ (j = i <=> i < p) /\ t[i] = s[j]
    <3>1. CASE i < p
      BY <3>1, <2>1, <2>2, <2>4
    <3>2. CASE ~(i < p)
      BY <3>2, <2>1, <2>2, <2>4
    <3> QED BY <3>1, <3>2
  <2>6. ASSUME NEW i \in 1 .. Len(t), NEW j \in 1 .. Len(t), t[i].key = t[j].key
        PROVE  i = j
    <3>1. PICK a \in 1 .. Len(s) : (a = i \/ a = i + 1) /\ (a = i <=> i < p) /\ t[i] = s[a]
      BY <2>5
    <3>2. PICK b \in 1 .. Len(s) : (b = j \/ b = j + 1) /\ (b = j <=> j < p) /\ t[j] = s[b]
      BY <2>5
    <3>3. a = b
      BY <3>1, <3>2, <2>4, <2>6
    <3> QED BY <3>1, <3>2, <3>3, <2>1
  <2>7. ~Has(t, k)
    <3> SUFFICES ASSUME NEW i \in 1 .. Len(t), t[i].key = k PROVE FALSE
      BY DEF Has, Places
    <3>1. PICK j \in 1 .. Len(s) : j # p /\ t[i] = s[j]
      BY <2>5
    <3> QED BY <3>1, <2>1, <2>4
  <2>8. Bounded(t)
    BY <2>2, <2>4, <2>6 DEF Bounded
  <2>9. p = Place(s, k) /\ t = RemoveAt(s, Place(s, k))
    BY DEF p, t
  <2>10. \A i \in 1 .. Len(t) : \E j \in 1 .. Len(s) : t[i] = s[j]
    BY <2>5
  <2> QED BY <2>2, <2>3, <2>4, <2>7, <2>8, <2>9, <2>10
<1> QED BY <1>1, <1>2

LEMMA WithoutSubset ==
  ASSUME NEW s, Bounded(s), NEW k \in Keys, NEW i \in 1 .. Len(Without(s, k))
  PROVE  \E j \in 1 .. Len(s) : Without(s, k)[i] = s[j]
  BY WithoutFacts

(* A sequence with distinct keys, and one more whose key it has not. *)
LEMMA AppendFacts ==
  ASSUME NEW s \in Seq(Entry), NEW e \in Entry,
         \A i, j \in 1 .. Len(s) : s[i].key = s[j].key => i = j,
         \A i \in 1 .. Len(s) : s[i].key # e.key
  PROVE  /\ Append(s, e) \in Seq(Entry) /\ Len(Append(s, e)) = Len(s) + 1
         /\ \A i, j \in 1 .. Len(s) + 1 : Append(s, e)[i].key = Append(s, e)[j].key => i = j
         /\ \A i \in 1 .. Len(s) + 1 :
              Append(s, e)[i] = e \/ \E j \in 1 .. Len(s) : Append(s, e)[i] = s[j]
<1> DEFINE t == Append(s, e)
<1>1. /\ t \in Seq(Entry) /\ Len(t) = Len(s) + 1
      /\ \A i \in 1 .. Len(s) : t[i] = s[i]
      /\ t[Len(s) + 1] = e
  BY AppendProperties
<1>2. Len(s) \in Nat
  OBVIOUS
<1> HIDE DEF t
<1>3. \A i \in 1 .. Len(s) + 1 : i \in 1 .. Len(s) \/ i = Len(s) + 1
  BY <1>2
<1>4. ASSUME NEW i \in 1 .. Len(s) + 1, NEW j \in 1 .. Len(s) + 1, t[i].key = t[j].key
      PROVE  i = j
  <2>1. CASE i \in 1 .. Len(s) /\ j \in 1 .. Len(s)
    BY <2>1, <1>1, <1>4
  <2>2. CASE i = Len(s) + 1 /\ j = Len(s) + 1
    BY <2>2
  <2>3. CASE i \in 1 .. Len(s) /\ j = Len(s) + 1
    BY <2>3, <1>1, <1>4
  <2>4. CASE i = Len(s) + 1 /\ j \in 1 .. Len(s)
    BY <2>4, <1>1, <1>4
  <2> QED BY <1>3, <2>1, <2>2, <2>3, <2>4
<1>5. \A i \in 1 .. Len(s) + 1 : t[i] = e \/ \E j \in 1 .. Len(s) : t[i] = s[j]
  BY <1>1, <1>3
<1>6. t = Append(s, e)
  BY DEF t
<1> QED BY <1>1, <1>4, <1>5, <1>6

LEMMA ToEndFacts ==
  ASSUME NEW s, Bounded(s), NEW k \in Keys, Has(s, k)
  PROVE  /\ Bounded(ToEnd(s, k))
         /\ \A i \in 1 .. Len(ToEnd(s, k)) : \E j \in 1 .. Len(s) : ToEnd(s, k)[i] = s[j]
<1> DEFINE t == Without(s, k)
           e == s[Place(s, k)]
<1>1. /\ Bounded(t) /\ ~Has(t, k) /\ t = RemoveAt(s, Place(s, k)) /\ Len(t) = Len(s) - 1
      /\ \A i \in 1 .. Len(t) : \E j \in 1 .. Len(s) : t[i] = s[j]
  BY WithoutFacts
<1>2. s \in Seq(Entry) /\ Place(s, k) \in 1 .. Len(s) /\ e.key = k
  BY PlaceFacts DEF Bounded
<1>3. e \in Entry
  BY <1>2, ElementOfSeq
<1>4. ToEnd(s, k) = Append(t, e)
  BY <1>1 DEF ToEnd
<1>5. Len(s) <= L1Size /\ Len(s) \in Nat
  BY <1>2 DEF Bounded
<1>6. \E j \in 1 .. Len(s) : e = s[j]
  BY <1>2
<1> HIDE DEF t, e
<1>7. \A i \in 1 .. Len(t) : t[i].key # e.key
  BY <1>1, <1>2 DEF Has, Places
<1>8. /\ Append(t, e) \in Seq(Entry) /\ Len(Append(t, e)) = Len(t) + 1
      /\ \A i, j \in 1 .. Len(t) + 1 : Append(t, e)[i].key = Append(t, e)[j].key => i = j
      /\ \A i \in 1 .. Len(t) + 1 :
           Append(t, e)[i] = e \/ \E j \in 1 .. Len(t) : Append(t, e)[i] = t[j]
  BY <1>1, <1>3, <1>7, AppendFacts DEF Bounded
<1>9. Bounded(Append(t, e))
  BY <1>1, <1>5, <1>8 DEF Bounded
<1>10. \A i \in 1 .. Len(Append(t, e)) : \E j \in 1 .. Len(s) : Append(t, e)[i] = s[j]
  BY <1>1, <1>6, <1>8
<1> QED BY <1>4, <1>9, <1>10

LEMMA PutFacts ==
  ASSUME NEW s, Bounded(s), NEW k \in Keys, NEW v \in Values
  PROVE  /\ Bounded(Put(s, k, v))
         /\ \A i \in 1 .. Len(Put(s, k, v)) :
              \/ Put(s, k, v)[i] = [key |-> k, value |-> v]
              \/ \E j \in 1 .. Len(s) : Put(s, k, v)[i] = s[j]
<1>1. CASE Has(s, k)
  BY <1>1, ToEndFacts DEF Put
<1>2. CASE ~Has(s, k)
  <2> DEFINE e == [key |-> k, value |-> v]
             t == Append(s, e)
  <2>1. e \in Entry /\ e.key = k
    BY DEF Entry
  <2>2. s \in Seq(Entry) /\ Len(s) <= L1Size /\ Len(s) \in Nat /\ L1Size \in Nat
    BY TieredAssumption DEF Bounded
  <2>3. Put(s, k, v) = IF Len(t) > L1Size THEN Tail(t) ELSE t
    BY <1>2 DEF Put
  <2> HIDE DEF e
  <2>4. \A i \in 1 .. Len(s) : s[i].key # e.key
    BY <1>2, <2>1 DEF Has, Places
  <2>5. /\ t \in Seq(Entry) /\ Len(t) = Len(s) + 1
        /\ \A i, j \in 1 .. Len(s) + 1 : t[i].key = t[j].key => i = j
        /\ \A i \in 1 .. Len(s) + 1 : t[i] = e \/ \E j \in 1 .. Len(s) : t[i] = s[j]
    BY <2>1, <2>2, <2>4, AppendFacts DEF Bounded
  <2> HIDE DEF t
  <2>6. CASE Len(t) > L1Size
    <3>1. /\ Tail(t) \in Seq(Entry) /\ Len(Tail(t)) = Len(t) - 1
          /\ \A i \in 1 .. Len(Tail(t)) : Tail(t)[i] = t[i + 1]
      BY <2>2, <2>5, HeadTailProperties
    <3>2. \A i \in 1 .. Len(Tail(t)) : i + 1 \in 1 .. Len(s) + 1
      BY <2>2, <2>5, <3>1
    <3>3. ASSUME NEW i \in 1 .. Len(Tail(t)), NEW j \in 1 .. Len(Tail(t)),
                 Tail(t)[i].key = Tail(t)[j].key
          PROVE  i = j
      <4>1. i + 1 = j + 1
        BY <2>5, <3>1, <3>2, <3>3
      <4> QED BY <4>1
    <3>4. Bounded(Tail(t))
      BY <2>2, <2>5, <3>1, <3>3 DEF Bounded
    <3>5. \A i \in 1 .. Len(Tail(t)) : Tail(t)[i] = e \/ \E j \in 1 .. Len(s) : Tail(t)[i] = s[j]
      BY <2>5, <3>1, <3>2
    <3> QED BY <2>3, <2>6, <3>4, <3>5 DEF e
  <2>7. CASE ~(Len(t) > L1Size)
    <3>1. Bounded(t)
      BY <2>2, <2>5, <2>7 DEF Bounded
    <3> QED BY <2>3, <2>5, <2>7, <3>1 DEF e
  <2> QED BY <2>6, <2>7
<1> QED BY <1>1, <1>2

-----------------------------------------------------------------------------
(* The steps. *)

L1OK == l1 \in [Procs -> Seq(Entry)] /\ L1Bounded

OpType ==
  /\ at \in [Clients -> {"idle", "fetch", "promote", "write"}]
  /\ on \in [Clients -> SUBSET Keys]
  /\ with \in [Clients -> Values \cup {None}]
  /\ alone \in [Clients -> BOOLEAN]

Ops == OpType /\ Looking /\ Lone

Redis ==
  /\ l2 \in [Keys -> Values \cup {None}]
  /\ settled \in [Keys -> Values \cup {None, Unknown}]
  /\ Settled /\ Open /\ Normal

LEMMA Parts == IInv <=> L1OK /\ Ops /\ Redis
  BY DEF IInv, TypeOK, L1OK, Ops, OpType, Redis

LEMMA PartsNext == IInv' <=> (L1OK' /\ Ops' /\ Redis')
  BY DEF IInv, TypeOK, L1OK, Ops, OpType, Redis

LEMMA L1Parts == ASSUME L1OK, NEW p \in Procs PROVE Bounded(l1[p])
  BY DEF L1OK, L1Bounded, Bounded

LEMMA L1Set ==
  ASSUME L1OK, NEW p \in Procs, NEW s, Bounded(s), l1' = [l1 EXCEPT ![p] = s]
  PROVE  L1OK'
<1>1. \A q \in Procs : l1'[q] = IF q = p THEN s ELSE l1[q]
  BY DEF L1OK
<1>2. \A q \in Procs : Bounded(l1'[q])
  BY <1>1, L1Parts
<1>3. l1' \in [Procs -> Seq(Entry)]
  BY DEF L1OK, Bounded
<1> QED BY <1>2, <1>3 DEF L1OK, L1Bounded, Bounded

LEMMA HomeType == ASSUME NEW c \in Clients PROVE Home[c] \in Procs
  BY TieredAssumption

LEMMA SetL1Step ==
  ASSUME L1OK, NEW c \in Clients, NEW k \in Keys, NEW v \in Values, SetL1(c, k, v)
  PROVE  L1OK'
<1>1. l1' = [l1 EXCEPT ![Home[c]] = Put(l1[Home[c]], k, v)] /\ Home[c] \in Procs
  BY HomeType DEF SetL1
<1>2. Bounded(Put(l1[Home[c]], k, v))
  BY <1>1, L1Parts, PutFacts
<1> QED BY <1>1, <1>2, L1Set

LEMMA BeginStep ==
  ASSUME Ops, NEW c \in Clients, NEW place \in {"fetch", "write"}, NEW K \in SUBSET Keys,
         NEW v \in Values \cup {None}, place = "fetch" => \E k \in Keys : K = {k},
         Begin(c, place, K, v)
  PROVE  /\ Ops'
         /\ \A d \in Clients : at'[d] = "write" =>
              (d = c /\ place = "write" /\ on'[d] = K) \/ (at[d] = "write" /\ on'[d] = on[d])
<1> DEFINE rivals == {d \in Clients \ {c} : on[d] \cap K # {}}
<1>1. /\ at' = [at EXCEPT ![c] = place]
      /\ on' = [on EXCEPT ![c] = K]
      /\ with' = [with EXCEPT ![c] = v]
      /\ alone' = [d \in Clients |-> IF d = c THEN place = "write" /\ rivals = {}
                                     ELSE alone[d] /\ d \notin rivals]
  BY DEF Begin
<1>2. alone' \in [Clients -> BOOLEAN]
  <2>1. \A d \in Clients : (IF d = c THEN place = "write" /\ rivals = {}
                                     ELSE alone[d] /\ d \notin rivals) \in BOOLEAN
    BY Zenon DEF Ops, OpType
  <2> QED BY <2>1, <1>1, Zenon
<1>3. \A d \in Clients : alone'[d] = (IF d = c THEN place = "write" /\ rivals = {}
                                              ELSE alone[d] /\ d \notin rivals)
  BY <1>1, Zenon
<1>4. \A d \in Clients : alone'[d] =>
         (IF d = c THEN place = "write" /\ rivals = {} ELSE alone[d] /\ d \notin rivals)
  BY <1>3, Zenon
<1>5. OpType'
  BY <1>1, <1>2 DEF Ops, OpType
<1>6. Looking'
  BY <1>1 DEF Ops, OpType, Looking
<1>7. \A d \in Clients : /\ at'[d] = IF d = c THEN place ELSE at[d]
                         /\ on'[d] = IF d = c THEN K ELSE on[d]
  BY <1>1 DEF Ops, OpType
<1>8. Lone'
  <2> SUFFICES ASSUME NEW d \in Clients, alone'[d]
               PROVE  at'[d] = "write" /\ \A e \in Clients : e # d => on'[e] \cap on'[d] = {}
    BY DEF Lone
  <2>1. CASE d = c
    BY <1>4, <1>7, <2>1
  <2>2. CASE d # c
    <3>1. alone[d] /\ d \notin rivals
      BY <1>4, <2>2
    <3> QED BY <1>7, <2>2, <3>1 DEF Ops, Lone
  <2> QED BY <2>1, <2>2
<1> QED BY <1>5, <1>6, <1>7, <1>8 DEF Ops

LEMMA EndStep ==
  ASSUME Ops, NEW c \in Clients, End(c)
  PROVE  /\ Ops'
         /\ \A d \in Clients : at'[d] # "idle" => d # c /\ at'[d] = at[d] /\ on'[d] = on[d] /\ with'[d] = with[d]
<1>1. OpType'
  BY DEF Ops, OpType, End
<1>2. Looking'
  BY DEF Ops, OpType, Looking, End
<1>3. Lone'
  BY DEF Ops, OpType, Lone, End
<1>4. \A d \in Clients : at'[d] # "idle" => d # c /\ at'[d] = at[d] /\ on'[d] = on[d] /\ with'[d] = with[d]
  BY DEF Ops, OpType, End
<1> QED BY <1>1, <1>2, <1>3, <1>4 DEF Ops

(* Redis as it was, and no new writes. *)
LEMMA RedisKept ==
  ASSUME Redis, UNCHANGED <<l2, settled>>,
         \A d \in Clients : at'[d] = "write" => at[d] = "write" /\ on'[d] = on[d]
  PROVE  Redis'
  BY DEF Redis, Settled, Known, Open, Normal

LEMMA BeginWriteStep ==
  ASSUME Ops, Redis, NEW c \in Clients, NEW K \in SUBSET Keys, NEW v \in Values \cup {None},
         BeginWrite(c, K, v), UNCHANGED l2
  PROVE  Ops' /\ Redis'
<1>1. Begin(c, "write", K, v) /\ settled' = [k \in Keys |-> IF k \in K THEN Unknown ELSE settled[k]]
  BY DEF BeginWrite
<1>2. /\ Ops'
      /\ \A d \in Clients : at'[d] = "write" =>
           (d = c /\ on'[d] = K) \/ (at[d] = "write" /\ on'[d] = on[d])
  BY <1>1, BeginStep
<1>3. settled' \in [Keys -> Values \cup {None, Unknown}] /\ Settled'
  BY <1>1 DEF Redis, Settled, Known
<1>4. Open'
  <2>1. \A d \in Clients : on'[d] \subseteq Keys
    BY <1>2 DEF Ops, OpType
  <2> QED BY <1>1, <1>2, <2>1 DEF Redis, Open
<1>5. Normal'
  BY <1>1, TieredAssumption DEF Redis, Normal
<1> QED BY <1>2, <1>3, <1>4, <1>5 DEF Redis

LEMMA LeftType ==
  ASSUME Ops, NEW c \in Clients
  PROVE  /\ Left(c) \in Values \cup {None} /\ Left(c) # Unknown
         /\ Left(c) \in Values => Json[Left(c)] = Left(c)
  BY TieredAssumption DEF Left, Ops, OpType

(* A write ends in Redis, and the history may note it. *)
LEMMA WriteEnds ==
  ASSUME Ops, Redis, NEW c \in Clients, at[c] = "write", End(c),
         \/ l2' = Written(c) /\ Settle(c)
         \/ l2' \in {l2, Written(c)} /\ UNCHANGED settled
  PROVE  Ops' /\ Redis'
<1>1. /\ Ops'
      /\ \A d \in Clients : at'[d] # "idle" => d # c /\ at'[d] = at[d] /\ on'[d] = on[d]
  BY EndStep
<1>2. Left(c) \in Values \cup {None} /\ Left(c) # Unknown /\ (Left(c) \in Values => Json[Left(c)] = Left(c))
  BY LeftType
<1>3. l2' \in [Keys -> Values \cup {None}]
  BY <1>2 DEF Redis, Written
<1>4. settled' \in [Keys -> Values \cup {None, Unknown}]
  BY <1>2 DEF Redis, Settle
<1>5. \A k \in Keys : /\ k \notin on[c] => l2'[k] = l2[k] /\ settled'[k] = settled[k]
                      /\ k \in on[c] => settled[k] = Unknown
                      /\ k \in on[c] /\ settled'[k] # Unknown =>
                           settled'[k] = Left(c) /\ l2'[k] = Left(c) /\ alone[c]
  <2>1. \A k \in Keys : k \in on[c] => settled[k] = Unknown
    BY DEF Redis, Open
  <2>2. CASE l2' = Written(c) /\ Settle(c)
    BY <2>1, <2>2 DEF Written, Settle
  <2>3. CASE l2' \in {l2, Written(c)} /\ UNCHANGED settled
    BY <2>1, <2>3 DEF Written
  <2> QED BY <2>2, <2>3
<1>6. Settled'
  BY <1>5 DEF Redis, Settled, Known
<1>7. Open'
  <2> SUFFICES ASSUME NEW d \in Clients, at'[d] = "write", NEW k \in on'[d]
               PROVE  settled'[k] = Unknown
    BY DEF Open
  <2>1. d # c /\ at[d] = "write" /\ k \in on[d] /\ k \in Keys
    BY <1>1 DEF Ops, OpType
  <2>2. settled[k] = Unknown
    BY <2>1 DEF Redis, Open
  <2>3. CASE k \notin on[c]
    BY <2>1, <2>2, <2>3, <1>5
  <2>4. CASE k \in on[c]
    <3>1. ~alone[c]
      BY <2>1, <2>4 DEF Ops, Lone
    <3> QED BY <2>1, <2>4, <3>1, <1>5
  <2> QED BY <2>3, <2>4
<1>8. Normal'
  BY <1>2, <1>5 DEF Redis, Normal
<1> QED BY <1>1, <1>3, <1>4, <1>6, <1>7, <1>8 DEF Redis

LEMMA LookStep ==
  ASSUME IInv, NEW c \in Clients,
         Fetch(c) \/ (\E k \in Keys : GetMiss(c, k)) \/ FetchMiss(c)
  PROVE  IInv'
<1>1. L1OK /\ Ops /\ Redis
  BY Parts
<1>2. UNCHANGED <<l1, l2, settled>>
  BY DEF Fetch, GetMiss, FetchMiss
<1>3. L1OK'
  BY <1>1, <1>2 DEF L1OK, L1Bounded
<1>4. Ops' /\ \A d \in Clients : at'[d] = "write" => at[d] = "write" /\ on'[d] = on[d]
  <2>1. ASSUME NEW k \in Keys, GetMiss(c, k)
        PROVE  Ops' /\ \A d \in Clients : at'[d] = "write" => at[d] = "write" /\ on'[d] = on[d]
    <3>1. Begin(c, "fetch", {k}, None)
      BY <2>1 DEF GetMiss
    <3>2. {k} \in SUBSET Keys /\ "fetch" \in {"fetch", "write"} /\ None \in Values \cup {None}
      OBVIOUS
    <3>3. \E j \in Keys : {k} = {j}
      OBVIOUS
    <3> QED BY <1>1, <3>1, <3>2, <3>3, BeginStep
  <2>2. CASE FetchMiss(c)
    BY <1>1, <2>2, EndStep DEF FetchMiss
  <2>3. CASE Fetch(c)
    <3>1. PICK k \in on[c] : l2[k] # None /\ with' = [with EXCEPT ![c] = l2[k]]
      BY <2>3 DEF Fetch
    <3>2. l2[k] \in Values
      BY <1>1, <3>1 DEF Ops, OpType, Redis
    <3>3. at[c] = "fetch" /\ at' = [at EXCEPT ![c] = "promote"] /\ UNCHANGED <<on, alone>>
      BY <2>3 DEF Fetch
    <3>4. OpType'
      BY <1>1, <3>1, <3>2, <3>3 DEF Ops, OpType
    <3>5. Looking'
      BY <1>1, <3>1, <3>2, <3>3 DEF Ops, OpType, Looking
    <3>6. Lone' /\ \A d \in Clients : at'[d] = "write" => at[d] = "write" /\ on'[d] = on[d]
      BY <1>1, <3>3 DEF Ops, OpType, Lone
    <3> QED BY <3>4, <3>5, <3>6 DEF Ops
  <2> QED BY <2>1, <2>2, <2>3
<1>5. Redis'
  BY <1>1, <1>2, <1>4, RedisKept
<1> QED BY <1>3, <1>4, <1>5, PartsNext

LEMMA GetHitStep == ASSUME IInv, NEW c \in Clients, NEW k \in Keys, GetHit(c, k) PROVE IInv'
<1>1. L1OK /\ Ops /\ Redis
  BY Parts
<1>2. /\ Has(l1[Home[c]], k) /\ Home[c] \in Procs
      /\ l1' = [l1 EXCEPT ![Home[c]] = ToEnd(l1[Home[c]], k)]
      /\ UNCHANGED <<l2, at, on, with, alone, settled>>
  BY HomeType DEF GetHit
<1>3. Bounded(ToEnd(l1[Home[c]], k))
  BY <1>1, <1>2, L1Parts, ToEndFacts
<1>4. L1OK'
  BY <1>1, <1>2, <1>3, L1Set
<1>5. Ops'
  BY <1>1, <1>2 DEF Ops, OpType, Looking, Lone
<1>6. Redis'
  BY <1>1, <1>2, RedisKept
<1> QED BY <1>4, <1>5, <1>6, PartsNext

LEMMA PromoteStep == ASSUME IInv, NEW c \in Clients, Promote(c) PROVE IInv'
<1>1. L1OK /\ Ops /\ Redis
  BY Parts
<1>2. PICK k \in on[c] : SetL1(c, k, with[c])
  BY DEF Promote
<1>3. k \in Keys /\ with[c] \in Values
  BY <1>1, <1>2 DEF Promote, Ops, OpType, Looking
<1>4. L1OK'
  BY <1>1, <1>2, <1>3, SetL1Step
<1>5. Ops' /\ \A d \in Clients : at'[d] = "write" => at[d] = "write" /\ on'[d] = on[d]
  BY <1>1, EndStep DEF Promote
<1>6. Redis'
  BY <1>1, <1>5, RedisKept DEF Promote
<1> QED BY <1>4, <1>5, <1>6, PartsNext

LEMMA SetStep ==
  ASSUME IInv, NEW c \in Clients, NEW k \in Keys, NEW v \in Values, Set(c, k, v)
  PROVE  IInv'
<1>1. L1OK /\ Ops /\ Redis
  BY Parts
<1>2. SetL1(c, k, v) /\ BeginWrite(c, {k}, v) /\ UNCHANGED l2
  BY DEF Set
<1>3. L1OK'
  BY <1>1, <1>2, SetL1Step
<1>4. {k} \in SUBSET Keys /\ v \in Values \cup {None}
  OBVIOUS
<1>5. Ops' /\ Redis'
  BY <1>1, <1>2, <1>4, BeginWriteStep
<1> QED BY <1>3, <1>5, PartsNext

LEMMA DeleteStep == ASSUME IInv, NEW c \in Clients, NEW k \in Keys, Delete(c, k) PROVE IInv'
<1>1. L1OK /\ Ops /\ Redis
  BY Parts
<1>2. /\ Home[c] \in Procs /\ l1' = [l1 EXCEPT ![Home[c]] = Without(l1[Home[c]], k)]
      /\ BeginWrite(c, {k}, None) /\ UNCHANGED l2
  BY HomeType DEF Delete
<1>3. Bounded(Without(l1[Home[c]], k))
  BY <1>1, <1>2, L1Parts, WithoutFacts
<1>4. L1OK'
  BY <1>1, <1>2, <1>3, L1Set
<1>5. {k} \in SUBSET Keys /\ None \in Values \cup {None}
  OBVIOUS
<1>6. Ops' /\ Redis'
  BY <1>1, <1>2, <1>5, BeginWriteStep
<1> QED BY <1>4, <1>6, PartsNext

LEMMA EmptyBounded == Bounded(<<>>)
  BY TieredAssumption DEF Bounded

LEMMA ClearStep == ASSUME IInv, NEW c \in Clients, Clear(c) PROVE IInv'
<1>1. L1OK /\ Ops /\ Redis
  BY Parts
<1>2. /\ Home[c] \in Procs /\ l1' = [l1 EXCEPT ![Home[c]] = <<>>]
      /\ BeginWrite(c, Keys, None) /\ UNCHANGED l2
  BY HomeType DEF Clear
<1>3. L1OK'
  BY <1>1, <1>2, EmptyBounded, L1Set
<1>4. Keys \in SUBSET Keys /\ None \in Values \cup {None}
  OBVIOUS
<1>5. Ops' /\ Redis'
  BY <1>1, <1>2, <1>4, BeginWriteStep
<1> QED BY <1>3, <1>5, PartsNext

LEMMA WriteStep == ASSUME IInv, NEW c \in Clients, WriteL2(c) \/ WriteFails(c) PROVE IInv'
<1>1. L1OK /\ Ops /\ Redis
  BY Parts
<1>2. /\ at[c] = "write" /\ End(c) /\ UNCHANGED l1
      /\ \/ l2' = Written(c) /\ Settle(c)
         \/ l2' \in {l2, Written(c)} /\ UNCHANGED settled
  BY DEF WriteL2, WriteFails
<1>3. L1OK'
  BY <1>1, <1>2 DEF L1OK, L1Bounded
<1>4. Ops' /\ Redis'
  BY <1>1, <1>2, WriteEnds
<1> QED BY <1>3, <1>4, PartsNext

LEMMA ExpireStep == ASSUME IInv, NEW k \in Keys, Expire(k) PROVE IInv'
<1>1. L1OK /\ Ops /\ Redis
  BY Parts
<1>2. l2' = [l2 EXCEPT ![k] = None] /\ UNCHANGED <<l1, at, on, with, alone, settled>>
  BY DEF Expire
<1>3. L1OK' /\ Ops'
  BY <1>1, <1>2 DEF L1OK, L1Bounded, Ops, OpType, Looking, Lone
<1>4. Redis'
  BY <1>1, <1>2 DEF Redis, Settled, Known, Open, Normal
<1> QED BY <1>3, <1>4, PartsNext

LEMMA RestartStep == ASSUME IInv, NEW p \in Procs, Restart(p) PROVE IInv'
<1>1. L1OK /\ Ops /\ Redis
  BY Parts
<1>2. /\ l1' = [l1 EXCEPT ![p] = <<>>]
      /\ at' = [c \in Clients |-> IF Home[c] = p THEN "idle" ELSE at[c]]
      /\ on' = [c \in Clients |-> IF Home[c] = p THEN {} ELSE on[c]]
      /\ with' = [c \in Clients |-> IF Home[c] = p THEN None ELSE with[c]]
      /\ alone' = [c \in Clients |-> alone[c] /\ ~(Home[c] = p)]
      /\ UNCHANGED <<l2, settled>>
  BY DEF Restart
<1>3. L1OK'
  BY <1>1, <1>2, EmptyBounded, L1Set
<1>4. alone' \in [Clients -> BOOLEAN] /\ \A c \in Clients : alone'[c] => alone[c] /\ Home[c] # p
  <2>1. \A c \in Clients : (alone[c] /\ ~(Home[c] = p)) \in BOOLEAN
    BY <1>1, Zenon DEF Ops, OpType
  <2>2. alone' \in [Clients -> BOOLEAN]
    BY <1>2, <2>1, Zenon
  <2>3. ASSUME NEW c \in Clients, alone'[c]
        PROVE  alone[c] /\ Home[c] # p
    <3>1. alone'[c] = (alone[c] /\ ~(Home[c] = p))
      BY <1>2, Zenon
    <3> QED BY <2>3, <3>1
  <2> QED BY <2>2, <2>3
<1>5. Ops'
  <2>1. OpType'
    BY <1>1, <1>2, <1>4 DEF Ops, OpType
  <2>2. Looking' /\ Lone'
    BY <1>1, <1>2, <1>4 DEF Ops, OpType, Looking, Lone
  <2> QED BY <2>1, <2>2 DEF Ops
<1>6. Redis'
  BY <1>1, <1>2, RedisKept
<1> QED BY <1>3, <1>5, <1>6, PartsNext

LEMMA NextStep == ASSUME IInv, [Next]_vars PROVE IInv'
<1>1. CASE UNCHANGED vars
  BY <1>1 DEF vars, IInv, TypeOK, L1Bounded, Settled, Known, Looking, Lone, Open, Normal
<1> QED
  BY <1>1, LookStep, GetHitStep, PromoteStep, SetStep, DeleteStep, ClearStep, WriteStep,
     ExpireStep, RestartStep DEF Next

LEMMA InitIInv == ASSUME Init PROVE IInv
<1>1. L1OK
  BY EmptyBounded DEF Init, L1OK, L1Bounded, Bounded
<1>2. Ops
  BY DEF Init, Ops, OpType, Looking, Lone
<1>3. Redis
  BY TieredAssumption DEF Init, Redis, Settled, Known, Open, Normal
<1> QED BY <1>1, <1>2, <1>3, Parts

LEMMA Invariance == Spec => []IInv
<1>1. Init => IInv
  BY InitIInv
<1>2. IInv /\ [Next]_vars => IInv'
  BY NextStep
<1> QED BY <1>1, <1>2, PTL DEF Spec

-----------------------------------------------------------------------------
(* Every reachable state has the types of the model. *)
THEOREM TypeCorrect == Spec => []TypeOK
<1>1. IInv => TypeOK
  BY DEF IInv
<1> QED BY <1>1, Invariance, PTL

(* However many threads fill it, a dictionary keeps to its size and holds  *)
(* no key twice.                                                           *)
THEOREM DictionaryBounded == Spec => []L1Bounded
<1>1. IInv => L1Bounded
  BY DEF IInv
<1> QED BY <1>1, Invariance, PTL

(* What the last write left, if it succeeded and was alone, is all that    *)
(* Redis can answer.                                                       *)
THEOREM LastWriteSettles == Spec => []Settled
<1>1. IInv => Settled
  BY DEF IInv
<1> QED BY <1>1, Invariance, PTL

-----------------------------------------------------------------------------
(* Stale values. *)

(* p has v for k, in its dictionary or on the way to it. *)
InL1(p, k, v) == \E i \in 1 .. Len(l1[p]) : l1[p][i].key = k /\ l1[p][i].value = v
OnTheWay(p, k, v) ==
  \E c \in Clients : Home[c] = p /\ at[c] = "promote" /\ k \in on[c] /\ with[c] = v
Serves(p, k, v) == InL1(p, k, v) \/ OnTheWay(p, k, v)

LEMMA ServesStale ==
  ASSUME NEW k \in Keys, NEW p \in Procs, NEW v, Serves(p, k, v), Differs(k, v)
  PROVE  p \in Stale(k)
<1>1. CASE InL1(p, k, v)
  <2>1. PICK i \in 1 .. Len(l1[p]) : l1[p][i].key = k /\ l1[p][i].value = v
    BY <1>1 DEF InL1
  <2>2. i \in Places(l1[p], k) /\ Differs(k, l1[p][i].value)
    BY <2>1 DEF Places
  <2> QED BY <2>2 DEF Stale
<1>2. CASE OnTheWay(p, k, v)
  BY <1>2 DEF OnTheWay, Stale
<1> QED BY <1>1, <1>2 DEF Serves

LEMMA StaleServesNext ==
  ASSUME NEW k \in Keys, NEW p \in Procs, p \in Stale(k)'
  PROVE  \E v : Serves(p, k, v)' /\ Differs(k, v)'
<1> DEFINE New(v) == settled'[k] = None \/ Json[v] # settled'[k]
<1>1. \A v : Differs(k, v)' <=> New(v)
  BY DEF Differs
<1>2. CASE \E i \in 1 .. Len(l1'[p]) : l1'[p][i].key = k /\ New(l1'[p][i].value)
  <2>1. PICK i \in 1 .. Len(l1'[p]) : l1'[p][i].key = k /\ New(l1'[p][i].value)
    BY <1>2
  <2>2. PICK v : v = l1'[p][i].value
    OBVIOUS
  <2>3. InL1(p, k, v)'
    BY <2>1, <2>2 DEF InL1
  <2> QED BY <1>1, <2>1, <2>2, <2>3 DEF Serves
<1>3. CASE \E c \in Clients : Home[c] = p /\ at'[c] = "promote" /\ k \in on'[c] /\ New(with'[c])
  <2>1. PICK c \in Clients : Home[c] = p /\ at'[c] = "promote" /\ k \in on'[c] /\ New(with'[c])
    BY <1>3
  <2>2. PICK v : v = with'[c]
    OBVIOUS
  <2>3. OnTheWay(p, k, v)'
    BY <2>1, <2>2 DEF OnTheWay
  <2> QED BY <1>1, <2>1, <2>2, <2>3 DEF Serves
<1> QED BY <1>2, <1>3 DEF Stale, Differs, Places

(* What a step adds to what a process has for k is what Redis has for it,  *)
(* or the value of a set.                                                  *)
LEMMA Sources ==
  ASSUME IInv, [Next]_vars, NEW k \in Keys, NEW p \in Procs, NEW v, Serves(p, k, v)',
         settled'[k] # Unknown
  PROVE  Serves(p, k, v) \/ (v = l2[k] /\ l2[k] # None)
<1>1. L1OK /\ Ops /\ Redis
  BY Parts
<1>2. CASE OnTheWay(p, k, v)'
  <2>1. PICK c \in Clients : Home[c] = p /\ at'[c] = "promote" /\ k \in on'[c] /\ with'[c] = v
    BY <1>2 DEF OnTheWay
  <2>2. CASE at[c] = "promote" /\ on'[c] = on[c] /\ with'[c] = with[c]
    BY <2>1, <2>2 DEF Serves, OnTheWay
  <2>3. CASE Fetch(c)
    <3>1. PICK j \in on[c] : l2[j] # None /\ with' = [with EXCEPT ![c] = l2[j]]
      BY <2>3 DEF Fetch
    <3>2. at[c] = "fetch" /\ on' = on
      BY <2>3 DEF Fetch
    <3>3. j = k
      BY <1>1, <2>1, <3>1, <3>2 DEF Ops, Looking
    <3> QED BY <1>1, <2>1, <3>1, <3>3 DEF Ops, OpType
  <2>4. ASSUME NEW d \in Clients, Fetch(d), d # c
        PROVE  at[c] = "promote" /\ on'[c] = on[c] /\ with'[c] = with[c]
    BY <1>1, <2>1, <2>4 DEF Fetch, Ops, OpType
  <2>5. ASSUME NEW d \in Clients, NEW place, NEW K, NEW w, place # "promote", Begin(d, place, K, w)
        PROVE  at[c] = "promote" /\ on'[c] = on[c] /\ with'[c] = with[c]
    BY <1>1, <2>1, <2>5 DEF Begin, Ops, OpType
  <2>6. ASSUME NEW d \in Clients, End(d)
        PROVE  at[c] = "promote" /\ on'[c] = on[c] /\ with'[c] = with[c]
    BY <1>1, <2>1, <2>6, EndStep
  <2>7. ASSUME NEW q \in Procs, Restart(q)
        PROVE  at[c] = "promote" /\ on'[c] = on[c] /\ with'[c] = with[c]
    BY <1>1, <2>1, <2>7 DEF Restart, Ops, OpType
  <2>8. CASE UNCHANGED <<at, on, with>>
    BY <2>1, <2>8, <2>2
  <2>9. CASE \E d \in Clients, j \in Keys : GetMiss(d, j) \/ Delete(d, j) \/ \E w \in Values : Set(d, j, w)
    BY <2>2, <2>5, <2>9 DEF GetMiss, Delete, Set, BeginWrite
  <2>10. CASE \E d \in Clients : Clear(d)
    BY <2>2, <2>5, <2>10 DEF Clear, BeginWrite
  <2>11. CASE \E d \in Clients : FetchMiss(d) \/ Promote(d) \/ WriteL2(d) \/ WriteFails(d)
    BY <2>2, <2>6, <2>11 DEF FetchMiss, Promote, WriteL2, WriteFails
  <2>12. CASE (\E d \in Clients, j \in Keys : GetHit(d, j)) \/ (\E j \in Keys : Expire(j)) \/ UNCHANGED vars
    BY <2>8, <2>12 DEF GetHit, Expire, vars
  <2>13. CASE \E d \in Clients : Fetch(d)
    BY <2>2, <2>3, <2>4, <2>13
  <2>14. CASE \E q \in Procs : Restart(q)
    BY <2>2, <2>7, <2>14
  <2> QED BY <2>9, <2>10, <2>11, <2>12, <2>13, <2>14 DEF Next
<1>3. CASE InL1(p, k, v)'
  <2>1. PICK i \in 1 .. Len(l1'[p]) : l1'[p][i].key = k /\ l1'[p][i].value = v
    BY <1>3 DEF InL1
  <2>2. ASSUME \E j \in 1 .. Len(l1[p]) : l1'[p][i] = l1[p][j]
        PROVE  Serves(p, k, v)
    BY <2>1, <2>2 DEF Serves, InL1
  <2>3. ASSUME l1'[p] = l1[p]
        PROVE  Serves(p, k, v)
    BY <2>1, <2>2, <2>3
  <2>4. ASSUME NEW q \in Procs, l1' = [l1 EXCEPT ![q] = <<>>]
        PROVE  Serves(p, k, v)
    <3>1. CASE p = q
      BY <1>1, <2>1, <2>4, <3>1 DEF L1OK
    <3>2. CASE p # q
      <4>1. l1'[p] = l1[p]
        BY <1>1, <2>4, <3>2 DEF L1OK
      <4> QED BY <2>3, <4>1
    <3> QED BY <3>1, <3>2
  <2>5. ASSUME NEW c \in Clients, NEW j \in Keys, Delete(c, j)
        PROVE  Serves(p, k, v)
    <3>1. l1' = [l1 EXCEPT ![Home[c]] = Without(l1[Home[c]], j)] /\ Home[c] \in Procs
      BY <2>5, HomeType DEF Delete
    <3>2. CASE p = Home[c]
      <4>1. Bounded(l1[p]) /\ l1'[p] = Without(l1[p], j)
        BY <1>1, <3>1, <3>2, L1Parts DEF L1OK
      <4>2. \A n \in 1 .. Len(Without(l1[p], j)) : \E m \in 1 .. Len(l1[p]) : Without(l1[p], j)[n] = l1[p][m]
        BY <4>1, WithoutSubset
      <4>3. \E m \in 1 .. Len(l1[p]) : l1'[p][i] = l1[p][m]
        BY <2>1, <4>1, <4>2
      <4> QED BY <2>2, <4>3
    <3>3. CASE p # Home[c]
      <4>1. l1'[p] = l1[p]
        BY <1>1, <3>1, <3>3 DEF L1OK
      <4> QED BY <2>3, <4>1
    <3> QED BY <3>2, <3>3
  <2>6. ASSUME NEW c \in Clients, NEW j \in Keys, GetHit(c, j)
        PROVE  Serves(p, k, v)
    <3>1. /\ l1' = [l1 EXCEPT ![Home[c]] = ToEnd(l1[Home[c]], j)]
          /\ Home[c] \in Procs /\ Has(l1[Home[c]], j)
      BY <2>6, HomeType DEF GetHit
    <3>2. CASE p = Home[c]
      <4>1. Bounded(l1[p]) /\ l1'[p] = ToEnd(l1[p], j)
        BY <1>1, <3>1, <3>2, L1Parts DEF L1OK
      <4> QED BY <2>1, <2>2, <3>1, <3>2, <4>1, ToEndFacts
    <3>3. CASE p # Home[c]
      <4>1. l1'[p] = l1[p]
        BY <1>1, <3>1, <3>3 DEF L1OK
      <4> QED BY <2>3, <4>1
    <3> QED BY <3>2, <3>3
  <2>7. ASSUME NEW c \in Clients, NEW j \in Keys, NEW w \in Values, SetL1(c, j, w)
        PROVE  Serves(p, k, v) \/ (p = Home[c] /\ k = j /\ v = w)
    <3>1. l1' = [l1 EXCEPT ![Home[c]] = Put(l1[Home[c]], j, w)] /\ Home[c] \in Procs
      BY <2>7, HomeType DEF SetL1
    <3>2. CASE p = Home[c]
      <4>1. Bounded(l1[p]) /\ l1'[p] = Put(l1[p], j, w)
        BY <1>1, <3>1, <3>2, L1Parts DEF L1OK
      <4>2. l1'[p][i] = [key |-> j, value |-> w] \/ \E n \in 1 .. Len(l1[p]) : l1'[p][i] = l1[p][n]
        BY <2>1, <4>1, PutFacts
      <4> QED BY <2>1, <2>2, <3>2, <4>2
    <3>3. CASE p # Home[c]
      <4>1. l1'[p] = l1[p]
        BY <1>1, <3>1, <3>3 DEF L1OK
      <4> QED BY <2>3, <4>1
    <3> QED BY <3>2, <3>3
  <2>8. ASSUME NEW c \in Clients, NEW j \in Keys, NEW w \in Values, Set(c, j, w)
        PROVE  Serves(p, k, v)
    <3>1. settled'[j] = Unknown
      BY <2>8 DEF Set, BeginWrite
    <3> QED BY <2>7, <2>8, <3>1 DEF Set
  <2>9. ASSUME NEW c \in Clients, Promote(c)
        PROVE  Serves(p, k, v)
    <3>1. PICK j \in on[c] : SetL1(c, j, with[c])
      BY <2>9 DEF Promote
    <3>2. j \in Keys /\ with[c] \in Values /\ at[c] = "promote"
      BY <1>1, <2>9, <3>1 DEF Promote, Ops, OpType, Looking
    <3>3. Serves(p, k, v) \/ (p = Home[c] /\ k = j /\ v = with[c])
      BY <2>7, <3>1, <3>2
    <3> QED BY <3>1, <3>2, <3>3 DEF Serves, OnTheWay
  <2>10. CASE \E c \in Clients : Clear(c)
    BY <2>4, <2>10, HomeType DEF Clear
  <2>11. CASE \E q \in Procs : Restart(q)
    BY <2>4, <2>11 DEF Restart
  <2>12. CASE \/ \E c \in Clients : Fetch(c) \/ FetchMiss(c) \/ WriteL2(c) \/ WriteFails(c)
              \/ \E c \in Clients, j \in Keys : GetMiss(c, j)
              \/ \E j \in Keys : Expire(j)
              \/ UNCHANGED vars
    <3>1. UNCHANGED l1
      BY <2>12 DEF Fetch, FetchMiss, WriteL2, WriteFails, GetMiss, Expire, vars
    <3> QED BY <2>3, <3>1, <2>1, <2>2
  <2> QED BY <2>5, <2>6, <2>8, <2>9, <2>10, <2>11, <2>12 DEF Next
<1> QED BY <1>2, <1>3 DEF Serves

(* Whatever is promoted, evicted, restarted or expired: a stale value does *)
(* not spread to another process.                                          *)
THEOREM StaleValuesDoNotSpread == Spec => StaleOnlyShrinks
<1> DEFINE Shrinks == \A k \in Keys : Known(k) /\ settled'[k] = settled[k] => Stale(k)' \subseteq Stale(k)
<1>1. ASSUME IInv, [Next]_vars
      PROVE  [Shrinks]_vars
  <2> SUFFICES ASSUME NEW k \in Keys, Known(k), settled'[k] = settled[k], NEW p \in Stale(k)'
               PROVE  p \in Stale(k)
    OBVIOUS
  <2>1. p \in Procs
    BY DEF Stale
  <2>2. PICK v : Serves(p, k, v)' /\ Differs(k, v)'
    BY <2>1, StaleServesNext
  <2>3. Differs(k, v)
    BY <2>2 DEF Differs
  <2>4. Serves(p, k, v) \/ (v = l2[k] /\ l2[k] # None)
    BY <1>1, <2>1, <2>2, Sources DEF Known
  <2>5. CASE Serves(p, k, v)
    BY <2>1, <2>3, <2>5, ServesStale
  <2>6. CASE v = l2[k] /\ l2[k] # None
    <3>1. l2[k] = settled[k] /\ l2[k] \in Values /\ Json[settled[k]] = settled[k]
      BY <1>1, <2>6 DEF IInv, TypeOK, Settled, Normal
    <3> QED BY <2>3, <2>6, <3>1 DEF Differs
  <2> QED BY <2>4, <2>5, <2>6
<1> QED BY <1>1, Invariance, PTL DEF Spec, StaleOnlyShrinks

-----------------------------------------------------------------------------
(* Deletions. *)

(* A deletion that is alone has left its keys in no entry of its process.  *)
Forgotten ==
  \A c \in Clients : at[c] = "write" /\ alone[c] /\ with[c] = None =>
    \A k \in on[c] : ~Has(l1[Home[c]], k)

(* A step brings a key to a dictionary by a set or by a promotion.         *)
LEMMA KeySources ==
  ASSUME IInv, [Next]_vars, NEW k \in Keys, NEW p \in Procs, Has(l1'[p], k)
  PROVE  \/ Has(l1[p], k)
         \/ \E c \in Clients : (\E v \in Values : Set(c, k, v)) \/ (Promote(c) /\ k \in on[c])
<1>1. L1OK /\ Ops
  BY Parts
<1>2. PICK i \in 1 .. Len(l1'[p]) : l1'[p][i].key = k
  BY DEF Has, Places
<1>3. ASSUME \E j \in 1 .. Len(l1[p]) : l1'[p][i] = l1[p][j]
      PROVE  Has(l1[p], k)
  BY <1>2, <1>3 DEF Has, Places
<1>4. ASSUME NEW c \in Clients, NEW j \in Keys, Delete(c, j)
      PROVE  Has(l1[p], k)
  <2> DEFINE s == Without(l1[Home[c]], j)
  <2>1. l1' = [l1 EXCEPT ![Home[c]] = s] /\ Home[c] \in Procs
    BY <1>4, HomeType DEF Delete
  <2>2. \A n \in 1 .. Len(s) : \E m \in 1 .. Len(l1[Home[c]]) : s[n] = l1[Home[c]][m]
    BY <1>1, <2>1, L1Parts, WithoutSubset
  <2> HIDE DEF s
  <2>3. l1'[p] = IF p = Home[c] THEN s ELSE l1[p]
    BY <1>1, <2>1 DEF L1OK
  <2> QED BY <1>2, <1>3, <2>2, <2>3
<1>5. ASSUME NEW c \in Clients, NEW j \in Keys, GetHit(c, j)
      PROVE  Has(l1[p], k)
  <2> DEFINE s == ToEnd(l1[Home[c]], j)
  <2>1. /\ l1' = [l1 EXCEPT ![Home[c]] = s]
        /\ Home[c] \in Procs /\ Has(l1[Home[c]], j)
    BY <1>5, HomeType DEF GetHit
  <2>2. \A n \in 1 .. Len(s) : \E m \in 1 .. Len(l1[Home[c]]) : s[n] = l1[Home[c]][m]
    BY <1>1, <2>1, L1Parts, ToEndFacts
  <2> HIDE DEF s
  <2>3. l1'[p] = IF p = Home[c] THEN s ELSE l1[p]
    BY <1>1, <2>1 DEF L1OK
  <2> QED BY <1>2, <1>3, <2>2, <2>3
<1>6. ASSUME NEW c \in Clients, NEW j \in Keys, NEW w \in Values, SetL1(c, j, w)
      PROVE  Has(l1[p], k) \/ k = j
  <2>1. l1' = [l1 EXCEPT ![Home[c]] = Put(l1[Home[c]], j, w)] /\ Home[c] \in Procs
    BY <1>6, HomeType DEF SetL1
  <2>2. CASE p = Home[c]
    <3>1. Bounded(l1[p]) /\ l1'[p] = Put(l1[p], j, w)
      BY <1>1, <2>1, <2>2, L1Parts DEF L1OK
    <3>2. l1'[p][i] = [key |-> j, value |-> w] \/ \E n \in 1 .. Len(l1[p]) : l1'[p][i] = l1[p][n]
      BY <1>2, <3>1, PutFacts
    <3> QED BY <1>2, <1>3, <3>2
  <2>3. CASE p # Home[c]
    <3>1. l1'[p] = l1[p]
      BY <1>1, <2>1, <2>3 DEF L1OK
    <3> QED BY <1>2, <1>3, <3>1
  <2> QED BY <2>2, <2>3
<1>7. ASSUME NEW c \in Clients, Promote(c)
      PROVE  Has(l1[p], k) \/ k \in on[c]
  <2>1. PICK j \in on[c] : SetL1(c, j, with[c])
    BY <1>7 DEF Promote
  <2>2. j \in Keys /\ with[c] \in Values
    BY <1>1, <1>7, <2>1 DEF Promote, Ops, OpType, Looking
  <2> QED BY <1>6, <2>1, <2>2
<1>8. ASSUME (\E c \in Clients : Clear(c)) \/ (\E q \in Procs : Restart(q))
      PROVE  Has(l1[p], k)
  <2>1. PICK q \in Procs : l1' = [l1 EXCEPT ![q] = <<>>]
    BY <1>8, HomeType DEF Clear, Restart
  <2>2. l1'[p] = IF p = q THEN <<>> ELSE l1[p]
    BY <1>1, <2>1 DEF L1OK
  <2> QED BY <1>2, <1>3, <2>2
<1>9. ASSUME \/ \E c \in Clients : Fetch(c) \/ FetchMiss(c) \/ WriteL2(c) \/ WriteFails(c)
             \/ \E c \in Clients, j \in Keys : GetMiss(c, j)
             \/ \E j \in Keys : Expire(j)
             \/ UNCHANGED vars
      PROVE  Has(l1[p], k)
  <2>1. UNCHANGED l1
    BY <1>9 DEF Fetch, FetchMiss, WriteL2, WriteFails, GetMiss, Expire, vars
  <2> QED BY <2>1
<1> DEFINE Brought ==
      \E c \in Clients : (\E v \in Values : Set(c, k, v)) \/ (Promote(c) /\ k \in on[c])
<1>10. ASSUME NEW c \in Clients, NEW j \in Keys, NEW w \in Values, Set(c, j, w)
       PROVE  Has(l1[p], k) \/ Brought
  <2>1. Has(l1[p], k) \/ k = j
    BY <1>6, <1>10 DEF Set
  <2>2. k = j => Set(c, k, w)
    BY <1>10
  <2> QED BY <2>1, <2>2
<1>11. ASSUME NEW c \in Clients, Promote(c)
       PROVE  Has(l1[p], k) \/ Brought
  BY <1>7, <1>11
<1>12. Has(l1[p], k) \/ Brought
  <2> HIDE DEF Brought
  <2> QED BY <1>4, <1>5, <1>8, <1>9, <1>10, <1>11, Zenon DEF Next
<1> QED BY <1>12

(* A write that is alone went on from the last step, or begins with it.    *)
LEMMA LoneWrites ==
  ASSUME Ops, [Next]_vars, NEW c \in Clients, at'[c] = "write", alone'[c]
  PROVE  \/ at[c] = "write" /\ alone[c] /\ on'[c] = on[c] /\ with'[c] = with[c]
         \/ \E k \in Keys : Delete(c, k) \/ \E v \in Values : Set(c, k, v)
         \/ Clear(c)
<1> DEFINE Goes == at[c] = "write" /\ alone[c] /\ on'[c] = on[c] /\ with'[c] = with[c]
           Begins == (\E k \in Keys : Delete(c, k) \/ \E v \in Values : Set(c, k, v)) \/ Clear(c)
<1>1. ASSUME NEW d \in Clients, NEW place, NEW K, NEW w, Begin(d, place, K, w),
             d = c => place # "write"
      PROVE  Goes
  BY <1>1 DEF Begin, Ops, OpType
<1>2. ASSUME NEW d \in Clients, End(d)
      PROVE  Goes
  BY <1>2 DEF End, Ops, OpType
<1>3. ASSUME NEW d \in Clients, Fetch(d)
      PROVE  Goes
  BY <1>3 DEF Fetch, Ops, OpType
<1>4. ASSUME NEW q \in Procs, Restart(q)
      PROVE  Goes
  BY <1>4 DEF Restart, Ops, OpType
<1>5. ASSUME UNCHANGED <<at, on, with, alone>>
      PROVE  Goes
  BY <1>5
<1>6. ASSUME NEW d \in Clients, NEW k \in Keys, GetMiss(d, k)
      PROVE  Goes
  BY <1>1, <1>6 DEF GetMiss
<1>7. ASSUME NEW d \in Clients, d # c,
             Clear(d) \/ \E k \in Keys : Delete(d, k) \/ \E v \in Values : Set(d, k, v)
      PROVE  Goes
  BY <1>1, <1>7 DEF Clear, Delete, Set, BeginWrite
<1>8. ASSUME NEW d \in Clients, FetchMiss(d) \/ Promote(d) \/ WriteL2(d) \/ WriteFails(d)
      PROVE  Goes
  BY <1>2, <1>8 DEF FetchMiss, Promote, WriteL2, WriteFails
<1>9. ASSUME (\E d \in Clients, k \in Keys : GetHit(d, k)) \/ (\E k \in Keys : Expire(k)) \/ UNCHANGED vars
      PROVE  Goes
  BY <1>5, <1>9 DEF GetHit, Expire, vars
<1>10. ASSUME NEW d \in Clients, NEW k \in Keys, Delete(d, k) \/ \E v \in Values : Set(d, k, v)
       PROVE  Goes \/ Begins
  BY <1>7, <1>10
<1>11. ASSUME NEW d \in Clients, Clear(d)
       PROVE  Goes \/ Begins
  BY <1>7, <1>11
<1>12. Goes \/ Begins
  <2> HIDE DEF Goes, Begins
  <2> QED BY <1>3, <1>4, <1>6, <1>8, <1>9, <1>10, <1>11, Zenon DEF Next
<1> QED BY <1>12

(* A deletion that is alone is joined by no set and no promotion of its    *)
(* key: those would overlap it.                                            *)
LEMMA ForgottenStep ==
  ASSUME IInv, Forgotten, [Next]_vars
  PROVE  Forgotten'
<1> SUFFICES ASSUME NEW c \in Clients, at'[c] = "write", alone'[c], with'[c] = None,
                    NEW k \in on'[c], Has(l1'[Home[c]], k)
             PROVE  FALSE
  BY DEF Forgotten
<1>1. L1OK /\ Ops /\ Home[c] \in Procs
  BY Parts, HomeType
<1>2. IInv'
  BY NextStep
<1>3. k \in Keys
  BY <1>2 DEF IInv, TypeOK
<1>4. CASE at[c] = "write" /\ alone[c] /\ on'[c] = on[c] /\ with'[c] = with[c]
  <2>1. k \in on[c] /\ ~Has(l1[Home[c]], k)
    BY <1>4 DEF Forgotten
  <2>2. PICK d \in Clients : (\E v \in Values : Set(d, k, v)) \/ (Promote(d) /\ k \in on[d])
    BY <1>1, <1>3, <2>1, KeySources
  <2>3. d # c
    BY <1>4, <2>2 DEF Set, BeginWrite, Begin, Promote
  <2>4. CASE \E v \in Values : Set(d, k, v)
    BY <1>4, <2>1, <2>3, <2>4 DEF Set, BeginWrite, Begin
  <2>5. CASE k \in on[d]
    BY <1>1, <1>4, <2>1, <2>3, <2>5 DEF Ops, Lone
  <2> QED BY <2>2, <2>4, <2>5
<1>5. ASSUME NEW j \in Keys, Delete(c, j)
      PROVE  FALSE
  <2>1. k = j
    BY <1>1, <1>5 DEF Delete, BeginWrite, Begin, Ops, OpType
  <2>2. l1'[Home[c]] = Without(l1[Home[c]], j)
    BY <1>1, <1>5 DEF Delete, L1OK
  <2> QED BY <1>1, <2>1, <2>2, L1Parts, WithoutFacts
<1>6. ASSUME NEW j \in Keys, NEW v \in Values, Set(c, j, v)
      PROVE  FALSE
  BY <1>1, <1>6, TieredAssumption DEF Set, BeginWrite, Begin, Ops, OpType
<1>7. CASE Clear(c)
  <2>1. l1'[Home[c]] = <<>>
    BY <1>1, <1>7 DEF Clear, L1OK
  <2> QED BY <2>1 DEF Has, Places
<1> QED BY <1>1, <1>4, <1>5, <1>6, <1>7, LoneWrites

(* The process that has deleted a key, or cleared the cache, with no other *)
(* operation on the key meanwhile, no longer serves it.                    *)
THEOREM DeletersForget == Spec => DeleterForgets
<1>1. Init => Forgotten
  BY DEF Init, Forgotten
<1>2. IInv /\ Forgotten /\ [Next]_vars => Forgotten'
  BY ForgottenStep
<1>3. ASSUME IInv, Forgotten, [Next]_vars, NEW c \in Clients, NEW k \in Keys,
             at[c] = "write", k \in on[c], with[c] = None, ~Known(k), Known(k)'
      PROVE  Home[c] \notin Stale(k)'
  <2>1. Ops
    BY <1>3, Parts
  <2>2. PICK d \in Clients : WriteL2(d) /\ k \in on[d] /\ alone[d]
    <3>1. settled'[k] # settled[k]
      BY <1>3 DEF Known
    <3>2. ASSUME NEW d \in Clients, NEW K, NEW v, BeginWrite(d, K, v)
          PROVE  FALSE
      BY <1>3, <3>2 DEF BeginWrite, Known
    <3>3. PICK d \in Clients : WriteL2(d)
      BY <1>3, <3>1, <3>2 DEF Next, vars, GetHit, GetMiss, Delete, Set, Fetch, FetchMiss,
         Promote, Clear, WriteFails, Expire, Restart
    <3> QED BY <1>3, <3>1, <3>3 DEF WriteL2, Settle
  <2>3. d = c
    BY <1>3, <2>1, <2>2 DEF Ops, Lone
  <2>4. l1' = l1 /\ End(c) /\ alone[c]
    BY <2>2, <2>3 DEF WriteL2
  <2>5. Places(l1'[Home[c]], k) = {}
    BY <1>3, <2>4 DEF Forgotten, Has
  <2>6. ~\E e \in Clients : at'[e] = "promote" /\ k \in on'[e]
    <3> SUFFICES ASSUME NEW e \in Clients, at'[e] = "promote", k \in on'[e]
                 PROVE  FALSE
      OBVIOUS
    <3>1. e # c /\ on'[e] = on[e]
      BY <2>1, <2>4, EndStep
    <3> QED BY <1>3, <2>1, <2>4, <3>1 DEF Ops, Lone
  <2> QED BY <2>5, <2>6 DEF Stale
<1>4. IInv /\ Forgotten /\ [Next]_vars =>
        [\A c \in Clients, k \in Keys :
           /\ at[c] = "write" /\ k \in on[c] /\ with[c] = None
           /\ ~Known(k) /\ Known(k)'
           => Home[c] \notin Stale(k)']_vars
  BY <1>3
<1> QED BY <1>1, <1>2, <1>4, Invariance, PTL DEF Spec, DeleterForgets
=============================================================================
