--------------------------- MODULE RateLimitProofs ---------------------------
(***************************************************************************)
(* Proofs about RateLimit, for any rules, limits, number of workers,       *)
(* window and delay: its type invariant, the bound the sliding window      *)
(* keeps although it records a request before it knows the answer and      *)
(* several workers run the check at once, and the bounds the token bucket  *)
(* and the fixed window keep as long as no two checks of a rule overlap.   *)
(***************************************************************************)
EXTENDS RateLimit, FiniteSetTheorems, TLAPS

(* What a worker has read is not from the future. *)
WorkerTimely(c) ==
  /\ Tick(used[c]) <= now
  /\ check[c].at \notin {"idle", "rule"} =>
       /\ check[c].since <= now
       /\ check[c].p \in Policies[Rule(c)]
       /\ check[c].seen.last <= now
  /\ check[c].at = "stamped" => check[c].seen.last <= Tick(used[c])
  /\ check[c].at \notin {"idle", "rule", "fetched"} => used[c] \in Instants

Timely ==
  /\ \A r \in Rules : bucket[r].last <= now
  /\ \A c \in Workers : WorkerTimely(c)

(* The steps of the sliding window's checks, and how late they may be. *)
WorkerSliding(c) ==
  /\ check[c].at \in {"idle", "rule", "zset"}
  /\ check[c].at = "zset" => Tick(used[c]) = check[c].since /\ now <= check[c].since + MaxDelay

Sliding == backend = "sliding_window" => \A c \in Workers : WorkerSliding(c)

(* A request let through within the window, less the delay, is in the set. *)
RuleRecorded(r) ==
  /\ IsFiniteSet(entries[r])
  /\ \A a \in admitted[r] :
       /\ a.at <= now
       /\ a.at - MaxDelay <= Tick(a.inst)
       /\ a.at > now - (Window - MaxDelay) => a.inst \in entries[r]

RuleBound(r) ==
  \E p \in Policies[r] :
    Cardinality(InstantsSince(r, now - (Window - MaxDelay))) <= Ceiling(p) + 1

Recorded ==
  backend = "sliding_window" => \A r \in Rules : RuleRecorded(r) /\ RuleBound(r)

IInv == TypeOK /\ Timely /\ Sliding /\ Recorded

-----------------------------------------------------------------------------
(* Arithmetic. *)
LEMMA SumType == \A k, m, n \in Nat : k + m * n \in Nat
OBVIOUS

LEMMA RemainderType ==
  ASSUME NEW t \in Nat, NEW w \in Nat, w > 0
  PROVE  t % w \in Nat /\ t % w <= t
OBVIOUS

(* The rule a worker is at is one of the rules. *)
LEMMA RuleType ==
  ASSUME TypeOK, NEW c \in Workers, check[c].turn \in DOMAIN Order
  PROVE  Rule(c) \in Rules
BY RateAssumption DEF Rule

(* A worker inside a check is at a rule, with limits, and remembers a bucket. *)
LEMMA InCheckType ==
  ASSUME TypeOK, NEW c \in Workers, check[c].at \notin {"idle", "rule"}
  PROVE  check[c] \in InCheck /\ Rule(c) \in Rules
<1>1. check[c] \in InCheck
  BY DEF TypeOK, NoCheck, AtRules
<1>2. check[c].turn \in DOMAIN Order
  BY <1>1 DEF InCheck
<1>. QED
  BY <1>1, <1>2, RuleType

(* The answer keeps the type of the workers, and of what it records. *)
LEMMA AnswerType ==
  ASSUME TypeOK, NEW c \in Workers, check[c] \in InCheck, Rule(c) \in Rules,
         used[c] \in Instants, NEW allowed, Answer(c, allowed)
  PROVE  /\ check' \in [Workers -> {NoCheck} \cup AtRules \cup InCheck]
         /\ admitted' \in [Rules -> SUBSET [inst : Instants, at : Times, by : Workers]]
         /\ skipped' \in SUBSET Rules
         /\ \A d \in Workers \ {c} : check'[d] = check[d]
         /\ check'[c].at \in {"idle", "rule"}
<1>. USE RateAssumption
<1>1. check[c].turn \in Nat \ {0}
  BY DEF InCheck
<1>2. CASE allowed
  <2>. DEFINE next == [at |-> "rule", turn |-> check[c].turn + 1]
  <2>. DEFINE new == [inst |-> used[c], at |-> now, by |-> c]
  <2>1. next \in AtRules /\ next.at = "rule"
    BY <1>1 DEF AtRules
  <2>2. new \in [inst : Instants, at : Times, by : Workers]
    BY DEF TypeOK
  <2>3. /\ check' = [check EXCEPT ![c] = next]
        /\ admitted' = [admitted EXCEPT ![Rule(c)] = @ \cup {new}]
        /\ skipped' = skipped
    BY <1>2 DEF Answer
  <2>. HIDE DEF next, new
  <2>. QED
    BY <2>1, <2>2, <2>3 DEF TypeOK
<1>3. CASE ~allowed
  <2>1. RulesAfter(c) \subseteq Rules
    BY DEF RulesAfter
  <2>2. skipped' \in SUBSET Rules
    BY <1>3, <2>1 DEF Answer, TypeOK
  <2>3. NoCheck.at = "idle"
    BY DEF NoCheck
  <2>4. check' = [check EXCEPT ![c] = NoCheck] /\ admitted' = admitted
    BY <1>3 DEF Answer
  <2>. QED
    BY <2>2, <2>3, <2>4 DEF TypeOK
<1>. QED
  BY <1>2, <1>3

(* So does a step further into the check. *)
LEMMA GotoType ==
  ASSUME TypeOK, NEW c \in Workers, check[c].turn \in DOMAIN Order,
         NEW at \in {"zset", "fetched", "stamped", "get", "incr", "set"},
         NEW p \in Limits, NEW seen \in Buckets, Goto(c, at, p, seen)
  PROVE  /\ check' \in [Workers -> {NoCheck} \cup AtRules \cup InCheck]
         /\ check'[c] = [at |-> at, turn |-> check[c].turn, since |-> now,
                         p |-> p, seen |-> seen]
         /\ \A d \in Workers \ {c} : check'[d] = check[d]
<1>. DEFINE next == [at |-> at, turn |-> check[c].turn, since |-> now, p |-> p, seen |-> seen]
<1>1. next \in InCheck
  BY DEF InCheck, TypeOK
<1>2. check' = [check EXCEPT ![c] = next]
  BY DEF Goto
<1>3. /\ check' \in [Workers -> {NoCheck} \cup AtRules \cup InCheck]
      /\ check'[c] = next
      /\ \A d \in Workers \ {c} : check'[d] = check[d]
  <2>. HIDE DEF next
  <2>. QED
    BY <1>1, <1>2 DEF TypeOK
<1>. QED
  BY <1>3

(* The clock is not moved by reading it. *)
LEMMA ReadClockType ==
  ASSUME TypeOK, NEW c \in Workers, NEW i \in Instants, ReadClock(c, i)
  PROVE  /\ used' \in [Workers -> Instants \cup {NoInstant}]
         /\ used'[c] = i /\ Tick(used'[c]) = now
         /\ \A d \in Workers \ {c} : used'[d] = used[d]
BY DEF ReadClock, TypeOK

(* The empty bucket is a bucket, and time never is over. *)
LEMMA Basics ==
  /\ 0 \in Times
  /\ NoBucket \in Buckets
  /\ \A r \in Rules : Policies[r] \subseteq Limits
  /\ Window \in Nat /\ Window > 0
BY RateAssumption DEF Times, NoBucket, Buckets, Limits

-----------------------------------------------------------------------------
(* What the bucket is refilled to is a number of tokens. *)
LEMMA RefilledType ==
  ASSUME TypeOK, Timely, NEW c \in Workers, check[c].at = "stamped"
  PROVE  Refilled(c) \in Nat
<1>. USE RateAssumption
<1>1. /\ check[c].p \in Limits /\ check[c].seen \in Buckets
  BY InCheckType DEF InCheck
<1>2. MaxTokens(check[c].p) \in Nat
  BY <1>1 DEF MaxTokens, Limits
<1>3. /\ used[c] \in Instants
      /\ check[c].seen.last <= Tick(used[c])
  BY DEF Timely, WorkerTimely
<1>4. Tick(used[c]) - check[c].seen.last \in Nat
  BY <1>1, <1>3 DEF Buckets, Instants, Times, Tick
<1>5. check[c].seen.tokens + (Tick(used[c]) - check[c].seen.last) * check[c].p.limit \in Nat
  <2>2. check[c].seen.tokens \in Nat /\ check[c].p.limit \in Nat
    BY <1>1 DEF Buckets, Limits
  <2>. QED
    BY <1>4, <2>2, SumType
<1>. QED
  BY <1>2, <1>5 DEF Refilled, Least

(* TypeOK is inductive, with what Timely says of the clock. *)
LEMMA TypeStep ==
  ASSUME TypeOK, Timely, [Next]_vars
  PROVE  TypeOK'
<1>. USE RateAssumption, Basics
<1>1. ASSUME NEW c \in Workers, Request(c)
      PROVE  TypeOK'
  <2>1. [at |-> "rule", turn |-> 1] \in AtRules
    BY DEF AtRules
  <2>. QED
    BY <1>1, <2>1 DEF Request, TypeOK, store
<1>2. ASSUME NEW c \in Workers, AllRulesPassed(c)
      PROVE  TypeOK'
  BY <1>2 DEF AllRulesPassed, TypeOK, store
<1>3. ASSUME NEW c \in Workers, SlidingClock(c) \/ FixedClock(c)
      PROVE  TypeOK'
  <2>1. check[c].turn \in DOMAIN Order /\ Rule(c) \in Rules
    BY <1>3, RuleType DEF SlidingClock, FixedClock, AtRule
  <2>2. PICK p \in Policies[Rule(c)], i \in Instants, at \in {"zset", "get"} :
          ReadClock(c, i) /\ Goto(c, at, p, NoBucket)
    BY <1>3 DEF SlidingClock, FixedClock
  <2>3. p \in Limits
    BY <2>1
  <2>4. check' \in [Workers -> {NoCheck} \cup AtRules \cup InCheck]
    <3>1. at = "zset" \/ at = "get"
      OBVIOUS
    <3>2. Goto(c, at, p, NoBucket) /\ NoBucket \in Buckets
      BY <2>2
    <3>3. CASE at = "zset"
      <4>1. Goto(c, "zset", p, NoBucket)
        BY <3>2, <3>3
      <4>. QED
        BY <2>1, <2>3, <3>2, <4>1, GotoType
    <3>4. CASE at = "get"
      <4>1. Goto(c, "get", p, NoBucket)
        BY <3>2, <3>4
      <4>. QED
        BY <2>1, <2>3, <3>2, <4>1, GotoType
    <3>. QED
      BY <3>1, <3>3, <3>4
  <2>5. used' \in [Workers -> Instants \cup {NoInstant}]
    BY <2>2, ReadClockType
  <2>6. UNCHANGED <<backend, now, entries, bucket, counter, admitted, overlapped, skipped>>
    BY <1>3 DEF SlidingClock, FixedClock, store
  <2>. QED
    BY <2>4, <2>5, <2>6 DEF TypeOK
<1>4. ASSUME NEW c \in Workers, TokenGet(c)
      PROVE  TypeOK'
  <2>1. check[c].turn \in DOMAIN Order /\ Rule(c) \in Rules
    BY <1>4, RuleType DEF TokenGet, AtRule
  <2>2. PICK p \in Policies[Rule(c)], b \in Buckets : Goto(c, "fetched", p, b)
    BY <1>4, <2>1 DEF TokenGet, TypeOK
  <2>3. p \in Limits
    BY <2>1
  <2>4. check' \in [Workers -> {NoCheck} \cup AtRules \cup InCheck]
    BY <2>1, <2>2, <2>3, GotoType
  <2>. QED
    BY <1>4, <2>1, <2>4 DEF TokenGet, TypeOK, store, Overlap
<1>5. ASSUME NEW c \in Workers, TokenClock(c)
      PROVE  TypeOK'
  <2>1. check[c] \in InCheck
    BY <1>5, InCheckType DEF TokenClock
  <2>2. check' \in [Workers -> {NoCheck} \cup AtRules \cup InCheck]
    BY <1>5, <2>1, GotoType DEF TokenClock, InCheck
  <2>. QED
    BY <1>5, <2>2, ReadClockType DEF TokenClock, TypeOK, store
<1>6. ASSUME NEW c \in Workers, SlidingPipeline(c)
      PROVE  TypeOK'
  <2>1. check[c] \in InCheck /\ Rule(c) \in Rules /\ used[c] \in Instants
    BY <1>6, InCheckType DEF SlidingPipeline, Timely, WorkerTimely
  <2>2. Kept(c) \cup {used[c]} \subseteq Instants
    BY <2>1 DEF Kept, TypeOK
  <2>. QED
    BY <1>6, <2>1, <2>2, AnswerType DEF SlidingPipeline, TypeOK
<1>7. ASSUME NEW c \in Workers, TokenStore(c)
      PROVE  TypeOK'
  <2>. DEFINE enough == Refilled(c) >= Window
  <2>. DEFINE left == IF enough THEN Refilled(c) - Window ELSE Refilled(c)
  <2>. DEFINE new == [tokens |-> left, last |-> Tick(used[c]), until |-> now + 2 * Window]
  <2>1. check[c] \in InCheck /\ Rule(c) \in Rules /\ used[c] \in Instants
    BY <1>7, InCheckType DEF TokenStore, Timely, WorkerTimely
  <2>2. left \in Nat
    BY <1>7, RefilledType DEF TokenStore
  <2>3. new \in Buckets
    BY <2>1, <2>2 DEF Buckets, Instants, Tick, TypeOK, Times
  <2>4. bucket' = [bucket EXCEPT ![Rule(c)] = new] /\ Answer(c, enough)
    BY <1>7 DEF TokenStore
  <2>5. bucket' \in [Rules -> Buckets]
    BY <2>3, <2>4 DEF TypeOK
  <2>6. UNCHANGED <<backend, now, entries, counter, used, overlapped>>
    BY <1>7 DEF TokenStore
  <2>. HIDE DEF new, left, enough
  <2>. QED
    BY <2>1, <2>4, <2>5, <2>6, AnswerType DEF TypeOK
<1>8. ASSUME NEW c \in Workers, FixedGet(c)
      PROVE  TypeOK'
  <2>1. check[c] \in InCheck /\ Rule(c) \in Rules /\ used[c] \in Instants
    BY <1>8, InCheckType DEF FixedGet, Timely, WorkerTimely
  <2>2. \/ Goto(c, "incr", check[c].p, NoBucket) /\ UNCHANGED <<admitted, skipped>>
        \/ Answer(c, FALSE)
    BY <1>8 DEF FixedGet
  <2>3. overlapped' \in SUBSET Rules
    BY <1>8, <2>1 DEF FixedGet, Overlap, TypeOK
  <2>4. /\ check' \in [Workers -> {NoCheck} \cup AtRules \cup InCheck]
        /\ admitted' \in [Rules -> SUBSET [inst : Instants, at : Times, by : Workers]]
        /\ skipped' \in SUBSET Rules
    BY <2>1, <2>2, GotoType, AnswerType DEF InCheck, TypeOK
  <2>. QED
    BY <1>8, <2>3, <2>4 DEF FixedGet, TypeOK, store
<1>9. ASSUME NEW c \in Workers, FixedIncr(c) \/ FixedSet(c)
      PROVE  TypeOK'
  <2>1. check[c] \in InCheck /\ Rule(c) \in Rules /\ used[c] \in Instants
    BY <1>9, InCheckType DEF FixedIncr, FixedSet, Timely, WorkerTimely
  <2>2. /\ check' \in [Workers -> {NoCheck} \cup AtRules \cup InCheck]
        /\ admitted' \in [Rules -> SUBSET [inst : Instants, at : Times, by : Workers]]
        /\ skipped' \in SUBSET Rules
    BY <1>9, <2>1, GotoType, AnswerType DEF FixedIncr, FixedSet, InCheck, TypeOK
  <2>3. WindowStart(c) \in Times
    <3>2. Tick(used[c]) \in Times
      BY <2>1 DEF Instants, Tick
    <3>1. Tick(used[c]) \in Nat /\ Window \in Nat /\ Window > 0
      BY <3>2 DEF Times
    <3>3. /\ Tick(used[c]) % Window \in Nat
          /\ Tick(used[c]) % Window <= Tick(used[c])
      <4>. HIDE RateAssumption, Basics
      <4>. QED
        BY <3>1, RemainderType
    <3>. QED
      BY <3>2, <3>3 DEF WindowStart, Times
  <2>4. Counter(c) \in [n : Nat, until : Nat]
    BY <2>1, <2>3 DEF Counter, TypeOK
  <2>5. now + Window \in Nat /\ Counter(c).n + 1 \in Nat
    BY <2>4 DEF TypeOK, Times
  <2>6. counter' \in [Rules -> [Times -> [n : Nat, until : Nat]]]
    <3>. DEFINE one == [n |-> 1, until |-> now + Window]
    <3>. DEFINE more == [Counter(c) EXCEPT !.n = @ + 1]
    <3>1. one \in [n : Nat, until : Nat] /\ more \in [n : Nat, until : Nat]
      BY <2>4, <2>5
    <3>2. ASSUME NEW x \in [n : Nat, until : Nat],
                 counter' = [counter EXCEPT ![Rule(c)][WindowStart(c)] = x]
          PROVE  counter' \in [Rules -> [Times -> [n : Nat, until : Nat]]]
      BY <2>1, <2>3, <3>2 DEF TypeOK
    <3>3. CASE FixedIncr(c)
      <4>1. CASE Alive(Counter(c))
        <5>1. counter' = [counter EXCEPT ![Rule(c)][WindowStart(c)].n = @ + 1]
          BY <3>3, <4>1 DEF FixedIncr
        <5>2. counter' = [counter EXCEPT ![Rule(c)][WindowStart(c)] = more]
          BY <5>1 DEF Counter
        <5>. QED
          BY <3>1, <3>2, <5>2
      <4>2. CASE ~Alive(Counter(c))
        BY <3>3, <4>2 DEF FixedIncr, TypeOK
      <4>. QED
        BY <4>1, <4>2
    <3>4. CASE FixedSet(c)
      BY <3>1, <3>2, <3>4 DEF FixedSet
    <3>. QED
      BY <1>9, <3>3, <3>4
  <2>. QED
    BY <1>9, <2>2, <2>6 DEF FixedIncr, FixedSet, TypeOK
<1>10. CASE PassTime
  BY <1>10 DEF PassTime, TypeOK, Times, store
<1>11. CASE UNCHANGED vars
  BY <1>11 DEF vars, TypeOK
<1>. QED
  BY <1>1, <1>2, <1>3, <1>4, <1>5, <1>6, <1>7, <1>8, <1>9, <1>10, <1>11 DEF Next

-----------------------------------------------------------------------------
(* A step of one worker leaves what the others know alone. *)
LEMMA OneWorkerTimely ==
  ASSUME Timely, NEW c \in Workers, now' = now,
         \A d \in Workers \ {c} : check'[d] = check[d] /\ used'[d] = used[d],
         \A r \in Rules : bucket'[r].last <= now,
         WorkerTimely(c)'
  PROVE  Timely'
<1>1. ASSUME NEW d \in Workers, d # c
      PROVE  WorkerTimely(d)'
  <2>1. check'[d] = check[d] /\ used'[d] = used[d] /\ WorkerTimely(d)
    BY <1>1 DEF Timely
  <2>. QED
    BY <2>1 DEF WorkerTimely, Rule
<1>. QED
  BY <1>1 DEF Timely

(* An idle worker, or one between two rules, has only its clock to remember. *)
LEMMA AnsweredTimely ==
  ASSUME TypeOK, Timely, NEW c \in Workers, now' = now, used' = used,
         \A d \in Workers \ {c} : check'[d] = check[d],
         \A r \in Rules : bucket'[r].last <= now,
         check'[c].at \in {"idle", "rule"}
  PROVE  Timely'
<1>1. WorkerTimely(c)'
  BY DEF Timely, WorkerTimely
<1>. QED
  BY <1>1, OneWorkerTimely

LEMMA TimelyStep ==
  ASSUME TypeOK, Timely, [Next]_vars
  PROVE  Timely'
<1>. USE RateAssumption, Basics
<1>0. /\ now \in Times
      /\ \A r \in Rules : bucket[r].last <= now
  BY DEF Timely, TypeOK
<1>1. ASSUME NEW c \in Workers, Request(c) \/ AllRulesPassed(c)
      PROVE  Timely'
  <2>1. PICK x \in {NoCheck} \cup AtRules : check' = [check EXCEPT ![c] = x]
    <3>1. [at |-> "rule", turn |-> 1] \in AtRules
      BY DEF AtRules
    <3>. QED
      BY <1>1, <3>1 DEF Request, AllRulesPassed
  <2>2. x.at \in {"idle", "rule"}
    BY DEF NoCheck, AtRules
  <2>3. check'[c].at \in {"idle", "rule"} /\ \A d \in Workers \ {c} : check'[d] = check[d]
    BY <2>1, <2>2 DEF TypeOK
  <2>4. now' = now /\ used' = used /\ bucket' = bucket
    BY <1>1 DEF Request, AllRulesPassed, store
  <2>. QED
    BY <1>0, <2>3, <2>4, AnsweredTimely
<1>2. ASSUME NEW c \in Workers, SlidingClock(c) \/ FixedClock(c)
      PROVE  Timely'
  <2>1. check[c].turn \in DOMAIN Order /\ Rule(c) \in Rules
    BY <1>2, RuleType DEF SlidingClock, FixedClock, AtRule
  <2>2. PICK p \in Policies[Rule(c)], i \in Instants, at \in {"zset", "get"} :
          ReadClock(c, i) /\ Goto(c, at, p, NoBucket)
    BY <1>2 DEF SlidingClock, FixedClock
  <2>3. /\ check'[c] = [at |-> at, turn |-> check[c].turn, since |-> now, p |-> p,
                        seen |-> NoBucket]
        /\ \A d \in Workers \ {c} : check'[d] = check[d]
    BY <2>2 DEF Goto, TypeOK
  <2>4. /\ used'[c] = i /\ Tick(used'[c]) = now
        /\ \A d \in Workers \ {c} : used'[d] = used[d]
    BY <2>2, ReadClockType
  <2>5. now' = now /\ bucket' = bucket
    BY <1>2 DEF SlidingClock, FixedClock, store
  <2>6. Rule(c)' = Rule(c)
    BY <2>3 DEF Rule
  <2>7. now <= now /\ NoBucket.last <= now
    BY DEF TypeOK, Times, NoBucket
  <2>8. WorkerTimely(c)'
    BY <2>2, <2>3, <2>4, <2>5, <2>6, <2>7 DEF WorkerTimely
  <2>. QED
    BY <1>0, <2>3, <2>4, <2>5, <2>8, OneWorkerTimely
<1>3. ASSUME NEW c \in Workers, TokenGet(c)
      PROVE  Timely'
  <2>1. check[c].turn \in DOMAIN Order /\ Rule(c) \in Rules
    BY <1>3, RuleType DEF TokenGet, AtRule
  <2>2. PICK p \in Policies[Rule(c)] :
          Goto(c, "fetched", p, IF Alive(bucket[Rule(c)]) THEN bucket[Rule(c)] ELSE NoBucket)
    BY <1>3 DEF TokenGet
  <2>3. PICK b \in {bucket[Rule(c)], NoBucket} : Goto(c, "fetched", p, b)
    BY <2>2
  <2>4. /\ check'[c] = [at |-> "fetched", turn |-> check[c].turn, since |-> now, p |-> p,
                        seen |-> b]
        /\ \A d \in Workers \ {c} : check'[d] = check[d]
    BY <2>3 DEF Goto, TypeOK
  <2>5. now' = now /\ bucket' = bucket /\ used' = used
    BY <1>3 DEF TokenGet, store
  <2>6. Rule(c)' = Rule(c)
    BY <2>4 DEF Rule
  <2>7. now <= now /\ b.last <= now
    BY <1>0, <2>1 DEF Times, NoBucket
  <2>8. WorkerTimely(c)'
    BY <2>2, <2>4, <2>5, <2>6, <2>7 DEF WorkerTimely, Timely
  <2>. QED
    BY <1>0, <2>4, <2>5, <2>8, OneWorkerTimely
<1>4. ASSUME NEW c \in Workers, TokenClock(c)
      PROVE  Timely'
  <2>1. PICK i \in Instants : ReadClock(c, i)
    BY <1>4 DEF TokenClock
  <2>2. /\ check'[c] = [at |-> "stamped", turn |-> check[c].turn, since |-> now,
                        p |-> check[c].p, seen |-> check[c].seen]
        /\ \A d \in Workers \ {c} : check'[d] = check[d]
    BY <1>4 DEF TokenClock, Goto, TypeOK
  <2>3. /\ used'[c] = i /\ Tick(used'[c]) = now
        /\ \A d \in Workers \ {c} : used'[d] = used[d]
    BY <2>1, ReadClockType
  <2>4. now' = now /\ bucket' = bucket
    BY <1>4 DEF TokenClock, store
  <2>5. Rule(c)' = Rule(c)
    BY <2>2 DEF Rule
  <2>6. check[c].p \in Policies[Rule(c)] /\ check[c].seen.last <= now /\ now <= now
    <3>1. check[c].at = "fetched" /\ WorkerTimely(c)
      BY <1>4 DEF TokenClock, Timely
    <3>. QED
      BY <1>0, <3>1 DEF WorkerTimely, Times
  <2>7. WorkerTimely(c)'
    BY <2>1, <2>2, <2>3, <2>4, <2>5, <2>6 DEF WorkerTimely
  <2>. QED
    BY <1>0, <2>2, <2>3, <2>4, <2>7, OneWorkerTimely
<1>5. ASSUME NEW c \in Workers, TokenStore(c)
      PROVE  Timely'
  <2>. DEFINE enough == Refilled(c) >= Window
  <2>. DEFINE left == IF enough THEN Refilled(c) - Window ELSE Refilled(c)
  <2>. DEFINE new == [tokens |-> left, last |-> Tick(used[c]), until |-> now + 2 * Window]
  <2>1. check[c] \in InCheck /\ Rule(c) \in Rules /\ used[c] \in Instants
        /\ Tick(used[c]) <= now
    BY <1>5, InCheckType DEF TokenStore, Timely, WorkerTimely
  <2>2. bucket' = [bucket EXCEPT ![Rule(c)] = new] /\ Answer(c, enough)
    BY <1>5 DEF TokenStore
  <2>3. new.last <= now
    BY <2>1
  <2>. HIDE DEF new, left, enough
  <2>4. \A r \in Rules : bucket'[r].last <= now
    BY <1>0, <2>1, <2>2, <2>3 DEF TypeOK
  <2>5. /\ \A d \in Workers \ {c} : check'[d] = check[d]
        /\ check'[c].at \in {"idle", "rule"}
    BY <2>1, <2>2, AnswerType
  <2>6. now' = now /\ used' = used
    BY <1>5 DEF TokenStore
  <2>. QED
    BY <2>4, <2>5, <2>6, AnsweredTimely
<1>6. ASSUME NEW c \in Workers,
             SlidingPipeline(c) \/ FixedGet(c) \/ FixedIncr(c) \/ FixedSet(c)
      PROVE  Timely'
  <2>1. /\ check[c] \in InCheck /\ Rule(c) \in Rules /\ used[c] \in Instants
        /\ check[c].p \in Policies[Rule(c)] /\ Tick(used[c]) <= now
    BY <1>6, InCheckType
    DEF SlidingPipeline, FixedGet, FixedIncr, FixedSet, Timely, WorkerTimely
  <2>2. now' = now /\ bucket' = bucket /\ used' = used
    BY <1>6 DEF SlidingPipeline, FixedGet, FixedIncr, FixedSet, store
  <2>3. \/ \E allowed \in BOOLEAN : Answer(c, allowed)
        \/ \E at \in {"incr", "set"} : Goto(c, at, check[c].p, NoBucket)
    <3>1. CASE SlidingPipeline(c)
      BY <3>1 DEF SlidingPipeline, Allows
    <3>2. CASE FixedGet(c) \/ FixedIncr(c) \/ FixedSet(c)
      BY <3>2 DEF FixedGet, FixedIncr, FixedSet
    <3>. QED
      BY <1>6, <3>1, <3>2
  <2>4. ASSUME NEW allowed \in BOOLEAN, Answer(c, allowed)
        PROVE  Timely'
    <3>1. /\ \A d \in Workers \ {c} : check'[d] = check[d]
          /\ check'[c].at \in {"idle", "rule"}
      BY <2>1, <2>4, AnswerType
    <3>. QED
      BY <1>0, <2>2, <3>1, AnsweredTimely
  <2>5. ASSUME NEW at \in {"incr", "set"}, Goto(c, at, check[c].p, NoBucket)
        PROVE  Timely'
    <3>1. /\ check'[c] = [at |-> at, turn |-> check[c].turn, since |-> now,
                          p |-> check[c].p, seen |-> NoBucket]
          /\ \A d \in Workers \ {c} : check'[d] = check[d]
      BY <2>5 DEF Goto, TypeOK
    <3>2. Rule(c)' = Rule(c)
      BY <3>1 DEF Rule
    <3>3. now <= now /\ NoBucket.last <= now
      BY DEF TypeOK, Times, NoBucket
    <3>4. WorkerTimely(c)'
      BY <2>1, <2>2, <3>1, <3>2, <3>3 DEF WorkerTimely
    <3>. QED
      BY <1>0, <2>2, <3>1, <3>4, OneWorkerTimely
  <2>. QED
    BY <2>3, <2>4, <2>5
<1>7. CASE PassTime
  <2>1. /\ now' = now + 1 /\ check' = check /\ used' = used /\ bucket' = bucket
        /\ now \in Nat
    BY <1>7 DEF PassTime, store, TypeOK, Times
  <2>2. \A r \in Rules : bucket[r].last \in Nat
    BY DEF TypeOK, Buckets, Times
  <2>3. \A r \in Rules : bucket'[r].last <= now'
    BY <1>0, <2>1, <2>2
  <2>4. ASSUME NEW c \in Workers
        PROVE  WorkerTimely(c)'
    <3>1. Tick(used[c]) \in Nat
      BY DEF TypeOK, Instants, NoInstant, Times, Tick
    <3>2. check[c].at \notin {"idle", "rule"} =>
            check[c].since \in Nat /\ check[c].seen.last \in Nat
      BY InCheckType DEF InCheck, Buckets, Times
    <3>3. WorkerTimely(c)
      BY DEF Timely
    <3>4. \A m \in Nat : m <= now => m <= now'
      BY <2>1
    <3>5. Rule(c)' = Rule(c)
      BY <2>1 DEF Rule
    <3>. QED
      BY <2>1, <3>1, <3>2, <3>3, <3>4, <3>5 DEF WorkerTimely
  <2>. QED
    BY <2>3, <2>4 DEF Timely
<1>8. CASE UNCHANGED vars
  BY <1>8 DEF vars, Timely, WorkerTimely, Rule
<1>. QED
  BY <1>1, <1>2, <1>3, <1>4, <1>5, <1>6, <1>7, <1>8 DEF Next

-----------------------------------------------------------------------------
(* With the sliding window a check only reads the clock and runs the pipeline. *)
LEMMA SlidingStep ==
  ASSUME TypeOK, Timely, Sliding, [Next]_vars
  PROVE  Sliding'
<1>. USE RateAssumption, Basics
<1>1. SUFFICES ASSUME backend' = "sliding_window"
               PROVE  \A c \in Workers : WorkerSliding(c)'
  BY DEF Sliding
<1>2. backend = "sliding_window"
  BY <1>1 DEF Next, vars, PassTime, Request, AllRulesPassed, SlidingClock, SlidingPipeline,
              TokenGet, TokenClock, TokenStore, FixedClock, FixedGet, FixedIncr, FixedSet
<1>3. \A c \in Workers : WorkerSliding(c)
  BY <1>2 DEF Sliding
<1>4. ASSUME NEW c \in Workers,
             now' = now, \A d \in Workers \ {c} : check'[d] = check[d] /\ used'[d] = used[d],
             WorkerSliding(c)'
      PROVE  \A d \in Workers : WorkerSliding(d)'
  BY <1>3, <1>4 DEF WorkerSliding
<1>5. ASSUME NEW c \in Workers, Request(c) \/ AllRulesPassed(c)
      PROVE  \A d \in Workers : WorkerSliding(d)'
  <2>1. PICK x \in {NoCheck} \cup AtRules : check' = [check EXCEPT ![c] = x]
    <3>1. [at |-> "rule", turn |-> 1] \in AtRules
      BY DEF AtRules
    <3>. QED
      BY <1>5, <3>1 DEF Request, AllRulesPassed
  <2>2. x.at \in {"idle", "rule"}
    BY DEF NoCheck, AtRules
  <2>3. check'[c].at \in {"idle", "rule"} /\ \A d \in Workers \ {c} : check'[d] = check[d]
    BY <2>1, <2>2 DEF TypeOK
  <2>4. now' = now /\ used' = used
    BY <1>5 DEF Request, AllRulesPassed
  <2>. QED
    BY <1>4, <2>3, <2>4 DEF WorkerSliding
<1>6. ASSUME NEW c \in Workers, SlidingClock(c)
      PROVE  \A d \in Workers : WorkerSliding(d)'
  <2>1. PICK p \in Policies[Rule(c)], i \in Instants :
          ReadClock(c, i) /\ Goto(c, "zset", p, NoBucket)
    BY <1>6 DEF SlidingClock
  <2>2. /\ check'[c] = [at |-> "zset", turn |-> check[c].turn, since |-> now, p |-> p,
                        seen |-> NoBucket]
        /\ \A d \in Workers \ {c} : check'[d] = check[d]
    BY <2>1 DEF Goto, TypeOK
  <2>3. /\ Tick(used'[c]) = now
        /\ \A d \in Workers \ {c} : used'[d] = used[d]
    BY <2>1, ReadClockType
  <2>4. now' = now /\ now <= now + MaxDelay
    BY <1>6 DEF SlidingClock, TypeOK, Times
  <2>5. WorkerSliding(c)'
    BY <2>2, <2>3, <2>4 DEF WorkerSliding
  <2>. QED
    BY <1>4, <2>2, <2>3, <2>4, <2>5
<1>7. ASSUME NEW c \in Workers, SlidingPipeline(c)
      PROVE  \A d \in Workers : WorkerSliding(d)'
  <2>1. /\ check[c] \in InCheck /\ Rule(c) \in Rules /\ used[c] \in Instants
        /\ now' = now /\ used' = used
    BY <1>7, InCheckType DEF SlidingPipeline, Timely, WorkerTimely
  <2>2. Answer(c, Allows(Cardinality(Kept(c)), check[c].p))
    BY <1>7 DEF SlidingPipeline
  <2>3. /\ \A d \in Workers \ {c} : check'[d] = check[d]
        /\ check'[c].at \in {"idle", "rule"}
    BY <2>1, <2>2, AnswerType
  <2>. QED
    BY <1>4, <2>1, <2>3 DEF WorkerSliding
<1>8. ASSUME NEW c \in Workers,
             \/ TokenGet(c) \/ TokenClock(c) \/ TokenStore(c)
             \/ FixedClock(c) \/ FixedGet(c) \/ FixedIncr(c) \/ FixedSet(c)
      PROVE  FALSE
  <2>1. check[c].at \in {"idle", "rule", "zset"}
    BY <1>3 DEF WorkerSliding
  <2>. QED
    BY <1>2, <1>8, <2>1
    DEF TokenGet, TokenClock, TokenStore, FixedClock, FixedGet, FixedIncr, FixedSet
<1>9. CASE PassTime
  <2>1. /\ now' = now + 1 /\ check' = check /\ used' = used /\ now \in Nat
    BY <1>9 DEF PassTime, TypeOK, Times
  <2>2. ASSUME NEW c \in Workers, check[c].at = "zset"
        PROVE  now + 1 <= check[c].since + MaxDelay
    <3>1. now < check[c].since + MaxDelay
      BY <1>9, <2>2 DEF PassTime
    <3>2. check[c].since \in Nat
      BY <2>2, InCheckType DEF InCheck, Times
    <3>. QED
      BY <2>1, <3>1, <3>2
  <2>. QED
    BY <1>3, <2>1, <2>2 DEF WorkerSliding
<1>10. CASE UNCHANGED vars
  BY <1>3, <1>10 DEF vars, WorkerSliding
<1>. QED
  BY <1>5, <1>6, <1>7, <1>8, <1>9, <1>10 DEF Next

-----------------------------------------------------------------------------
(* Of two policies the count is compared with the larger number. *)
LEMMA AllowsCeiling ==
  ASSUME NEW p \in Limits, NEW n \in Nat, Allows(n, p)
  PROVE  n <= Ceiling(p) /\ Ceiling(p) \in Nat
BY DEF Allows, Ceiling, Limits, None

(* The recent requests of a rule are in its sorted set, so they are finite. *)
LEMMA RecentRecorded ==
  ASSUME NEW r \in Rules, RuleRecorded(r)
  PROVE  /\ InstantsSince(r, now - (Window - MaxDelay)) \subseteq entries[r]
         /\ IsFiniteSet(InstantsSince(r, now - (Window - MaxDelay)))
<1>1. InstantsSince(r, now - (Window - MaxDelay)) \subseteq entries[r]
  BY DEF InstantsSince, RuleRecorded
<1>. QED
  BY <1>1, FS_Subset DEF RuleRecorded

(* As time passes requests only leave the window. *)
LEMMA WindowMoves ==
  ASSUME TypeOK, NEW r \in Rules, RuleRecorded(r), RuleBound(r),
         now' = now \/ now' = now + 1,
         entries'[r] = entries[r], admitted'[r] = admitted[r]
  PROVE  RuleRecorded(r)' /\ RuleBound(r)'
<1>. USE RateAssumption, Basics
<1>. DEFINE recent == InstantsSince(r, now - (Window - MaxDelay))
<1>1. /\ now \in Nat /\ now <= now'
      /\ now' \in Nat
      /\ \A a \in admitted[r] : a.at \in Nat
  BY DEF TypeOK, Times
<1>2. RuleRecorded(r)'
  BY <1>1 DEF RuleRecorded
<1>3. recent' \subseteq recent
  BY <1>1 DEF InstantsSince
<1>4. IsFiniteSet(recent)
  BY RecentRecorded
<1>5. Cardinality(recent') <= Cardinality(recent) /\ Cardinality(recent') \in Nat
      /\ Cardinality(recent) \in Nat
  BY <1>3, <1>4, FS_Subset, FS_CardinalityType
<1>6. PICK p \in Policies[r] : Cardinality(recent) <= Ceiling(p) + 1
  BY DEF RuleBound
<1>7. Ceiling(p) \in Nat
  BY DEF Ceiling, Limits
<1>8. Cardinality(recent') <= Ceiling(p) + 1
  <2>. HIDE DEF recent
  <2>. QED
    BY <1>5, <1>6, <1>7
<1>. QED
  BY <1>2, <1>8 DEF RuleBound

(* The pipeline trims nothing of the window, less the delay; it counts what *)
(* is left, and lets the request through only below the ceiling.            *)
LEMMA PipelineBound ==
  ASSUME TypeOK, NEW c \in Workers, check[c] \in InCheck, NEW r \in Rules, r = Rule(c),
         used[c] \in Instants, check[c].p \in Policies[r],
         Tick(used[c]) = check[c].since, check[c].since <= now,
         now <= check[c].since + MaxDelay,
         RuleRecorded(r), RuleBound(r), SlidingPipeline(c)
  PROVE  RuleRecorded(r)' /\ RuleBound(r)'
<1>. USE RateAssumption, Basics
<1>. DEFINE recent == InstantsSince(r, now - (Window - MaxDelay))
<1>. DEFINE new == [inst |-> used[c], at |-> now, by |-> c]
<1>. DEFINE p == check[c].p
<1>1. /\ now \in Nat /\ now' = now /\ Tick(used[c]) \in Nat
      /\ \A a \in admitted[r] : a.at \in Nat /\ a.inst \in Instants
      /\ \A i \in Instants : Tick(i) \in Nat
      /\ p \in Limits
  BY DEF SlidingPipeline, TypeOK, Times, Instants, Tick
<1>2. /\ entries' = [entries EXCEPT ![r] = Kept(c) \cup {used[c]}]
      /\ Answer(c, Allows(Cardinality(Kept(c)), p))
      /\ used' = used
  BY DEF SlidingPipeline
<1>3. entries'[r] = Kept(c) \cup {used[c]}
  BY <1>2 DEF TypeOK
<1>4. IsFiniteSet(Kept(c)) /\ Cardinality(Kept(c)) \in Nat
  <2>1. Kept(c) \subseteq entries[r]
    BY DEF Kept
  <2>. QED
    BY <2>1, FS_Subset, FS_CardinalityType DEF RuleRecorded
<1>5. IsFiniteSet(entries'[r]) /\ Cardinality(entries'[r]) <= Cardinality(Kept(c)) + 1
      /\ Cardinality(entries'[r]) \in Nat
  <2>. DEFINE K == Kept(c)
  <2>1. IsFiniteSet(K) /\ Cardinality(K) \in Nat /\ entries'[r] = K \cup {used[c]}
    BY <1>3, <1>4
  <2>. HIDE DEF K
  <2>2. /\ IsFiniteSet(K \cup {used[c]})
        /\ \/ Cardinality(K \cup {used[c]}) = Cardinality(K)
           \/ Cardinality(K \cup {used[c]}) = Cardinality(K) + 1
    BY <2>1, FS_AddElement
  <2>3. IsFiniteSet(entries'[r]) /\ Cardinality(entries'[r]) <= Cardinality(K) + 1
        /\ Cardinality(entries'[r]) \in Nat
    BY <2>1, <2>2
  <2>. QED
    BY <2>3 DEF K
<1>6. ASSUME NEW a \in admitted[r], a.at > now - (Window - MaxDelay)
      PROVE  a.inst \in Kept(c)
  <2>1. a.inst \in entries[r] /\ a.at - MaxDelay <= Tick(a.inst)
    BY <1>6 DEF RuleRecorded
  <2>2. Tick(a.inst) > Tick(used[c]) - Window
    <3>1. Tick(used[c]) <= now /\ a.at \in Nat /\ Tick(a.inst) \in Nat
      BY <1>1
    <3>. QED
      BY <1>1, <1>6, <2>1, <3>1
  <2>3. ~Outside(a.inst, used[c])
    BY <1>1, <2>2 DEF Outside
  <2>. QED
    BY <2>1, <2>3 DEF Kept
<1>7. CASE Allows(Cardinality(Kept(c)), p)
  <2>1. admitted'[r] = admitted[r] \cup {new}
    BY <1>2, <1>7 DEF Answer, TypeOK
  <2>2. new.at = now /\ new.inst = used[c]
    OBVIOUS
  <2>3. \A a \in admitted'[r] :
          /\ a.at <= now
          /\ a.at - MaxDelay <= Tick(a.inst)
          /\ a.at > now - (Window - MaxDelay) => a.inst \in entries'[r]
    <3>. HIDE DEF new
    <3>1. ASSUME NEW a \in admitted[r]
          PROVE  /\ a.at <= now
                 /\ a.at - MaxDelay <= Tick(a.inst)
                 /\ a.at > now - (Window - MaxDelay) => a.inst \in entries'[r]
      BY <1>3, <1>6 DEF RuleRecorded
    <3>2. /\ new.at <= now
          /\ new.at - MaxDelay <= Tick(new.inst)
          /\ new.inst \in entries'[r]
      BY <1>1, <1>3, <2>2
    <3>. QED
      BY <2>1, <3>1, <3>2
  <2>4. InstantsSince(r, now - (Window - MaxDelay))' \subseteq entries'[r]
    BY <1>1, <2>3 DEF InstantsSince
  <2>5. RuleRecorded(r)'
    BY <1>1, <1>5, <2>3 DEF RuleRecorded
  <2>6. Cardinality(InstantsSince(r, now - (Window - MaxDelay))') <= Cardinality(entries'[r])
        /\ Cardinality(InstantsSince(r, now - (Window - MaxDelay))') \in Nat
    BY <1>5, <2>4, FS_Subset, FS_CardinalityType
  <2>7. Cardinality(Kept(c)) <= Ceiling(p) /\ Ceiling(p) \in Nat
    BY <1>1, <1>4, <1>7, AllowsCeiling
  <2>8. Cardinality(InstantsSince(r, now - (Window - MaxDelay))') <= Ceiling(p) + 1
    BY <1>4, <1>5, <2>6, <2>7
  <2>9. \E q \in Policies[r] :
          Cardinality(InstantsSince(r, now - (Window - MaxDelay))') <= Ceiling(q) + 1
    BY <2>8
  <2>. QED
    BY <2>5, <2>9 DEF RuleBound
<1>8. CASE ~Allows(Cardinality(Kept(c)), p)
  <2>1. admitted'[r] = admitted[r]
    BY <1>2, <1>8 DEF Answer
  <2>2. \A a \in admitted[r] :
          a.at > now - (Window - MaxDelay) => a.inst \in entries'[r]
    BY <1>3, <1>6
  <2>3. RuleRecorded(r)'
    BY <1>1, <1>5, <2>1, <2>2 DEF RuleRecorded
  <2>4. InstantsSince(r, now - (Window - MaxDelay))' = InstantsSince(r, now - (Window - MaxDelay))
    BY <1>1, <2>1 DEF InstantsSince
  <2>. QED
    BY <2>3, <2>4 DEF RuleBound
<1>. QED
  BY <1>7, <1>8

LEMMA RecordedStep ==
  ASSUME TypeOK, Timely, Sliding, Recorded, [Next]_vars
  PROVE  Recorded'
<1>. USE RateAssumption, Basics
<1>1. SUFFICES ASSUME backend' = "sliding_window", NEW r \in Rules
               PROVE  RuleRecorded(r)' /\ RuleBound(r)'
  BY DEF Recorded
<1>2. backend = "sliding_window"
  BY <1>1 DEF Next, vars, PassTime, Request, AllRulesPassed, SlidingClock, SlidingPipeline,
              TokenGet, TokenClock, TokenStore, FixedClock, FixedGet, FixedIncr, FixedSet
<1>3. /\ \A c \in Workers : WorkerSliding(c)
      /\ RuleRecorded(r) /\ RuleBound(r)
  BY <1>2 DEF Sliding, Recorded
<1>4. CASE /\ now' = now \/ now' = now + 1
           /\ entries' = entries /\ admitted' = admitted
  BY <1>3, <1>4, WindowMoves
<1>5. ASSUME NEW c \in Workers, SlidingPipeline(c)
      PROVE  RuleRecorded(r)' /\ RuleBound(r)'
  <2>1. /\ check[c].at = "zset" /\ check[c] \in InCheck /\ Rule(c) \in Rules
        /\ used[c] \in Instants /\ check[c].p \in Policies[Rule(c)]
        /\ check[c].since <= now
    BY <1>5, InCheckType DEF SlidingPipeline, Timely, WorkerTimely
  <2>2. /\ Tick(used[c]) = check[c].since
        /\ now <= check[c].since + MaxDelay
    BY <1>3, <2>1 DEF WorkerSliding
  <2>3. CASE r = Rule(c)
    BY <1>3, <1>5, <2>1, <2>2, <2>3, PipelineBound
  <2>4. CASE r # Rule(c)
    <3>1. /\ now' = now /\ entries'[r] = entries[r]
          /\ Answer(c, Allows(Cardinality(Kept(c)), check[c].p))
      BY <1>5, <2>1, <2>4 DEF SlidingPipeline, TypeOK
    <3>2. admitted'[r] = admitted[r]
      BY <2>1, <2>4, <3>1 DEF Answer, TypeOK
    <3>. QED
      BY <1>3, <3>1, <3>2, WindowMoves
  <2>. QED
    BY <2>3, <2>4
<1>6. ASSUME NEW c \in Workers,
             \/ TokenGet(c) \/ TokenClock(c) \/ TokenStore(c)
             \/ FixedClock(c) \/ FixedGet(c) \/ FixedIncr(c) \/ FixedSet(c)
      PROVE  FALSE
  <2>1. check[c].at \in {"idle", "rule", "zset"}
    BY <1>3 DEF WorkerSliding
  <2>. QED
    BY <1>2, <1>6, <2>1
    DEF TokenGet, TokenClock, TokenStore, FixedClock, FixedGet, FixedIncr, FixedSet
<1>7. ASSUME NEW c \in Workers, Request(c) \/ AllRulesPassed(c) \/ SlidingClock(c)
      PROVE  RuleRecorded(r)' /\ RuleBound(r)'
  BY <1>4, <1>7 DEF Request, AllRulesPassed, SlidingClock, store
<1>8. CASE PassTime
  BY <1>4, <1>8 DEF PassTime, store
<1>9. CASE UNCHANGED vars
  BY <1>4, <1>9 DEF vars
<1>. QED
  BY <1>5, <1>6, <1>7, <1>8, <1>9 DEF Next

(* Nothing has been read, recorded or let through at first. *)
LEMMA InitIInv == Init => IInv
<1>. USE RateAssumption, Basics
<1>1. SUFFICES ASSUME Init
               PROVE  IInv
  OBVIOUS
<1>2. TypeOK
  BY <1>1 DEF Init, TypeOK, NoCount
<1>3. Timely /\ Sliding
  BY <1>1 DEF Init, Timely, WorkerTimely, Sliding, WorkerSliding, NoCheck, NoInstant, NoBucket, Tick
<1>4. ASSUME NEW r \in Rules
      PROVE  RuleRecorded(r) /\ RuleBound(r)
  <2>1. entries[r] = {} /\ admitted[r] = {}
    BY <1>1 DEF Init
  <2>2. IsFiniteSet({}) /\ Cardinality({}) = 0
    BY FS_EmptySet
  <2>3. RuleRecorded(r)
    BY <2>1, <2>2 DEF RuleRecorded
  <2>4. PICK p \in Policies[r] : TRUE
    OBVIOUS
  <2>5. Ceiling(p) \in Nat
    BY <2>4 DEF Ceiling, Limits
  <2>6. InstantsSince(r, now - (Window - MaxDelay)) = {}
    BY <2>1 DEF InstantsSince
  <2>7. Cardinality(InstantsSince(r, now - (Window - MaxDelay))) <= Ceiling(p) + 1
    <3>1. Cardinality(InstantsSince(r, now - (Window - MaxDelay))) = 0
      BY <2>2, <2>6
    <3>. QED
      BY <2>5, <3>1
  <2>. QED
    BY <2>3, <2>7 DEF RuleBound
<1>. QED
  BY <1>2, <1>3, <1>4 DEF IInv, Recorded

LEMMA IInvHolds == Spec => []IInv
<1>1. IInv /\ [Next]_vars => IInv'
  BY TypeStep, TimelyStep, SlidingStep, RecordedStep DEF IInv
<1>. QED
  BY <1>1, InitIInv, PTL DEF Spec

(* The state keeps its type; in particular the bucket never holds less than *)
(* no tokens, although its refill is computed from two readings of the      *)
(* clock: a check's own reading is never before the one it has fetched.     *)
THEOREM TypeCorrect == Spec => []TypeOK
<1>1. IInv => TypeOK
  BY DEF IInv
<1>. QED
  BY <1>1, IInvHolds, PTL

(* RateLimit.SlidingBound, for any number of workers, any limits (a rule's  *)
(* and its users'), any window and any delay between clock and pipeline.    *)
THEOREM SlidingWindowHolds == Spec => []SlidingBound
<1>1. IInv => SlidingBound
  BY DEF IInv, Recorded, RuleBound, SlidingBound
<1>. QED
  BY <1>1, IInvHolds, PTL

-----------------------------------------------------------------------------
(* Windows of the clock: multiples of the window's length do not overlap.  *)
LEMMA Multiples ==
  ASSUME NEW w \in Nat, w > 0, NEW j \in Int, NEW k \in Int, j < k
  PROVE  j * w + w <= k * w
<1>1. (k - j - 1) * w >= 0
  <2>1. k - j - 1 \in Nat
    OBVIOUS
  <2>. QED
    BY <2>1
<1>. QED
  BY <1>1

LEMMA StartOfWindow ==
  ASSUME NEW t \in Nat, NEW w \in Nat, w > 0
  PROVE  /\ t - (t % w) \in Nat
         /\ (t - (t % w)) % w = 0
         /\ t - (t % w) <= t /\ t < (t - (t % w)) + w
<1>. DEFINE k == t \div w
<1>1. t = k * w + (t % w) /\ t % w \in 0..(w - 1) /\ k \in Nat
  OBVIOUS
<1>2. (t - (t % w)) = k * w
  BY <1>1
<1>3. /\ k * w = ((k * w) \div w) * w + ((k * w) % w)
      /\ (k * w) % w \in 0..(w - 1) /\ (k * w) \div w \in Int
  <2>1. k \in Nat /\ k * w \in Nat
    BY <1>1
  <2>. HIDE DEF k
  <2>. QED
    BY <2>1
<1>4. (k * w) % w = 0
  <2>. DEFINE j == (k * w) \div w
  <2>1. k * w = j * w + ((k * w) % w) /\ (k * w) % w \in 0..(w - 1) /\ j \in Int /\ k \in Int
    BY <1>1, <1>3
  <2>. HIDE DEF k, j
  <2>2. ~(j < k) /\ ~(k < j)
    BY <2>1, Multiples
  <2>. QED
    BY <2>1, <2>2
<1>. QED
  BY <1>1, <1>2, <1>4

LEMMA OneWindow ==
  ASSUME NEW t \in Nat, NEW w \in Nat, w > 0,
         NEW v \in Nat, v % w = 0, v <= t, t < v + w
  PROVE  v = t - (t % w)
<1>. DEFINE j == v \div w
<1>. DEFINE k == t \div w
<1>1. /\ t = k * w + (t % w) /\ t % w \in 0..(w - 1) /\ k \in Int
      /\ v = j * w /\ j \in Int
  OBVIOUS
<1>. HIDE DEF j, k
<1>2. ~(j < k) /\ ~(k < j)
  BY <1>1, Multiples
<1>. QED
  BY <1>1, <1>2

-----------------------------------------------------------------------------
(* The fixed window, for a rule whose checks have not overlapped: at most   *)
(* one of them has decided and not yet counted; the counter of a window     *)
(* lives to the window's end and is not behind the requests let through;    *)
(* and who has decided still finds the count below its ceiling.             *)
Starts == {t \in Times : t % Window = 0}
Counting(c, r) == check[c].at \in {"incr", "set"} /\ Rule(c) = r

WindowCounted(r, w) ==
  /\ IsFiniteSet(WithinWindow(r, w))
  /\ \E p \in Policies[r] : Cardinality(WithinWindow(r, w)) <= Ceiling(p)
  /\ counter[r][w].until = 0 \/ counter[r][w].until >= w + Window
  /\ now < w + Window =>
       Cardinality(WithinWindow(r, w))
         <= (IF counter[r][w].until = 0 THEN 0 ELSE counter[r][w].n)

RoomFor(c, r, w) ==
  now < w + Window =>
    /\ Cardinality(WithinWindow(r, w)) < Ceiling(check[c].p)
    /\ check[c].at = "set" => counter[r][w].until = 0

FixedRule(r) ==
  /\ \A c, d \in Workers : Counting(c, r) /\ Counting(d, r) => c = d
  /\ \A w \in Starts : WindowCounted(r, w)
  /\ \A c \in Workers : Counting(c, r) => RoomFor(c, r, WindowStart(c))

FixedSteps == \A c \in Workers : check[c].at \in {"idle", "rule", "get", "incr", "set"}

Counted ==
  backend = "fixed_window" => FixedSteps /\ \A r \in Rules \ overlapped : FixedRule(r)

(* The window a worker counts in is one of the clock's, and has begun.      *)
LEMMA WindowType ==
  ASSUME TypeOK, NEW c \in Workers, used[c] \in Instants, Tick(used[c]) <= now
  PROVE  /\ WindowStart(c) \in Starts
         /\ WindowStart(c) <= now
         /\ Tick(used[c]) \in WindowStart(c)..(WindowStart(c) + Window - 1)
         /\ \A w \in Starts :
              Tick(used[c]) \in w..(w + Window - 1) => w = WindowStart(c)
<1>. DEFINE t == Tick(used[c])
<1>1. t \in Times /\ t \in Nat /\ Window \in Nat /\ Window > 0 /\ now \in Nat /\ MaxTime \in Nat
  BY Basics, RateAssumption DEF Instants, Tick, Times, TypeOK
<1>2. WindowStart(c) = t - (t % Window)
  BY DEF WindowStart
<1>. HIDE DEF t
<1>3. /\ WindowStart(c) \in Nat /\ WindowStart(c) % Window = 0
      /\ WindowStart(c) <= t /\ t < WindowStart(c) + Window
  BY <1>1, <1>2, StartOfWindow
<1>4. ASSUME NEW w \in Starts, t \in w..(w + Window - 1)
      PROVE  w = WindowStart(c)
  <2>1. w \in Nat /\ w % Window = 0 /\ w <= t /\ t < w + Window
    BY <1>1, <1>4 DEF Starts, Times
  <2>. QED
    BY <1>1, <1>2, <2>1, OneWindow
<1>5. WindowStart(c) \in Starts
  BY <1>1, <1>3 DEF Starts, Times
<1>. QED
  BY <1>1, <1>3, <1>4, <1>5 DEF t

(* A step that lets no request of the rule through, touches none of its     *)
(* counters and takes no further check of it to a decision.                 *)
LEMMA FixedFrame ==
  ASSUME TypeOK, Timely, NEW r \in Rules, FixedRule(r), now' = now \/ now' = now + 1,
         counter'[r] = counter[r], admitted'[r] = admitted[r],
         \A c \in Workers : Counting(c, r)' =>
            Counting(c, r) /\ check'[c] = check[c] /\ used'[c] = used[c]
  PROVE  FixedRule(r)'
<1>1. now \in Nat /\ Window \in Nat /\ \A w \in Starts : w \in Nat
  BY Basics DEF TypeOK, Times, Starts
<1>2. \A w \in Starts : WithinWindow(r, w)' = WithinWindow(r, w)
  BY DEF WithinWindow
<1>3. ASSUME NEW w \in Starts
      PROVE  WindowCounted(r, w)'
  <2>1. WindowCounted(r, w)
    BY DEF FixedRule
  <2>2. now' < w + Window => now < w + Window
    BY <1>1
  <2>. QED
    BY <1>2, <2>1, <2>2 DEF WindowCounted
<1>4. ASSUME NEW c \in Workers, Counting(c, r)'
      PROVE  RoomFor(c, r, WindowStart(c))'
  <2>1. Counting(c, r) /\ check'[c] = check[c] /\ used'[c] = used[c]
    BY <1>4
  <2>2. RoomFor(c, r, WindowStart(c)) /\ WindowStart(c)' = WindowStart(c)
    BY <2>1 DEF FixedRule, WindowStart
  <2>3. WithinWindow(r, WindowStart(c))' = WithinWindow(r, WindowStart(c))
    BY <2>2 DEF WithinWindow
  <2>4. now' < WindowStart(c) + Window => now < WindowStart(c) + Window
    <3>1. used[c] \in Instants /\ Tick(used[c]) <= now
      BY <2>1 DEF Counting, Timely, WorkerTimely
    <3>2. WindowStart(c) \in Nat
      BY <1>1, <3>1, WindowType
    <3>. QED
      BY <1>1, <3>2
  <2>. QED
    BY <2>1, <2>2, <2>3, <2>4 DEF RoomFor
<1>. QED
  BY <1>3, <1>4 DEF FixedRule, Starts

(* What is compared with the count is below the larger number.              *)
LEMMA FixedCeiling ==
  ASSUME NEW p \in Limits, NEW n \in Nat, FixedAllows(n, p)
  PROVE  n < Ceiling(p) /\ Ceiling(p) \in Nat
BY DEF FixedAllows, Ceiling, Limits, None

(* A check that decides to let its request through finds room for it, and   *)
(* no other check of the rule can be between its decision and its count.    *)
LEMMA FixedDecides ==
  ASSUME TypeOK, Timely, NEW c \in Workers, FixedGet(c), NEW r \in Rules, r = Rule(c),
         FixedRule(r), r \notin overlapped',
         Goto(c, "incr", check[c].p, NoBucket), admitted' = admitted
  PROVE  FixedRule(r)'
<1>. DEFINE n == IF Alive(Counter(c)) THEN Counter(c).n ELSE 0
<1>. DEFINE w == WindowStart(c)
<1>1. /\ check[c] \in InCheck /\ used[c] \in Instants /\ check[c].p \in Policies[r]
      /\ Tick(used[c]) <= now /\ check[c].at = "get"
  BY InCheckType DEF FixedGet, Timely, WorkerTimely
<1>2. /\ now' = now /\ counter' = counter /\ used' = used /\ now \in Nat
      /\ Window \in Nat /\ check[c].p \in Limits
  BY <1>1, Basics DEF FixedGet, store, TypeOK, Times
<1>3. w \in Starts /\ w \in Nat /\ w \in Times
  BY <1>1, WindowType DEF Starts, Times
<1>4. FixedAllows(n, check[c].p)
  <2>1. CASE FixedAllows(n, check[c].p)
    BY <2>1
  <2>2. CASE ~FixedAllows(n, check[c].p)
    <3>1. Answer(c, FALSE)
      BY <2>2 DEF FixedGet
    <3>2. check'[c].at \in {"idle", "rule"}
      BY <1>1, <3>1, AnswerType
    <3>3. check'[c].at = "incr"
      BY DEF Goto, TypeOK
    <3>. QED
      BY <3>2, <3>3
  <2>. QED
    BY <2>1, <2>2
<1>5. \A d \in Workers \ {c} : ~Counting(d, r)
  BY DEF FixedGet, Overlap, Counting
<1>6. /\ check'[c].at = "incr" /\ check'[c].p = check[c].p
      /\ check'[c].turn = check[c].turn
      /\ \A d \in Workers \ {c} : check'[d] = check[d]
  BY DEF Goto, TypeOK
<1>7. \A d \in Workers : Counting(d, r)' => d = c
  BY <1>5, <1>6 DEF Counting, Rule
<1>8. \A v \in Starts : WindowCounted(r, v)'
  <2>1. \A v \in Starts : WithinWindow(r, v)' = WithinWindow(r, v)
    BY DEF WithinWindow
  <2>. QED
    BY <1>2, <2>1 DEF FixedRule, WindowCounted
<1>9. now < w + Window => Cardinality(WithinWindow(r, w)) < Ceiling(check[c].p)
  <2>1. SUFFICES ASSUME now < w + Window
                 PROVE  Cardinality(WithinWindow(r, w)) < Ceiling(check[c].p)
    OBVIOUS
  <2>2. Counter(c) = counter[r][w] /\ Counter(c) \in [n : Nat, until : Nat]
    BY <1>3 DEF Counter, TypeOK
  <2>3. n \in Nat
    BY <2>2
  <2>4. n < Ceiling(check[c].p) /\ Ceiling(check[c].p) \in Nat
    <3>. HIDE DEF n
    <3>. QED
      BY <1>2, <1>4, <2>3, FixedCeiling
  <2>5. WindowCounted(r, w)
    BY <1>3 DEF FixedRule
  <2>6. Cardinality(WithinWindow(r, w)) \in Nat
    BY <2>5, FS_CardinalityType DEF WindowCounted
  <2>7. Cardinality(WithinWindow(r, w)) <= n
    BY <1>2, <1>3, <2>1, <2>2, <2>5, <2>6 DEF WindowCounted, Alive
  <2>. HIDE DEF n
  <2>. QED
    BY <2>3, <2>4, <2>6, <2>7
<1>10. RoomFor(c, r, WindowStart(c))'
  <2>1. WindowStart(c)' = w /\ WithinWindow(r, w)' = WithinWindow(r, w)
    BY <1>2 DEF WindowStart, WithinWindow
  <2>. QED
    BY <1>2, <1>6, <1>9, <2>1 DEF RoomFor
<1>. QED
  BY <1>7, <1>8, <1>10 DEF FixedRule, Starts

(* A check that counts its request, in a counter it finds or sets.          *)
LEMMA FixedCounts ==
  ASSUME TypeOK, Timely, NEW c \in Workers, NEW r \in Rules, Counting(c, r), FixedRule(r),
         Answer(c, TRUE), now' = now, used' = used,
         NEW x \in [n : Nat, until : Nat], x.until >= WindowStart(c) + Window, x.until # 0,
         counter' = [counter EXCEPT ![r][WindowStart(c)] = x],
         now < WindowStart(c) + Window =>
           Cardinality(WithinWindow(r, WindowStart(c))) + 1 <= x.n
  PROVE  FixedRule(r)'
<1>. DEFINE new == [inst |-> used[c], at |-> now, by |-> c]
<1>. DEFINE w == WindowStart(c)
<1>1. /\ check[c] \in InCheck /\ used[c] \in Instants /\ check[c].p \in Policies[r]
      /\ Tick(used[c]) <= now /\ Rule(c) = r
  BY InCheckType DEF Counting, Timely, WorkerTimely
<1>2. now \in Nat /\ Window \in Nat /\ check[c].p \in Limits /\ Ceiling(check[c].p) \in Nat
  BY <1>1, Basics DEF TypeOK, Times, Ceiling, Limits
<1>3. w \in Starts /\ w \in Nat /\ w \in Times /\ w <= now
      /\ Tick(used[c]) \in w..(w + Window - 1)
  BY <1>1, WindowType DEF Starts, Times
<1>4. admitted'[r] = admitted[r] \cup {new}
  BY <1>1 DEF Answer, TypeOK
<1>5. /\ \A d \in Workers \ {c} : check'[d] = check[d]
      /\ check'[c].at \in {"idle", "rule"}
  BY <1>1, AnswerType
<1>6. \A d \in Workers : ~Counting(d, r)'
  <2>1. ~Counting(c, r)'
    BY <1>5 DEF Counting
  <2>2. ASSUME NEW d \in Workers, d # c, Counting(d, r)'
        PROVE  FALSE
    <3>1. Counting(d, r)
      BY <1>5, <2>2 DEF Counting, Rule
    <3>. QED
      BY <2>2, <3>1 DEF FixedRule
  <2>. QED
    BY <2>1, <2>2
<1>7. ASSUME NEW v \in Starts
      PROVE  WindowCounted(r, v)'
  <2>. DEFINE old == WithinWindow(r, v)
  <2>1. WindowCounted(r, v) /\ IsFiniteSet(old) /\ Cardinality(old) \in Nat
    BY FS_CardinalityType DEF FixedRule, WindowCounted
  <2>2. v \in Times /\ v \in Nat
    BY DEF Starts, Times
  <2>3. CASE v = w /\ now < w + Window
    <3>1. WithinWindow(r, v)' = old \cup {new}
      BY <1>2, <1>3, <1>4, <2>3 DEF WithinWindow
    <3>2. /\ IsFiniteSet(old \cup {new})
          /\ \/ Cardinality(old \cup {new}) = Cardinality(old)
             \/ Cardinality(old \cup {new}) = Cardinality(old) + 1
      <4>. HIDE DEF old, new
      <4>. QED
        BY <2>1, FS_AddElement
    <3>3. /\ Cardinality(old) + 1 <= x.n
          /\ Cardinality(old) < Ceiling(check[c].p)
      BY <2>3 DEF FixedRule, RoomFor
    <3>4. counter'[r][v] = x
      BY <1>3, <2>3 DEF TypeOK
    <3>5. IsFiniteSet(WithinWindow(r, v)') /\ Cardinality(WithinWindow(r, v)') \in Nat
          /\ Cardinality(WithinWindow(r, v)') <= Cardinality(old) + 1
      BY <2>1, <3>1, <3>2
    <3>6. /\ Cardinality(WithinWindow(r, v)') <= Ceiling(check[c].p)
          /\ Cardinality(WithinWindow(r, v)') <= x.n
      <4>. HIDE DEF old
      <4>. QED
        BY <1>2, <2>1, <3>3, <3>5
    <3>7. x.until >= v + Window
      BY <2>3
    <3>. QED
      BY <1>1, <3>4, <3>5, <3>6, <3>7 DEF WindowCounted
  <2>4. CASE v # w \/ ~(now < w + Window)
    <3>1. WithinWindow(r, v)' = old
      <4>1. ~({Tick(new.inst), new.at} \subseteq v..(v + Window - 1))
        <5>1. CASE v # w
          <6>1. Tick(used[c]) \notin v..(v + Window - 1)
            BY <1>1, <5>1, WindowType
          <6>. QED
            BY <6>1
        <5>2. CASE v = w /\ ~(now < w + Window)
          BY <1>2, <1>3, <5>2
        <5>. QED
          BY <2>4, <5>1, <5>2
      <4>. HIDE DEF new
      <4>. QED
        BY <1>4, <4>1 DEF WithinWindow
    <3>2. CASE v # w
      <4>1. counter'[r][v] = counter[r][v]
        BY <1>3, <2>2, <3>2 DEF TypeOK
      <4>. QED
        BY <2>1, <3>1, <4>1 DEF WindowCounted
    <3>3. CASE v = w /\ ~(now < w + Window)
      <4>1. counter'[r][v] = x
        BY <1>3, <3>3 DEF TypeOK
      <4>. QED
        BY <2>1, <3>1, <3>3, <4>1 DEF WindowCounted
    <3>. QED
      BY <2>4, <3>2, <3>3
  <2>. QED
    BY <2>3, <2>4
<1>. QED
  BY <1>6, <1>7 DEF FixedRule, Starts

LEMMA CountedStep ==
  ASSUME TypeOK, Timely, Counted, [Next]_vars
  PROVE  Counted'
<1>. USE RateAssumption, Basics
<1>1. SUFFICES ASSUME backend' = "fixed_window"
               PROVE  FixedSteps' /\ \A r \in Rules \ overlapped' : FixedRule(r)'
  BY DEF Counted
<1>2. backend = "fixed_window" /\ overlapped \subseteq overlapped'
  BY <1>1 DEF Next, vars, PassTime, Request, AllRulesPassed, SlidingClock, SlidingPipeline,
              TokenGet, TokenClock, TokenStore, FixedClock, FixedGet, FixedIncr, FixedSet, Overlap
<1>3. FixedSteps /\ \A r \in Rules \ overlapped : FixedRule(r)
  BY <1>2 DEF Counted
<1>4. ASSUME NEW c \in Workers, \A d \in Workers \ {c} : check'[d] = check[d],
             check'[c].at \in {"idle", "rule", "get", "incr", "set"}
      PROVE  FixedSteps'
  BY <1>3, <1>4 DEF FixedSteps
<1>5. ASSUME NEW r \in Rules \ overlapped', now' = now \/ now' = now + 1,
             counter'[r] = counter[r], admitted'[r] = admitted[r],
             \A c \in Workers : Counting(c, r)' =>
                Counting(c, r) /\ check'[c] = check[c] /\ used'[c] = used[c]
      PROVE  FixedRule(r)'
  BY <1>2, <1>3, <1>5, FixedFrame
<1>6. ASSUME NEW c \in Workers, \A d \in Workers \ {c} : check'[d] = check[d],
             \A d \in Workers \ {c} : used'[d] = used[d],
             check'[c].at \in {"idle", "rule", "get"}, NEW r \in Rules \ overlapped',
             now' = now, counter'[r] = counter[r], admitted'[r] = admitted[r]
      PROVE  FixedRule(r)'
  <2>1. ASSUME NEW d \in Workers, Counting(d, r)'
        PROVE  Counting(d, r) /\ check'[d] = check[d] /\ used'[d] = used[d]
    <3>1. d # c
      BY <1>6, <2>1 DEF Counting
    <3>. QED
      BY <1>6, <2>1, <3>1 DEF Counting, Rule
  <2>. QED
    BY <1>5, <1>6, <2>1
<1>7. ASSUME NEW c \in Workers, Request(c) \/ AllRulesPassed(c)
      PROVE  FixedSteps' /\ \A r \in Rules \ overlapped' : FixedRule(r)'
  <2>1. PICK x \in {NoCheck, [at |-> "rule", turn |-> 1]} : check' = [check EXCEPT ![c] = x]
    BY <1>7 DEF Request, AllRulesPassed
  <2>2. x.at \in {"idle", "rule"}
    BY DEF NoCheck
  <2>3. /\ \A d \in Workers \ {c} : check'[d] = check[d]
        /\ check'[c].at \in {"idle", "rule"}
    BY <2>1, <2>2 DEF TypeOK
  <2>4. now' = now /\ counter' = counter /\ admitted' = admitted /\ used' = used
    BY <1>7 DEF Request, AllRulesPassed, store
  <2>. QED
    BY <1>4, <1>6, <2>3, <2>4
<1>8. ASSUME NEW c \in Workers, FixedClock(c)
      PROVE  FixedSteps' /\ \A r \in Rules \ overlapped' : FixedRule(r)'
  <2>1. PICK p \in Policies[Rule(c)], i \in Instants :
          ReadClock(c, i) /\ Goto(c, "get", p, NoBucket)
    BY <1>8 DEF FixedClock
  <2>2. /\ \A d \in Workers \ {c} : check'[d] = check[d]
        /\ check'[c].at = "get"
    BY <2>1 DEF Goto, TypeOK
  <2>3. \A d \in Workers \ {c} : used'[d] = used[d]
    BY <2>1, ReadClockType
  <2>4. now' = now /\ counter' = counter /\ admitted' = admitted
    BY <1>8 DEF FixedClock, store
  <2>. QED
    BY <1>4, <1>6, <2>2, <2>3, <2>4
<1>9. ASSUME NEW c \in Workers, FixedGet(c)
      PROVE  FixedSteps' /\ \A r \in Rules \ overlapped' : FixedRule(r)'
  <2>1. /\ check[c] \in InCheck /\ Rule(c) \in Rules /\ used[c] \in Instants
        /\ check[c].at = "get"
    BY <1>9, InCheckType DEF FixedGet, Timely, WorkerTimely
  <2>2. now' = now /\ counter' = counter /\ used' = used
    BY <1>9 DEF FixedGet, store
  <2>3. CASE Answer(c, FALSE)
    <3>1. /\ \A d \in Workers \ {c} : check'[d] = check[d]
          /\ check'[c].at \in {"idle", "rule"}
      BY <2>1, <2>3, AnswerType
    <3>2. admitted' = admitted
      BY <2>3 DEF Answer
    <3>. QED
      BY <1>4, <1>6, <2>2, <3>1, <3>2
  <2>4. CASE Goto(c, "incr", check[c].p, NoBucket) /\ admitted' = admitted
    <3>1. /\ \A d \in Workers \ {c} : check'[d] = check[d]
          /\ check'[c].at = "incr" /\ check'[c].turn = check[c].turn
      BY <2>4 DEF Goto, TypeOK
    <3>2. ASSUME NEW r \in Rules \ overlapped'
          PROVE  FixedRule(r)'
      <4>1. CASE r = Rule(c)
        BY <1>2, <1>3, <1>9, <2>4, <4>1, FixedDecides
      <4>2. CASE r # Rule(c)
        <5>1. ASSUME NEW d \in Workers, Counting(d, r)'
              PROVE  Counting(d, r) /\ check'[d] = check[d] /\ used'[d] = used[d]
          BY <2>2, <3>1, <4>2, <5>1 DEF Counting, Rule
        <5>. QED
          BY <1>5, <2>2, <2>4, <5>1
      <4>. QED
        BY <4>1, <4>2
    <3>. QED
      BY <1>4, <3>1, <3>2
  <2>. QED
    BY <1>9, <2>3, <2>4 DEF FixedGet
<1>10. ASSUME NEW c \in Workers, FixedIncr(c) \/ FixedSet(c)
       PROVE  FixedSteps' /\ \A r \in Rules \ overlapped' : FixedRule(r)'
  <2>1. /\ check[c] \in InCheck /\ Rule(c) \in Rules /\ used[c] \in Instants
        /\ check[c].at \in {"incr", "set"} /\ Tick(used[c]) <= now
    BY <1>10, InCheckType DEF FixedIncr, FixedSet, Timely, WorkerTimely
  <2>2. now' = now /\ used' = used /\ overlapped' = overlapped
    BY <1>10 DEF FixedIncr, FixedSet
  <2>3. /\ WindowStart(c) \in Starts /\ WindowStart(c) \in Times /\ WindowStart(c) \in Nat
        /\ WindowStart(c) <= now /\ now \in Nat
    BY <2>1, WindowType DEF Starts, Times, TypeOK
  <2>4. Counter(c) = counter[Rule(c)][WindowStart(c)] /\ Counter(c) \in [n : Nat, until : Nat]
    BY <2>1, <2>3 DEF Counter, TypeOK
  <2>5. CASE FixedIncr(c) /\ ~Alive(Counter(c))
    <3>1. Goto(c, "set", check[c].p, NoBucket) /\ counter' = counter /\ admitted' = admitted
          /\ check[c].at = "incr"
      BY <2>5 DEF FixedIncr
    <3>2. /\ \A d \in Workers \ {c} : check'[d] = check[d]
          /\ check'[c].at = "set" /\ check'[c].turn = check[c].turn
          /\ check'[c].p = check[c].p
      BY <3>1 DEF Goto, TypeOK
    <3>3. ASSUME NEW r \in Rules \ overlapped'
          PROVE  FixedRule(r)'
      <4>1. CASE r # Rule(c)
        <5>1. ASSUME NEW d \in Workers, Counting(d, r)'
              PROVE  Counting(d, r) /\ check'[d] = check[d] /\ used'[d] = used[d]
          BY <2>2, <3>2, <4>1, <5>1 DEF Counting, Rule
        <5>. QED
          BY <1>5, <2>2, <3>1, <5>1
      <4>2. CASE r = Rule(c)
        <5>1. FixedRule(r) /\ Counting(c, r)
          BY <1>2, <1>3, <3>1, <4>2 DEF Counting
        <5>2. \A d \in Workers : Counting(d, r)' => d = c
          <6>1. ASSUME NEW d \in Workers, d # c, Counting(d, r)'
                PROVE  FALSE
            <7>1. Counting(d, r)
              BY <3>2, <6>1 DEF Counting, Rule
            <7>. QED
              BY <5>1, <6>1, <7>1 DEF FixedRule
          <6>. QED
            BY <6>1
        <5>3. \A v \in Starts : WindowCounted(r, v)'
          <6>1. \A v \in Starts : WithinWindow(r, v)' = WithinWindow(r, v)
            BY <3>1 DEF WithinWindow
          <6>. QED
            BY <2>2, <3>1, <5>1, <6>1 DEF FixedRule, WindowCounted
        <5>4. RoomFor(c, r, WindowStart(c))'
          <6>1. WindowStart(c)' = WindowStart(c)
                /\ WithinWindow(r, WindowStart(c))' = WithinWindow(r, WindowStart(c))
            BY <2>2, <3>1 DEF WindowStart, WithinWindow
          <6>2. RoomFor(c, r, WindowStart(c)) /\ WindowCounted(r, WindowStart(c))
            BY <2>3, <5>1 DEF FixedRule
          <6>3. now < WindowStart(c) + Window => counter[r][WindowStart(c)].until = 0
            BY <2>3, <2>4, <2>5, <4>2, <6>2 DEF WindowCounted, Alive
          <6>. QED
            BY <2>2, <3>1, <3>2, <6>1, <6>2, <6>3 DEF RoomFor
        <5>. QED
          BY <5>2, <5>3, <5>4 DEF FixedRule, Starts
      <4>. QED
        BY <4>1, <4>2
    <3>. QED
      BY <1>4, <3>2, <3>3
  <2>6. CASE FixedSet(c) \/ (FixedIncr(c) /\ Alive(Counter(c)))
    <3>. DEFINE one == [n |-> 1, until |-> now + Window]
    <3>. DEFINE more == [Counter(c) EXCEPT !.n = @ + 1]
    <3>1. Answer(c, TRUE)
      BY <2>6 DEF FixedSet, FixedIncr
    <3>2. /\ \A d \in Workers \ {c} : check'[d] = check[d]
          /\ check'[c].at \in {"idle", "rule"}
      BY <2>1, <3>1, AnswerType
    <3>3. ASSUME NEW r \in Rules \ overlapped'
          PROVE  FixedRule(r)'
      <4>1. CASE r # Rule(c)
        <5>1. admitted'[r] = admitted[r]
          BY <2>1, <3>1, <4>1 DEF Answer, TypeOK
        <5>2. counter'[r] = counter[r]
          BY <2>1, <2>6, <4>1 DEF FixedSet, FixedIncr, TypeOK
        <5>. QED
          BY <1>6, <2>2, <3>2, <5>1, <5>2
      <4>2. CASE r = Rule(c)
        <5>1. /\ FixedRule(r) /\ Counting(c, r) /\ WindowCounted(r, WindowStart(c))
              /\ RoomFor(c, r, WindowStart(c))
          BY <1>2, <1>3, <2>1, <2>2, <2>3, <4>2 DEF Counting, FixedRule
        <5>2. Cardinality(WithinWindow(r, WindowStart(c))) \in Nat
          BY <5>1, FS_CardinalityType DEF WindowCounted
        <5>3. CASE FixedSet(c)
          <6>1. one \in [n : Nat, until : Nat] /\ one.until >= WindowStart(c) + Window
                /\ one.until # 0 /\ one.n = 1
            BY <2>3
          <6>2. counter' = [counter EXCEPT ![r][WindowStart(c)] = one]
            BY <4>2, <5>3 DEF FixedSet
          <6>3. now < WindowStart(c) + Window =>
                  Cardinality(WithinWindow(r, WindowStart(c))) + 1 <= one.n
            BY <5>1, <5>2, <5>3, <6>1 DEF FixedSet, RoomFor, WindowCounted
          <6>. HIDE DEF one
          <6>. QED
            BY <2>2, <3>1, <5>1, <6>1, <6>2, <6>3, FixedCounts
        <5>4. CASE Alive(Counter(c)) /\ FixedIncr(c)
          <6>1. more \in [n : Nat, until : Nat] /\ more.until = Counter(c).until
                /\ more.n = Counter(c).n + 1
            BY <2>4
          <6>2. counter' = [counter EXCEPT ![r][WindowStart(c)] = more]
            <7>1. counter' = [counter EXCEPT ![Rule(c)][WindowStart(c)].n = @ + 1]
              BY <5>4 DEF FixedIncr
            <7>. QED
              BY <4>2, <7>1 DEF Counter
          <6>3. more.until # 0 /\ more.until >= WindowStart(c) + Window
            BY <2>3, <2>4, <4>2, <5>1, <5>4, <6>1 DEF Alive, WindowCounted
          <6>4. now < WindowStart(c) + Window =>
                  Cardinality(WithinWindow(r, WindowStart(c))) + 1 <= more.n
            BY <2>4, <4>2, <5>1, <5>2, <6>1, <6>3 DEF WindowCounted
          <6>. HIDE DEF more
          <6>. QED
            BY <2>2, <3>1, <5>1, <6>1, <6>2, <6>3, <6>4, FixedCounts
        <5>. QED
          BY <2>6, <5>3, <5>4
      <4>. QED
        BY <4>1, <4>2
    <3>. QED
      BY <1>4, <3>2, <3>3
  <2>7. \/ FixedIncr(c) /\ ~Alive(Counter(c))
        \/ FixedSet(c) \/ (FixedIncr(c) /\ Alive(Counter(c)))
    BY <1>10
  <2>. QED
    BY <2>5, <2>6, <2>7
<1>11. ASSUME NEW c \in Workers,
              \/ SlidingClock(c) \/ SlidingPipeline(c)
              \/ TokenGet(c) \/ TokenClock(c) \/ TokenStore(c)
       PROVE  FALSE
  <2>1. check[c].at \in {"idle", "rule", "get", "incr", "set"}
    BY <1>3 DEF FixedSteps
  <2>. QED
    BY <1>2, <1>11, <2>1
    DEF SlidingClock, SlidingPipeline, TokenGet, TokenClock, TokenStore
<1>12. CASE PassTime \/ UNCHANGED vars
  <2>1. /\ now' = now \/ now' = now + 1
        /\ check' = check /\ used' = used /\ counter' = counter /\ admitted' = admitted
    BY <1>12 DEF PassTime, store, vars
  <2>2. FixedSteps'
    BY <1>3, <2>1 DEF FixedSteps
  <2>3. \A c \in Workers, r \in Rules : Counting(c, r)' = Counting(c, r)
    BY <2>1 DEF Counting, Rule
  <2>. QED
    BY <1>5, <2>1, <2>2, <2>3
<1>. QED
  BY <1>7, <1>8, <1>9, <1>10, <1>11, <1>12 DEF Next

LEMMA InitCounted == Init => Counted
<1>. USE RateAssumption, Basics
<1>1. SUFFICES ASSUME Init
               PROVE  FixedSteps /\ \A r \in Rules : FixedRule(r)
  BY DEF Counted
<1>2. \A c \in Workers : check[c].at = "idle"
  BY <1>1 DEF Init, NoCheck
<1>3. ASSUME NEW r \in Rules, NEW w \in Starts
      PROVE  WindowCounted(r, w)
  <2>1. WithinWindow(r, w) = {} /\ counter[r][w].until = 0
    BY <1>1 DEF Init, WithinWindow, NoCount, Starts
  <2>2. IsFiniteSet({}) /\ Cardinality({}) = 0
    BY FS_EmptySet
  <2>3. IsFiniteSet(WithinWindow(r, w)) /\ Cardinality(WithinWindow(r, w)) = 0
    BY <2>1, <2>2
  <2>4. PICK p \in Policies[r] : TRUE
    OBVIOUS
  <2>5. Ceiling(p) \in Nat
    BY <2>4 DEF Ceiling, Limits
  <2>. QED
    BY <2>1, <2>3, <2>5 DEF WindowCounted
<1>. QED
  BY <1>2, <1>3 DEF FixedSteps, FixedRule, Counting

(* RateLimit.FixedBound, for any number of workers, any limits, any window  *)
(* and any delay: what two checks that overlap may break is all that can.   *)
THEOREM FixedWindowHolds == Spec => []FixedBound
<1>1. IInv /\ Counted /\ [Next]_vars => Counted'
  BY CountedStep DEF IInv
<1>2. Counted => FixedBound
  BY DEF Counted, FixedRule, WindowCounted, FixedBound, Starts
<1>. QED
  BY <1>1, <1>2, IInvHolds, InitCounted, PTL DEF Spec

-----------------------------------------------------------------------------
(* The token bucket, for a rule whose checks have not overlapped: a check   *)
(* under way has the bucket as it is, or has found none because it was over *)
(* at the instant the check counts with; and the requests let through since *)
(* s and the tokens left are paid for by one bucket and the refill since s. *)
Since(r, s) == {a \in admitted[r] : Tick(a.inst) >= s}
Spending(c, r) == check[c].at \in {"fetched", "stamped"} /\ Rule(c) = r

Paid(r, s) ==
  \E p, q \in Policies[r] :
    Cardinality(Since(r, s)) * Window + bucket[r].tokens
      <= MaxTokens(p) + (bucket[r].last - s) * q.limit

Snapshot(c, r) ==
  IF check[c].seen.until = 0
  THEN bucket[r].until <= (IF check[c].at = "stamped" THEN Tick(used[c]) ELSE now)
  ELSE check[c].seen = bucket[r]

TokenRule(r) ==
  /\ \A c, d \in Workers : Spending(c, r) /\ Spending(d, r) => c = d
  /\ \A c \in Workers : Spending(c, r) => Snapshot(c, r)
  /\ IsFiniteSet(admitted[r])
  /\ \A a \in admitted[r] : Tick(a.inst) <= bucket[r].last
  /\ admitted[r] = {} \/ bucket[r].until >= bucket[r].last + 2 * Window
  /\ \A s \in Int : bucket[r].last - Window < s /\ s <= bucket[r].last => Paid(r, s)

TokenSteps == \A c \in Workers : check[c].at \in {"idle", "rule", "fetched", "stamped"}

Filled ==
  backend = "token_bucket" => TokenSteps /\ \A r \in Rules \ overlapped : TokenRule(r)

(* Arithmetic: two refills in a row are no more than one at the better rate. *)
LEMMA Refills ==
  ASSUME NEW a \in Nat, NEW b \in Nat, NEW m \in Nat, NEW n \in Nat
  PROVE  \E k \in {m, n} : a * m + b * n <= (a + b) * k
<1>1. CASE m <= n
  <2>1. a * (n - m) >= 0
    <3>1. n - m \in Nat
      BY <1>1
    <3>. QED
      BY <3>1
  <2>2. a * m + b * n <= (a + b) * n
    BY <2>1
  <2>. QED
    BY <2>2
<1>2. CASE n <= m
  <2>1. b * (m - n) >= 0
    <3>1. m - n \in Nat
      BY <1>2
    <3>. QED
      BY <3>1
  <2>2. a * m + b * n <= (a + b) * m
    BY <2>1
  <2>. QED
    BY <2>2
<1>. QED
  BY <1>1, <1>2

(* Sets that grow by at most one element.                                   *)
LEMMA OneMore ==
  ASSUME NEW S, IsFiniteSet(S), NEW x, NEW T, T = S \/ T = S \cup {x}
  PROVE  Cardinality(T) \in Nat /\ Cardinality(T) <= Cardinality(S) + 1
<1>1. Cardinality(S) \in Nat
  BY FS_CardinalityType
<1>2. CASE T = S
  BY <1>1, <1>2
<1>3. CASE T = S \cup {x}
  <2>1. \/ Cardinality(S \cup {x}) = Cardinality(S)
        \/ Cardinality(S \cup {x}) = Cardinality(S) + 1
    BY FS_AddElement
  <2>. QED
    BY <1>1, <1>3, <2>1
<1>. QED
  BY <1>2, <1>3

(* A token is worth a window's ticks: what it takes from the bucket pays    *)
(* for the request it lets through.                                         *)
LEMMA OneToken ==
  ASSUME NEW k \in Nat, NEW m \in Nat, NEW w \in Nat, m <= k + 1
  PROVE  m * w <= k * w + w
<1>1. (k + 1 - m) * w >= 0
  <2>1. k + 1 - m \in Nat
    OBVIOUS
  <2>. QED
    BY <2>1
<1>. QED
  BY <1>1

(* A step that leaves the bucket and what it has let through alone, and in  *)
(* which no further check of the rule begins or reads its clock.            *)
LEMMA TokenFrame ==
  ASSUME TypeOK, NEW r \in Rules, TokenRule(r), now' = now \/ now' = now + 1,
         bucket'[r] = bucket[r], admitted'[r] = admitted[r],
         \A c \in Workers : Spending(c, r)' =>
            Spending(c, r) /\ check'[c] = check[c] /\ used'[c] = used[c]
  PROVE  TokenRule(r)'
<1>1. now \in Nat /\ bucket[r].until \in Nat
  BY DEF TypeOK, Times, Buckets
<1>2. \A s : Since(r, s)' = Since(r, s)
  BY DEF Since
<1>3. \A s \in Int : Paid(r, s) => Paid(r, s)'
  BY <1>2 DEF Paid
<1>4. ASSUME NEW c \in Workers, Spending(c, r)'
      PROVE  Snapshot(c, r)'
  <2>1. Spending(c, r) /\ check'[c] = check[c] /\ used'[c] = used[c]
    BY <1>4
  <2>2. Snapshot(c, r)
    BY <2>1 DEF TokenRule
  <2>. QED
    BY <1>1, <2>1, <2>2 DEF Snapshot
<1>5. ASSUME NEW c \in Workers, NEW d \in Workers, Spending(c, r)', Spending(d, r)'
      PROVE  c = d
  BY <1>5 DEF TokenRule
<1>. QED
  BY <1>3, <1>4, <1>5 DEF TokenRule

(* The state of the bucket that a check in progress leaves behind.          *)
LEMMA TokenSpends ==
  ASSUME TypeOK, Timely, NEW c \in Workers, NEW r \in Rules, r = Rule(c),
         TokenRule(r), TokenStore(c)
  PROVE  TokenRule(r)'
<1>. USE Basics
<1>. DEFINE enough == Refilled(c) >= Window
<1>. DEFINE left == IF enough THEN Refilled(c) - Window ELSE Refilled(c)
<1>. DEFINE t == Tick(used[c])
<1>. DEFINE next == [tokens |-> left, last |-> t, until |-> now + 2 * Window]
<1>. DEFINE new == [inst |-> used[c], at |-> now, by |-> c]
<1>. DEFINE p == check[c].p
<1>. DEFINE seen == check[c].seen
<1>1. /\ check[c] \in InCheck /\ used[c] \in Instants /\ p \in Policies[r]
      /\ t <= now /\ check[c].at = "stamped" /\ seen.last <= t
      /\ Spending(c, r) /\ Snapshot(c, r)
  BY InCheckType DEF TokenStore, Timely, WorkerTimely, Spending, TokenRule
<1>2. /\ now \in Nat /\ t \in Nat /\ Window \in Nat /\ Window > 0
      /\ p \in Limits /\ p.limit \in Nat /\ MaxTokens(p) \in Nat
      /\ bucket[r] \in Buckets /\ bucket[r].last \in Nat /\ bucket[r].tokens \in Nat
      /\ bucket[r].until \in Nat
  <2>1. p \in Limits /\ p.limit \in Nat
    BY <1>1 DEF Limits
  <2>2. MaxTokens(p) \in Nat
    BY <2>1 DEF Limits, MaxTokens
  <2>3. /\ bucket[r] \in Buckets /\ bucket[r].last \in Nat /\ bucket[r].tokens \in Nat
        /\ bucket[r].until \in Nat
    BY DEF TypeOK, Buckets, Times
  <2>4. now \in Nat /\ t \in Nat /\ Window \in Nat /\ Window > 0
    BY <1>1 DEF TypeOK, Times, Instants, Tick
  <2>. QED
    BY <2>1, <2>2, <2>3, <2>4
<1>3. /\ now' = now /\ used' = used
      /\ bucket' = [bucket EXCEPT ![r] = next] /\ Answer(c, enough)
  BY DEF TokenStore
<1>4. bucket'[r] = next
  BY <1>3 DEF TypeOK
<1>5. Refilled(c) \in Nat /\ left \in Nat
  <2>1. Refilled(c) \in Nat
    BY <1>1, RefilledType
  <2>. QED
    BY <1>2, <2>1
<1>6. /\ \A d \in Workers \ {c} : check'[d] = check[d]
      /\ check'[c].at \in {"idle", "rule"}
  BY <1>1, <1>3, AnswerType
<1>7. admitted'[r] = IF enough THEN admitted[r] \cup {new} ELSE admitted[r]
  BY <1>3 DEF Answer, TypeOK
<1>8. \A d \in Workers : ~Spending(d, r)'
  <2>1. ~Spending(c, r)'
    BY <1>6 DEF Spending
  <2>2. ASSUME NEW d \in Workers, d # c, Spending(d, r)'
        PROVE  FALSE
    <3>1. Spending(d, r)
      BY <1>6, <2>2 DEF Spending, Rule
    <3>. QED
      BY <1>1, <2>2, <3>1 DEF TokenRule
  <2>. QED
    BY <2>1, <2>2
<1>9. IsFiniteSet(admitted[r]) /\ IsFiniteSet(admitted'[r])
  <2>1. IsFiniteSet(admitted[r])
    BY DEF TokenRule
  <2>2. IsFiniteSet(admitted[r] \cup {new})
    BY <2>1, FS_AddElement
  <2>. QED
    BY <1>7, <2>1, <2>2
<1>10. bucket[r].last <= t \/ admitted[r] = {}
  <2>1. CASE seen.until = 0
    BY <1>1, <1>2, <2>1 DEF Snapshot, TokenRule
  <2>2. CASE seen.until # 0
    BY <1>1, <2>2 DEF Snapshot
  <2>. QED
    BY <2>1, <2>2
<1>11. \A a \in admitted'[r] : Tick(a.inst) <= t
  <2>1. ASSUME NEW a \in admitted[r]
        PROVE  Tick(a.inst) <= t
    <3>1. Tick(a.inst) <= bucket[r].last /\ bucket[r].last <= t
      BY <1>10 DEF TokenRule
    <3>2. Tick(a.inst) \in Nat
      BY DEF TypeOK, Instants, Tick, Times
    <3>. QED
      BY <1>2, <3>1, <3>2
  <2>2. Tick(new.inst) <= t
    BY <1>2
  <2>. HIDE DEF new, t
  <2>. QED
    BY <1>7, <2>1, <2>2
<1>12. ASSUME NEW s \in Int
       PROVE  /\ Cardinality(Since(r, s)) \in Nat /\ Cardinality(Since(r, s)') \in Nat
              /\ Cardinality(Since(r, s)') * Window + left
                   <= Cardinality(Since(r, s)) * Window + Refilled(c)
  <2>. DEFINE old == Since(r, s)
  <2>1. IsFiniteSet(old) /\ Cardinality(old) \in Nat
    <3>1. old \subseteq admitted[r]
      BY DEF Since
    <3>. QED
      BY <1>9, <3>1, FS_Subset, FS_CardinalityType
  <2>2. CASE enough
    <3>1. Since(r, s)' = old \/ Since(r, s)' = old \cup {new}
      BY <1>7, <2>2 DEF Since
    <3>3. Cardinality(Since(r, s)') \in Nat
          /\ Cardinality(Since(r, s)') <= Cardinality(old) + 1
      <4>. HIDE DEF old, new
      <4>. QED
        BY <2>1, <3>1, OneMore
    <3>4. Cardinality(Since(r, s)') * Window <= Cardinality(old) * Window + Window
      <4>. HIDE DEF old
      <4>. QED
        BY <1>2, <2>1, <3>3, OneToken
    <3>5. /\ Cardinality(Since(r, s)') * Window \in Int /\ Cardinality(old) * Window \in Int
          /\ left = Refilled(c) - Window
      BY <1>2, <2>1, <2>2, <3>3
    <3>. HIDE DEF old, left
    <3>6. Cardinality(Since(r, s)') * Window + left <= Cardinality(old) * Window + Refilled(c)
      BY <1>2, <1>5, <3>4, <3>5
    <3>. QED
      BY <2>1, <3>3, <3>6 DEF old
  <2>3. CASE ~enough
    <3>1. Since(r, s)' = old /\ left = Refilled(c)
      BY <1>7, <2>3 DEF Since
    <3>2. Cardinality(old) * Window + Refilled(c) \in Int
      BY <1>2, <1>5, <2>1
    <3>. HIDE DEF old, left
    <3>3. Cardinality(Since(r, s)') * Window + left <= Cardinality(old) * Window + Refilled(c)
      BY <3>1, <3>2
    <3>. QED
      BY <2>1, <3>1, <3>3 DEF old
  <2>. QED
    BY <2>2, <2>3
<1>13. Refilled(c) <= MaxTokens(p)
  <2>. DEFINE more == seen.tokens + (t - seen.last) * p.limit
  <2>1. Refilled(c) = MaxTokens(p) \/ Refilled(c) = Least(MaxTokens(p), more)
    BY DEF Refilled
  <2>. HIDE DEF more
  <2>2. Least(MaxTokens(p), more) \in Int => Least(MaxTokens(p), more) <= MaxTokens(p)
    BY <1>2 DEF Least
  <2>. QED
    BY <1>2, <1>5, <2>1, <2>2
<1>14. ASSUME NEW s \in Int, t - Window < s, s <= t
       PROVE  Paid(r, s)'
  <2>1. (t - s) \in Nat /\ (t - s) * p.limit \in Nat
    <3>1. t - s \in Nat
      BY <1>2, <1>14
    <3>. HIDE DEF t, p
    <3>. QED
      BY <1>2, <3>1
  <2>2. CASE Since(r, s) = {}
    <3>1. Cardinality(Since(r, s)) * Window = 0
      <4>1. Cardinality(Since(r, s)) = 0
        BY <2>2, FS_EmptySet
      <4>. QED
        BY <1>2, <4>1
    <3>2. Cardinality(Since(r, s)') * Window + left <= Refilled(c)
      BY <1>5, <1>12, <3>1
    <3>3. Cardinality(Since(r, s)') * Window + left \in Int
      BY <1>2, <1>5, <1>12
    <3>4. Cardinality(Since(r, s)') * Window + left <= MaxTokens(p) + (t - s) * p.limit
      <4>. HIDE DEF t, left, p
      <4>. QED
        BY <1>2, <1>5, <1>13, <2>1, <3>2, <3>3
    <3>. QED
      BY <1>1, <1>4, <3>4 DEF Paid
  <2>3. CASE Since(r, s) # {}
    <3>1. PICK a \in admitted[r] : Tick(a.inst) >= s
      BY <2>3 DEF Since
    <3>2. Tick(a.inst) \in Nat /\ Tick(a.inst) <= bucket[r].last /\ bucket[r].last <= t
          /\ bucket[r].until >= bucket[r].last + 2 * Window
      BY <1>10 DEF TokenRule, TypeOK, Instants, Tick, Times
    <3>3. seen.until # 0
      <4>1. SUFFICES ASSUME seen.until = 0
                     PROVE  FALSE
        OBVIOUS
      <4>2. bucket[r].until <= t
        BY <1>1, <4>1 DEF Snapshot
      <4>. QED
        BY <1>2, <1>14, <3>1, <3>2, <4>2
    <3>4. seen = bucket[r]
      BY <1>1, <3>3 DEF Snapshot
    <3>5. Refilled(c) <= bucket[r].tokens + (t - bucket[r].last) * p.limit
      <4>. DEFINE more == bucket[r].tokens + (t - bucket[r].last) * p.limit
      <4>1. Refilled(c) = Least(MaxTokens(p), more)
        BY <3>3, <3>4 DEF Refilled
      <4>2. more \in Int
        BY <1>2
      <4>. HIDE DEF more
      <4>3. Refilled(c) <= more
        BY <1>2, <4>1, <4>2 DEF Least
      <4>. QED
        BY <4>3 DEF more
    <3>6. s <= bucket[r].last /\ bucket[r].last - Window < s
      BY <1>2, <1>14, <3>1, <3>2
    <3>7. PICK p0 \in Policies[r], q0 \in Policies[r] :
            Cardinality(Since(r, s)) * Window + bucket[r].tokens
              <= MaxTokens(p0) + (bucket[r].last - s) * q0.limit
      BY <3>6 DEF TokenRule, Paid
    <3>8. /\ q0.limit \in Nat /\ MaxTokens(p0) \in Nat
          /\ bucket[r].last - s \in Nat /\ t - bucket[r].last \in Nat
      BY <1>2, <3>2, <3>6 DEF Limits, MaxTokens
    <3>9. PICK k \in {q0.limit, p.limit} :
            (bucket[r].last - s) * q0.limit + (t - bucket[r].last) * p.limit
              <= ((bucket[r].last - s) + (t - bucket[r].last)) * k
      <4>. HIDE DEF t, p
      <4>. QED
        BY <1>2, <3>8, Refills
    <3>10. PICK q \in Policies[r] : q.limit = k
      BY <1>1
    <3>11. (bucket[r].last - s) + (t - bucket[r].last) = t - s
      BY <1>2
    <3>12. /\ Cardinality(Since(r, s)') * Window + left \in Int
           /\ Cardinality(Since(r, s)) * Window \in Int
           /\ (bucket[r].last - s) * q0.limit \in Int
           /\ (t - bucket[r].last) * p.limit \in Int
           /\ (t - s) * k \in Int
      <4>1. k \in Nat
        BY <1>2, <3>8
      <4>. QED
        BY <1>2, <1>5, <1>12, <2>1, <3>8, <4>1
    <3>13. Cardinality(Since(r, s)') * Window + left <= MaxTokens(p0) + (t - s) * k
      <4>. DEFINE A == Cardinality(Since(r, s)') * Window + left
      <4>. DEFINE B == Cardinality(Since(r, s)) * Window
      <4>. DEFINE C == (bucket[r].last - s) * q0.limit
      <4>. DEFINE D == (t - bucket[r].last) * p.limit
      <4>. DEFINE E == (t - s) * k
      <4>1. A <= B + Refilled(c)
        BY <1>12
      <4>2. Refilled(c) <= bucket[r].tokens + D
        BY <3>5
      <4>3. B + bucket[r].tokens <= MaxTokens(p0) + C
        BY <3>7
      <4>4. C + D <= E
        BY <3>9, <3>11
      <4>5. A \in Int /\ B \in Int /\ C \in Int /\ D \in Int /\ E \in Int
        BY <3>12
      <4>6. bucket[r].tokens \in Nat /\ MaxTokens(p0) \in Nat /\ Refilled(c) \in Nat
        BY <1>2, <1>5, <3>8
      <4>7. A <= MaxTokens(p0) + E
        <5>. HIDE DEF A, B, C, D, E
        <5>. QED
          BY <4>1, <4>2, <4>3, <4>4, <4>5, <4>6
      <4>. QED
        BY <4>7
    <3>. QED
      BY <1>4, <3>10, <3>13 DEF Paid
  <2>. QED
    BY <2>2, <2>3
<1>15. next.until >= next.last + 2 * Window /\ next.last = t
  BY <1>1, <1>2
<1>. HIDE DEF next, t
<1>. QED
  BY <1>4, <1>8, <1>9, <1>11, <1>14, <1>15 DEF TokenRule

LEMMA FilledStep ==
  ASSUME TypeOK, Timely, Filled, [Next]_vars
  PROVE  Filled'
<1>. USE RateAssumption, Basics
<1>1. SUFFICES ASSUME backend' = "token_bucket"
               PROVE  TokenSteps' /\ \A r \in Rules \ overlapped' : TokenRule(r)'
  BY DEF Filled
<1>2. backend = "token_bucket" /\ overlapped \subseteq overlapped'
  BY <1>1 DEF Next, vars, PassTime, Request, AllRulesPassed, SlidingClock, SlidingPipeline,
              TokenGet, TokenClock, TokenStore, FixedClock, FixedGet, FixedIncr, FixedSet, Overlap
<1>3. TokenSteps /\ \A r \in Rules \ overlapped : TokenRule(r)
  BY <1>2 DEF Filled
<1>4. ASSUME NEW c \in Workers, \A d \in Workers \ {c} : check'[d] = check[d],
             check'[c].at \in {"idle", "rule", "fetched", "stamped"}
      PROVE  TokenSteps'
  BY <1>3, <1>4 DEF TokenSteps
<1>5. ASSUME NEW r \in Rules \ overlapped', now' = now \/ now' = now + 1,
             bucket'[r] = bucket[r], admitted'[r] = admitted[r],
             \A c \in Workers : Spending(c, r)' =>
                Spending(c, r) /\ check'[c] = check[c] /\ used'[c] = used[c]
      PROVE  TokenRule(r)'
  BY <1>2, <1>3, <1>5, TokenFrame
<1>6. ASSUME NEW c \in Workers, NEW r \in Rules \ overlapped', now' = now,
             \A d \in Workers \ {c} : check'[d] = check[d],
             \A d \in Workers \ {c} : used'[d] = used[d],
             ~Spending(c, r)', bucket'[r] = bucket[r], admitted'[r] = admitted[r]
      PROVE  TokenRule(r)'
  <2>1. ASSUME NEW d \in Workers, Spending(d, r)'
        PROVE  Spending(d, r) /\ check'[d] = check[d] /\ used'[d] = used[d]
    <3>1. d # c
      BY <1>6, <2>1
    <3>. QED
      BY <1>6, <2>1, <3>1 DEF Spending, Rule
  <2>. QED
    BY <1>5, <1>6, <2>1
<1>7. ASSUME NEW c \in Workers, Request(c) \/ AllRulesPassed(c)
      PROVE  TokenSteps' /\ \A r \in Rules \ overlapped' : TokenRule(r)'
  <2>1. PICK x \in {NoCheck, [at |-> "rule", turn |-> 1]} : check' = [check EXCEPT ![c] = x]
    BY <1>7 DEF Request, AllRulesPassed
  <2>2. x.at \in {"idle", "rule"}
    BY DEF NoCheck
  <2>3. /\ \A d \in Workers \ {c} : check'[d] = check[d]
        /\ check'[c].at \in {"idle", "rule"}
    BY <2>1, <2>2 DEF TypeOK
  <2>4. now' = now /\ bucket' = bucket /\ admitted' = admitted /\ used' = used
    BY <1>7 DEF Request, AllRulesPassed, store
  <2>5. \A r \in Rules : ~Spending(c, r)'
    BY <2>3 DEF Spending
  <2>. QED
    BY <1>4, <1>6, <2>3, <2>4, <2>5
<1>8. ASSUME NEW c \in Workers, TokenGet(c)
      PROVE  TokenSteps' /\ \A r \in Rules \ overlapped' : TokenRule(r)'
  <2>1. check[c].turn \in DOMAIN Order /\ Rule(c) \in Rules
    BY <1>8, RuleType DEF TokenGet, AtRule
  <2>2. PICK p \in Policies[Rule(c)] :
          Goto(c, "fetched", p, IF Alive(bucket[Rule(c)]) THEN bucket[Rule(c)] ELSE NoBucket)
    BY <1>8 DEF TokenGet
  <2>3. /\ check'[c].at = "fetched" /\ check'[c].turn = check[c].turn
        /\ check'[c].seen = IF Alive(bucket[Rule(c)]) THEN bucket[Rule(c)] ELSE NoBucket
        /\ \A d \in Workers \ {c} : check'[d] = check[d]
    BY <2>2 DEF Goto, TypeOK
  <2>4. now' = now /\ bucket' = bucket /\ admitted' = admitted /\ used' = used
    BY <1>8 DEF TokenGet, store
  <2>5. Rule(c)' = Rule(c)
    BY <2>3 DEF Rule
  <2>6. ASSUME NEW r \in Rules \ overlapped'
        PROVE  TokenRule(r)'
    <3>1. CASE r # Rule(c)
      BY <1>6, <2>3, <2>4, <2>5, <3>1 DEF Spending
    <3>2. CASE r = Rule(c)
      <4>1. TokenRule(r)
        BY <1>2, <1>3
      <4>2. \A d \in Workers : Spending(d, r)' => d = c
        <5>1. \A d \in Workers \ {c} : ~Spending(d, r)
          BY <1>8, <3>2 DEF TokenGet, Overlap, Spending
        <5>. QED
          BY <2>3, <5>1 DEF Spending, Rule
      <4>3. Snapshot(c, r)'
        <5>1. now \in Nat /\ bucket[r].until \in Nat
          BY DEF TypeOK, Times, Buckets
        <5>2. CASE Alive(bucket[r])
          BY <2>3, <2>4, <3>2, <5>1, <5>2 DEF Alive, Snapshot
        <5>3. CASE ~Alive(bucket[r])
          <6>1. check'[c].seen.until = 0
            BY <2>3, <3>2, <5>3 DEF NoBucket
          <6>. QED
            BY <2>3, <2>4, <5>1, <5>3, <6>1 DEF Alive, Snapshot
        <5>. QED
          BY <5>2, <5>3
      <4>4. \A s \in Int : Paid(r, s) => Paid(r, s)'
        BY <2>4 DEF Paid, Since
      <4>. QED
        BY <2>4, <4>1, <4>2, <4>3, <4>4 DEF TokenRule
    <3>. QED
      BY <3>1, <3>2
  <2>. QED
    BY <1>4, <2>3, <2>6
<1>9. ASSUME NEW c \in Workers, TokenClock(c)
      PROVE  TokenSteps' /\ \A r \in Rules \ overlapped' : TokenRule(r)'
  <2>1. PICK i \in Instants : ReadClock(c, i)
    BY <1>9 DEF TokenClock
  <2>2. /\ check'[c].at = "stamped" /\ check'[c].turn = check[c].turn
        /\ check'[c].seen = check[c].seen /\ check[c].at = "fetched"
        /\ \A d \in Workers \ {c} : check'[d] = check[d]
    BY <1>9 DEF TokenClock, Goto, TypeOK
  <2>3. /\ Tick(used'[c]) = now
        /\ \A d \in Workers \ {c} : used'[d] = used[d]
    BY <2>1, ReadClockType
  <2>4. now' = now /\ bucket' = bucket /\ admitted' = admitted /\ overlapped' = overlapped
    BY <1>9 DEF TokenClock, store
  <2>5. Rule(c)' = Rule(c)
    BY <2>2 DEF Rule
  <2>6. ASSUME NEW r \in Rules \ overlapped'
        PROVE  TokenRule(r)'
    <3>1. CASE r # Rule(c)
      BY <1>6, <2>2, <2>3, <2>4, <2>5, <3>1 DEF Spending
    <3>2. CASE r = Rule(c)
      <4>1. TokenRule(r) /\ Spending(c, r)
        BY <1>2, <1>3, <2>2, <3>2 DEF Spending
      <4>2. \A d \in Workers : Spending(d, r)' => d = c
        <5>1. \A d \in Workers \ {c} : ~Spending(d, r)
          BY <4>1 DEF TokenRule
        <5>. QED
          BY <2>2, <5>1 DEF Spending, Rule
      <4>3. Snapshot(c, r)'
        <5>1. Snapshot(c, r)
          BY <4>1 DEF TokenRule
        <5>. QED
          BY <2>2, <2>3, <2>4, <5>1 DEF Snapshot
      <4>4. \A s \in Int : Paid(r, s) => Paid(r, s)'
        BY <2>4 DEF Paid, Since
      <4>. QED
        BY <2>4, <4>1, <4>2, <4>3, <4>4 DEF TokenRule
    <3>. QED
      BY <3>1, <3>2
  <2>. QED
    BY <1>4, <2>2, <2>6
<1>10. ASSUME NEW c \in Workers, TokenStore(c)
       PROVE  TokenSteps' /\ \A r \in Rules \ overlapped' : TokenRule(r)'
  <2>1. check[c] \in InCheck /\ Rule(c) \in Rules /\ used[c] \in Instants
    BY <1>10, InCheckType DEF TokenStore, Timely, WorkerTimely
  <2>2. Answer(c, Refilled(c) >= Window) /\ now' = now /\ used' = used
        /\ overlapped' = overlapped
    BY <1>10 DEF TokenStore
  <2>3. /\ \A d \in Workers \ {c} : check'[d] = check[d]
        /\ check'[c].at \in {"idle", "rule"}
    BY <2>1, <2>2, AnswerType
  <2>4. ASSUME NEW r \in Rules \ overlapped'
        PROVE  TokenRule(r)'
    <3>1. CASE r # Rule(c)
      <4>1. bucket'[r] = bucket[r]
        BY <1>10, <2>1, <3>1 DEF TokenStore, TypeOK
      <4>2. admitted'[r] = admitted[r]
        BY <2>1, <2>2, <3>1 DEF Answer, TypeOK
      <4>. QED
        BY <1>6, <2>2, <2>3, <4>1, <4>2 DEF Spending
    <3>2. CASE r = Rule(c)
      BY <1>2, <1>3, <1>10, <3>2, TokenSpends
    <3>. QED
      BY <3>1, <3>2
  <2>. QED
    BY <1>4, <2>3, <2>4
<1>11. ASSUME NEW c \in Workers,
              \/ SlidingClock(c) \/ SlidingPipeline(c)
              \/ FixedClock(c) \/ FixedGet(c) \/ FixedIncr(c) \/ FixedSet(c)
       PROVE  FALSE
  <2>1. check[c].at \in {"idle", "rule", "fetched", "stamped"}
    BY <1>3 DEF TokenSteps
  <2>. QED
    BY <1>2, <1>11, <2>1
    DEF SlidingClock, SlidingPipeline, FixedClock, FixedGet, FixedIncr, FixedSet
<1>12. CASE PassTime \/ UNCHANGED vars
  <2>1. /\ now' = now \/ now' = now + 1
        /\ check' = check /\ used' = used /\ bucket' = bucket /\ admitted' = admitted
    BY <1>12 DEF PassTime, store, vars
  <2>2. TokenSteps'
    BY <1>3, <2>1 DEF TokenSteps
  <2>3. \A c \in Workers, r \in Rules : Spending(c, r)' = Spending(c, r)
    BY <2>1 DEF Spending, Rule
  <2>. QED
    BY <1>5, <2>1, <2>2, <2>3
<1>. QED
  BY <1>7, <1>8, <1>9, <1>10, <1>11, <1>12 DEF Next

LEMMA InitFilled == Init => Filled
<1>. USE RateAssumption, Basics
<1>1. SUFFICES ASSUME Init
               PROVE  TokenSteps /\ \A r \in Rules : TokenRule(r)
  BY DEF Filled
<1>2. \A c \in Workers : check[c].at = "idle"
  BY <1>1 DEF Init, NoCheck
<1>3. ASSUME NEW r \in Rules, NEW s \in Int, bucket[r].last - Window < s, s <= bucket[r].last
      PROVE  Paid(r, s)
  <2>1. bucket[r].tokens = 0 /\ bucket[r].last = 0 /\ Since(r, s) = {}
    BY <1>1 DEF Init, NoBucket, Since
  <2>2. Cardinality(Since(r, s)) = 0
    BY <2>1, FS_EmptySet
  <2>3. PICK p \in Policies[r] : TRUE
    OBVIOUS
  <2>4. p.limit \in Nat /\ MaxTokens(p) \in Nat
    BY <2>3 DEF Limits, MaxTokens
  <2>5. 0 - s \in Nat
    BY <1>3, <2>1
  <2>6. (0 - s) * p.limit \in Nat
    BY <2>4, <2>5
  <2>7. 0 * Window + 0 <= MaxTokens(p) + (0 - s) * p.limit
    BY <2>4, <2>6
  <2>. QED
    BY <2>1, <2>2, <2>7 DEF Paid
<1>4. \A r \in Rules : admitted[r] = {}
  BY <1>1 DEF Init
<1>. QED
  BY <1>2, <1>3, <1>4, FS_EmptySet DEF TokenSteps, TokenRule, Spending

(* Arithmetic: the refill of a shorter time is less.                        *)
LEMMA LessRefill ==
  ASSUME NEW a \in Nat, NEW b \in Nat, a <= b, NEW n \in Nat
  PROVE  a * n \in Nat /\ b * n \in Nat /\ a * n <= b * n
<1>1. (b - a) * n >= 0
  <2>1. b - a \in Nat
    OBVIOUS
  <2>. QED
    BY <2>1
<1>. QED
  BY <1>1

(* The requests of the last window were all recorded since its first tick.  *)
LEMMA FilledBound ==
  ASSUME TypeOK, Timely, Filled
  PROVE  TokenBound
<1>. USE RateAssumption, Basics
<1>1. SUFFICES ASSUME backend = "token_bucket", NEW r \in Rules \ overlapped
               PROVE  \E p, q \in Policies[r] :
                        Cardinality({a \in admitted[r] : Tick(a.inst) > now - Window}) * Window
                          <= MaxTokens(p) + (Window - 1) * q.limit
  BY DEF TokenBound
<1>. DEFINE s == now - Window + 1
<1>2. TokenRule(r)
  BY <1>1 DEF Filled
<1>3. /\ now \in Nat /\ Window \in Nat /\ bucket[r].last \in Nat /\ bucket[r].tokens \in Nat
      /\ bucket[r].last <= now /\ s \in Int
  BY DEF TypeOK, Times, Buckets, Timely
<1>4. {a \in admitted[r] : Tick(a.inst) > now - Window} = Since(r, s)
  <2>1. \A a \in admitted[r] : Tick(a.inst) \in Nat
    BY DEF TypeOK, Instants, Tick, Times
  <2>. QED
    BY <1>3, <2>1 DEF Since
<1>5. \A p \in Policies[r] : p.limit \in Nat /\ MaxTokens(p) \in Nat
  BY DEF Limits, MaxTokens
<1>6. CASE s <= bucket[r].last
  <2>1. bucket[r].last - Window < s /\ Window - 1 \in Nat
        /\ bucket[r].last - s \in Nat /\ bucket[r].last - s <= Window - 1
    BY <1>3, <1>6
  <2>2. Cardinality(Since(r, s)) \in Nat
    <3>1. Since(r, s) \subseteq admitted[r]
      BY DEF Since
    <3>. QED
      BY <1>2, <3>1, FS_Subset, FS_CardinalityType DEF TokenRule
  <2>. HIDE DEF s
  <2>3. PICK p \in Policies[r], q \in Policies[r] :
          Cardinality(Since(r, s)) * Window + bucket[r].tokens
            <= MaxTokens(p) + (bucket[r].last - s) * q.limit
    BY <1>2, <1>3, <1>6, <2>1 DEF TokenRule, Paid
  <2>. DEFINE A == Cardinality(Since(r, s)) * Window
  <2>. DEFINE B == (bucket[r].last - s) * q.limit
  <2>. DEFINE C == (Window - 1) * q.limit
  <2>4. B \in Nat /\ C \in Nat /\ B <= C
    BY <1>5, <2>1, LessRefill
  <2>5. A \in Int /\ A + bucket[r].tokens <= MaxTokens(p) + B
    BY <1>3, <2>2, <2>3
  <2>6. A <= MaxTokens(p) + C
    <3>. HIDE DEF A, B, C
    <3>. QED
      BY <1>3, <1>5, <2>4, <2>5
  <2>. QED
    BY <1>4, <2>6
<1>7. CASE ~(s <= bucket[r].last)
  <2>1. Since(r, s) = {}
    <3>1. \A a \in admitted[r] : Tick(a.inst) \in Nat /\ Tick(a.inst) <= bucket[r].last
      BY <1>2 DEF TokenRule, TypeOK, Instants, Tick, Times
    <3>. QED
      BY <1>3, <1>7, <3>1 DEF Since
  <2>2. Cardinality(Since(r, s)) = 0
    BY <2>1, FS_EmptySet
  <2>3. PICK p \in Policies[r] : TRUE
    OBVIOUS
  <2>4. (Window - 1) * p.limit \in Nat
    <3>1. Window - 1 \in Nat
      OBVIOUS
    <3>. QED
      BY <1>5, <3>1
  <2>5. 0 * Window <= MaxTokens(p) + (Window - 1) * p.limit
    BY <1>3, <1>5, <2>4
  <2>. QED
    BY <1>4, <2>2, <2>5
<1>. QED
  BY <1>6, <1>7

(* RateLimit.TokenBound, for any number of workers, any limits (a rule's    *)
(* and its users'), any window and any delay between the steps of a check.  *)
THEOREM TokenBucketHolds == Spec => []TokenBound
<1>1. IInv /\ Filled /\ [Next]_vars => Filled'
  BY FilledStep DEF IInv
<1>2. IInv /\ Filled => TokenBound
  BY FilledBound DEF IInv
<1>. QED
  BY <1>1, <1>2, IInvHolds, InitFilled, PTL DEF Spec
=============================================================================
