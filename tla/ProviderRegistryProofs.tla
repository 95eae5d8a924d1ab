------------------------ MODULE ProviderRegistryProofs ------------------------
(***************************************************************************)
(* Proofs about ProviderRegistry, for every fallback order, threshold and  *)
(* timeout, every number of threads, and whatever disturbances happen.     *)
(***************************************************************************)
EXTENDS ProviderRegistry, TLAPS

(* The provider whose turn it is is one of the service's. *)
LEMMA TurnType ==
  ASSUME TypeOK, NEW c \in Callers, turn[c] \in DOMAIN Order
  PROVE  Turn(c) \in Providers
BY RegistryAssumption DEF Turn

LEMMA Indexes == Len(Order) \in Nat /\ DOMAIN Order = 1..Len(Order)
BY RegistryAssumption

(* TypeOK in two halves: where the threads are, and what they share. *)
ThreadTyped ==
  /\ at \in [Callers -> {"idle", "next"} \cup InTry \cup InMethod]
  /\ turn \in [Callers -> 1..(Len(Order) + 1)]
  /\ \A d \in Callers : at[d] \in InTry \cup InMethod => turn[d] \in DOMAIN Order
  /\ asking \subseteq Callers

SharedTyped ==
  /\ state \in [Providers -> {"closed", "open", "half_open"}]
  /\ failures \in [Providers -> 0..Threshold]
  /\ probed \in [Providers -> BOOLEAN]
  /\ age \in [Providers -> Times]
  /\ seen \in [Callers -> 0..Threshold]
  /\ stamp \in [Callers -> Times]
  /\ cached \subseteq Providers
  /\ mixed \subseteq Callers
  /\ streak \in [Providers -> 0..Threshold]
  /\ rest \in [Providers -> Times]

(* Where a thread goes next, in the loop or out of it. *)
LEMMA WhereType ==
  ASSUME TypeOK, NEW c \in Callers,
         \/ \E w \in InTry \cup InMethod : Goes(c, w) /\ Stays /\ turn[c] \in DOMAIN Order
         \/ NextProvider(c) /\ turn[c] \in DOMAIN Order
         \/ Done(c)
         \/ Goes(c, "next") /\ Stays
         \/ /\ Goes(c, "next") /\ asking' \subseteq Callers
            /\ \E i \in DOMAIN Order : turn' = [turn EXCEPT ![c] = i]
         \/ UNCHANGED thread
  PROVE  ThreadTyped'
<1>. USE DEF TypeOK, ThreadTyped, Goes, Stays, InTry, InMethod, InCanAttempt, InSuccess, InFailure
<1>1. CASE \E w \in InTry \cup InMethod : Goes(c, w) /\ Stays /\ turn[c] \in DOMAIN Order
  BY <1>1
<1>2. CASE NextProvider(c) /\ turn[c] \in DOMAIN Order
  <2>1. turn[c] + 1 \in 1..(Len(Order) + 1)
    BY <1>2, Indexes
  <2>. QED
    BY <1>2, <2>1 DEF NextProvider
<1>3. CASE Done(c)
  <2>1. 1 \in 1..(Len(Order) + 1)
    BY Indexes
  <2>. QED
    BY <1>3, <2>1 DEF Done
<1>4. CASE Goes(c, "next") /\ Stays
  BY <1>4
<1>5. CASE /\ Goes(c, "next") /\ asking' \subseteq Callers
           /\ \E i \in DOMAIN Order : turn' = [turn EXCEPT ![c] = i]
  <2>1. PICK i \in DOMAIN Order : turn' = [turn EXCEPT ![c] = i]
    BY <1>5
  <2>2. i \in 1..(Len(Order) + 1)
    BY Indexes
  <2>. QED
    BY <1>5, <2>1, <2>2
<1>6. CASE UNCHANGED thread
  BY <1>6 DEF thread
<1>. QED
  BY <1>1, <1>2, <1>3, <1>4, <1>5, <1>6

(* Entering and leaving a method keep the set of overlapping threads one of threads. *)
LEMMA MixedType ==
  ASSUME TypeOK, NEW c \in Callers, EntersMethod(c) \/ LeavesMethod(c) \/ UNCHANGED mixed
  PROVE  mixed' \subseteq Callers
BY DEF TypeOK, EntersMethod, LeavesMethod, Others

LEMMA NumberType ==
  /\ 0 \in 0..Threshold /\ 0 \in Times /\ RecoveryTimeout + 1 \in Times
  /\ \A n \in 0..Threshold : OneMore(n) \in 0..Threshold
  /\ \A t \in Times : Older(t) \in Times
BY RegistryAssumption DEF OneMore, Older, Times

(* A thread inside the loop's body, or a method, has a turn. *)
LEMMA HasTurn ==
  ASSUME TypeOK, NEW c \in Callers, at[c] \in InTry \cup InMethod
  PROVE  turn[c] \in DOMAIN Order /\ Turn(c) \in Providers
BY TurnType DEF TypeOK

LEMMA AnswerType ==
  ASSUME TypeOK, NEW c \in Callers, turn[c] \in DOMAIN Order, NEW yes, Answered(c, yes)
  PROVE  ThreadTyped'
BY WhereType DEF Answered, InTry

(* One step of a thread, in a method of the breaker ... *)
LEMMA MethodType ==
  ASSUME TypeOK, NEW c \in Callers, at[c] \in InMethod, Caller(c)
  PROVE  TypeOK'
<1>1. turn[c] \in DOMAIN Order /\ Turn(c) \in Providers
  BY HasTurn
<1>. DEFINE p == Turn(c)
<1>2. /\ 0 \in 0..Threshold /\ 0 \in Times /\ RecoveryTimeout + 1 \in Times
      /\ OneMore(seen[c]) \in 0..Threshold /\ stamp[c] \in Times /\ age[p] \in Times
  BY <1>1, NumberType DEF TypeOK
<1>3. /\ ~AskIfClosed(c) /\ ~CacheHit(c) /\ ~StartCall(c) /\ ~CallSucceeds(c) /\ ~StoreResult(c)
      /\ ~CallFails(c) /\ ~CacheFails(c) /\ ~GiveUpRequest(c) /\ ~CallCancelled(c)
  BY DEF AskIfClosed, AtProvider, CacheHit, StartCall, CallSucceeds, StoreResult, CallFails,
         CacheFails, GiveUpRequest, CallCancelled, InMethod, InCanAttempt, InSuccess, InFailure
<1>4. /\ {"is_open", "is_rested", "wake", "is_probed", "clear_probed", "close", "count", "clock",
          "stamp", "judge", "probe", "weigh", "open"} \subseteq InTry \cup InMethod
      /\ "storing" \in InTry \cup InMethod
  BY DEF InTry, InMethod, InCanAttempt, InSuccess, InFailure
<1>5. ThreadTyped'
  <2>1. CASE AskIfOpen(c) \/ JudgeFailure(c) \/ ClearProbed(c) \/ CountFailure(c) \/ ReadClock(c)
             \/ StampFailure(c) \/ CountProbe(c)
    <3>1. PICK w \in InTry \cup InMethod : Goes(c, w) /\ Stays
      BY <2>1, <1>4 DEF AskIfOpen, JudgeFailure, AfterJudging, ClearProbed, CountFailure, ReadClock,
           StampFailure, CountProbe
    <3>. QED
      BY <1>1, <3>1, WhereType
  <2>2. CASE AskIfRested(c)
    BY <2>2, <1>1, <1>4, WhereType, AnswerType DEF AskIfRested
  <2>3. CASE WakeBreaker(c) \/ AskIfProbed(c)
    BY <2>3, <1>1, AnswerType DEF WakeBreaker, AskIfProbed
  <2>4. CASE CloseBreaker(c)
    BY <2>4, <1>1, <1>4, WhereType DEF CloseBreaker
  <2>5. CASE WeighFailures(c) \/ OpenBreaker(c)
    BY <2>5, <1>1, <1>4, WhereType DEF WeighFailures, OpenBreaker, FailureRecorded
  <2>. QED
    BY <1>3, <2>1, <2>2, <2>3, <2>4, <2>5 DEF Caller
<1>6. mixed' \subseteq Callers
  BY <1>3, MixedType
     DEF Caller, AskIfOpen, AskIfRested, WakeBreaker, AskIfProbed, ClearProbed, CloseBreaker,
         CountFailure, ReadClock, StampFailure, JudgeFailure, CountProbe, WeighFailures, OpenBreaker,
         FailureRecorded, history
<1>7. SharedTyped'
  <2>. USE <1>1, <1>2, <1>6 DEF TypeOK, SharedTyped, breaker, local, history
  <2>. HIDE DEF p
  <2>1. CASE AskIfOpen(c) \/ AskIfRested(c) \/ AskIfProbed(c) \/ JudgeFailure(c)
    BY <2>1 DEF AskIfOpen, AskIfRested, AskIfProbed, JudgeFailure
  <2>2. CASE WakeBreaker(c)
    BY <2>2 DEF WakeBreaker
  <2>3. CASE ClearProbed(c)
    BY <2>3 DEF ClearProbed
  <2>4. CASE CloseBreaker(c)
    BY <2>4 DEF CloseBreaker, Closed
  <2>5. CASE CountFailure(c)
    BY <2>5 DEF CountFailure
  <2>6. CASE ReadClock(c)
    BY <2>6 DEF ReadClock
  <2>7. CASE StampFailure(c)
    BY <2>7 DEF StampFailure
  <2>8. CASE CountProbe(c)
    BY <2>8 DEF CountProbe
  <2>9. CASE WeighFailures(c)
    BY <2>9 DEF WeighFailures, FailureRecorded, p
  <2>10. CASE OpenBreaker(c)
    BY <2>10 DEF OpenBreaker, FailureRecorded, p
  <2>. QED
    BY <1>3, <2>1, <2>2, <2>3, <2>4, <2>5, <2>6, <2>7, <2>8, <2>9, <2>10 DEF Caller
<1>. QED
  BY <1>5, <1>7 DEF ThreadTyped, SharedTyped, TypeOK

(* ... or outside. *)
LEMMA LoopType ==
  ASSUME TypeOK, NEW c \in Callers, at[c] \notin InMethod, Request(c) \/ QueryState(c) \/ Caller(c)
  PROVE  TypeOK'
<1>1. /\ ~AskIfOpen(c) /\ ~AskIfRested(c) /\ ~WakeBreaker(c) /\ ~AskIfProbed(c) /\ ~ClearProbed(c)
      /\ ~CloseBreaker(c) /\ ~CountFailure(c) /\ ~ReadClock(c) /\ ~StampFailure(c) /\ ~JudgeFailure(c)
      /\ ~CountProbe(c) /\ ~WeighFailures(c) /\ ~OpenBreaker(c)
  BY DEF AskIfOpen, AskIfRested, WakeBreaker, AskIfProbed, ClearProbed, CloseBreaker, CountFailure,
         ReadClock, StampFailure, JudgeFailure, CountProbe, WeighFailures, OpenBreaker,
         InMethod, InCanAttempt, InSuccess, InFailure
<1>2. at[c] \in InTry => turn[c] \in DOMAIN Order /\ Turn(c) \in Providers
  BY HasTurn
<1>3. {"is_open", "clear_probed", "count", "running", "admitted", "storing"} \subseteq InTry \cup InMethod
  BY DEF InTry, InMethod, InCanAttempt, InSuccess, InFailure
<1>4. CASE Request(c) \/ CacheHit(c) \/ GiveUpRequest(c) \/ CallCancelled(c)
  <2>1. ThreadTyped'
    BY <1>4, WhereType DEF Request, CacheHit, GiveUpRequest, CallCancelled
  <2>. QED
    BY <1>4, <2>1 DEF Request, CacheHit, GiveUpRequest, CallCancelled, breaker, local, history,
         TypeOK, ThreadTyped
<1>5. CASE QueryState(c)
  <2>1. asking' \subseteq Callers
    BY <1>5 DEF QueryState, TypeOK
  <2>2. ThreadTyped'
    BY <1>5, <2>1, WhereType DEF QueryState
  <2>. QED
    BY <1>5, <2>2 DEF QueryState, breaker, local, history, TypeOK, ThreadTyped
<1>6. CASE StartCall(c)
  <2>1. ThreadTyped'
    BY <1>2, <1>3, <1>6, WhereType DEF StartCall, InTry
  <2>. QED
    BY <1>6, <2>1 DEF StartCall, breaker, local, history, TypeOK, ThreadTyped
<1>7. CASE StoreResult(c)
  <2>1. ThreadTyped' /\ Turn(c) \in Providers
    BY <1>2, <1>7, WhereType DEF StoreResult, InTry
  <2>. QED
    BY <1>7, <2>1 DEF StoreResult, breaker, local, history, TypeOK, ThreadTyped
<1>8. CASE AskIfClosed(c)
  <2>1. ThreadTyped'
    BY <1>3, <1>8, WhereType, AnswerType DEF AskIfClosed, AtProvider
  <2>2. mixed' \subseteq Callers
    BY <1>8, MixedType DEF AskIfClosed
  <2>. QED
    BY <1>8, <2>1, <2>2 DEF AskIfClosed, breaker, local, TypeOK, ThreadTyped
<1>9. CASE CallSucceeds(c)
  <2>1. ThreadTyped' /\ mixed' \subseteq Callers /\ Turn(c) \in Providers
    BY <1>2, <1>3, <1>9, WhereType, MixedType DEF CallSucceeds, StartSuccess, InTry
  <2>2. failures' \in [Providers -> 0..Threshold]
    BY <1>9, <2>1, NumberType DEF CallSucceeds, StartSuccess, TypeOK
  <2>. QED
    BY <1>9, <2>1, <2>2 DEF CallSucceeds, StartSuccess, local, TypeOK, ThreadTyped
<1>10. CASE CallFails(c) \/ CacheFails(c)
  <2>1. StartFailure(c) /\ turn[c] \in DOMAIN Order /\ Turn(c) \in Providers
    BY <1>2, <1>10 DEF CallFails, CacheFails, InTry
  <2>2. ThreadTyped' /\ mixed' \subseteq Callers
    BY <1>3, <2>1, WhereType, MixedType DEF StartFailure
  <2>3. seen' \in [Callers -> 0..Threshold] /\ streak' \in [Providers -> 0..Threshold]
    BY <2>1, NumberType DEF StartFailure, TypeOK
  <2>. QED
    BY <2>1, <2>2, <2>3 DEF StartFailure, breaker, TypeOK, ThreadTyped
<1>. QED
  BY <1>1, <1>4, <1>5, <1>6, <1>7, <1>8, <1>9, <1>10 DEF Caller

LEMMA TypeStep == TypeOK /\ [Next]_vars => TypeOK'
<1>. SUFFICES ASSUME TypeOK, [Next]_vars PROVE TypeOK'
  OBVIOUS
<1>1. ASSUME NEW c \in Callers, Request(c) \/ QueryState(c) \/ Caller(c)
      PROVE  TypeOK'
  <2>1. CASE at[c] \in InMethod
    <3>1. Caller(c)
      BY <1>1, <2>1 DEF Request, QueryState, InMethod, InCanAttempt, InSuccess, InFailure
    <3>. QED
      BY <2>1, <3>1, MethodType
  <2>. QED
    BY <1>1, <2>1, LoopType
<1>2. ASSUME NEW p \in Providers, ResetBreaker(p) \/ CacheExpires(p)
      PROVE  TypeOK'
  <2>1. 0 \in 0..Threshold
    BY NumberType
  <2>2. UNCHANGED thread /\ UNCHANGED <<state, probed, age, local, history>>
    BY <1>2 DEF ResetBreaker, CacheExpires, breaker
  <2>3. failures' \in [Providers -> 0..Threshold] /\ cached' \subseteq Providers
    BY <1>2, <2>1 DEF ResetBreaker, CacheExpires, TypeOK, breaker
  <2>. QED
    BY <2>2, <2>3 DEF TypeOK, thread, local, history
<1>3. CASE Tick
  <2>1. age' \in [Providers -> Times] /\ rest' \in [Providers -> Times] /\ stamp' \in [Callers -> Times]
    BY <1>3, NumberType DEF Tick, TypeOK
  <2>. QED
    BY <1>3, <2>1 DEF Tick, TypeOK, thread
<1>4. CASE UNCHANGED vars
  BY <1>4 DEF vars, breaker, thread, local, history, TypeOK, Others
<1>. QED
  BY <1>1, <1>2, <1>3, <1>4 DEF Next

LEMMA TypeInit == Init => TypeOK
<1>. SUFFICES ASSUME Init PROVE TypeOK
  OBVIOUS
<1>1. 0 \in 0..Threshold /\ RecoveryTimeout + 1 \in Times /\ 1 \in 1..(Len(Order) + 1)
  BY NumberType, Indexes
<1>. QED
  BY <1>1 DEF Init, TypeOK, InTry, InMethod, InCanAttempt, InSuccess, InFailure

(* Every variable keeps its type, and a thread inside the loop's body or a method of a *)
(* breaker has the index of a provider, whatever the order, the threshold and the      *)
(* timeout (execute, circuit_breaker.py).                                              *)
THEOREM TypeCorrect == Spec => []TypeOK
BY TypeInit, TypeStep, PTL DEF Spec

-----------------------------------------------------------------------------
(* The breakers *)

(* Thread d's own place and values do not change in c's step. *)
SameThread(d) == /\ at'[d] = at[d] /\ turn'[d] = turn[d]
                 /\ seen'[d] = seen[d] /\ stamp'[d] = stamp[d]

LEMMA MethodNames ==
  /\ {"is_open", "is_rested", "wake", "is_probed", "clear_probed", "close", "count", "clock",
      "stamp", "judge", "probe", "weigh", "open"} = InMethod
  /\ {"idle", "next", "admitted", "running", "storing"} \cap InMethod = {}
BY DEF InMethod, InCanAttempt, InSuccess, InFailure

(* Outside of a method nothing is claimed of a thread. *)
LEMMA OutsideConsistent ==
  ASSUME NEW c, at[c] \notin InMethod
  PROVE  ThreadConsistent(c)
BY MethodNames DEF ThreadConsistent

(* A thread whose call overlaps c's in the same breaker is known to overlap. *)
LEMMA Collision ==
  ASSUME Consistent, NEW c \in Callers, NEW d \in Others(c), at[c] \in InMethod
  PROVE  c \in mixed /\ d \in mixed
<1>1. d \in Callers /\ c \in Others(d) /\ at[d] \in InMethod
  BY DEF Others
<1>. QED
  BY <1>1 DEF Consistent, ThreadConsistent

(* What the steps of c leave true of another thread: when they change no breaker ... *)
LEMMA QuietForOthers ==
  ASSUME Consistent, NEW c \in Callers, \A e \in Callers \ {c} : SameThread(e),
         UNCHANGED <<state, failures, streak, rest>>, mixed' \in {mixed, mixed \ {c}},
         at'[c] \in InMethod => at[c] \in InMethod /\ turn'[c] = turn[c],
         NEW d \in Callers \ {c}
  PROVE  ThreadConsistent(d)'
<1>1. SameThread(d) /\ Turn(d)' = Turn(d) /\ ThreadConsistent(d)
  BY DEF SameThread, Turn, Consistent
<1>2. Others(d)' \subseteq Others(d)
  BY DEF Others, SameThread, Turn
<1>3. d \in mixed' <=> d \in mixed
  OBVIOUS
<1>. QED
  BY <1>1, <1>2, <1>3 DEF ThreadConsistent, SameThread

(* ... and when c is, or comes to be, in a method of a breaker others may be in. *)
LEMMA LoudForOthers ==
  ASSUME TypeOK, Consistent, TypeOK', NEW c \in Callers, Turn(c) \in Providers,
         \A e \in Callers \ {c} : SameThread(e),
         \A q \in Providers \ {Turn(c)} :
           /\ state'[q] = state[q] /\ failures'[q] = failures[q]
           /\ streak'[q] = streak[q] /\ rest'[q] = rest[q],
         \A e \in Others(c) :
           /\ e \in mixed'
           /\ streak'[Turn(c)] >= streak[Turn(c)] /\ rest'[Turn(c)] >= rest[Turn(c)],
         \A e \in mixed \ {c} : e \in mixed',
         at'[c] \in InMethod => turn'[c] = turn[c],
         NEW d \in Callers \ {c}
  PROVE  ThreadConsistent(d)'
<1>1. SameThread(d) /\ Turn(d)' = Turn(d) /\ ThreadConsistent(d)
  BY DEF SameThread, Turn, Consistent
<1>. SUFFICES ASSUME at[d] \in InMethod
              PROVE  ThreadConsistent(d)'
  <2>1. CASE at'[d] \notin InMethod
    BY <2>1, MethodNames DEF ThreadConsistent
  <2>. QED
    BY <1>1, <2>1 DEF SameThread
<1>2. Turn(d) \in Providers
  BY HasTurn
<1>3. CASE Turn(d) # Turn(c)
  <2>1. Turn(c)' = Turn(c) \/ at'[c] \notin InMethod
    BY DEF Turn
  <2>2. Others(d)' \subseteq Others(d)
    BY <1>1, <1>3, <2>1 DEF Others, SameThread, Turn
  <2>3. /\ state'[Turn(d)] = state[Turn(d)] /\ failures'[Turn(d)] = failures[Turn(d)]
        /\ streak'[Turn(d)] = streak[Turn(d)] /\ rest'[Turn(d)] = rest[Turn(d)]
    BY <1>2, <1>3
  <2>. QED
    BY <1>1, <2>2, <2>3 DEF ThreadConsistent, SameThread
<1>4. CASE Turn(d) = Turn(c)
  <2>1. d \in Others(c)
    BY <1>4 DEF Others
  <2>. DEFINE q == Turn(d)
  <2>2. d \in mixed' /\ streak'[q] >= streak[q] /\ rest'[q] >= rest[q]
    BY <1>4, <2>1
  <2>3. /\ streak[q] \in 0..Threshold /\ streak'[q] \in 0..Threshold
        /\ rest[q] \in Times /\ rest'[q] \in Times
        /\ seen[d] \in 0..Threshold /\ stamp[d] \in Times /\ OneMore(seen[d]) \in 0..Threshold
    BY <1>2, NumberType DEF TypeOK
  <2>4. /\ at[d] = "count" => OneMore(seen[d]) <= streak[q]
        /\ at[d] \in {"is_open", "is_rested", "wake", "probe", "open"} => streak[q] = Threshold
        /\ at[d] = "wake" => rest[q] > RecoveryTimeout
        /\ at[d] = "stamp" => stamp[d] <= rest[q]
    BY <1>1 DEF ThreadConsistent
  <2>. HIDE DEF q
  <2>5. /\ at[d] = "count" => OneMore(seen[d]) <= streak'[q]
        /\ at[d] \in {"is_open", "is_rested", "wake", "probe", "open"} => streak'[q] = Threshold
        /\ at[d] = "wake" => rest'[q] > RecoveryTimeout
        /\ at[d] = "stamp" => stamp[d] <= rest'[q]
    BY <2>2, <2>3, <2>4, RegistryAssumption DEF Times
  <2>6. OneMore(seen'[d]) = OneMore(seen[d])
    BY <1>1 DEF SameThread
  <2>. QED
    BY <1>1, <2>2, <2>5, <2>6 DEF ThreadConsistent, SameThread, q
<1>. QED
  BY <1>3, <1>4

LEMMA OwnOthers ==
  ASSUME NEW c \in Callers, \A e \in Callers \ {c} : SameThread(e), turn'[c] = turn[c]
  PROVE  Others(c)' = Others(c) /\ Turn(c)' = Turn(c)
BY DEF Others, SameThread, Turn

(* A thread's step moves that thread alone. *)
LEMMA OneThreadMoves ==
  ASSUME TypeOK, NEW c \in Callers, Request(c) \/ QueryState(c) \/ Caller(c)
  PROVE  \A e \in Callers \ {c} : SameThread(e)
<1>1. ASSUME Done(c) \/ NextProvider(c) \/ (\E w : Goes(c, w) /\ Stays)
      PROVE  \A e \in Callers \ {c} : at'[e] = at[e] /\ turn'[e] = turn[e]
  BY <1>1 DEF TypeOK, Done, NextProvider, Goes, Stays
<1>2. ASSUME NEW yes, Answered(c, yes)
      PROVE  Done(c) \/ NextProvider(c) \/ (\E w : Goes(c, w) /\ Stays)
  BY <1>2 DEF Answered
<1>3. CASE QueryState(c)
  BY <1>3 DEF QueryState, Goes, TypeOK, SameThread, local
<1>4. CASE Request(c) \/ CacheHit(c) \/ StartCall(c) \/ StoreResult(c) \/ GiveUpRequest(c) \/ CallCancelled(c)
  BY <1>1, <1>4 DEF Request, CacheHit, StartCall, StoreResult, GiveUpRequest, CallCancelled,
       SameThread, local
<1>5. CASE AskIfClosed(c) \/ AskIfOpen(c) \/ AskIfRested(c) \/ WakeBreaker(c) \/ AskIfProbed(c)
  BY <1>1, <1>2, <1>5 DEF AskIfClosed, AskIfOpen, AskIfRested, WakeBreaker, AskIfProbed,
       SameThread, local
<1>6. CASE CallSucceeds(c) \/ ClearProbed(c) \/ CloseBreaker(c) \/ JudgeFailure(c) \/ CountProbe(c)
           \/ WeighFailures(c) \/ OpenBreaker(c)
  BY <1>1, <1>6 DEF CallSucceeds, StartSuccess, ClearProbed, CloseBreaker, JudgeFailure, CountProbe,
       WeighFailures, OpenBreaker, FailureRecorded, SameThread, local
<1>7. CASE CallFails(c) \/ CacheFails(c) \/ CountFailure(c)
  <2>1. /\ stamp' = stamp /\ \E w : Goes(c, w) /\ Stays
        /\ \E n : seen' = [seen EXCEPT ![c] = n]
    BY <1>7 DEF CallFails, CacheFails, StartFailure, CountFailure
  <2>. QED
    BY <1>1, <2>1 DEF SameThread, TypeOK
<1>8. CASE ReadClock(c) \/ StampFailure(c)
  <2>1. /\ seen' = seen /\ \E w : Goes(c, w) /\ Stays
        /\ \E n : stamp' = [stamp EXCEPT ![c] = n]
    BY <1>8 DEF ReadClock, StampFailure
  <2>. QED
    BY <1>1, <2>1 DEF SameThread, TypeOK
<1>. QED
  BY <1>3, <1>4, <1>5, <1>6, <1>7, <1>8 DEF Caller

(* Steps that change no breaker and no history, and read or leave: a query, the loop,  *)
(* the reads of can_attempt and record_failure.                                        *)
LEMMA QuietKept ==
  ASSUME TypeOK, Consistent, TypeOK', NEW c \in Callers,
         \A e \in Callers \ {c} : SameThread(e),
         UNCHANGED <<state, failures, age, streak, rest>>, mixed' \in {mixed, mixed \ {c}},
         at'[c] \in InMethod =>
           at[c] \in InMethod /\ turn'[c] = turn[c] /\ ThreadConsistent(c)'
  PROVE  Consistent'
<1>1. \A d \in Callers \ {c} : ThreadConsistent(d)'
  BY QuietForOthers
<1>2. ThreadConsistent(c)'
  BY MethodNames DEF ThreadConsistent
<1>3. \A p \in Providers : BreakerConsistent(p)'
  BY DEF Consistent, BreakerConsistent
<1>. QED
  BY <1>1, <1>2, <1>3 DEF Consistent

(* Steps that write to breaker p = Turn(c). *)
LEMMA LoudKept ==
  ASSUME TypeOK, Consistent, TypeOK', NEW c \in Callers,
         NEW p \in Providers, p = Turn(c),
         \A e \in Callers \ {c} : SameThread(e),
         \A q \in Providers \ {p} :
           /\ state'[q] = state[q] /\ failures'[q] = failures[q] /\ age'[q] = age[q]
           /\ streak'[q] = streak[q] /\ rest'[q] = rest[q],
         \A e \in Others(c) :
           /\ e \in mixed'
           /\ streak'[Turn(c)] >= streak[Turn(c)] /\ rest'[Turn(c)] >= rest[Turn(c)],
         \A e \in mixed \ {c} : e \in mixed',
         at'[c] \in InMethod => turn'[c] = turn[c] /\ ThreadConsistent(c)',
         BreakerConsistent(p)'
  PROVE  Consistent'
<1>1. \A d \in Callers \ {c} : ThreadConsistent(d)'
  BY LoudForOthers
<1>2. ThreadConsistent(c)'
  BY MethodNames DEF ThreadConsistent
<1>3. \A q \in Providers : BreakerConsistent(q)'
  BY DEF Consistent, BreakerConsistent
<1>. QED
  BY <1>1, <1>2, <1>3 DEF Consistent

(* Entering and leaving a method, as LoudKept asks for it. *)
LEMMA EnterMarks ==
  ASSUME TypeOK, NEW c \in Callers, EntersMethod(c)
  PROVE  /\ \A e \in Others(c) : e \in mixed'
         /\ \A e \in mixed : e \in mixed'
         /\ c \notin mixed' => Others(c) = {}
BY DEF EntersMethod

LEMMA LeaveMarks ==
  ASSUME TypeOK, Consistent, NEW c \in Callers, at[c] \in InMethod,
         LeavesMethod(c) \/ UNCHANGED mixed
  PROVE  /\ \A e \in Others(c) : c \in mixed /\ e \in mixed'
         /\ \A e \in mixed \ {c} : e \in mixed'
<1>1. \A e \in Others(c) : c \in mixed /\ e \in mixed /\ e # c
  BY Collision DEF Others
<1>. QED
  BY <1>1 DEF LeavesMethod

(* The values of one breaker, and what is known of it. *)
LEMMA OneBreaker ==
  ASSUME TypeOK, Consistent, NEW p \in Providers
  PROVE  /\ state[p] \in {"closed", "open", "half_open"} /\ failures[p] \in 0..Threshold
         /\ streak[p] \in 0..Threshold /\ age[p] \in Times /\ rest[p] \in Times
         /\ BreakerConsistent(p)
BY DEF TypeOK, Consistent

(* can_attempt *)
LEMMA AskKept ==
  ASSUME TypeOK, Consistent, TypeOK', NEW c \in Callers, \A e \in Callers \ {c} : SameThread(e),
         AskIfClosed(c) \/ AskIfOpen(c) \/ AskIfRested(c) \/ WakeBreaker(c) \/ AskIfProbed(c)
  PROVE  Consistent'
<1>1. turn[c] \in DOMAIN Order /\ Turn(c) \in Providers
  BY HasTurn, TurnType, MethodNames
     DEF AskIfClosed, AskIfOpen, AskIfRested, WakeBreaker, AskIfProbed, AtProvider
<1>0. PICK p \in Providers : p = Turn(c)
  BY <1>1
<1>. USE <1>0
<1>2. BreakerConsistent(p) /\ ThreadConsistent(c) /\ state[p] \in {"closed", "open", "half_open"}
  BY <1>1, OneBreaker DEF Consistent
<1>3. ASSUME NEW yes, Answered(c, yes)
      PROVE  at'[c] \notin InMethod
  BY <1>3, MethodNames DEF Answered, Done, Goes, NextProvider, TypeOK
<1>4. ASSUME NEW w, Goes(c, w), Stays
      PROVE  at'[c] = w /\ turn'[c] = turn[c] /\ Turn(c)' = Turn(c) /\ Others(c)' = Others(c)
  BY <1>4, OwnOthers DEF Goes, Stays, TypeOK
<1>5. CASE AskIfClosed(c)
  <2>1. CASE Answered(c, TRUE) /\ UNCHANGED mixed
    <3>1. at'[c] \notin InMethod
      BY <1>3, <2>1
    <3>. QED
      BY <1>5, <2>1, <3>1, QuietKept DEF AskIfClosed, breaker
  <2>2. CASE state[p] # "closed" /\ Goes(c, "is_open") /\ Stays /\ EntersMethod(c)
    <3>1. at'[c] = "is_open" /\ turn'[c] = turn[c] /\ Turn(c)' = p /\ Others(c)' = Others(c)
      BY <1>4, <2>2
    <3>2. UNCHANGED <<state, failures, age, streak, rest>>
      BY <1>5 DEF AskIfClosed, breaker
    <3>3. ThreadConsistent(c)'
      BY <1>2, <2>2, <3>1, <3>2, EnterMarks DEF ThreadConsistent, BreakerConsistent
    <3>4. BreakerConsistent(p)'
      BY <1>2, <3>2 DEF BreakerConsistent
    <3>5. streak'[p] >= streak[p] /\ rest'[p] >= rest[p]
      BY <1>1, <3>2, OneBreaker DEF Times
    <3>. QED
      BY <1>1, <2>2, <3>1, <3>2, <3>3, <3>4, <3>5, EnterMarks, LoudKept
  <2>. QED
    BY <1>5, <2>1, <2>2 DEF AskIfClosed
<1>6. CASE AskIfOpen(c)
  <2>1. PICK w : /\ Goes(c, w) /\ Stays
                 /\ w = (IF state[p] = "open" THEN "is_rested" ELSE "is_probed")
    BY <1>6 DEF AskIfOpen
  <2>2. at'[c] = w /\ turn'[c] = turn[c] /\ Turn(c)' = p /\ Others(c)' = Others(c)
    BY <1>4, <2>1
  <2>3. UNCHANGED <<state, failures, age, streak, rest, mixed>> /\ at[c] = "is_open"
    BY <1>6 DEF AskIfOpen, breaker, history
  <2>4. ThreadConsistent(c)'
    BY <1>2, <2>1, <2>2, <2>3, MethodNames DEF ThreadConsistent
  <2>. QED
    BY <2>2, <2>3, <2>4, QuietKept, MethodNames
<1>7. CASE AskIfRested(c)
  <2>1. UNCHANGED <<state, failures, age, streak, rest>> /\ at[c] = "is_rested"
    BY <1>7 DEF AskIfRested, breaker
  <2>2. CASE Rested(p) /\ Goes(c, "wake") /\ Stays /\ UNCHANGED mixed
    <3>1. at'[c] = "wake" /\ turn'[c] = turn[c] /\ Turn(c)' = p /\ Others(c)' = Others(c)
      BY <1>4, <2>2
    <3>2. rest[p] > RecoveryTimeout
      BY <1>1, <1>2, <2>2, OneBreaker, RegistryAssumption DEF BreakerConsistent, Rested, Times
    <3>3. ThreadConsistent(c)'
      BY <1>2, <2>1, <2>2, <3>1, <3>2, MethodNames DEF ThreadConsistent
    <3>. QED
      BY <2>1, <2>2, <3>1, <3>3, QuietKept, MethodNames
  <2>3. CASE Answered(c, FALSE) /\ LeavesMethod(c)
    BY <1>3, <2>1, <2>3, QuietKept DEF LeavesMethod
  <2>. QED
    BY <1>7, <2>2, <2>3 DEF AskIfRested
<1>8. CASE WakeBreaker(c)
  <2>1. at[c] = "wake" /\ at'[c] \notin InMethod /\ LeavesMethod(c)
    BY <1>3, <1>8 DEF WakeBreaker
  <2>2. state' = [state EXCEPT ![p] = "half_open"] /\ UNCHANGED <<failures, age, streak, rest>>
    BY <1>8 DEF WakeBreaker
  <2>3. streak[p] = Threshold /\ rest[p] > RecoveryTimeout
    BY <1>2, <2>1 DEF ThreadConsistent
  <2>4. BreakerConsistent(p)'
    BY <1>2, <2>2, <2>3 DEF BreakerConsistent, TypeOK
  <2>5. streak'[p] >= streak[p] /\ rest'[p] >= rest[p]
    BY <1>1, <2>2, OneBreaker DEF Times
  <2>6. \A q \in Providers \ {p} : state'[q] = state[q]
    BY <2>2 DEF TypeOK
  <2>. QED
    BY <1>1, <2>1, <2>2, <2>4, <2>5, <2>6, LeaveMarks, LoudKept, MethodNames
<1>9. CASE AskIfProbed(c)
  <2>1. at'[c] \notin InMethod
    BY <1>3, <1>9 DEF AskIfProbed
  <2>. QED
    BY <1>9, <2>1, QuietKept DEF AskIfProbed, breaker, LeavesMethod
<1>. QED
  BY <1>5, <1>6, <1>7, <1>8, <1>9

(* record_success *)
LEMMA SuccessKept ==
  ASSUME TypeOK, Consistent, TypeOK', NEW c \in Callers, \A e \in Callers \ {c} : SameThread(e),
         CallSucceeds(c) \/ ClearProbed(c) \/ CloseBreaker(c)
  PROVE  Consistent'
<1>1. PICK p \in Providers : p = Turn(c)
  BY HasTurn, MethodNames DEF CallSucceeds, ClearProbed, CloseBreaker, InTry
<1>. USE <1>1
<1>2. BreakerConsistent(p) /\ ThreadConsistent(c)
  BY OneBreaker DEF Consistent
<1>3. ASSUME NEW w, Goes(c, w), Stays
      PROVE  at'[c] = w /\ turn'[c] = turn[c] /\ Turn(c)' = p /\ Others(c)' = Others(c)
  BY <1>3, OwnOthers DEF Goes, Stays, TypeOK
<1>4. CASE CallSucceeds(c)
  <2>1. at'[c] = "clear_probed" /\ turn'[c] = turn[c] /\ Turn(c)' = p /\ Others(c)' = Others(c)
    BY <1>3, <1>4 DEF CallSucceeds, StartSuccess
  <2>2. /\ failures' = [failures EXCEPT ![p] = 0] /\ UNCHANGED <<state, age, streak, rest>>
        /\ EntersMethod(c)
    BY <1>4 DEF CallSucceeds, StartSuccess
  <2>3. failures'[p] = 0 /\ \A q \in Providers \ {p} : failures'[q] = failures[q]
    BY <2>2 DEF TypeOK
  <2>4. ThreadConsistent(c)'
    BY <2>1, <2>3, <2>2, EnterMarks DEF ThreadConsistent
  <2>5. BreakerConsistent(p)' /\ streak'[p] >= streak[p] /\ rest'[p] >= rest[p]
    BY <1>2, <2>2, <2>3, OneBreaker DEF BreakerConsistent, Times
  <2>. QED
    BY <2>1, <2>2, <2>3, <2>4, <2>5, EnterMarks, LoudKept
<1>5. CASE ClearProbed(c)
  <2>1. at'[c] = "close" /\ turn'[c] = turn[c] /\ Turn(c)' = p /\ Others(c)' = Others(c)
    BY <1>3, <1>5 DEF ClearProbed
  <2>2. UNCHANGED <<state, failures, age, streak, rest, mixed>> /\ at[c] = "clear_probed"
    BY <1>5 DEF ClearProbed, history
  <2>3. ThreadConsistent(c)'
    BY <1>2, <2>1, <2>2, MethodNames DEF ThreadConsistent
  <2>. QED
    BY <2>1, <2>2, <2>3, QuietKept, MethodNames
<1>6. CASE CloseBreaker(c)
  <2>1. /\ at[c] = "close" /\ state' = [state EXCEPT ![p] = "closed"]
        /\ streak' = (IF c \in mixed THEN streak ELSE [streak EXCEPT ![p] = 0])
        /\ LeavesMethod(c) /\ UNCHANGED <<failures, age, rest>>
    BY <1>6 DEF CloseBreaker, Closed
  <2>2. at'[c] \notin InMethod
    BY <1>3, <1>6, MethodNames DEF CloseBreaker, Done, Goes, TypeOK
  <2>3. /\ state'[p] = "closed"
        /\ \A q \in Providers \ {p} : state'[q] = state[q] /\ streak'[q] = streak[q]
    BY <2>1 DEF TypeOK
  <2>4. c \notin mixed => failures[p] = 0 /\ Others(c) = {}
    BY <1>2, <2>1, MethodNames DEF ThreadConsistent
  <2>5. c \in mixed => streak'[p] = streak[p]
    BY <2>1
  <2>6. c \notin mixed => streak'[p] = 0
    BY <2>1 DEF TypeOK
  <2>7. BreakerConsistent(p)'
    BY <1>2, <2>1, <2>3, <2>4, <2>5, <2>6 DEF BreakerConsistent
  <2>8. \A e \in Others(c) : streak'[p] >= streak[p] /\ rest'[p] >= rest[p]
    BY <2>1, <2>4, <2>5, OneBreaker DEF Times
  <2>. QED
    BY <2>1, <2>2, <2>3, <2>7, <2>8, LeaveMarks, LoudKept, MethodNames
<1>. QED
  BY <1>4, <1>5, <1>6

(* The last step of record_failure. *)
LEMMA RecordedKept ==
  ASSUME TypeOK, Consistent, TypeOK', NEW c \in Callers, \A e \in Callers \ {c} : SameThread(e),
         NEW p \in Providers, p = Turn(c), at[c] \in InMethod, FailureRecorded(c),
         UNCHANGED <<failures, age>>,
         state'[p] # "closed" => streak[p] = Threshold,
         state'[p] = "half_open" => rest[p] > RecoveryTimeout /\ c \in mixed,
         \A q \in Providers \ {p} : state'[q] = state[q]
  PROVE  Consistent'
<1>1. BreakerConsistent(p) /\ age[p] \in Times /\ rest[p] \in Times /\ streak[p] \in Nat
  BY OneBreaker
<1>2. /\ rest' = (IF c \in mixed THEN rest ELSE [rest EXCEPT ![p] = age[p]])
      /\ streak' = streak /\ LeavesMethod(c)
  BY DEF FailureRecorded
<1>3. at'[c] \notin InMethod
  BY MethodNames DEF FailureRecorded, NextProvider, Goes, TypeOK
<1>4. /\ \A q \in Providers \ {p} : rest'[q] = rest[q]
      /\ rest'[p] = IF c \in mixed THEN rest[p] ELSE age[p]
  BY <1>2 DEF TypeOK
<1>5. BreakerConsistent(p)'
  BY <1>1, <1>2, <1>4 DEF BreakerConsistent, Times
<1>6. \A e \in Others(c) : streak'[p] >= streak[p] /\ rest'[p] >= rest[p]
  BY <1>1, <1>2, <1>4, LeaveMarks DEF Times
<1>. QED
  BY <1>2, <1>3, <1>4, <1>5, <1>6, LeaveMarks, LoudKept

(* record_failure, from an outcome or from the cache *)
LEMMA FailureKept ==
  ASSUME TypeOK, Consistent, TypeOK', NEW c \in Callers, \A e \in Callers \ {c} : SameThread(e),
         \/ CallFails(c) \/ CacheFails(c) \/ CountFailure(c) \/ ReadClock(c) \/ StampFailure(c)
         \/ JudgeFailure(c) \/ CountProbe(c) \/ WeighFailures(c) \/ OpenBreaker(c)
  PROVE  Consistent'
<1>1. PICK p \in Providers : p = Turn(c)
  BY HasTurn, MethodNames DEF CallFails, CacheFails, CountFailure, ReadClock, StampFailure,
     JudgeFailure, CountProbe, WeighFailures, OpenBreaker, InTry
<1>. USE <1>1
<1>2. /\ BreakerConsistent(p) /\ ThreadConsistent(c) /\ Threshold \in Nat \ {0}
      /\ state[p] \in {"closed", "open", "half_open"} /\ failures[p] \in 0..Threshold
      /\ streak[p] \in 0..Threshold /\ age[p] \in Times /\ rest[p] \in Times
  BY OneBreaker, RegistryAssumption DEF Consistent
<1>3. ASSUME NEW w, Goes(c, w), Stays
      PROVE  at'[c] = w /\ turn'[c] = turn[c] /\ Turn(c)' = p /\ Others(c)' = Others(c)
  BY <1>3, OwnOthers DEF Goes, Stays, TypeOK
<1>4. CASE CallFails(c) \/ CacheFails(c)
  <2>1. StartFailure(c)
    BY <1>4 DEF CallFails, CacheFails
  <2>2. at'[c] = "count" /\ turn'[c] = turn[c] /\ Turn(c)' = p /\ Others(c)' = Others(c)
    BY <1>3, <2>1 DEF StartFailure
  <2>3. UNCHANGED <<state, failures, age, rest>> /\ EntersMethod(c)
    BY <2>1 DEF StartFailure, breaker
  <2>4. /\ seen'[c] = failures[p] /\ streak'[p] = OneMore(streak[p])
        /\ \A q \in Providers \ {p} : streak'[q] = streak[q]
    BY <2>1 DEF StartFailure, TypeOK
  <2>5. /\ OneMore(failures[p]) <= OneMore(streak[p]) /\ streak[p] <= OneMore(streak[p])
        /\ OneMore(streak[p]) <= Threshold
    BY <1>2 DEF OneMore, BreakerConsistent
  <2>6. OneMore(seen[c])' <= streak'[p]
    BY <2>4, <2>5 DEF OneMore
  <2>7. ThreadConsistent(c)'
    BY <2>2, <2>3, <2>6, EnterMarks DEF ThreadConsistent
  <2>8. OneMore(streak[p]) \in Nat
    BY <1>2 DEF OneMore
  <2>9. BreakerConsistent(p)' /\ streak'[p] >= streak[p] /\ rest'[p] >= rest[p]
    <3>1. failures[p] <= streak'[p] /\ (state[p] # "closed" => streak'[p] = Threshold)
      BY <1>2, <2>4, <2>5, <2>8 DEF BreakerConsistent
    <3>2. streak'[p] >= streak[p] /\ rest'[p] >= rest[p]
      BY <1>2, <2>3, <2>4, <2>5, <2>8 DEF Times
    <3>. QED
      BY <1>2, <2>3, <3>1, <3>2 DEF BreakerConsistent
  <2>. QED
    BY <2>2, <2>3, <2>4, <2>7, <2>9, EnterMarks, LoudKept
<1>5. CASE CountFailure(c)
  <2>1. at'[c] = "clock" /\ turn'[c] = turn[c] /\ Turn(c)' = p /\ Others(c)' = Others(c)
    BY <1>3, <1>5 DEF CountFailure
  <2>2. UNCHANGED <<state, age, streak, rest, mixed>> /\ at[c] = "count"
    BY <1>5 DEF CountFailure, history
  <2>3. /\ failures'[p] = OneMore(seen[c])
        /\ \A q \in Providers \ {p} : failures'[q] = failures[q]
    BY <1>5 DEF CountFailure, TypeOK
  <2>4. BreakerConsistent(p)'
    BY <1>2, <2>2, <2>3 DEF BreakerConsistent, ThreadConsistent
  <2>5. ThreadConsistent(c)'
    BY <1>2, <2>1, <2>2, MethodNames DEF ThreadConsistent
  <2>6. streak'[p] >= streak[p] /\ rest'[p] >= rest[p]
    BY <1>2, <2>2 DEF Times
  <2>. QED
    BY <2>1, <2>2, <2>3, <2>4, <2>5, <2>6, LeaveMarks, LoudKept, MethodNames
<1>6. CASE ReadClock(c)
  <2>1. at'[c] = "stamp" /\ turn'[c] = turn[c] /\ Turn(c)' = p /\ Others(c)' = Others(c)
    BY <1>3, <1>6 DEF ReadClock
  <2>2. UNCHANGED <<state, failures, age, streak, rest, mixed>> /\ at[c] = "clock"
    BY <1>6 DEF ReadClock, breaker, history
  <2>3. stamp'[c] = 0
    BY <1>6 DEF ReadClock, TypeOK
  <2>4. ThreadConsistent(c)'
    BY <1>2, <2>1, <2>2, <2>3, MethodNames DEF ThreadConsistent, Times
  <2>. QED
    BY <2>1, <2>2, <2>4, QuietKept, MethodNames
<1>7. CASE StampFailure(c)
  <2>1. at'[c] = "judge" /\ turn'[c] = turn[c] /\ Turn(c)' = p /\ Others(c)' = Others(c)
    BY <1>3, <1>7 DEF StampFailure
  <2>2. UNCHANGED <<state, failures, streak, rest, mixed>> /\ at[c] = "stamp"
    BY <1>7 DEF StampFailure, history
  <2>3. age'[p] = stamp[c] /\ \A q \in Providers \ {p} : age'[q] = age[q]
    BY <1>7 DEF StampFailure, TypeOK
  <2>4. BreakerConsistent(p)'
    BY <1>2, <2>2, <2>3 DEF BreakerConsistent, ThreadConsistent
  <2>5. ThreadConsistent(c)'
    BY <1>2, <2>1, <2>2, MethodNames DEF ThreadConsistent
  <2>6. streak'[p] >= streak[p] /\ rest'[p] >= rest[p]
    BY <1>2, <2>2 DEF Times
  <2>. QED
    BY <2>1, <2>2, <2>3, <2>4, <2>5, <2>6, LeaveMarks, LoudKept, MethodNames
<1>8. CASE JudgeFailure(c)
  <2>1. PICK w : Goes(c, w) /\ Stays /\ w = AfterJudging(p)
    BY <1>8 DEF JudgeFailure
  <2>2. at'[c] = w /\ turn'[c] = turn[c] /\ Turn(c)' = p /\ Others(c)' = Others(c)
    BY <1>3, <2>1
  <2>3. UNCHANGED <<state, failures, age, streak, rest, mixed>> /\ at[c] = "judge"
    BY <1>8 DEF JudgeFailure, breaker, history
  <2>4. ThreadConsistent(c)'
    BY <1>2, <2>1, <2>2, <2>3, MethodNames DEF ThreadConsistent, BreakerConsistent, AfterJudging
  <2>. QED
    BY <2>2, <2>3, <2>4, QuietKept, MethodNames
<1>9. CASE CountProbe(c)
  <2>1. at'[c] = "open" /\ turn'[c] = turn[c] /\ Turn(c)' = p /\ Others(c)' = Others(c)
    BY <1>3, <1>9 DEF CountProbe
  <2>2. UNCHANGED <<state, failures, age, streak, rest, mixed>> /\ at[c] = "probe"
    BY <1>9 DEF CountProbe, history
  <2>3. ThreadConsistent(c)'
    BY <1>2, <2>1, <2>2, MethodNames DEF ThreadConsistent
  <2>. QED
    BY <2>1, <2>2, <2>3, QuietKept, MethodNames
<1>10. CASE WeighFailures(c)
  <2>1. UNCHANGED <<state, failures, age>> /\ at[c] = "weigh"
    BY <1>10 DEF WeighFailures, breaker
  <2>2. CASE Reached(p) /\ Goes(c, "open") /\ Stays /\ UNCHANGED history
    <3>1. at'[c] = "open" /\ turn'[c] = turn[c] /\ Turn(c)' = p /\ Others(c)' = Others(c)
      BY <1>3, <2>2
    <3>2. streak[p] = Threshold
      BY <1>2, <2>2 DEF Reached, BreakerConsistent
    <3>3. ThreadConsistent(c)'
      BY <1>2, <2>1, <2>2, <3>1, <3>2, MethodNames DEF ThreadConsistent, history
    <3>. QED
      BY <2>1, <2>2, <3>1, <3>3, QuietKept, MethodNames DEF history
  <2>3. CASE FailureRecorded(c)
    <3>1. state[p] = "half_open" => rest[p] > RecoveryTimeout /\ c \in mixed
      BY <1>2, <2>1, MethodNames DEF ThreadConsistent, BreakerConsistent
    <3>. QED
      BY <1>2, <2>1, <2>3, <3>1, RecordedKept, MethodNames DEF BreakerConsistent
  <2>. QED
    BY <1>10, <2>2, <2>3 DEF WeighFailures
<1>11. CASE OpenBreaker(c)
  <2>1. /\ at[c] = "open" /\ FailureRecorded(c) /\ UNCHANGED <<failures, age>>
        /\ state' = [state EXCEPT ![p] = "open"]
    BY <1>11 DEF OpenBreaker
  <2>2. state'[p] = "open" /\ \A q \in Providers \ {p} : state'[q] = state[q]
    BY <2>1 DEF TypeOK
  <2>3. streak[p] = Threshold
    BY <1>2, <2>1 DEF ThreadConsistent
  <2>. QED
    BY <2>1, <2>2, <2>3, RecordedKept, MethodNames
<1>. QED
  BY <1>4, <1>5, <1>6, <1>7, <1>8, <1>9, <1>10, <1>11

(* execute *)
LEMMA LoopKept ==
  ASSUME TypeOK, Consistent, TypeOK', NEW c \in Callers, \A e \in Callers \ {c} : SameThread(e),
         \/ Request(c) \/ QueryState(c) \/ CacheHit(c) \/ StartCall(c) \/ StoreResult(c)
         \/ GiveUpRequest(c) \/ CallCancelled(c)
  PROVE  Consistent'
<1>1. at'[c] \in {"idle", "next", "running"}
  BY DEF Request, QueryState, CacheHit, StartCall, StoreResult, GiveUpRequest, CallCancelled,
         Done, Goes, TypeOK
<1>2. UNCHANGED breaker /\ UNCHANGED history
  BY DEF Request, QueryState, CacheHit, StartCall, StoreResult, GiveUpRequest, CallCancelled
<1>. QED
  BY <1>1, <1>2, QuietKept, MethodNames DEF breaker, history

LEMMA ConsistentStep == TypeOK /\ Consistent /\ [Next]_vars => Consistent'
<1>. SUFFICES ASSUME TypeOK, Consistent, [Next]_vars PROVE Consistent'
  OBVIOUS
<1>1. TypeOK'
  BY TypeStep
<1>2. ASSUME NEW c \in Callers, Request(c) \/ QueryState(c) \/ Caller(c)
      PROVE  Consistent'
  <2>1. \A e \in Callers \ {c} : SameThread(e)
    BY <1>2, OneThreadMoves
  <2>. QED
    BY <1>1, <1>2, <2>1, AskKept, SuccessKept, FailureKept, LoopKept DEF Caller
<1>3. ASSUME NEW p \in Providers, ResetBreaker(p) \/ CacheExpires(p)
      PROVE  Consistent'
  <2>1. UNCHANGED <<state, age, thread, local, history>>
    BY <1>3 DEF ResetBreaker, CacheExpires, breaker
  <2>2. \A q \in Providers : failures'[q] \in {failures[q], 0}
    BY <1>3 DEF ResetBreaker, CacheExpires, breaker, TypeOK
  <2>3. ASSUME NEW q \in Providers PROVE BreakerConsistent(q)'
    <3>1. BreakerConsistent(q) /\ streak[q] \in 0..Threshold
      BY OneBreaker
    <3>. QED
      BY <2>1, <2>2, <3>1, RegistryAssumption DEF BreakerConsistent, history
  <2>4. ASSUME NEW c \in Callers PROVE ThreadConsistent(c)'
    <3>1. Turn(c)' = Turn(c) /\ Others(c)' = Others(c) /\ ThreadConsistent(c)
      BY <2>1 DEF Turn, Others, thread, Consistent
    <3>2. at[c] \in InMethod => failures'[Turn(c)] \in {failures[Turn(c)], 0}
      BY <2>2, HasTurn
    <3>. QED
      BY <2>1, <3>1, <3>2, MethodNames DEF ThreadConsistent, thread, local, history, OneMore
  <2>. QED
    BY <2>3, <2>4 DEF Consistent
<1>4. CASE Tick
  <2>1. /\ UNCHANGED <<state, failures, thread, seen, mixed, streak>>
        /\ \A q \in Providers : age'[q] = Older(age[q]) /\ rest'[q] = Older(rest[q])
        /\ \A c \in Callers : stamp'[c] = Older(stamp[c])
    BY <1>4 DEF Tick
  <2>2. ASSUME NEW s \in Times, NEW t \in Times, s <= t
        PROVE  Older(s) <= Older(t)
    BY <2>2, RegistryAssumption DEF Times, Older
  <2>3. ASSUME NEW t \in Times, t > RecoveryTimeout
        PROVE  Older(t) > RecoveryTimeout
    BY <2>3, RegistryAssumption DEF Times, Older
  <2>4. ASSUME NEW q \in Providers PROVE BreakerConsistent(q)'
    <3>1. BreakerConsistent(q) /\ age[q] \in Times /\ rest[q] \in Times
      BY OneBreaker
    <3>. QED
      BY <2>1, <2>2, <2>3, <3>1 DEF BreakerConsistent
  <2>5. ASSUME NEW c \in Callers PROVE ThreadConsistent(c)'
    <3>1. Turn(c)' = Turn(c) /\ Others(c)' = Others(c) /\ ThreadConsistent(c)
      BY <2>1 DEF Turn, Others, thread, Consistent
    <3>2. CASE at[c] \notin InMethod
      BY <2>1, <3>2, MethodNames DEF thread, ThreadConsistent
    <3>3. CASE at[c] \in InMethod
      <4>1. PICK q \in Providers : q = Turn(c)
        BY <3>3, HasTurn
      <4>2. stamp[c] \in Times /\ rest[q] \in Times
        BY DEF TypeOK
      <4>3. /\ at[c] = "wake" => rest'[q] > RecoveryTimeout
            /\ at[c] = "stamp" => stamp'[c] <= rest'[q]
        BY <2>1, <2>2, <2>3, <3>1, <4>1, <4>2 DEF ThreadConsistent
      <4>. QED
        BY <2>1, <3>1, <4>1, <4>3 DEF ThreadConsistent, thread, OneMore
    <3>. QED
      BY <3>2, <3>3
  <2>. QED
    BY <2>4, <2>5 DEF Consistent
<1>5. CASE UNCHANGED vars
  BY <1>5 DEF vars, breaker, thread, local, history, Consistent, BreakerConsistent,
       ThreadConsistent, Turn, Others, OneMore
<1>. QED
  BY <1>2, <1>3, <1>4, <1>5 DEF Next

LEMMA ConsistentInit == Init => Consistent
<1>. SUFFICES ASSUME Init PROVE Consistent
  OBVIOUS
<1>1. \A c \in Callers : ThreadConsistent(c)
  BY OutsideConsistent, MethodNames DEF Init
<1>2. \A p \in Providers : BreakerConsistent(p)
  BY RegistryAssumption DEF Init, BreakerConsistent
<1>. QED
  BY <1>1, <1>2 DEF Consistent

(* A breaker that is not closed has had its threshold of failures reported to it since *)
(* the last success no other thread's call overlapped, wherever torn increments, stale *)
(* wake-ups, queries and resets interleave (record_failure, can_attempt).              *)
THEOREM OpeningCorrect == Spec => []OpenedByFailures
<1>1. Consistent => OpenedByFailures
  BY DEF Consistent, BreakerConsistent, OpenedByFailures
<1>. QED
  BY <1>1, TypeInit, ConsistentInit, TypeStep, ConsistentStep, PTL DEF Spec

(* No thread wakes a breaker, or passes one it found half-open, within the timeout of   *)
(* the last failure no other thread's call overlapped (can_attempt, execute).           *)
THEOREM RecoveryRespected == Spec => NoCallBeforeRecovery
<1>. DEFINE Waits == \A c \in Callers :
       /\ at[c] = "wake" \/ (at[c] = "is_probed" /\ c \notin mixed)
       /\ at'[c] = "admitted"
       => rest[Turn(c)] > RecoveryTimeout
<1>1. TypeOK /\ Consistent => Waits
  <2>. SUFFICES ASSUME TypeOK, Consistent, NEW c \in Callers,
                       at[c] = "wake" \/ (at[c] = "is_probed" /\ c \notin mixed)
                PROVE  rest[Turn(c)] > RecoveryTimeout
    OBVIOUS
  <2>1. Turn(c) \in Providers /\ at[c] \in InMethod
    BY HasTurn, MethodNames
  <2>. QED
    BY <2>1 DEF Consistent, ThreadConsistent, BreakerConsistent
<1>. QED
  BY <1>1, TypeInit, ConsistentInit, TypeStep, ConsistentStep, PTL DEF Spec, NoCallBeforeRecovery

=============================================================================
