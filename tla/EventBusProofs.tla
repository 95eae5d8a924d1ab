-------------------------- MODULE EventBusProofs --------------------------
(***************************************************************************)
(* Proofs about EventBus, for every number of events, consumers, operators, *)
(* workers, faults and deliveries: the type invariant, what a processor row *)
(* that reports an outcome implies, that no message is lost, that attempts  *)
(* and calls are counted, and that EventBus implements EventDelivery; and   *)
(* for one consumer without an operator, that a completed row stays so.     *)
(***************************************************************************)
EXTENDS EventBus, SequenceTheorems, FiniteSetTheorems, TLAPS

(* A job that changes its state in place is still a job of the same list. *)
LEMMA JobList ==
  ASSUME NEW s \in Seq(Job), NEW i \in DOMAIN s,
         NEW x \in {"queued", "running", "ok", "error"}
  PROVE  [s EXCEPT ![i].st = x] \in Seq(Job)
<1>1. s[i] \in Job
  OBVIOUS
<1>2. [s[i] EXCEPT !.st = x] \in Job
  BY <1>1 DEF Job
<1>. QED
  BY <1>2

(* Putting a message back keeps the types of everything it changes. *)
LEMMA RequeueTypes ==
  ASSUME TypeOK, NEW c \in Consumers, Requeue(c), cur[c] \in Events
  PROVE  /\ queue' \in SUBSET Events
         /\ unacked' \in [Consumers -> SUBSET Events]
         /\ pc' = [pc EXCEPT ![c] = "idle"] \/ pc' = [pc EXCEPT ![c] = "exited"]
         /\ cur' = [cur EXCEPT ![c] = NoEvent]
         /\ link' = link /\ deliveries' = deliveries /\ expired' = expired
<1>1. CASE link[c] = "up"
  BY <1>1 DEF TypeOK, Requeue
<1>2. CASE link[c] # "up"
  BY <1>2 DEF TypeOK, Requeue
<1>. QED
  BY <1>1, <1>2

(* Whether or not the copy reaches the dead letter queue, the counts are numbers. *)
LEMMA DeadLetterType ==
  ASSUME NEW c \in Consumers, cur[c] \in Events, deadLetters \in [Events -> Nat],
         SendToDeadLetter(c)
  PROVE  deadLetters' \in [Events -> Nat]
<1>1. deadLetters' = [deadLetters EXCEPT ![cur[c]] = @ + 1] \/ deadLetters' = deadLetters
  BY Zenon DEF SendToDeadLetter
<1>. QED
  BY <1>1

(* Saving an instance keeps the types of the row. *)
LEMMA SaveTypes ==
  ASSUME TypeOK, NEW c \in Consumers,
         NEW s \in {"pending", "completed", "failed", "dead_lettered"},
         SaveProcessor(c, s, memAttempts[c])
  PROVE  /\ status' \in [Events -> {"absent", "pending", "processing", "completed",
                                   "failed", "dead_lettered"}]
         /\ attempts' \in [Events -> Nat]
BY DEF SaveProcessor, TypeOK

(* Every step of publishers, consumers, pools, processes and operators keeps *)
(* the types of the state.                                                   *)
LEMMA TypeStep ==
  ASSUME TypeOK, [Next]_vars
  PROVE  TypeOK'
<1>1. ASSUME NEW e \in Events, PublishAccepted(e)
      PROVE  TypeOK'
  BY <1>1 DEF PublishAccepted, TypeOK, busVars, queueVars, rowVars
<1>2. ASSUME NEW e \in Events, PublishRejected(e)
      PROVE  TypeOK'
  BY <1>2 DEF PublishRejected, RowAfterRefusal, TypeOK, busVars, queueVars, rowVars
<1>3. ASSUME NEW e \in Events, PublishCommit(e)
      PROVE  TypeOK'
  BY <1>3 DEF PublishCommit, TypeOK, busVars, queueVars, rowVars
<1>4. ASSUME NEW e \in Events, PublishRollback(e)
      PROVE  TypeOK'
  BY <1>4 DEF PublishRollback, Fault, TypeOK, busVars, queueVars, rowVars
<1>5. ASSUME NEW c \in Consumers, NEW e \in Events, Deliver(c, e)
      PROVE  TypeOK'
  BY <1>5 DEF Deliver, TypeOK, busVars, queueVars, rowVars
<1>6. ASSUME NEW c \in Consumers, Ignore(c)
      PROVE  TypeOK'
  BY <1>6 DEF Ignore, Return, TypeOK, busVars, queueVars, rowVars
<1>7. ASSUME NEW c \in Consumers, EventMissing(c)
      PROVE  TypeOK'
  BY <1>7 DEF EventMissing, TypeOK, busVars, queueVars, rowVars
<1>8. ASSUME NEW c \in Consumers, CreateEvent(c)
      PROVE  TypeOK'
  BY <1>8 DEF CreateEvent, TypeOK, busVars, queueVars, rowVars
<1>9. ASSUME NEW c \in Consumers, CreateConflict(c)
      PROVE  TypeOK'
  <2>1. cur[c] \in Events
    BY <1>9 DEF CreateConflict, TypeOK
  <2>2. Requeue(c)
    BY <1>9 DEF CreateConflict
  <2>3. UNCHANGED <<busVars, deadLetters, memAttempts, futures, rowVars, view, faults,
                    tries, effects>>
    BY <1>9 DEF CreateConflict
  <2>4. /\ queue' \in SUBSET Events /\ unacked' \in [Consumers -> SUBSET Events]
        /\ pc' = [pc EXCEPT ![c] = "idle"] \/ pc' = [pc EXCEPT ![c] = "exited"]
        /\ cur' = [cur EXCEPT ![c] = NoEvent]
        /\ link' = link /\ deliveries' = deliveries /\ expired' = expired
    BY <2>1, <2>2, RequeueTypes
  <2>. QED
    BY <2>3, <2>4 DEF TypeOK, busVars, rowVars
<1>10. ASSUME NEW c \in Consumers, LookupFails(c)
      PROVE  TypeOK'
  <2>1. cur[c] \in Events
    BY <1>10 DEF LookupFails, TypeOK
  <2>2. Requeue(c)
    BY <1>10 DEF LookupFails
  <2>3. faults' \in Nat
    BY <1>10 DEF LookupFails, Fault, TypeOK
  <2>4. /\ queue' \in SUBSET Events /\ unacked' \in [Consumers -> SUBSET Events]
        /\ pc' = [pc EXCEPT ![c] = "idle"] \/ pc' = [pc EXCEPT ![c] = "exited"]
        /\ cur' = [cur EXCEPT ![c] = NoEvent]
        /\ link' = link /\ deliveries' = deliveries /\ expired' = expired
    BY <2>1, <2>2, RequeueTypes
  <2>5. UNCHANGED <<busVars, deadLetters, memAttempts, futures, rowVars, view, tries,
                    effects>>
    BY <1>10 DEF LookupFails
  <2>. QED
    BY <2>3, <2>4, <2>5 DEF TypeOK, busVars, rowVars
<1>11. ASSUME NEW c \in Consumers, SkipProcessed(c)
      PROVE  TypeOK'
  BY <1>11 DEF SkipProcessed, Return, TypeOK, busVars, queueVars, rowVars
<1>12. ASSUME NEW c \in Consumers, Claim(c)
      PROVE  TypeOK'
  BY <1>12 DEF Claim, TypeOK, busVars, queueVars, rowVars
<1>13. ASSUME NEW c \in Consumers, HandlerMissing(c)
      PROVE  TypeOK'
  BY <1>13 DEF HandlerMissing, Fault, TypeOK, busVars, queueVars, rowVars
<1>14. ASSUME NEW c \in Consumers, StartAttempt(c)
      PROVE  TypeOK'
  <2>1. cur[c] \in Events
    BY <1>14 DEF StartAttempt, TypeOK
  <2>2. futures[c] \in Seq(Job) /\ [ev |-> cur[c], st |-> "queued"] \in Job
    BY <2>1 DEF TypeOK, Job
  <2>3. futures' \in [Consumers -> Seq(Job)]
    BY <1>14, <2>2 DEF StartAttempt, TypeOK
  <2>4. /\ status' \in [Events -> {"absent", "pending", "processing", "completed",
                                  "failed", "dead_lettered"}]
        /\ attempts' \in [Events -> Nat]
    BY <1>14, <2>1 DEF StartAttempt, SaveProcessor, TypeOK
  <2>5. memAttempts' \in [Consumers -> Nat] /\ tries' \in [Events -> Nat]
    BY <1>14, <2>1 DEF StartAttempt, TypeOK
  <2>. QED
    BY <1>14, <2>1, <2>3, <2>4, <2>5 DEF StartAttempt, TypeOK, busVars, queueVars
<1>15. ASSUME NEW c \in Consumers, StartAttemptFails(c)
      PROVE  TypeOK'
  BY <1>15 DEF StartAttemptFails, Fault, TypeOK, busVars, queueVars, rowVars
<1>16. ASSUME NEW c \in Consumers, Complete(c)
      PROVE  TypeOK'
  BY <1>16 DEF Complete, SaveProcessor, Return, TypeOK, busVars, queueVars, rowVars
<1>17. ASSUME NEW c \in Consumers, CompleteFails(c)
      PROVE  TypeOK'
  BY <1>17 DEF CompleteFails, ResultReady, Fault, TypeOK, busVars, queueVars, rowVars
<1>18. ASSUME NEW c \in Consumers, AttemptFails(c)
      PROVE  TypeOK'
  BY <1>18 DEF AttemptFails, TypeOK, busVars, queueVars, rowVars
<1>19. ASSUME NEW c \in Consumers, ScheduleRetry(c)
      PROVE  TypeOK'
  BY <1>19 DEF ScheduleRetry, SaveProcessor, Return, TypeOK, busVars, queueVars, rowVars
<1>20. ASSUME NEW c \in Consumers, GiveUp(c)
      PROVE  TypeOK'
  <2>1. cur[c] \in Events
    BY <1>20 DEF GiveUp, TypeOK
  <2>2. /\ status' \in [Events -> {"absent", "pending", "processing", "completed",
                                  "failed", "dead_lettered"}]
        /\ attempts' \in [Events -> Nat]
    <3>1. SaveProcessor(c, "failed", memAttempts[c])
          \/ SaveProcessor(c, "dead_lettered", memAttempts[c])
      BY <1>20 DEF GiveUp
    <3>. QED
      BY <3>1, SaveTypes DEF TypeOK
  <2>3. deadLetters' \in [Events -> Nat]
    <3>1. SendToDeadLetter(c) \/ UNCHANGED deadLetters
      BY <1>20 DEF GiveUp
    <3>. QED
      BY <3>1, <2>1, DeadLetterType DEF TypeOK
  <2>. QED
    BY <1>20, <2>2, <2>3 DEF GiveUp, Return, TypeOK, busVars, queueVars
<1>21. ASSUME NEW c \in Consumers, SettleFails(c)
      PROVE  TypeOK'
  <2>1. cur[c] \in Events
    BY <1>21 DEF SettleFails, TypeOK
  <2>2. Requeue(c)
    BY <1>21 DEF SettleFails
  <2>3. deadLetters' \in [Events -> Nat]
    <3>1. SendToDeadLetter(c) \/ UNCHANGED deadLetters
      BY <1>21 DEF SettleFails
    <3>. QED
      BY <3>1, <2>1, DeadLetterType DEF TypeOK
  <2>4. faults' \in Nat
    BY <1>21 DEF SettleFails, Fault, TypeOK
  <2>5. UNCHANGED <<busVars, memAttempts, futures, rowVars, view, tries, effects>>
    BY <1>21 DEF SettleFails
  <2>6. /\ queue' \in SUBSET Events /\ unacked' \in [Consumers -> SUBSET Events]
        /\ pc' = [pc EXCEPT ![c] = "idle"] \/ pc' = [pc EXCEPT ![c] = "exited"]
        /\ cur' = [cur EXCEPT ![c] = NoEvent]
        /\ link' = link /\ deliveries' = deliveries /\ expired' = expired
    BY <2>1, <2>2, RequeueTypes
  <2>. QED
    BY <2>3, <2>4, <2>5, <2>6 DEF TypeOK, busVars, rowVars
<1>22. ASSUME NEW c \in Consumers, NEW i \in DOMAIN futures[c], StartHandler(c, i)
      PROVE  TypeOK'
  <2>1. futures' \in [Consumers -> Seq(Job)]
    BY <1>22, JobList DEF StartHandler, TypeOK
  <2>. QED
    BY <1>22, <2>1 DEF StartHandler, TypeOK, busVars, queueVars, rowVars
<1>23. ASSUME NEW c \in Consumers, NEW i \in DOMAIN futures[c], HandlerReturns(c, i)
      PROVE  TypeOK'
  <2>1. futures' \in [Consumers -> Seq(Job)]
    BY <1>23, JobList DEF HandlerReturns, TypeOK
  <2>2. futures[c][i].ev \in Events
    <3>1. futures[c] \in Seq(Job)
      BY DEF TypeOK
    <3>2. futures[c][i] \in Job
      BY <3>1
    <3>. QED
      BY <3>2 DEF Job
  <2>3. effects' \in [Events -> Nat]
    BY <1>23, <2>2 DEF HandlerReturns, TypeOK
  <2>. QED
    BY <1>23, <2>1, <2>3 DEF HandlerReturns, TypeOK, busVars, queueVars, rowVars
<1>24. ASSUME NEW c \in Consumers, NEW i \in DOMAIN futures[c], HandlerRaises(c, i)
      PROVE  TypeOK'
  <2>1. futures' \in [Consumers -> Seq(Job)]
    BY <1>24, JobList DEF HandlerRaises, TypeOK
  <2>. QED
    BY <1>24, <2>1 DEF HandlerRaises, TypeOK, busVars, queueVars, rowVars
<1>25. ASSUME NEW c \in Consumers, ConnectionLost(c)
      PROVE  TypeOK'
  BY <1>25 DEF ConnectionLost, Fault, TypeOK, busVars, queueVars, rowVars
<1>26. ASSUME NEW c \in Consumers, ThreadExits(c)
      PROVE  TypeOK'
  BY <1>26 DEF ThreadExits, TypeOK, busVars, queueVars, rowVars
<1>27. ASSUME NEW c \in Consumers, Shutdown(c)
      PROVE  TypeOK'
  BY <1>27 DEF Shutdown, Stopping, Fault, TypeOK, busVars, queueVars, rowVars
<1>28. ASSUME NEW c \in Consumers, ProcessExits(c)
      PROVE  TypeOK'
  BY <1>28 DEF ProcessExits, TypeOK, busVars, queueVars, rowVars
<1>29. ASSUME NEW c \in Consumers, SubmitRefused(c)
      PROVE  TypeOK'
  BY <1>29 DEF SubmitRefused, SaveProcessor, TypeOK, busVars, queueVars, rowVars
<1>30. ASSUME NEW c \in Consumers, Crash(c)
      PROVE  TypeOK'
  BY <1>30 DEF Crash, Fault, TypeOK, busVars, queueVars, rowVars
<1>31. ASSUME NEW c \in Consumers, Restart(c)
      PROVE  TypeOK'
  BY <1>31 DEF Restart, TypeOK, busVars, queueVars, rowVars
<1>32. ASSUME NEW o \in Operators, NEW e \in Events, RetryLoads(o, e)
      PROVE  TypeOK'
  BY <1>32 DEF RetryLoads, TypeOK, busVars, queueVars, rowVars
<1>33. ASSUME NEW o \in Operators, RetrySaves(o)
      PROVE  TypeOK'
  BY <1>33 DEF RetrySaves, NoView, TypeOK, busVars, queueVars, rowVars
<1>35. ASSUME NEW e \in Events, Expire(e)
      PROVE  TypeOK'
  BY <1>35 DEF Expire, Fault, TypeOK, busVars, rowVars
<1>34. CASE UNCHANGED vars
  BY <1>34 DEF vars, rowVars, TypeOK
<1>. QED
  BY <1>1, <1>2, <1>3, <1>4, <1>5, <1>6, <1>7, <1>8, <1>9, <1>10, <1>11, <1>12, <1>13, <1>14, <1>15, <1>16, <1>17, <1>18, <1>19, <1>20, <1>21, <1>22, <1>23, <1>24, <1>25, <1>26, <1>27, <1>28, <1>29, <1>30, <1>31, <1>32, <1>33, <1>34, <1>35 DEF Next, Publisher, Message, Attempt, Pool, Process, Operator

(* The state of the event bus always has its types (the type invariant of EventBus). *)
THEOREM TypeCorrect == Spec => []TypeOK
<1>1. Init => TypeOK
  BY DEF Init, TypeOK, NoView
<1>2. TypeOK /\ [Next]_vars => TypeOK'
  BY TypeStep
<1>. QED
  BY <1>1, <1>2, PTL DEF Spec

(* Counting one more lowers no counter. *)
LEMMA CountUp ==
  ASSUME NEW S, NEW f \in [S -> Nat], NEW x \in S, NEW g, g = [f EXCEPT ![x] = @ + 1]
  PROVE  /\ \A y \in S : f[y] \in Nat /\ g[y] \in Nat /\ f[y] <= g[y]
         /\ g[x] = f[x] + 1
OBVIOUS

-----------------------------------------------------------------------------
(* The strengthening that makes the budget of attempts inductive: the counters that   *)
(* SaveProcessor writes never run ahead of the attempts really begun.                 *)
BudgetInv == AttemptsCounted /\ GivenUpOnlyAfterBudget /\ DeadLetterJustified

(* Every step keeps it; only StartAttempt and StartAttemptFails begin an attempt, only  *)
(* GiveUp and SettleFails give up, and they do so past ShouldRetry.                    *)
LEMMA BudgetStep ==
  ASSUME TypeOK, TypeOK', BudgetInv, [Next]_vars
  PROVE  BudgetInv'
<1>0. /\ attempts \in [Events -> Nat] /\ tries \in [Events -> Nat]
      /\ deadLetters \in [Events -> Nat] /\ memAttempts \in [Consumers -> Nat]
      /\ DOMAIN status = Events /\ DOMAIN pc = Consumers
      /\ cur \in [Consumers -> Events \cup {NoEvent}]
      /\ \A c \in Consumers :
           pc[c] \in {"lookup", "create", "begin", "running", "settle"} => cur[c] \in Events
      /\ view \in [Operators -> [ev : Events \cup {NoEvent}, attempts : Nat]]
  BY DEF TypeOK
<1>1. ASSUME NEW e \in Events, PublishAccepted(e)
      PROVE  BudgetInv'
  BY <1>0, <1>1 DEF PublishAccepted, BudgetInv, AttemptsCounted, GivenUpOnlyAfterBudget, DeadLetterJustified, GivenUp, busVars, queueVars, rowVars
<1>2. ASSUME NEW e \in Events, PublishRejected(e)
      PROVE  BudgetInv'
  BY <1>0, <1>2 DEF PublishRejected, BudgetInv, AttemptsCounted, GivenUpOnlyAfterBudget, DeadLetterJustified, GivenUp, busVars, queueVars, rowVars
<1>3. ASSUME NEW e \in Events, PublishCommit(e)
      PROVE  BudgetInv'
  BY <1>0, <1>3 DEF PublishCommit, BudgetInv, AttemptsCounted, GivenUpOnlyAfterBudget, DeadLetterJustified, GivenUp, busVars, queueVars, rowVars
<1>4. ASSUME NEW e \in Events, PublishRollback(e)
      PROVE  BudgetInv'
  BY <1>0, <1>4 DEF PublishRollback, BudgetInv, AttemptsCounted, GivenUpOnlyAfterBudget, DeadLetterJustified, GivenUp, busVars, queueVars, rowVars
<1>5. ASSUME NEW c \in Consumers, NEW e \in Events, Deliver(c, e)
      PROVE  BudgetInv'
  BY <1>0, <1>5 DEF Deliver, BudgetInv, AttemptsCounted, GivenUpOnlyAfterBudget, DeadLetterJustified, GivenUp, busVars, queueVars, rowVars
<1>6. ASSUME NEW c \in Consumers, Ignore(c)
      PROVE  BudgetInv'
  BY <1>0, <1>6 DEF Ignore, Return, BudgetInv, AttemptsCounted, GivenUpOnlyAfterBudget, DeadLetterJustified, GivenUp, busVars, queueVars, rowVars
<1>7. ASSUME NEW c \in Consumers, EventMissing(c)
      PROVE  BudgetInv'
  BY <1>0, <1>7 DEF EventMissing, BudgetInv, AttemptsCounted, GivenUpOnlyAfterBudget, DeadLetterJustified, GivenUp, busVars, queueVars, rowVars
<1>8. ASSUME NEW c \in Consumers, CreateEvent(c)
      PROVE  BudgetInv'
  BY <1>0, <1>8 DEF CreateEvent, BudgetInv, AttemptsCounted, GivenUpOnlyAfterBudget, DeadLetterJustified, GivenUp, busVars, queueVars, rowVars
<1>9. ASSUME NEW c \in Consumers, CreateConflict(c)
      PROVE  BudgetInv'
  BY <1>0, <1>9 DEF CreateConflict, Requeue, BudgetInv, AttemptsCounted, GivenUpOnlyAfterBudget, DeadLetterJustified, GivenUp, busVars, queueVars, rowVars
<1>10. ASSUME NEW c \in Consumers, LookupFails(c)
      PROVE  BudgetInv'
  BY <1>0, <1>10 DEF LookupFails, Requeue, BudgetInv, AttemptsCounted, GivenUpOnlyAfterBudget, DeadLetterJustified, GivenUp, busVars, queueVars, rowVars
<1>11. ASSUME NEW c \in Consumers, SkipProcessed(c)
      PROVE  BudgetInv'
  BY <1>0, <1>11 DEF SkipProcessed, Return, BudgetInv, AttemptsCounted, GivenUpOnlyAfterBudget, DeadLetterJustified, GivenUp, busVars, queueVars, rowVars
<1>12. ASSUME NEW c \in Consumers, Claim(c)
      PROVE  BudgetInv'
  BY <1>0, <1>12 DEF Claim, BudgetInv, AttemptsCounted, GivenUpOnlyAfterBudget, DeadLetterJustified, GivenUp, busVars, queueVars, rowVars
<1>13. ASSUME NEW c \in Consumers, HandlerMissing(c)
      PROVE  BudgetInv'
  BY <1>0, <1>13 DEF HandlerMissing, BudgetInv, AttemptsCounted, GivenUpOnlyAfterBudget, DeadLetterJustified, GivenUp, busVars, queueVars, rowVars
<1>14. ASSUME NEW c \in Consumers, StartAttempt(c)
      PROVE  BudgetInv'
  <2>1. cur[c] \in Events /\ memAttempts[c] <= tries[cur[c]]
    BY <1>0, <1>14 DEF StartAttempt, BudgetInv, AttemptsCounted
  <2>2. /\ tries' = [tries EXCEPT ![cur[c]] = @ + 1]
        /\ memAttempts' = [memAttempts EXCEPT ![c] = @ + 1]
        /\ attempts' = [attempts EXCEPT ![cur[c]] = memAttempts[c] + 1]
        /\ status' = [status EXCEPT ![cur[c]] = "processing"]
        /\ pc' = [pc EXCEPT ![c] = "running"]
        /\ cur' = cur /\ view' = view /\ deadLetters' = deadLetters
    BY <1>14 DEF StartAttempt, SaveProcessor
  <2>3. /\ \A e \in Events : tries[e] \in Nat /\ tries'[e] \in Nat /\ tries[e] <= tries'[e]
        /\ tries'[cur[c]] = tries[cur[c]] + 1
    <3>1. tries \in [Events -> Nat]
      BY <1>0
    <3>. QED
      BY <3>1, <2>1, <2>2, CountUp
  <2>4. AttemptsCounted'
    <3>1. \A e \in Events : attempts'[e] <= tries'[e]
      BY <1>0, <2>1, <2>2 DEF BudgetInv, AttemptsCounted
    <3>2. ASSUME NEW d \in Consumers, pc'[d] \in {"begin", "running", "settle"}
          PROVE  memAttempts'[d] <= tries'[cur'[d]]
      <4>1. CASE d = c
        BY <1>0, <4>1, <2>1, <2>2, <2>3
      <4>2. CASE d # c
        <5>1. /\ memAttempts'[d] = memAttempts[d] /\ memAttempts[d] \in Nat
              /\ cur'[d] = cur[d] /\ cur[d] \in Events
              /\ memAttempts[d] <= tries[cur[d]]
          BY <1>0, <3>2, <4>2, <2>2 DEF BudgetInv, AttemptsCounted
        <5>. QED
          BY <5>1, <2>3
      <4>. QED
        BY <4>1, <4>2
    <3>3. \A o \in Operators : view'[o].ev \in Events
            => view'[o].attempts <= tries'[view'[o].ev]
      BY <1>0, <2>2, <2>3 DEF BudgetInv, AttemptsCounted
    <3>. QED
      BY <3>1, <3>2, <3>3 DEF AttemptsCounted
  <2>5. \A e \in Events : status'[e] \in GivenUp => status[e] \in GivenUp
    BY <1>0, <2>1, <2>2 DEF GivenUp
  <2>6. GivenUpOnlyAfterBudget' /\ DeadLetterJustified'
    BY <2>2, <2>3, <2>5, LimitsAssumption
       DEF BudgetInv, GivenUpOnlyAfterBudget, DeadLetterJustified, GivenUp
  <2>. QED
    BY <2>4, <2>6 DEF BudgetInv
<1>15. ASSUME NEW c \in Consumers, StartAttemptFails(c)
      PROVE  BudgetInv'
  <2>1. cur[c] \in Events /\ memAttempts[c] <= tries[cur[c]]
    BY <1>0, <1>15 DEF StartAttemptFails, BudgetInv, AttemptsCounted
  <2>2. /\ tries' = [tries EXCEPT ![cur[c]] = @ + 1]
        /\ memAttempts' = [memAttempts EXCEPT ![c] = @ + 1]
        /\ attempts' = attempts /\ status' = status
        /\ pc' = [pc EXCEPT ![c] = "settle"]
        /\ cur' = cur /\ view' = view /\ deadLetters' = deadLetters
    BY <1>15 DEF StartAttemptFails, rowVars
  <2>3. /\ \A e \in Events : tries[e] \in Nat /\ tries'[e] \in Nat /\ tries[e] <= tries'[e]
        /\ tries'[cur[c]] = tries[cur[c]] + 1
    <3>1. tries \in [Events -> Nat]
      BY <1>0
    <3>. QED
      BY <3>1, <2>1, <2>2, CountUp
  <2>4. AttemptsCounted'
    <3>1. \A e \in Events : attempts'[e] <= tries'[e]
      BY <1>0, <2>1, <2>2 DEF BudgetInv, AttemptsCounted
    <3>2. ASSUME NEW d \in Consumers, pc'[d] \in {"begin", "running", "settle"}
          PROVE  memAttempts'[d] <= tries'[cur'[d]]
      <4>1. CASE d = c
        BY <1>0, <4>1, <2>1, <2>2, <2>3
      <4>2. CASE d # c
        <5>1. /\ memAttempts'[d] = memAttempts[d] /\ memAttempts[d] \in Nat
              /\ cur'[d] = cur[d] /\ cur[d] \in Events
              /\ memAttempts[d] <= tries[cur[d]]
          BY <1>0, <3>2, <4>2, <2>2 DEF BudgetInv, AttemptsCounted
        <5>. QED
          BY <5>1, <2>3
      <4>. QED
        BY <4>1, <4>2
    <3>3. \A o \in Operators : view'[o].ev \in Events
            => view'[o].attempts <= tries'[view'[o].ev]
      BY <1>0, <2>2, <2>3 DEF BudgetInv, AttemptsCounted
    <3>. QED
      BY <3>1, <3>2, <3>3 DEF AttemptsCounted
  <2>5. \A e \in Events : status'[e] \in GivenUp => status[e] \in GivenUp
    BY <1>0, <2>1, <2>2 DEF GivenUp
  <2>6. GivenUpOnlyAfterBudget' /\ DeadLetterJustified'
    BY <2>2, <2>3, <2>5, LimitsAssumption
       DEF BudgetInv, GivenUpOnlyAfterBudget, DeadLetterJustified, GivenUp
  <2>. QED
    BY <2>4, <2>6 DEF BudgetInv
<1>16. ASSUME NEW c \in Consumers, Complete(c)
      PROVE  BudgetInv'
  BY <1>0, <1>16 DEF Complete, ResultReady, SaveProcessor, Return, BudgetInv, AttemptsCounted, GivenUpOnlyAfterBudget, DeadLetterJustified, GivenUp, busVars, queueVars, rowVars
<1>17. ASSUME NEW c \in Consumers, CompleteFails(c)
      PROVE  BudgetInv'
  BY <1>0, <1>17 DEF CompleteFails, ResultReady, BudgetInv, AttemptsCounted, GivenUpOnlyAfterBudget, DeadLetterJustified, GivenUp, busVars, queueVars, rowVars
<1>18. ASSUME NEW c \in Consumers, AttemptFails(c)
      PROVE  BudgetInv'
  BY <1>0, <1>18 DEF AttemptFails, BudgetInv, AttemptsCounted, GivenUpOnlyAfterBudget, DeadLetterJustified, GivenUp, busVars, queueVars, rowVars
<1>19. ASSUME NEW c \in Consumers, ScheduleRetry(c)
      PROVE  BudgetInv'
  BY <1>0, <1>19 DEF ScheduleRetry, SaveProcessor, Return, BudgetInv, AttemptsCounted, GivenUpOnlyAfterBudget, DeadLetterJustified, GivenUp, busVars, queueVars, rowVars
<1>20. ASSUME NEW c \in Consumers, GiveUp(c)
      PROVE  BudgetInv'
  <2>1. cur[c] \in Events /\ memAttempts[c] <= tries[cur[c]]
    BY <1>0, <1>20 DEF GiveUp, BudgetInv, AttemptsCounted
  <2>2. deadLetters' = deadLetters \/ SendToDeadLetter(c)
    BY <1>20 DEF GiveUp
  <2>3. deadLetters' = deadLetters
        \/ deadLetters' = [deadLetters EXCEPT ![cur[c]] = @ + 1]
    BY Zenon, <2>2 DEF SendToDeadLetter
  <2>4. tries[cur[c]] >= MaxRetries
    BY <1>0, <1>20, <2>1, LimitsAssumption DEF GiveUp, ShouldRetry
  <2>5. \E s \in GivenUp : SaveProcessor(c, s, memAttempts[c])
    BY <1>20 DEF GiveUp, GivenUp
  <2>6. UNCHANGED <<memAttempts, view, tries>> /\ Return(c)
    BY <1>20 DEF GiveUp
  <2>7. AttemptsCounted'
    BY <1>0, <2>1, <2>5, <2>6 DEF SaveProcessor, Return, BudgetInv, AttemptsCounted
  <2>8. GivenUpOnlyAfterBudget'
    BY <1>0, <2>1, <2>4, <2>5, <2>6 DEF SaveProcessor, BudgetInv, GivenUpOnlyAfterBudget
  <2>9. DeadLetterJustified'
    BY <1>0, <2>1, <2>3, <2>4, <2>6 DEF BudgetInv, DeadLetterJustified
  <2>. QED
    BY <2>7, <2>8, <2>9 DEF BudgetInv
<1>21. ASSUME NEW c \in Consumers, SettleFails(c)
      PROVE  BudgetInv'
  <2>1. cur[c] \in Events /\ memAttempts[c] <= tries[cur[c]]
    BY <1>0, <1>21 DEF SettleFails, BudgetInv, AttemptsCounted
  <2>2. deadLetters' = deadLetters \/ (~ShouldRetry(memAttempts[c]) /\ SendToDeadLetter(c))
    BY <1>21 DEF SettleFails
  <2>3. deadLetters' = deadLetters
        \/ (~ShouldRetry(memAttempts[c]) /\ deadLetters' = [deadLetters EXCEPT ![cur[c]] = @ + 1])
    BY Zenon, <2>2 DEF SendToDeadLetter
  <2>4. UNCHANGED <<memAttempts, rowVars, view, tries>> /\ Requeue(c)
    BY <1>21 DEF SettleFails
  <2>5. /\ cur' = [cur EXCEPT ![c] = NoEvent]
        /\ pc' = [pc EXCEPT ![c] = "idle"] \/ pc' = [pc EXCEPT ![c] = "exited"]
    BY <2>1, <2>4, RequeueTypes
  <2>6. AttemptsCounted'
    BY <1>0, <2>4, <2>5 DEF rowVars, BudgetInv, AttemptsCounted
  <2>7. GivenUpOnlyAfterBudget'
    BY <2>4 DEF rowVars, BudgetInv, GivenUpOnlyAfterBudget
  <2>8. DeadLetterJustified'
    <3>1. CASE deadLetters' = deadLetters
      BY <3>1, <2>4 DEF BudgetInv, DeadLetterJustified
    <3>2. CASE /\ ~ShouldRetry(memAttempts[c])
               /\ deadLetters' = [deadLetters EXCEPT ![cur[c]] = @ + 1]
      BY <1>0, <3>2, <2>1, <2>4, LimitsAssumption DEF ShouldRetry, BudgetInv, DeadLetterJustified
    <3>. QED
      BY <2>3, <3>1, <3>2
  <2>. QED
    BY <2>6, <2>7, <2>8 DEF BudgetInv
<1>22. ASSUME NEW c \in Consumers, NEW i \in DOMAIN futures[c], StartHandler(c, i)
      PROVE  BudgetInv'
  BY <1>0, <1>22 DEF StartHandler, BudgetInv, AttemptsCounted, GivenUpOnlyAfterBudget, DeadLetterJustified, GivenUp, busVars, queueVars, rowVars
<1>23. ASSUME NEW c \in Consumers, NEW i \in DOMAIN futures[c], HandlerReturns(c, i)
      PROVE  BudgetInv'
  BY <1>0, <1>23 DEF HandlerReturns, BudgetInv, AttemptsCounted, GivenUpOnlyAfterBudget, DeadLetterJustified, GivenUp, busVars, queueVars, rowVars
<1>24. ASSUME NEW c \in Consumers, NEW i \in DOMAIN futures[c], HandlerRaises(c, i)
      PROVE  BudgetInv'
  BY <1>0, <1>24 DEF HandlerRaises, BudgetInv, AttemptsCounted, GivenUpOnlyAfterBudget, DeadLetterJustified, GivenUp, busVars, queueVars, rowVars
<1>25. ASSUME NEW c \in Consumers, ConnectionLost(c)
      PROVE  BudgetInv'
  BY <1>0, <1>25 DEF ConnectionLost, BudgetInv, AttemptsCounted, GivenUpOnlyAfterBudget, DeadLetterJustified, GivenUp, busVars, queueVars, rowVars
<1>26. ASSUME NEW c \in Consumers, ThreadExits(c)
      PROVE  BudgetInv'
  BY <1>0, <1>26 DEF ThreadExits, BudgetInv, AttemptsCounted, GivenUpOnlyAfterBudget, DeadLetterJustified, GivenUp, busVars, queueVars, rowVars
<1>27. ASSUME NEW c \in Consumers, Shutdown(c)
      PROVE  BudgetInv'
  BY <1>0, <1>27 DEF Shutdown, BudgetInv, AttemptsCounted, GivenUpOnlyAfterBudget, DeadLetterJustified, GivenUp, busVars, queueVars, rowVars
<1>28. ASSUME NEW c \in Consumers, ProcessExits(c)
      PROVE  BudgetInv'
  BY <1>0, <1>28 DEF ProcessExits, BudgetInv, AttemptsCounted, GivenUpOnlyAfterBudget, DeadLetterJustified, GivenUp, busVars, queueVars, rowVars
<1>29. ASSUME NEW c \in Consumers, SubmitRefused(c)
      PROVE  BudgetInv'
  <2>1. cur[c] \in Events /\ memAttempts[c] <= tries[cur[c]]
    BY <1>0, <1>29 DEF SubmitRefused, BudgetInv, AttemptsCounted
  <2>2. /\ tries' = [tries EXCEPT ![cur[c]] = @ + 1]
        /\ memAttempts' = [memAttempts EXCEPT ![c] = @ + 1]
        /\ attempts' = [attempts EXCEPT ![cur[c]] = memAttempts[c] + 1]
        /\ status' = [status EXCEPT ![cur[c]] = "processing"]
        /\ pc' = [pc EXCEPT ![c] = "settle"]
        /\ cur' = cur /\ view' = view /\ deadLetters' = deadLetters
    BY <1>29 DEF SubmitRefused, SaveProcessor
  <2>3. /\ \A e \in Events : tries[e] \in Nat /\ tries'[e] \in Nat /\ tries[e] <= tries'[e]
        /\ tries'[cur[c]] = tries[cur[c]] + 1
    <3>1. tries \in [Events -> Nat]
      BY <1>0
    <3>. QED
      BY <3>1, <2>1, <2>2, CountUp
  <2>4. AttemptsCounted'
    <3>1. \A e \in Events : attempts'[e] <= tries'[e]
      BY <1>0, <2>1, <2>2 DEF BudgetInv, AttemptsCounted
    <3>2. ASSUME NEW d \in Consumers, pc'[d] \in {"begin", "running", "settle"}
          PROVE  memAttempts'[d] <= tries'[cur'[d]]
      <4>1. CASE d = c
        BY <1>0, <4>1, <2>1, <2>2, <2>3
      <4>2. CASE d # c
        <5>1. /\ memAttempts'[d] = memAttempts[d] /\ memAttempts[d] \in Nat
              /\ cur'[d] = cur[d] /\ cur[d] \in Events
              /\ memAttempts[d] <= tries[cur[d]]
          BY <1>0, <3>2, <4>2, <2>2 DEF BudgetInv, AttemptsCounted
        <5>. QED
          BY <5>1, <2>3
      <4>. QED
        BY <4>1, <4>2
    <3>3. \A o \in Operators : view'[o].ev \in Events
            => view'[o].attempts <= tries'[view'[o].ev]
      BY <1>0, <2>2, <2>3 DEF BudgetInv, AttemptsCounted
    <3>. QED
      BY <3>1, <3>2, <3>3 DEF AttemptsCounted
  <2>5. \A e \in Events : status'[e] \in GivenUp => status[e] \in GivenUp
    BY <1>0, <2>1, <2>2 DEF GivenUp
  <2>6. GivenUpOnlyAfterBudget' /\ DeadLetterJustified'
    BY <2>2, <2>3, <2>5, LimitsAssumption
       DEF BudgetInv, GivenUpOnlyAfterBudget, DeadLetterJustified, GivenUp
  <2>. QED
    BY <2>4, <2>6 DEF BudgetInv
<1>30. ASSUME NEW c \in Consumers, Crash(c)
      PROVE  BudgetInv'
  BY <1>0, <1>30 DEF Crash, BudgetInv, AttemptsCounted, GivenUpOnlyAfterBudget, DeadLetterJustified, GivenUp, busVars, queueVars, rowVars
<1>31. ASSUME NEW c \in Consumers, Restart(c)
      PROVE  BudgetInv'
  BY <1>0, <1>31 DEF Restart, BudgetInv, AttemptsCounted, GivenUpOnlyAfterBudget, DeadLetterJustified, GivenUp, busVars, queueVars, rowVars
<1>32. ASSUME NEW o \in Operators, NEW e \in Events, RetryLoads(o, e)
      PROVE  BudgetInv'
  BY <1>0, <1>32 DEF RetryLoads, BudgetInv, AttemptsCounted, GivenUpOnlyAfterBudget, DeadLetterJustified, GivenUp, busVars, queueVars, rowVars
<1>33. ASSUME NEW o \in Operators, RetrySaves(o)
      PROVE  BudgetInv'
  BY <1>0, <1>33 DEF RetrySaves, NoView, BudgetInv, AttemptsCounted, GivenUpOnlyAfterBudget, DeadLetterJustified, GivenUp, busVars, queueVars, rowVars
<1>35. ASSUME NEW e \in Events, Expire(e)
      PROVE  BudgetInv'
  BY <1>0, <1>35 DEF Expire, BudgetInv, AttemptsCounted, GivenUpOnlyAfterBudget, DeadLetterJustified, GivenUp, busVars, rowVars
<1>34. CASE UNCHANGED vars
  BY <1>0, <1>34 DEF vars, BudgetInv, AttemptsCounted, GivenUpOnlyAfterBudget, DeadLetterJustified, GivenUp, rowVars
<1>. QED
  BY <1>1, <1>2, <1>3, <1>4, <1>5, <1>6, <1>7, <1>8, <1>9, <1>10, <1>11, <1>12, <1>13, <1>14, <1>15, <1>16, <1>17, <1>18, <1>19, <1>20, <1>21, <1>22, <1>23, <1>24, <1>25, <1>26, <1>27, <1>28, <1>29, <1>30, <1>31, <1>32, <1>33, <1>34, <1>35
  DEF Next, Publisher, Message, Attempt, Pool, Process, Operator

LEMMA BudgetInvariant == Spec => []BudgetInv
<1>1. Init => BudgetInv
  BY DEF Init, BudgetInv, AttemptsCounted, GivenUpOnlyAfterBudget, DeadLetterJustified,
         GivenUp, NoView
<1>2. TypeOK /\ TypeOK' /\ BudgetInv /\ [Next]_vars => BudgetInv'
  BY BudgetStep
<1>. QED
  BY <1>1, <1>2, TypeCorrect, PTL DEF Spec

(* An event is given up only after max_retries attempts were begun                     *)
(* (_handle_processing_error).                                                        *)
THEOREM BudgetCorrect == Spec => []GivenUpOnlyAfterBudget
<1>1. BudgetInv => GivenUpOnlyAfterBudget
  BY DEF BudgetInv
<1>. QED
  BY <1>1, BudgetInvariant, PTL

(* An event is copied to the dead letter queue only after max_retries attempts were    *)
(* begun, also when the save that follows the copy fails (_send_to_dead_letter).      *)
THEOREM DeadLettersCorrect == Spec => []DeadLetterJustified
<1>1. BudgetInv => DeadLetterJustified
  BY DEF BudgetInv
<1>. QED
  BY <1>1, BudgetInvariant, PTL

-----------------------------------------------------------------------------
(* The strengthening for completed rows: the future a thread waits for is its own job,  *)
(* and a job that returned is counted in effects.                                     *)
HandledInv == FuturesTruthful /\ CompletedMeansHandled

(* A step that leaves the pool and the effects alone, and lets nobody start to wait,  *)
(* keeps the futures truthful.                                                         *)
LEMMA FuturesFrame ==
  ASSUME FuturesTruthful, futures' = futures, effects' = effects,
         \A d \in Consumers : pc'[d] = "running" => pc[d] = "running" /\ cur'[d] = cur[d]
  PROVE  FuturesTruthful'
BY DEF FuturesTruthful, Future

(* If it also completes no row, it keeps the invariant. *)
LEMMA HandledFrame ==
  ASSUME HandledInv, futures' = futures, effects' = effects,
         \A d \in Consumers : pc'[d] = "running" => pc[d] = "running" /\ cur'[d] = cur[d],
         \A e \in Events : status'[e] = "completed" => status[e] = "completed"
  PROVE  HandledInv'
<1>1. FuturesTruthful'
  BY FuturesFrame DEF HandledInv
<1>. QED
  BY <1>1 DEF HandledInv, CompletedMeansHandled

(* A job that changes its state keeps the invariant: "ok" only with its effect. *)
LEMMA JobMoves ==
  ASSUME TypeOK, HandledInv, NEW c \in Consumers, NEW i \in DOMAIN futures[c],
         NEW x \in {"running", "ok", "error"},
         futures[c] \in Seq(Job), futures[c][i].ev \in Events,
         futures' = [futures EXCEPT ![c][i].st = x],
         \/ x # "ok" /\ effects' = effects
         \/ effects' = [effects EXCEPT ![futures[c][i].ev] = @ + 1],
         UNCHANGED <<pc, cur, status>>
  PROVE  HandledInv'
<1>. effects \in [Events -> Nat]
  BY DEF TypeOK
<1>1. \A e \in Events : effects[e] \in Nat /\ effects'[e] \in Nat /\ effects[e] <= effects'[e]
  BY CountUp
<1>2. x = "ok" => effects'[futures[c][i].ev] > 0
  BY CountUp
<1>3. ASSUME NEW d \in Consumers
      PROVE  /\ Len(futures'[d]) = Len(futures[d]) /\ DOMAIN futures'[d] = DOMAIN futures[d]
             /\ \A j \in DOMAIN futures[d] :
                  /\ futures[d][j].ev \in Events
                  /\ futures'[d][j].ev = futures[d][j].ev
                  /\ futures'[d][j].st = IF d = c /\ j = i THEN x ELSE futures[d][j].st
  <2>1. futures[d] \in Seq(Job) /\ \A j \in DOMAIN futures[d] : futures[d][j] \in Job
    BY DEF TypeOK
  <2>2. futures'[d] = IF d = c THEN [futures[c] EXCEPT ![i].st = x] ELSE futures[d]
    BY DEF TypeOK
  <2>3. CASE d # c
    BY <2>1, <2>2, <2>3 DEF Job
  <2>4. CASE d = c
    <3>1. futures[c][i] \in Job
      BY <2>1, <2>4
    <3>2. /\ Len([futures[c] EXCEPT ![i].st = x]) = Len(futures[c])
          /\ DOMAIN [futures[c] EXCEPT ![i].st = x] = DOMAIN futures[c]
      BY <3>1, JobList, ExceptSeq DEF Job
    <3>. QED
      BY <2>1, <2>2, <2>4, <3>1, <3>2 DEF Job
  <2>. QED
    BY <2>3, <2>4
<1>4. \A d \in Consumers : pc'[d] = "running" => futures'[d] # <<>> /\ Future(d)'.ev = cur'[d]
  <2>. SUFFICES ASSUME NEW d \in Consumers, pc[d] = "running"
                PROVE  futures'[d] # <<>> /\ Future(d)'.ev = cur[d]
    OBVIOUS
  <2>1. futures[d] \in Seq(Job) /\ futures[d] # <<>> /\ Future(d).ev = cur[d]
    BY DEF HandledInv, FuturesTruthful, TypeOK
  <2>2. Len(futures[d]) \in DOMAIN futures[d]
    BY <2>1
  <2>. QED
    BY <1>3, <2>1, <2>2 DEF Future
<1>5. \A d \in Consumers : \A j \in DOMAIN futures'[d] :
        futures'[d][j].st = "ok" => effects'[futures'[d][j].ev] > 0
  BY <1>1, <1>2, <1>3 DEF HandledInv, FuturesTruthful
<1>6. FuturesTruthful'
  BY <1>4, <1>5 DEF FuturesTruthful, Future
<1>. QED
  BY <1>1, <1>6 DEF HandledInv, CompletedMeansHandled

(* Every step keeps it: only Complete writes "completed", after ResultReady.            *)
LEMMA HandledStep ==
  ASSUME TypeOK, TypeOK', HandledInv, [Next]_vars
  PROVE  HandledInv'
<1>0. /\ futures \in [Consumers -> Seq(Job)] /\ effects \in [Events -> Nat]
      /\ DOMAIN status = Events /\ DOMAIN pc = Consumers
      /\ cur \in [Consumers -> Events \cup {NoEvent}]
      /\ \A c \in Consumers :
           pc[c] \in {"lookup", "create", "begin", "running", "settle"} => cur[c] \in Events
  BY DEF TypeOK
<1>1. ASSUME NEW e \in Events, PublishAccepted(e)
      PROVE  HandledInv'
  BY <1>0, <1>1 DEF PublishAccepted, HandledInv, FuturesTruthful, CompletedMeansHandled, Future, Running, Job, busVars, queueVars, rowVars
<1>2. ASSUME NEW e \in Events, PublishRejected(e)
      PROVE  HandledInv'
  BY <1>0, <1>2 DEF PublishRejected, HandledInv, FuturesTruthful, CompletedMeansHandled, Future, Running, Job, busVars, queueVars, rowVars
<1>3. ASSUME NEW e \in Events, PublishCommit(e)
      PROVE  HandledInv'
  BY <1>0, <1>3 DEF PublishCommit, HandledInv, FuturesTruthful, CompletedMeansHandled, Future, Running, Job, busVars, queueVars, rowVars
<1>4. ASSUME NEW e \in Events, PublishRollback(e)
      PROVE  HandledInv'
  BY <1>0, <1>4 DEF PublishRollback, HandledInv, FuturesTruthful, CompletedMeansHandled, Future, Running, Job, busVars, queueVars, rowVars
<1>5. ASSUME NEW c \in Consumers, NEW e \in Events, Deliver(c, e)
      PROVE  HandledInv'
  BY <1>0, <1>5 DEF Deliver, HandledInv, FuturesTruthful, CompletedMeansHandled, Future, Running, Job, busVars, queueVars, rowVars
<1>6. ASSUME NEW c \in Consumers, Ignore(c)
      PROVE  HandledInv'
  BY <1>0, <1>6 DEF Ignore, Return, HandledInv, FuturesTruthful, CompletedMeansHandled, Future, Running, Job, busVars, queueVars, rowVars
<1>7. ASSUME NEW c \in Consumers, EventMissing(c)
      PROVE  HandledInv'
  BY <1>0, <1>7 DEF EventMissing, HandledInv, FuturesTruthful, CompletedMeansHandled, Future, Running, Job, busVars, queueVars, rowVars
<1>8. ASSUME NEW c \in Consumers, CreateEvent(c)
      PROVE  HandledInv'
  BY <1>0, <1>8 DEF CreateEvent, HandledInv, FuturesTruthful, CompletedMeansHandled, Future, Running, Job, busVars, queueVars, rowVars
<1>9. ASSUME NEW c \in Consumers, CreateConflict(c)
      PROVE  HandledInv'
  <2>1. Requeue(c) /\ cur[c] \in Events /\ UNCHANGED <<futures, effects, rowVars>>
    BY <1>0, <1>9 DEF CreateConflict
  <2>2. /\ cur' = [cur EXCEPT ![c] = NoEvent]
        /\ pc' = [pc EXCEPT ![c] = "idle"] \/ pc' = [pc EXCEPT ![c] = "exited"]
    BY <2>1, RequeueTypes
  <2>. QED
    BY <1>0, <2>1, <2>2, HandledFrame DEF rowVars
<1>10. ASSUME NEW c \in Consumers, LookupFails(c)
      PROVE  HandledInv'
  <2>1. Requeue(c) /\ cur[c] \in Events /\ UNCHANGED <<futures, effects, rowVars>>
    BY <1>0, <1>10 DEF LookupFails
  <2>2. /\ cur' = [cur EXCEPT ![c] = NoEvent]
        /\ pc' = [pc EXCEPT ![c] = "idle"] \/ pc' = [pc EXCEPT ![c] = "exited"]
    BY <2>1, RequeueTypes
  <2>. QED
    BY <1>0, <2>1, <2>2, HandledFrame DEF rowVars
<1>11. ASSUME NEW c \in Consumers, SkipProcessed(c)
      PROVE  HandledInv'
  BY <1>0, <1>11 DEF SkipProcessed, Return, HandledInv, FuturesTruthful, CompletedMeansHandled, Future, Running, Job, busVars, queueVars, rowVars
<1>12. ASSUME NEW c \in Consumers, Claim(c)
      PROVE  HandledInv'
  BY <1>0, <1>12, HandledFrame DEF Claim, AlreadyProcessed
<1>13. ASSUME NEW c \in Consumers, HandlerMissing(c)
      PROVE  HandledInv'
  BY <1>0, <1>13 DEF HandlerMissing, HandledInv, FuturesTruthful, CompletedMeansHandled, Future, Running, Job, busVars, queueVars, rowVars
<1>14. ASSUME NEW c \in Consumers, StartAttempt(c)
      PROVE  HandledInv'
  <2>. DEFINE job == [ev |-> cur[c], st |-> "queued"]
  <2>1. cur[c] \in Events /\ job \in Job /\ futures[c] \in Seq(Job)
    BY <1>0, <1>14 DEF StartAttempt, Job
  <2>2. /\ futures' = [futures EXCEPT ![c] = Append(@, job)]
        /\ status' = [status EXCEPT ![cur[c]] = "processing"]
        /\ pc' = [pc EXCEPT ![c] = "running"]
        /\ cur' = cur /\ effects' = effects
    BY <1>14 DEF StartAttempt, SaveProcessor
  <2>3. /\ futures'[c] # <<>> /\ Future(c)' = job
        /\ \A i \in DOMAIN futures'[c] :
             futures'[c][i] = job \/ (i \in DOMAIN futures[c] /\ futures'[c][i] = futures[c][i])
    <3>1. futures'[c] = Append(futures[c], job) /\ Append(futures[c], job) \in Seq(Job)
      BY <1>0, <2>1, <2>2
    <3>2. /\ Len(futures'[c]) = Len(futures[c]) + 1
          /\ DOMAIN futures[c] = 1 .. Len(futures[c])
          /\ \A i \in 1 .. Len(futures[c]) : futures'[c][i] = futures[c][i]
          /\ futures'[c][Len(futures[c]) + 1] = job
          /\ DOMAIN futures'[c] = 1 .. Len(futures[c]) + 1
      BY <2>1, <3>1
    <3>. QED
      BY <2>1, <3>1, <3>2 DEF Future
  <2>4. \A d \in Consumers : d # c => /\ futures'[d] = futures[d] /\ Future(d)' = Future(d)
                                     /\ pc'[d] = pc[d]
    BY <1>0, <2>2 DEF Future
  <2>5. FuturesTruthful'
    <3>1. \A d \in Consumers : pc'[d] = "running" => futures'[d] # <<>> /\ Future(d)'.ev = cur'[d]
      BY <2>2, <2>3, <2>4 DEF HandledInv, FuturesTruthful
    <3>2. ASSUME NEW d \in Consumers, NEW i \in DOMAIN futures'[d], futures'[d][i].st = "ok"
          PROVE  effects'[futures'[d][i].ev] > 0
      BY <3>2, <2>2, <2>3, <2>4 DEF HandledInv, FuturesTruthful
    <3>. QED
      BY <3>1, <3>2 DEF FuturesTruthful, Future
  <2>6. CompletedMeansHandled'
    BY <1>0, <2>2 DEF HandledInv, CompletedMeansHandled
  <2>. QED
    BY <2>5, <2>6 DEF HandledInv
<1>15. ASSUME NEW c \in Consumers, StartAttemptFails(c)
      PROVE  HandledInv'
  BY <1>0, <1>15 DEF StartAttemptFails, HandledInv, FuturesTruthful, CompletedMeansHandled, Future, Running, Job, busVars, queueVars, rowVars
<1>16. ASSUME NEW c \in Consumers, Complete(c)
      PROVE  HandledInv'
  <2>1. cur[c] \in Events /\ pc[c] = "running" /\ Future(c).st = "ok"
    BY <1>0, <1>16 DEF Complete, ResultReady
  <2>2. futures[c] \in Seq(Job) /\ futures[c] # <<>> /\ Future(c).ev = cur[c]
    BY <1>0, <2>1 DEF HandledInv, FuturesTruthful
  <2>3. effects[cur[c]] > 0
    <3>1. Len(futures[c]) \in DOMAIN futures[c]
      BY <2>2
    <3>. QED
      BY <3>1, <2>1, <2>2 DEF HandledInv, FuturesTruthful, Future
  <2>4. /\ status' = [status EXCEPT ![cur[c]] = "completed"]
        /\ pc' = [pc EXCEPT ![c] = "idle"] /\ cur' = [cur EXCEPT ![c] = NoEvent]
        /\ UNCHANGED <<futures, effects>>
    BY <1>16 DEF Complete, SaveProcessor, Return
  <2>5. FuturesTruthful'
    BY <1>0, <2>4, FuturesFrame DEF HandledInv
  <2>6. CompletedMeansHandled'
    BY <1>0, <2>3, <2>4 DEF HandledInv, CompletedMeansHandled
  <2>. QED
    BY <2>5, <2>6 DEF HandledInv
<1>17. ASSUME NEW c \in Consumers, CompleteFails(c)
      PROVE  HandledInv'
  BY <1>0, <1>17 DEF CompleteFails, ResultReady, HandledInv, FuturesTruthful, CompletedMeansHandled, Future, Running, Job, busVars, queueVars, rowVars
<1>18. ASSUME NEW c \in Consumers, AttemptFails(c)
      PROVE  HandledInv'
  BY <1>0, <1>18 DEF AttemptFails, HandledInv, FuturesTruthful, CompletedMeansHandled, Future, Running, Job, busVars, queueVars, rowVars
<1>19. ASSUME NEW c \in Consumers, ScheduleRetry(c)
      PROVE  HandledInv'
  BY <1>0, <1>19, HandledFrame DEF ScheduleRetry, SaveProcessor, Return
<1>20. ASSUME NEW c \in Consumers, GiveUp(c)
      PROVE  HandledInv'
  <2>1. \E s \in GivenUp : SaveProcessor(c, s, memAttempts[c])
    BY <1>20 DEF GiveUp, GivenUp
  <2>2. UNCHANGED <<futures, effects>> /\ Return(c)
    BY <1>20 DEF GiveUp
  <2>. QED
    BY <1>0, <2>1, <2>2, HandledFrame DEF SaveProcessor, Return, GivenUp
<1>21. ASSUME NEW c \in Consumers, SettleFails(c)
      PROVE  HandledInv'
  <2>1. Requeue(c) /\ cur[c] \in Events /\ UNCHANGED <<futures, effects, rowVars>>
    BY <1>0, <1>21 DEF SettleFails
  <2>2. /\ cur' = [cur EXCEPT ![c] = NoEvent]
        /\ pc' = [pc EXCEPT ![c] = "idle"] \/ pc' = [pc EXCEPT ![c] = "exited"]
    BY <2>1, RequeueTypes
  <2>. QED
    BY <1>0, <2>1, <2>2, HandledFrame DEF rowVars
<1>22. ASSUME NEW c \in Consumers, NEW i \in DOMAIN futures[c], StartHandler(c, i)
      PROVE  HandledInv'
  <2>1. /\ futures' = [futures EXCEPT ![c][i].st = "running"]
        /\ effects' = effects
        /\ UNCHANGED <<pc, cur, status>>
    BY <1>22 DEF StartHandler, rowVars
  <2>2. futures[c] \in Seq(Job) /\ futures[c][i].ev \in Events
    <3>1. futures[c] \in Seq(Job)
      BY <1>0
    <3>2. futures[c][i] \in Job
      BY <3>1
    <3>. QED
      BY <3>1, <3>2 DEF Job
  <2>. QED
    BY <2>1, <2>2, JobMoves
<1>23. ASSUME NEW c \in Consumers, NEW i \in DOMAIN futures[c], HandlerReturns(c, i)
      PROVE  HandledInv'
  <2>1. /\ futures' = [futures EXCEPT ![c][i].st = "ok"]
        /\ effects' = [effects EXCEPT ![futures[c][i].ev] = @ + 1]
        /\ UNCHANGED <<pc, cur, status>>
    BY <1>23 DEF HandlerReturns, rowVars
  <2>2. futures[c] \in Seq(Job) /\ futures[c][i].ev \in Events
    <3>1. futures[c] \in Seq(Job)
      BY <1>0
    <3>2. futures[c][i] \in Job
      BY <3>1
    <3>. QED
      BY <3>1, <3>2 DEF Job
  <2>. QED
    BY <2>1, <2>2, JobMoves
<1>24. ASSUME NEW c \in Consumers, NEW i \in DOMAIN futures[c], HandlerRaises(c, i)
      PROVE  HandledInv'
  <2>1. /\ futures' = [futures EXCEPT ![c][i].st = "error"]
        /\ effects' = effects
        /\ UNCHANGED <<pc, cur, status>>
    BY <1>24 DEF HandlerRaises, rowVars
  <2>2. futures[c] \in Seq(Job) /\ futures[c][i].ev \in Events
    <3>1. futures[c] \in Seq(Job)
      BY <1>0
    <3>2. futures[c][i] \in Job
      BY <3>1
    <3>. QED
      BY <3>1, <3>2 DEF Job
  <2>. QED
    BY <2>1, <2>2, JobMoves
<1>25. ASSUME NEW c \in Consumers, ConnectionLost(c)
      PROVE  HandledInv'
  BY <1>0, <1>25 DEF ConnectionLost, HandledInv, FuturesTruthful, CompletedMeansHandled, Future, Running, Job, busVars, queueVars, rowVars
<1>26. ASSUME NEW c \in Consumers, ThreadExits(c)
      PROVE  HandledInv'
  BY <1>0, <1>26 DEF ThreadExits, HandledInv, FuturesTruthful, CompletedMeansHandled, Future, Running, Job, busVars, queueVars, rowVars
<1>27. ASSUME NEW c \in Consumers, Shutdown(c)
      PROVE  HandledInv'
  BY <1>27, HandledFrame DEF Shutdown, rowVars

<1>28. ASSUME NEW c \in Consumers, ProcessExits(c)
      PROVE  HandledInv'
  <2>1. /\ futures' = [futures EXCEPT ![c] = <<>>]
        /\ pc' = [pc EXCEPT ![c] = "down"] /\ cur' = [cur EXCEPT ![c] = NoEvent]
        /\ UNCHANGED <<effects, status>>
    BY <1>28 DEF ProcessExits, rowVars
  <2>2. \A d \in Consumers : d # c => /\ futures'[d] = futures[d] /\ Future(d)' = Future(d)
                                     /\ pc'[d] = pc[d] /\ cur'[d] = cur[d]
    BY <1>0, <2>1 DEF Future
  <2>3. pc'[c] # "running" /\ DOMAIN futures'[c] = {}
    BY <1>0, <2>1
  <2>4. FuturesTruthful'
    <3>1. \A d \in Consumers : pc'[d] = "running" => futures'[d] # <<>> /\ Future(d)'.ev = cur'[d]
      BY <2>2, <2>3 DEF HandledInv, FuturesTruthful
    <3>2. \A d \in Consumers : \A i \in DOMAIN futures'[d] :
            futures'[d][i].st = "ok" => effects'[futures'[d][i].ev] > 0
      BY <2>1, <2>2, <2>3 DEF HandledInv, FuturesTruthful
    <3>. QED
      BY <3>1, <3>2 DEF FuturesTruthful, Future
  <2>. QED
    BY <2>1, <2>4 DEF HandledInv, CompletedMeansHandled
<1>29. ASSUME NEW c \in Consumers, SubmitRefused(c)
      PROVE  HandledInv'
  BY <1>0, <1>29, HandledFrame DEF SubmitRefused, SaveProcessor
<1>30. ASSUME NEW c \in Consumers, Crash(c)
      PROVE  HandledInv'
  <2>1. /\ futures' = [futures EXCEPT ![c] = <<>>]
        /\ pc' = [pc EXCEPT ![c] = "down"] /\ cur' = [cur EXCEPT ![c] = NoEvent]
        /\ UNCHANGED <<effects, status>>
    BY <1>30 DEF Crash, rowVars
  <2>2. \A d \in Consumers : d # c => /\ futures'[d] = futures[d] /\ Future(d)' = Future(d)
                                     /\ pc'[d] = pc[d] /\ cur'[d] = cur[d]
    BY <1>0, <2>1 DEF Future
  <2>3. pc'[c] # "running" /\ DOMAIN futures'[c] = {}
    BY <1>0, <2>1
  <2>4. FuturesTruthful'
    <3>1. \A d \in Consumers : pc'[d] = "running" => futures'[d] # <<>> /\ Future(d)'.ev = cur'[d]
      BY <2>2, <2>3 DEF HandledInv, FuturesTruthful
    <3>2. \A d \in Consumers : \A i \in DOMAIN futures'[d] :
            futures'[d][i].st = "ok" => effects'[futures'[d][i].ev] > 0
      BY <2>1, <2>2, <2>3 DEF HandledInv, FuturesTruthful
    <3>. QED
      BY <3>1, <3>2 DEF FuturesTruthful, Future
  <2>. QED
    BY <2>1, <2>4 DEF HandledInv, CompletedMeansHandled
<1>31. ASSUME NEW c \in Consumers, Restart(c)
      PROVE  HandledInv'
  BY <1>0, <1>31 DEF Restart, HandledInv, FuturesTruthful, CompletedMeansHandled, Future, Running, Job, busVars, queueVars, rowVars
<1>32. ASSUME NEW o \in Operators, NEW e \in Events, RetryLoads(o, e)
      PROVE  HandledInv'
  BY <1>0, <1>32 DEF RetryLoads, HandledInv, FuturesTruthful, CompletedMeansHandled, Future, Running, Job, busVars, queueVars, rowVars
<1>33. ASSUME NEW o \in Operators, RetrySaves(o)
      PROVE  HandledInv'
  BY <1>0, <1>33 DEF RetrySaves, NoView, HandledInv, FuturesTruthful, CompletedMeansHandled, Future, Running, Job, busVars, queueVars, rowVars
<1>35. ASSUME NEW e \in Events, Expire(e)
      PROVE  HandledInv'
  BY <1>0, <1>35 DEF Expire, HandledInv, FuturesTruthful, CompletedMeansHandled, Future, Running, Job, busVars, rowVars
<1>34. CASE UNCHANGED vars
  BY <1>0, <1>34 DEF vars, HandledInv, FuturesTruthful, CompletedMeansHandled, Future, Running, Job, rowVars
<1>. QED
  BY <1>1, <1>2, <1>3, <1>4, <1>5, <1>6, <1>7, <1>8, <1>9, <1>10, <1>11, <1>12, <1>13, <1>14, <1>15, <1>16, <1>17, <1>18, <1>19, <1>20, <1>21, <1>22, <1>23, <1>24, <1>25, <1>26, <1>27, <1>28, <1>29, <1>30, <1>31, <1>32, <1>33, <1>34, <1>35
  DEF Next, Publisher, Message, Attempt, Pool, Process, Operator

(* A row says "completed" only if a handler call with the event returned                *)
(* (_process_event).                                                                  *)
THEOREM HandledCorrect == Spec => []CompletedMeansHandled
<1>1. Init => HandledInv
  BY DEF Init, HandledInv, FuturesTruthful, CompletedMeansHandled
<1>2. TypeOK /\ TypeOK' /\ HandledInv /\ [Next]_vars => HandledInv'
  BY HandledStep
<1>3. HandledInv => CompletedMeansHandled
  BY DEF HandledInv
<1>. QED
  BY <1>1, <1>2, <1>3, TypeCorrect, PTL DEF Spec

-----------------------------------------------------------------------------
(* The strengthening for messages: nothing is ever acknowledged, so a message that was  *)
(* sent has exactly one holder until it expires in the queue, and a thread on a live   *)
(* connection works on a message that is still its own.                                *)
HeldBy(e) == {c \in Consumers : e \in unacked[c]}

HeldInv ==
  /\ \A e \in Events :
       Sent(e) <=> e \in queue \cup expired \/ \E c \in Consumers : e \in unacked[c]
  /\ queue \cap expired = {}
  /\ \A c \in Consumers : \A e \in unacked[c] : e \notin queue \cup expired
  /\ \A c, d \in Consumers : \A e \in Events : e \in unacked[c] /\ e \in unacked[d] => c = d
  /\ \A c \in Consumers : link[c] = "up" /\ cur[c] # NoEvent => cur[c] \in unacked[c]
  /\ \A c \in Consumers : pc[c] = "down" => cur[c] = NoEvent

(* Exactly one place is what NoMessageLost counts. *)
LEMMA HeldOnce ==
  ASSUME HeldInv
  PROVE  NoMessageLost
<1>. SUFFICES ASSUME NEW e \in Events, Sent(e)
              PROVE  Cardinality(HeldBy(e)) + Cardinality({e} \cap queue)
                       + Cardinality({e} \cap expired) = 1
  BY Zenon DEF NoMessageLost, HeldBy
<1>0. Cardinality({}) = 0 /\ Cardinality({e}) = 1
  BY FS_EmptySet, FS_Singleton
<1>1. CASE e \in queue
  <2>1. HeldBy(e) = {} /\ {e} \cap queue = {e} /\ {e} \cap expired = {}
    BY <1>1 DEF HeldInv, HeldBy
  <2>. QED
    BY <1>0, <2>1
<1>2. CASE e \in expired
  <2>1. HeldBy(e) = {} /\ {e} \cap queue = {} /\ {e} \cap expired = {e}
    BY <1>2 DEF HeldInv, HeldBy
  <2>. QED
    BY <1>0, <2>1
<1>3. CASE e \notin queue \cup expired
  <2>1. PICK c \in Consumers : e \in unacked[c]
    BY <1>3 DEF HeldInv
  <2>2. HeldBy(e) = {c} /\ {e} \cap queue = {} /\ {e} \cap expired = {}
    BY <1>3, <2>1 DEF HeldInv, HeldBy
  <2>3. Cardinality(HeldBy(e)) = 1
    BY <2>2, FS_Singleton
  <2>. QED
    BY <1>0, <2>2, <2>3
<1>. QED
  BY <1>1, <1>2, <1>3

(* A step that moves no message, lets nobody take one up and changes no connection. *)
LEMMA HeldFrame ==
  ASSUME HeldInv, UNCHANGED <<queue, expired, unacked, link>>,
         \A e \in Events : Sent(e)' <=> Sent(e),
         \A d \in Consumers : cur'[d] = cur[d] \/ cur'[d] = NoEvent,
         \A d \in Consumers : pc'[d] = "down" => pc[d] = "down" \/ cur'[d] = NoEvent
  PROVE  HeldInv'
BY DEF HeldInv

(* Putting a message back moves it from its consumer to the queue, or moves nothing. *)
LEMMA HeldRequeue ==
  ASSUME TypeOK, HeldInv, NEW c \in Consumers, cur[c] \in Events, Requeue(c),
         publication' = publication
  PROVE  HeldInv'
<1>1. /\ cur' = [cur EXCEPT ![c] = NoEvent] /\ link' = link
      /\ pc' = [pc EXCEPT ![c] = "idle"] \/ pc' = [pc EXCEPT ![c] = "exited"]
      /\ expired' = expired
  BY RequeueTypes
<1>2. CASE link[c] = "up"
  <2>1. cur[c] \in unacked[c]
    BY <1>2, EventsAssumption DEF HeldInv
  <2>2. queue' = queue \cup {cur[c]} /\ unacked' = [unacked EXCEPT ![c] = @ \ {cur[c]}]
    BY <1>2 DEF Requeue
  <2>. QED
    BY <1>1, <2>1, <2>2 DEF HeldInv, Sent, TypeOK
<1>3. CASE link[c] # "up"
  <2>1. queue' = queue /\ unacked' = unacked
    BY <1>3 DEF Requeue
  <2>. QED
    BY <1>1, <2>1, HeldFrame DEF Sent, TypeOK
<1>. QED
  BY <1>2, <1>3

(* What a consumer held becomes ready again when its connection ends. *)
LEMMA HeldReturned ==
  ASSUME TypeOK, HeldInv, NEW c \in Consumers,
         queue' = queue \cup unacked[c], unacked' = [unacked EXCEPT ![c] = {}],
         expired' = expired,
         publication' = publication,
         NEW l \in {"lost", "closed", "abandoned"}, link' = [link EXCEPT ![c] = l],
         \A d \in Consumers : cur'[d] = cur[d] \/ cur'[d] = NoEvent,
         \A d \in Consumers : pc'[d] = "down" => pc[d] = "down" \/ cur'[d] = NoEvent
  PROVE  HeldInv'
BY DEF HeldInv, Sent, TypeOK

(* Every step leaves every sent message in exactly one place. *)
LEMMA HeldStep ==
  ASSUME TypeOK, HeldInv, [Next]_vars
  PROVE  HeldInv'
<1>1. ASSUME NEW e \in Events, PublishAccepted(e)
      PROVE  HeldInv'
  <2>1. /\ queue' = queue \cup {e} /\ UNCHANGED <<expired, unacked, link, pc, cur>>
        /\ publication' = [publication EXCEPT ![e] = "sent"] /\ publication[e] = "new"
    BY <1>1 DEF PublishAccepted
  <2>2. e \notin expired /\ \A c \in Consumers : e \notin unacked[c]
    BY <2>1 DEF HeldInv, Sent
  <2>3. \A x \in Events : Sent(x)' <=> Sent(x) \/ x = e
    BY <2>1 DEF Sent, TypeOK
  <2>. QED
    BY <2>1, <2>2, <2>3 DEF HeldInv
<1>2. ASSUME NEW e \in Events, PublishRejected(e)
      PROVE  HeldInv'
  BY <1>2, HeldFrame DEF PublishRejected, Sent, TypeOK, busVars, queueVars, rowVars
<1>3. ASSUME NEW e \in Events, PublishCommit(e)
      PROVE  HeldInv'
  BY <1>3, HeldFrame DEF PublishCommit, Sent, TypeOK, busVars, queueVars, rowVars
<1>4. ASSUME NEW e \in Events, PublishRollback(e)
      PROVE  HeldInv'
  BY <1>4, HeldFrame DEF PublishRollback, Sent, TypeOK, busVars, queueVars, rowVars
<1>5. ASSUME NEW c \in Consumers, NEW e \in Events, Deliver(c, e)
      PROVE  HeldInv'
  BY <1>5 DEF Deliver, HeldInv, Sent, TypeOK, busVars
<1>6. ASSUME NEW c \in Consumers, Ignore(c)
      PROVE  HeldInv'
  BY <1>6, HeldFrame DEF Ignore, Return, Sent, TypeOK, busVars, queueVars, rowVars
<1>7. ASSUME NEW c \in Consumers, EventMissing(c)
      PROVE  HeldInv'
  BY <1>7, HeldFrame DEF EventMissing, Sent, TypeOK, busVars, queueVars, rowVars
<1>8. ASSUME NEW c \in Consumers, CreateEvent(c)
      PROVE  HeldInv'
  BY <1>8, HeldFrame DEF CreateEvent, Sent, TypeOK, busVars, queueVars, rowVars
<1>9. ASSUME NEW c \in Consumers, CreateConflict(c)
      PROVE  HeldInv'
  BY <1>9, HeldRequeue DEF CreateConflict, TypeOK, busVars
<1>10. ASSUME NEW c \in Consumers, LookupFails(c)
      PROVE  HeldInv'
  BY <1>10, HeldRequeue DEF LookupFails, TypeOK, busVars
<1>11. ASSUME NEW c \in Consumers, SkipProcessed(c)
      PROVE  HeldInv'
  BY <1>11, HeldFrame DEF SkipProcessed, Return, Sent, TypeOK, busVars, queueVars, rowVars
<1>12. ASSUME NEW c \in Consumers, Claim(c)
      PROVE  HeldInv'
  BY <1>12, HeldFrame DEF Claim, Sent, TypeOK, busVars, queueVars, rowVars
<1>13. ASSUME NEW c \in Consumers, HandlerMissing(c)
      PROVE  HeldInv'
  BY <1>13, HeldFrame DEF HandlerMissing, Sent, TypeOK, busVars, queueVars, rowVars
<1>14. ASSUME NEW c \in Consumers, StartAttempt(c)
      PROVE  HeldInv'
  BY <1>14, HeldFrame DEF StartAttempt, Sent, TypeOK, busVars, queueVars, rowVars
<1>15. ASSUME NEW c \in Consumers, StartAttemptFails(c)
      PROVE  HeldInv'
  BY <1>15, HeldFrame DEF StartAttemptFails, Sent, TypeOK, busVars, queueVars, rowVars
<1>16. ASSUME NEW c \in Consumers, SubmitRefused(c)
      PROVE  HeldInv'
  BY <1>16, HeldFrame DEF SubmitRefused, Sent, TypeOK, busVars, queueVars, rowVars
<1>17. ASSUME NEW c \in Consumers, Complete(c)
      PROVE  HeldInv'
  BY <1>17, HeldFrame DEF Complete, Return, Sent, TypeOK, busVars, queueVars, rowVars
<1>18. ASSUME NEW c \in Consumers, CompleteFails(c)
      PROVE  HeldInv'
  BY <1>18, HeldFrame DEF CompleteFails, Sent, TypeOK, busVars, queueVars, rowVars
<1>19. ASSUME NEW c \in Consumers, AttemptFails(c)
      PROVE  HeldInv'
  BY <1>19, HeldFrame DEF AttemptFails, Sent, TypeOK, busVars, queueVars, rowVars
<1>20. ASSUME NEW c \in Consumers, ScheduleRetry(c)
      PROVE  HeldInv'
  BY <1>20, HeldFrame DEF ScheduleRetry, Return, Sent, TypeOK, busVars, queueVars, rowVars
<1>21. ASSUME NEW c \in Consumers, GiveUp(c)
      PROVE  HeldInv'
  BY <1>21, HeldFrame DEF GiveUp, Return, Sent, TypeOK, busVars, queueVars, rowVars
<1>22. ASSUME NEW c \in Consumers, SettleFails(c)
      PROVE  HeldInv'
  BY <1>22, HeldRequeue DEF SettleFails, TypeOK, busVars
<1>23. ASSUME NEW c \in Consumers, NEW i \in DOMAIN futures[c], StartHandler(c, i)
      PROVE  HeldInv'
  BY <1>23, HeldFrame DEF StartHandler, Sent, TypeOK, busVars, queueVars, rowVars
<1>24. ASSUME NEW c \in Consumers, NEW i \in DOMAIN futures[c], HandlerReturns(c, i)
      PROVE  HeldInv'
  BY <1>24, HeldFrame DEF HandlerReturns, Sent, TypeOK, busVars, queueVars, rowVars
<1>25. ASSUME NEW c \in Consumers, NEW i \in DOMAIN futures[c], HandlerRaises(c, i)
      PROVE  HeldInv'
  BY <1>25, HeldFrame DEF HandlerRaises, Sent, TypeOK, busVars, queueVars, rowVars
<1>26. ASSUME NEW c \in Consumers, ConnectionLost(c)
      PROVE  HeldInv'
  BY <1>26, HeldReturned DEF ConnectionLost, busVars
<1>27. ASSUME NEW c \in Consumers, ThreadExits(c)
      PROVE  HeldInv'
  BY <1>27, HeldFrame DEF ThreadExits, Sent, TypeOK, busVars, queueVars, rowVars
<1>28. ASSUME NEW c \in Consumers, Shutdown(c)
      PROVE  HeldInv'
  BY <1>28, HeldReturned DEF Shutdown, busVars
<1>29. ASSUME NEW c \in Consumers, ProcessExits(c)
      PROVE  HeldInv'
  BY <1>29 DEF ProcessExits, HeldInv, Sent, TypeOK, Stopping, busVars
<1>30. ASSUME NEW c \in Consumers, Crash(c)
      PROVE  HeldInv'
  BY <1>30, HeldReturned DEF Crash, TypeOK, busVars
<1>31. ASSUME NEW c \in Consumers, Restart(c)
      PROVE  HeldInv'
  BY <1>31 DEF Restart, HeldInv, Sent, TypeOK, busVars
<1>32. ASSUME NEW o \in Operators, NEW e \in Events, RetryLoads(o, e)
      PROVE  HeldInv'
  BY <1>32, HeldFrame DEF RetryLoads, Sent, TypeOK, busVars, queueVars, rowVars
<1>33. ASSUME NEW o \in Operators, RetrySaves(o)
      PROVE  HeldInv'
  BY <1>33, HeldFrame DEF RetrySaves, Sent, TypeOK, busVars, queueVars, rowVars
<1>35. ASSUME NEW e \in Events, Expire(e)
      PROVE  HeldInv'
  BY <1>35 DEF Expire, HeldInv, Sent, busVars
<1>34. CASE UNCHANGED vars
  BY <1>34, HeldFrame DEF vars, Sent
<1>. QED
  BY <1>1, <1>2, <1>3, <1>4, <1>5, <1>6, <1>7, <1>8, <1>9, <1>10, <1>11, <1>12, <1>13, <1>14, <1>15, <1>16, <1>17, <1>18, <1>19, <1>20, <1>21, <1>22, <1>23, <1>24, <1>25, <1>26, <1>27, <1>28, <1>29, <1>30, <1>31, <1>32, <1>33, <1>34, <1>35
  DEF Next, Publisher, Message, Attempt, Pool, Process, Operator

(* No message that is neither completed nor given up is lost or doubled, whatever is    *)
(* nacked, disconnected, stopped or crashed, unless its time to live ends while it is   *)
(* ready (RabbitMQBroker.subscribe's wrapper, create_queue).                            *)
THEOREM MessagesKept == Spec => []NoMessageLost
<1>1. Init => HeldInv
  BY DEF Init, HeldInv, Sent
<1>2. TypeOK /\ HeldInv /\ [Next]_vars => HeldInv'
  BY HeldStep
<1>3. HeldInv => NoMessageLost
  BY HeldOnce
<1>. QED
  BY <1>1, <1>2, <1>3, TypeCorrect, PTL DEF Spec

-----------------------------------------------------------------------------
(* How the steps touch what the subscription promises: the rows, the pools, the counts  *)
(* and the messages taken up.                                                          *)
Working(c) == pc[c] \in {"begin", "running", "settle"}

(* The thread has a message and has not begun an attempt with it. *)
Early(c) == pc[c] \in {"lookup", "create", "begin"}

(* A step that concerns none of them. *)
Quiet ==
  /\ UNCHANGED <<status, attempts, memAttempts, futures, tries, effects, deliveries, deadLetters>>
  /\ \A d \in Consumers : Working(d)' => Working(d) /\ cur'[d] = cur[d]
  /\ \A d \in Consumers : Early(d)' => Early(d) /\ cur'[d] = cur[d]

(* The steps of a consumer that do. *)
Loud(c) ==
  \/ \E e \in Events : Deliver(c, e)
  \/ Claim(c) \/ StartAttempt(c) \/ StartAttemptFails(c) \/ SubmitRefused(c)
  \/ Complete(c) \/ ScheduleRetry(c) \/ GiveUp(c) \/ SettleFails(c)
  \/ ProcessExits(c) \/ Crash(c) \/ Pool(c)

(* There are no others but the operators' saves. *)
LEMMA StepKinds ==
  ASSUME TypeOK, [Next]_vars
  PROVE  Quiet \/ (\E c \in Consumers : Loud(c)) \/ \E o \in Operators : RetrySaves(o)
<1>1. ASSUME NEW e \in Events, PublishAccepted(e)
      PROVE  Quiet
  BY <1>1 DEF PublishAccepted, Quiet, Working, Early, busVars, queueVars, rowVars
<1>2. ASSUME NEW e \in Events, PublishRejected(e)
      PROVE  Quiet
  BY <1>2 DEF PublishRejected, Quiet, Working, Early, busVars, queueVars, rowVars
<1>3. ASSUME NEW e \in Events, PublishCommit(e)
      PROVE  Quiet
  BY <1>3 DEF PublishCommit, Quiet, Working, Early, busVars, queueVars, rowVars
<1>4. ASSUME NEW e \in Events, PublishRollback(e)
      PROVE  Quiet
  BY <1>4 DEF PublishRollback, Quiet, Working, Early, busVars, queueVars, rowVars
<1>6. ASSUME NEW c \in Consumers, Ignore(c)
      PROVE  Quiet
  BY <1>6 DEF Ignore, Return, Quiet, Working, Early, TypeOK, busVars, queueVars, rowVars
<1>7. ASSUME NEW c \in Consumers, EventMissing(c)
      PROVE  Quiet
  BY <1>7 DEF EventMissing, Quiet, Working, Early, TypeOK, busVars, queueVars, rowVars
<1>8. ASSUME NEW c \in Consumers, CreateEvent(c)
      PROVE  Quiet
  BY <1>8 DEF CreateEvent, Quiet, Working, Early, TypeOK, busVars, queueVars, rowVars
<1>9. ASSUME NEW c \in Consumers, CreateConflict(c)
      PROVE  Quiet
  BY <1>9 DEF CreateConflict, Requeue, Quiet, Working, Early, TypeOK, busVars, queueVars, rowVars
<1>10. ASSUME NEW c \in Consumers, LookupFails(c)
      PROVE  Quiet
  BY <1>10 DEF LookupFails, Requeue, Quiet, Working, Early, TypeOK, busVars, queueVars, rowVars
<1>11. ASSUME NEW c \in Consumers, SkipProcessed(c)
      PROVE  Quiet
  BY <1>11 DEF SkipProcessed, Return, Quiet, Working, Early, TypeOK, busVars, queueVars, rowVars
<1>12. ASSUME NEW c \in Consumers, HandlerMissing(c)
      PROVE  Quiet
  BY <1>12 DEF HandlerMissing, Quiet, Working, Early, TypeOK, busVars, queueVars, rowVars
<1>13. ASSUME NEW c \in Consumers, CompleteFails(c)
      PROVE  Quiet
  BY <1>13 DEF CompleteFails, ResultReady, Quiet, Working, Early, TypeOK, busVars, queueVars, rowVars
<1>14. ASSUME NEW c \in Consumers, AttemptFails(c)
      PROVE  Quiet
  BY <1>14 DEF AttemptFails, Quiet, Working, Early, TypeOK, busVars, queueVars, rowVars
<1>16. ASSUME NEW c \in Consumers, ConnectionLost(c)
      PROVE  Quiet
  BY <1>16 DEF ConnectionLost, Quiet, Working, Early, TypeOK, busVars, queueVars, rowVars
<1>17. ASSUME NEW c \in Consumers, ThreadExits(c)
      PROVE  Quiet
  BY <1>17 DEF ThreadExits, Quiet, Working, Early, TypeOK, busVars, queueVars, rowVars
<1>18. ASSUME NEW c \in Consumers, Shutdown(c)
      PROVE  Quiet
  BY <1>18 DEF Shutdown, Quiet, Working, Early, TypeOK, busVars, queueVars, rowVars
<1>19. ASSUME NEW c \in Consumers, Restart(c)
      PROVE  Quiet
  BY <1>19 DEF Restart, Quiet, Working, Early, TypeOK, busVars, queueVars, rowVars
<1>5. ASSUME NEW o \in Operators, NEW e \in Events, RetryLoads(o, e)
      PROVE  Quiet
  BY <1>5 DEF RetryLoads, Quiet, Working, Early, busVars, queueVars, rowVars
<1>21. ASSUME NEW e \in Events, Expire(e)
      PROVE  Quiet
  BY <1>21 DEF Expire, Quiet, Working, Early, busVars, rowVars
<1>20. CASE UNCHANGED vars
  BY <1>20 DEF vars, Quiet, Working, Early, rowVars
<1>. QED
  BY <1>1, <1>2, <1>3, <1>4, <1>5, <1>6, <1>7, <1>8, <1>9, <1>10, <1>11, <1>12, <1>13, <1>14, <1>16, <1>17, <1>18, <1>19, <1>20, <1>21
  DEF Next, Publisher, Message, Attempt, Process, Operator, Loud

-----------------------------------------------------------------------------
(* The jobs of an event that may still call its handler, in whichever pool. *)
OpenJobs(e) ==
  {p \in Consumers \X Nat :
     /\ p[2] \in DOMAIN futures[p[1]]
     /\ futures[p[1]][p[2]].ev = e
     /\ futures[p[1]][p[2]].st \in {"queued", "running"}}

(* The threads that have taken a message of the event up and not begun an attempt. *)
Taken(e) == {c \in Consumers : Early(c) /\ cur[c] = e}

(* Every call that has returned, and every one still to come, is an attempt begun; and  *)
(* every attempt begun, and every one a thread may yet begin, is a delivery.           *)
JobsInv ==
  \A e \in Events :
    IsFiniteSet(OpenJobs(e)) /\ effects[e] + Cardinality(OpenJobs(e)) <= tries[e]

TakenInv ==
  \A e \in Events :
    IsFiniteSet(Taken(e)) /\ tries[e] + Cardinality(Taken(e)) <= deliveries[e]

(* Fewer elements, and a bound that does not fall. *)
LEMMA Fewer ==
  ASSUME NEW S, NEW T, T \subseteq S, IsFiniteSet(S), NEW a \in Nat, NEW n \in Nat,
         NEW m \in Nat, a + Cardinality(S) <= n, n <= m
  PROVE  IsFiniteSet(T) /\ a + Cardinality(T) <= m
<1>1. IsFiniteSet(T) /\ Cardinality(T) <= Cardinality(S)
  BY FS_Subset
<1>2. Cardinality(T) \in Nat /\ Cardinality(S) \in Nat
  BY <1>1, FS_CardinalityType
<1>. QED
  BY <1>1, <1>2

(* One element more, paid for by the bound; one element less, spent on the count. *)
LEMMA OneTaken ==
  ASSUME NEW S, NEW T, NEW x, T \subseteq S \cup {x}, IsFiniteSet(S),
         NEW a \in Nat, NEW n \in Nat, a + Cardinality(S) <= n
  PROVE  IsFiniteSet(T) /\ a + Cardinality(T) <= n + 1
<1>0. Cardinality(S) \in Nat
  BY FS_CardinalityType
<1>1. IsFiniteSet(S \cup {x}) /\ Cardinality(S \cup {x}) <= Cardinality(S) + 1
  <2>1. CASE x \in S
    <3>1. S \cup {x} = S
      BY <2>1
    <3>. QED
      BY <1>0, <3>1
  <2>2. CASE x \notin S
    <3>1. IsFiniteSet(S \cup {x}) /\ Cardinality(S \cup {x}) = Cardinality(S) + 1
      BY <2>2, FS_AddElement
    <3>. QED
      BY <1>0, <3>1
  <2>. QED
    BY <2>1, <2>2
<1>2. IsFiniteSet(T) /\ Cardinality(T) <= Cardinality(S \cup {x})
  BY <1>1, FS_Subset
<1>3. Cardinality(T) \in Nat /\ Cardinality(S) \in Nat /\ Cardinality(S \cup {x}) \in Nat
  BY <1>1, <1>2, FS_CardinalityType
<1>. QED
  BY <1>1, <1>2, <1>3

LEMMA OneSpent ==
  ASSUME NEW S, NEW T, NEW x \in S, T \subseteq S \ {x}, IsFiniteSet(S),
         NEW a \in Nat, NEW n \in Nat, a + Cardinality(S) <= n
  PROVE  IsFiniteSet(T) /\ a + 1 + Cardinality(T) <= n
<1>1. IsFiniteSet(S \ {x}) /\ Cardinality(S \ {x}) = Cardinality(S) - 1
  BY FS_RemoveElement
<1>2. IsFiniteSet(T) /\ Cardinality(T) <= Cardinality(S \ {x})
  BY <1>1, FS_Subset
<1>3. Cardinality(T) \in Nat /\ Cardinality(S) \in Nat /\ Cardinality(S \ {x}) \in Nat
  BY <1>1, <1>2, FS_CardinalityType
<1>. QED
  BY <1>1, <1>2, <1>3

(* Jobs that are gone or have ended, and counts that do not move the wrong way. *)
LEMMA JobsFrame ==
  ASSUME TypeOK, TypeOK', JobsInv, effects' = effects,
         \A e \in Events : OpenJobs(e)' \subseteq OpenJobs(e) /\ tries[e] <= tries'[e]
  PROVE  JobsInv'
<1>. SUFFICES ASSUME NEW e \in Events
              PROVE  /\ IsFiniteSet(OpenJobs(e)')
                     /\ effects'[e] + Cardinality(OpenJobs(e)') <= tries'[e]
  BY DEF JobsInv
<1>1. effects[e] \in Nat /\ tries[e] \in Nat /\ tries'[e] \in Nat
  BY DEF TypeOK
<1>2. IsFiniteSet(OpenJobs(e)) /\ effects[e] + Cardinality(OpenJobs(e)) <= tries[e]
  BY DEF JobsInv
<1>3. OpenJobs(e)' \subseteq OpenJobs(e) /\ tries[e] <= tries'[e]
  OBVIOUS
<1>. HIDE DEF OpenJobs
<1>. QED
  BY <1>1, <1>2, <1>3, Fewer

(* Every job is submitted by an attempt, and a call that returns closes its job. *)
LEMMA JobsStep ==
  ASSUME TypeOK, TypeOK', JobsInv, [Next]_vars
  PROVE  JobsInv'
<1>0. /\ effects \in [Events -> Nat] /\ tries \in [Events -> Nat]
      /\ futures \in [Consumers -> Seq(Job)]
      /\ \A d \in Consumers : pc[d] \in {"lookup", "begin", "running", "settle"} => cur[d] \in Events
  BY DEF TypeOK
<1>1. ASSUME UNCHANGED <<futures, effects>>,
             tries' = tries \/ \E e \in Events : tries' = [tries EXCEPT ![e] = @ + 1]
      PROVE  JobsInv'
  <2>1. \A e \in Events : OpenJobs(e)' \subseteq OpenJobs(e)
    BY <1>1 DEF OpenJobs
  <2>2. \A e \in Events : tries[e] <= tries'[e]
    BY <1>0, <1>1
  <2>. QED
    BY <1>1, <2>1, <2>2, JobsFrame
<1>2. ASSUME Quiet \/ (\E o \in Operators : RetrySaves(o))
      PROVE  JobsInv'
  BY <1>1, <1>2 DEF Quiet, RetrySaves
<1>3. ASSUME NEW c \in Consumers,
             \/ \E e \in Events : Deliver(c, e)
             \/ Claim(c) \/ StartAttemptFails(c) \/ SubmitRefused(c)
             \/ Complete(c) \/ ScheduleRetry(c) \/ GiveUp(c) \/ SettleFails(c)
      PROVE  JobsInv'
  BY <1>0, <1>1, <1>3 DEF Deliver, Claim, StartAttemptFails, SubmitRefused, Complete,
     ScheduleRetry, GiveUp, SettleFails
<1>4. ASSUME NEW c \in Consumers, StartAttempt(c)
      PROVE  JobsInv'
  <2>1. /\ cur[c] \in Events /\ effects' = effects
        /\ tries' = [tries EXCEPT ![cur[c]] = @ + 1]
        /\ futures' = [futures EXCEPT ![c] = Append(@, [ev |-> cur[c], st |-> "queued"])]
    BY <1>0, <1>4 DEF StartAttempt
  <2>. DEFINE n == Len(futures[c]) + 1
  <2>2. /\ \A d \in Consumers : d # c => futures'[d] = futures[d]
        /\ DOMAIN futures'[c] = DOMAIN futures[c] \cup {n}
        /\ futures'[c][n].ev = cur[c]
        /\ \A i \in DOMAIN futures[c] : futures'[c][i] = futures[c][i]
    BY <1>0, <2>1 DEF Job
  <2>. SUFFICES ASSUME NEW e \in Events
                PROVE  /\ IsFiniteSet(OpenJobs(e)')
                       /\ effects'[e] + Cardinality(OpenJobs(e)') <= tries'[e]
    BY DEF JobsInv
  <2>3. IsFiniteSet(OpenJobs(e)) /\ effects[e] + Cardinality(OpenJobs(e)) <= tries[e]
    BY DEF JobsInv
  <2>4. OpenJobs(e)' \subseteq OpenJobs(e) \cup (IF e = cur[c] THEN {<<c, n>>} ELSE {})
    <3>. SUFFICES ASSUME NEW p \in OpenJobs(e)', p \notin OpenJobs(e)
                  PROVE  e = cur[c] /\ p = <<c, n>>
      OBVIOUS
    <3>1. /\ p \in Consumers \X Nat
          /\ p[2] \in DOMAIN futures'[p[1]]
          /\ futures'[p[1]][p[2]].ev = e
          /\ futures'[p[1]][p[2]].st \in {"queued", "running"}
      BY DEF OpenJobs
    <3>2. p[1] = c
      BY <2>2, <3>1 DEF OpenJobs
    <3>3. p[2] = n
      BY <2>2, <3>1, <3>2 DEF OpenJobs
    <3>. QED
      BY <2>2, <3>1, <3>2, <3>3
  <2>5. effects[e] \in Nat /\ tries[e] \in Nat
    BY <1>0
  <2>. HIDE DEF OpenJobs, n
  <2>6. CASE e = cur[c]
    <3>1. tries'[e] = tries[e] + 1 /\ effects'[e] = effects[e]
      BY <1>0, <2>1, <2>6
    <3>2. OpenJobs(e)' \subseteq OpenJobs(e) \cup {<<c, n>>}
      BY <2>4, <2>6
    <3>. QED
      BY <3>1, <3>2, <2>3, <2>5, OneTaken
  <2>7. CASE e # cur[c]
    <3>1. tries'[e] = tries[e] /\ effects'[e] = effects[e] /\ OpenJobs(e)' \subseteq OpenJobs(e)
      BY <1>0, <2>1, <2>4, <2>7
    <3>. QED
      BY <3>1, <2>3, <2>5, Fewer
  <2>. QED
    BY <2>6, <2>7
<1>5. ASSUME NEW c \in Consumers, ProcessExits(c) \/ Crash(c)
      PROVE  JobsInv'
  <2>1. futures' = [futures EXCEPT ![c] = <<>>] /\ UNCHANGED <<effects, tries>>
    BY <1>5 DEF ProcessExits, Crash
  <2>2. \A e \in Events : OpenJobs(e)' \subseteq OpenJobs(e)
    BY <1>0, <2>1 DEF OpenJobs
  <2>. QED
    BY <1>0, <2>1, <2>2, JobsFrame
<1>6. ASSUME NEW c \in Consumers, NEW i \in DOMAIN futures[c],
             StartHandler(c, i) \/ HandlerReturns(c, i) \/ HandlerRaises(c, i)
      PROVE  JobsInv'
  <2>1. futures[c][i] \in Job /\ i \in Nat /\ tries' = tries
    BY <1>0, <1>6 DEF StartHandler, HandlerReturns, HandlerRaises
  <2>2. PICK x \in {"running", "ok", "error"} :
          /\ futures' = [futures EXCEPT ![c][i].st = x]
          /\ x = "running" => futures[c][i].st = "queued"
          /\ x # "running" => futures[c][i].st = "running"
          /\ effects' = IF x = "ok" THEN [effects EXCEPT ![futures[c][i].ev] = @ + 1] ELSE effects
    BY <1>6 DEF StartHandler, HandlerReturns, HandlerRaises, Running, Waiting
  <2>3. /\ \A d \in Consumers : DOMAIN futures'[d] = DOMAIN futures[d]
        /\ futures'[c][i].st = x /\ futures'[c][i].ev = futures[c][i].ev
        /\ \A d \in Consumers : \A j \in DOMAIN futures[d] :
             d # c \/ j # i => futures'[d][j] = futures[d][j]
    BY <1>0, <2>1, <2>2 DEF Job
  <2>4. \A e \in Events : OpenJobs(e)' \subseteq OpenJobs(e)
    <3>1. ASSUME NEW e \in Events, NEW p \in OpenJobs(e)'
          PROVE  p \in OpenJobs(e)
      BY <2>2, <2>3 DEF OpenJobs
    <3>. QED
      BY <3>1
  <2>5. CASE x # "ok"
    BY <1>0, <2>1, <2>2, <2>4, <2>5, JobsFrame
  <2>6. CASE x = "ok"
    <3>. SUFFICES ASSUME NEW e \in Events
                  PROVE  /\ IsFiniteSet(OpenJobs(e)')
                         /\ effects'[e] + Cardinality(OpenJobs(e)') <= tries'[e]
      BY DEF JobsInv
    <3>1. /\ IsFiniteSet(OpenJobs(e)) /\ effects[e] + Cardinality(OpenJobs(e)) <= tries[e]
          /\ effects[e] \in Nat /\ tries[e] \in Nat
      BY <1>0 DEF JobsInv
    <3>2. CASE e = futures[c][i].ev
      <4>1. <<c, i>> \in OpenJobs(e) /\ <<c, i>> \notin OpenJobs(e)'
        BY <2>1, <2>2, <2>3, <2>6, <3>2 DEF OpenJobs
      <4>2. effects'[e] = effects[e] + 1
        BY <1>0, <2>2, <2>6, <3>2
      <4>3. OpenJobs(e)' \subseteq OpenJobs(e) \ {<<c, i>>}
        BY <2>4, <4>1
      <4>. HIDE DEF OpenJobs
      <4>. QED
        BY <2>1, <3>1, <4>1, <4>2, <4>3, OneSpent
    <3>3. CASE e # futures[c][i].ev
      <4>1. effects'[e] = effects[e] /\ OpenJobs(e)' \subseteq OpenJobs(e)
        BY <1>0, <2>2, <2>4, <3>3
      <4>. HIDE DEF OpenJobs
      <4>. QED
        BY <2>1, <3>1, <4>1, Fewer
    <3>. QED
      BY <3>2, <3>3
  <2>. QED
    BY <2>5, <2>6
<1>. QED
  BY <1>1, <1>2, <1>3, <1>4, <1>5, <1>6, StepKinds DEF Loud, Pool

(* A delivery is used for one attempt at most: no path of _process_message begins a     *)
(* second one without taking the message up again.                                     *)
LEMMA TakenStep ==
  ASSUME TypeOK, TypeOK', TakenInv, [Next]_vars
  PROVE  TakenInv'
<1>0. /\ deliveries \in [Events -> Nat] /\ tries \in [Events -> Nat]
      /\ DOMAIN pc = Consumers /\ DOMAIN cur = Consumers
      /\ \A d \in Consumers : pc[d] \in {"lookup", "begin", "running", "settle"} => cur[d] \in Events
  BY DEF TypeOK
<1>1. ASSUME NEW e \in Events
      PROVE  /\ IsFiniteSet(Taken(e)) /\ tries[e] + Cardinality(Taken(e)) <= deliveries[e]
             /\ tries[e] \in Nat /\ deliveries[e] \in Nat
  BY <1>0 DEF TakenInv
<1>2. ASSUME UNCHANGED <<tries, deliveries>>,
             \A d \in Consumers : Early(d)' => Early(d) /\ cur'[d] = cur[d]
      PROVE  TakenInv'
  <2>. SUFFICES ASSUME NEW e \in Events
                PROVE  /\ IsFiniteSet(Taken(e)')
                       /\ tries'[e] + Cardinality(Taken(e)') <= deliveries'[e]
    BY DEF TakenInv
  <2>1. Taken(e)' \subseteq Taken(e)
    BY <1>2 DEF Taken
  <2>. HIDE DEF Taken
  <2>. QED
    BY <1>1, <1>2, <2>1, Fewer
<1>3. ASSUME Quiet \/ (\E o \in Operators : RetrySaves(o))
      PROVE  TakenInv'
  BY <1>2, <1>3 DEF Quiet, RetrySaves, Early, queueVars
<1>4. ASSUME NEW c \in Consumers, NEW e \in Events, Deliver(c, e)
      PROVE  TakenInv'
  <2>1. /\ pc' = [pc EXCEPT ![c] = "lookup"] /\ cur' = [cur EXCEPT ![c] = e]
        /\ deliveries' = [deliveries EXCEPT ![e] = @ + 1] /\ tries' = tries
    BY <1>4 DEF Deliver
  <2>. SUFFICES ASSUME NEW f \in Events
                PROVE  /\ IsFiniteSet(Taken(f)')
                       /\ tries'[f] + Cardinality(Taken(f)') <= deliveries'[f]
    BY DEF TakenInv
  <2>2. Taken(f)' \subseteq Taken(f) \cup (IF f = e THEN {c} ELSE {})
    BY <1>0, <2>1 DEF Taken, Early
  <2>. HIDE DEF Taken
  <2>3. CASE f = e
    <3>1. deliveries'[f] = deliveries[f] + 1 /\ tries'[f] = tries[f]
      BY <1>0, <2>1, <2>3
    <3>2. Taken(f)' \subseteq Taken(f) \cup {c}
      BY <2>2, <2>3
    <3>. QED
      BY <1>1, <3>1, <3>2, OneTaken
  <2>4. CASE f # e
    <3>1. deliveries'[f] = deliveries[f] /\ tries'[f] = tries[f] /\ Taken(f)' \subseteq Taken(f)
      BY <1>0, <2>1, <2>2, <2>4
    <3>. QED
      BY <1>1, <3>1, Fewer
  <2>. QED
    BY <2>3, <2>4
<1>5. ASSUME NEW c \in Consumers, StartAttempt(c) \/ StartAttemptFails(c) \/ SubmitRefused(c)
      PROVE  TakenInv'
  <2>1. /\ pc[c] = "begin" /\ cur[c] \in Events
        /\ pc' = [pc EXCEPT ![c] = "running"] \/ pc' = [pc EXCEPT ![c] = "settle"]
        /\ cur' = cur /\ deliveries' = deliveries
        /\ tries' = [tries EXCEPT ![cur[c]] = @ + 1]
    BY <1>0, <1>5 DEF StartAttempt, StartAttemptFails, SubmitRefused, queueVars
  <2>. SUFFICES ASSUME NEW f \in Events
                PROVE  /\ IsFiniteSet(Taken(f)')
                       /\ tries'[f] + Cardinality(Taken(f)') <= deliveries'[f]
    BY DEF TakenInv
  <2>2. Taken(f)' \subseteq Taken(f) \ {c}
    BY <1>0, <2>1 DEF Taken, Early
  <2>3. f = cur[c] => c \in Taken(f)
    BY <2>1 DEF Taken, Early
  <2>. HIDE DEF Taken
  <2>4. CASE f = cur[c]
    <3>1. tries'[f] = tries[f] + 1 /\ deliveries'[f] = deliveries[f]
      BY <1>0, <2>1, <2>4
    <3>. QED
      BY <1>1, <2>2, <2>3, <2>4, <3>1, OneSpent
  <2>5. CASE f # cur[c]
    <3>1. tries'[f] = tries[f] /\ deliveries'[f] = deliveries[f] /\ Taken(f)' \subseteq Taken(f)
      BY <1>0, <2>1, <2>2, <2>5
    <3>2. /\ IsFiniteSet(Taken(f)) /\ tries[f] + Cardinality(Taken(f)) <= deliveries[f]
          /\ tries[f] \in Nat /\ deliveries[f] \in Nat
      BY <1>1
    <3>3. IsFiniteSet(Taken(f)') /\ tries[f] + Cardinality(Taken(f)') <= deliveries[f]
      BY <3>1, <3>2, Fewer
    <3>. QED
      BY <3>1, <3>3
  <2>. QED
    BY <2>4, <2>5
<1>6. ASSUME NEW c \in Consumers,
             Claim(c) \/ Complete(c) \/ ScheduleRetry(c) \/ GiveUp(c) \/ SettleFails(c)
      PROVE  TakenInv'
  <2>1. UNCHANGED <<tries, deliveries>>
    BY <1>6 DEF Claim, Complete, ScheduleRetry, GiveUp, SettleFails, Return, Requeue, queueVars
  <2>2. \A d \in Consumers : Early(d)' => Early(d) /\ cur'[d] = cur[d]
    BY <1>0, <1>6 DEF Claim, Complete, ScheduleRetry, GiveUp, SettleFails, Return, Requeue, Early
  <2>. QED
    BY <1>2, <2>1, <2>2
<1>7. ASSUME NEW c \in Consumers, ProcessExits(c) \/ Crash(c) \/ Pool(c)
      PROVE  TakenInv'
  <2>1. UNCHANGED <<tries, deliveries>>
    BY <1>7 DEF ProcessExits, Crash, Pool, StartHandler, HandlerReturns, HandlerRaises, queueVars
  <2>2. \A d \in Consumers : Early(d)' => Early(d) /\ cur'[d] = cur[d]
    BY <1>0, <1>7 DEF ProcessExits, Crash, Pool, StartHandler, HandlerReturns, HandlerRaises, Early
  <2>. QED
    BY <1>2, <2>1, <2>2
<1>. QED
  BY <1>3, <1>4, <1>5, <1>6, <1>7, StepKinds DEF Loud

(* Nothing is owed at the start. *)
LEMMA CountsInit == ASSUME Init PROVE JobsInv /\ TakenInv
<1>. SUFFICES ASSUME NEW e \in Events
              PROVE  /\ IsFiniteSet(OpenJobs(e)) /\ effects[e] + Cardinality(OpenJobs(e)) <= tries[e]
                     /\ IsFiniteSet(Taken(e)) /\ tries[e] + Cardinality(Taken(e)) <= deliveries[e]
  BY DEF JobsInv, TakenInv
<1>1. OpenJobs(e) = {} /\ Taken(e) = {}
  BY DEF Init, OpenJobs, Taken, Early
<1>2. effects[e] = 0 /\ tries[e] = 0 /\ deliveries[e] = 0
  BY DEF Init
<1>. HIDE DEF OpenJobs, Taken
<1>. QED
  BY <1>1, <1>2, FS_EmptySet

(* The handler is called at most once for every attempt, and an attempt is made at most *)
(* once for every delivery, for any number of consumers, crashes and timeouts           *)
(* (_process_message, _process_event).                                                  *)
THEOREM CallsCounted == Spec => []OneCallPerDelivery
<1>1. Init => JobsInv /\ TakenInv
  BY CountsInit
<1>2. TypeOK /\ TypeOK' /\ JobsInv /\ TakenInv /\ [Next]_vars => JobsInv' /\ TakenInv'
  BY JobsStep, TakenStep
<1>3. TypeOK /\ JobsInv /\ TakenInv => OneCallPerDelivery
  <2>. SUFFICES ASSUME TypeOK, JobsInv, TakenInv, NEW e \in Events
                PROVE  effects[e] <= tries[e] /\ tries[e] <= deliveries[e]
    BY DEF OneCallPerDelivery
  <2>1. /\ IsFiniteSet(OpenJobs(e)) /\ effects[e] + Cardinality(OpenJobs(e)) <= tries[e]
        /\ IsFiniteSet(Taken(e)) /\ tries[e] + Cardinality(Taken(e)) <= deliveries[e]
    BY DEF JobsInv, TakenInv
  <2>2. Cardinality(OpenJobs(e)) \in Nat /\ Cardinality(Taken(e)) \in Nat
    BY <2>1, FS_CardinalityType
  <2>3. effects[e] \in Nat /\ tries[e] \in Nat /\ deliveries[e] \in Nat
    BY DEF TypeOK
  <2>. HIDE DEF OpenJobs, Taken
  <2>. QED
    BY <2>1, <2>2, <2>3
<1>. QED
  BY <1>1, <1>2, <1>3, TypeCorrect, PTL DEF Spec

-----------------------------------------------------------------------------
(* One consumer process and no operator: the row of a given-up event keeps the whole    *)
(* budget of attempts, and the thread's instance is not older than the row, which is   *)
(* not completed.                                                                      *)
RowsInv ==
  /\ \A e \in Events : status[e] \in GivenUp => attempts[e] >= MaxRetries
  /\ \A c \in Consumers :
       Working(c) => status[cur[c]] # "completed" /\ memAttempts[c] >= attempts[cur[c]]

(* The consumer's own steps keep the row's count up to date. *)
LEMMA RowsStep ==
  ASSUME Alone, TypeOK, TypeOK', RowsInv, [Next]_vars
  PROVE  RowsInv'
<1>0. /\ attempts \in [Events -> Nat] /\ memAttempts \in [Consumers -> Nat]
      /\ DOMAIN status = Events /\ DOMAIN pc = Consumers
      /\ \A d \in Consumers : pc[d] \in {"lookup", "begin", "running", "settle"} => cur[d] \in Events
  BY DEF TypeOK
<1>1. CASE Quiet
  BY <1>0, <1>1 DEF Quiet, RowsInv, Working
<1>2. ASSUME NEW c \in Consumers, Claim(c)
      PROVE  RowsInv'
  BY <1>0, <1>2 DEF Claim, AlreadyProcessed, RowsInv, Working, Alone, GivenUp
<1>3. ASSUME NEW c \in Consumers, StartAttempt(c)
      PROVE  RowsInv'
  BY <1>0, <1>3 DEF StartAttempt, SaveProcessor, RowsInv, Working, Alone, GivenUp
<1>4. ASSUME NEW c \in Consumers, StartAttemptFails(c)
      PROVE  RowsInv'
  BY <1>0, <1>4 DEF StartAttemptFails, RowsInv, Working, Alone, rowVars
<1>5. ASSUME NEW c \in Consumers, SubmitRefused(c)
      PROVE  RowsInv'
  BY <1>0, <1>5 DEF SubmitRefused, SaveProcessor, RowsInv, Working, Alone, GivenUp
<1>6. ASSUME NEW c \in Consumers, Complete(c)
      PROVE  RowsInv'
  BY <1>0, <1>6 DEF Complete, ResultReady, SaveProcessor, Return, RowsInv, Working, Alone, GivenUp
<1>7. ASSUME NEW c \in Consumers, ScheduleRetry(c)
      PROVE  RowsInv'
  BY <1>0, <1>7 DEF ScheduleRetry, SaveProcessor, Return, RowsInv, Working, Alone, GivenUp
<1>8. ASSUME NEW c \in Consumers, GiveUp(c)
      PROVE  RowsInv'
  <2>1. /\ \E s \in GivenUp : SaveProcessor(c, s, memAttempts[c])
        /\ memAttempts[c] >= MaxRetries /\ cur[c] \in Events
        /\ pc' = [pc EXCEPT ![c] = "idle"] /\ cur' = [cur EXCEPT ![c] = NoEvent]
    BY <1>0, <1>8, LimitsAssumption DEF GiveUp, GivenUp, ShouldRetry, Return
  <2>. QED
    BY <1>0, <2>1 DEF SaveProcessor, RowsInv, Working, Alone, GivenUp
<1>9. ASSUME NEW c \in Consumers, ProcessExits(c)
      PROVE  RowsInv'
  BY <1>0, <1>9 DEF ProcessExits, RowsInv, Working, Alone, rowVars
<1>10. ASSUME NEW c \in Consumers, Crash(c)
      PROVE  RowsInv'
  BY <1>0, <1>10 DEF Crash, RowsInv, Working, Alone, rowVars
<1>11. ASSUME NEW c \in Consumers, NEW i \in DOMAIN futures[c],
              StartHandler(c, i) \/ HandlerReturns(c, i) \/ HandlerRaises(c, i)
       PROVE  RowsInv'
  BY <1>0, <1>11 DEF StartHandler, HandlerReturns, HandlerRaises, RowsInv, Working, rowVars
<1>12. ASSUME NEW c \in Consumers, NEW e \in Events, Deliver(c, e)
       PROVE  RowsInv'
  BY <1>0, <1>12 DEF Deliver, RowsInv, Working, rowVars
<1>13. ASSUME NEW c \in Consumers, SettleFails(c)
       PROVE  RowsInv'
  BY <1>0, <1>13 DEF SettleFails, Requeue, RowsInv, Working, Alone, rowVars
<1>. QED
  BY <1>1, <1>2, <1>3, <1>4, <1>5, <1>6, <1>7, <1>8, <1>9, <1>10, <1>11, <1>12, <1>13, StepKinds
  DEF Loud, Pool, Alone

(* With one consumer and no operator, a completed event is never attempted again and    *)
(* its row never changes (the status check of _process_message).                       *)
THEOREM CompletedStays == ASSUME Alone PROVE Spec => CompletedIsFinal
<1>1. Init => RowsInv
  BY DEF Init, RowsInv, Working, GivenUp
<1>2. TypeOK /\ TypeOK' /\ RowsInv /\ [Next]_vars => RowsInv'
  BY RowsStep
<1>3. ASSUME TypeOK, RowsInv, [Next]_vars, NEW e \in Events, status[e] = "completed"
      PROVE  status'[e] = "completed" /\ tries'[e] = tries[e]
  <2>1. CASE Quiet
    BY <1>3, <2>1 DEF Quiet
  <2>2. ASSUME NEW c \in Consumers, Loud(c)
        PROVE  status'[e] = "completed" /\ tries'[e] = tries[e]
    <3>1. CASE Claim(c)
      BY <1>3, <3>1 DEF Claim, TypeOK
    <3>2. CASE Working(c) /\ cur[c] # e
      BY <1>3, <2>2, <3>2 DEF Loud, Claim, StartAttempt, StartAttemptFails, SubmitRefused, Complete,
           Deliver, SettleFails, ScheduleRetry, GiveUp, ProcessExits, Crash, Pool, StartHandler, HandlerReturns,
           HandlerRaises, SaveProcessor, Working, TypeOK, rowVars
    <3>3. CASE ~Working(c)
      BY <1>3, <2>2, <3>1, <3>3 DEF Loud, StartAttempt, StartAttemptFails, SubmitRefused, Complete,
           ResultReady, Deliver, SettleFails, ScheduleRetry, GiveUp, ProcessExits, Crash, Pool, StartHandler,
           HandlerReturns, HandlerRaises, Working, rowVars
    <3>. QED
      BY <1>3, <3>1, <3>2, <3>3 DEF RowsInv
  <2>. QED
    BY <1>3, <2>1, <2>2, StepKinds DEF Alone
<1>4. TypeOK /\ RowsInv /\ [Next]_vars =>
        [\A e \in Events : status[e] = "completed" =>
           status'[e] = "completed" /\ tries'[e] = tries[e]]_vars
  BY <1>3
<1>. QED
  BY <1>1, <1>2, <1>4, TypeCorrect, PTL DEF Spec, CompletedIsFinal

-----------------------------------------------------------------------------
(* A job that runs leaves room for its call to return, and a message taken up for an    *)
(* attempt with it.                                                                     *)
LEMMA RoomToReturn ==
  ASSUME TypeOK, JobsInv, NEW c \in Consumers, NEW i \in Running(c)
  PROVE  futures[c][i].ev \in Events /\ effects[futures[c][i].ev] < tries[futures[c][i].ev]
<1>1. futures[c] \in Seq(Job) /\ i \in DOMAIN futures[c]
  BY DEF TypeOK, Running
<1>2. futures[c][i] \in Job /\ i \in Nat
  BY <1>1
<1>. DEFINE e == futures[c][i].ev
<1>3. e \in Events
  BY <1>2 DEF Job
<1>4. <<c, i>> \in OpenJobs(e)
  BY <1>1, <1>2 DEF OpenJobs, Running
<1>5. /\ IsFiniteSet(OpenJobs(e)) /\ effects[e] + Cardinality(OpenJobs(e)) <= tries[e]
      /\ effects[e] \in Nat /\ tries[e] \in Nat
  BY <1>3 DEF JobsInv, TypeOK
<1>. HIDE DEF OpenJobs, e
<1>6. Cardinality(OpenJobs(e)) # 0 /\ Cardinality(OpenJobs(e)) \in Nat
  BY <1>4, <1>5, FS_EmptySet, FS_CardinalityType
<1>7. effects[e] < tries[e]
  BY <1>5, <1>6
<1>. QED
  BY <1>3, <1>7 DEF e

LEMMA RoomToBegin ==
  ASSUME TypeOK, TakenInv, NEW c \in Consumers, pc[c] = "begin"
  PROVE  cur[c] \in Events /\ tries[cur[c]] < deliveries[cur[c]]
<1>. DEFINE e == cur[c]
<1>1. e \in Events /\ c \in Taken(e)
  BY DEF TypeOK, Taken, Early
<1>2. /\ IsFiniteSet(Taken(e)) /\ tries[e] + Cardinality(Taken(e)) <= deliveries[e]
      /\ tries[e] \in Nat /\ deliveries[e] \in Nat
  BY <1>1 DEF TakenInv, TypeOK
<1>. HIDE DEF Taken, e
<1>3. Cardinality(Taken(e)) # 0 /\ Cardinality(Taken(e)) \in Nat
  BY <1>1, <1>2, FS_EmptySet, FS_CardinalityType
<1>4. tries[e] < deliveries[e]
  BY <1>2, <1>3
<1>. QED
  BY <1>1, <1>4 DEF e

(* What the refinement rests on. *)
DeliveryInv ==
  /\ TypeOK /\ BudgetInv /\ HandledInv /\ JobsInv /\ TakenInv
  /\ Alone => RowsInv

(* The verdict a thread is about to write may be changed. *)
LEMMA MayChange ==
  ASSUME DeliveryInv, NEW c \in Consumers, Working(c)
  PROVE  Delivery!Changeable(cur[c])
<1>1. Alone => status[cur[c]] # "completed"
  BY DEF DeliveryInv, RowsInv
<1>2. cur[c] \in Events
  BY DEF DeliveryInv, TypeOK, Working
<1>. QED
  BY <1>1, <1>2 DEF Delivery!Changeable, Verdict, GivenUp

(* Past ShouldRetry the whole budget of attempts has been begun. *)
LEMMA BudgetSpent ==
  ASSUME DeliveryInv, NEW c \in Consumers, pc[c] = "settle", ~ShouldRetry(memAttempts[c])
  PROVE  tries[cur[c]] >= MaxRetries
<1>1. memAttempts[c] \in Nat /\ cur[c] \in Events /\ tries[cur[c]] \in Nat
  BY DEF DeliveryInv, TypeOK
<1>2. memAttempts[c] <= tries[cur[c]]
  BY DEF DeliveryInv, BudgetInv, AttemptsCounted
<1>. QED
  BY <1>1, <1>2, LimitsAssumption DEF ShouldRetry

(* Every step of the detailed system is a step of EventDelivery, or leaves what it says *)
(* of the events as it was.                                                             *)
LEMMA DeliveryStep ==
  ASSUME DeliveryInv, TypeOK', [Next]_vars
  PROVE  [Delivery!Next]_(Delivery!vars)
<1>. DEFINE verdict == [e \in Events |-> Verdict(status[e])]
<1>0. /\ DOMAIN status = Events /\ DOMAIN status' = Events
      /\ \A d \in Consumers :
           pc[d] \in {"lookup", "create", "begin", "running", "settle"} => cur[d] \in Events
  BY DEF DeliveryInv, TypeOK
<1>a. /\ Verdict("pending") = "open" /\ Verdict("processing") = "open"
      /\ Verdict("completed") = "done" /\ \A s \in GivenUp : Verdict(s) = "givenup"
  BY DEF Verdict, GivenUp
<1>b. ASSUME NEW e \in Events, NEW s, status' = [status EXCEPT ![e] = s]
      PROVE  verdict' = [verdict EXCEPT ![e] = Verdict(s)]
  BY <1>0, <1>b
<1>1. ASSUME UNCHANGED <<tries, effects, deliveries, deadLetters>>,
             \A e \in Events : Verdict(status'[e]) = Verdict(status[e])
      PROVE  UNCHANGED Delivery!vars
  BY <1>1 DEF Delivery!vars
<1>2. CASE Quiet
  BY <1>1, <1>2 DEF Quiet
<1>3. ASSUME NEW c \in Consumers, NEW e \in Events, Deliver(c, e)
      PROVE  Delivery!Next
  BY <1>3 DEF Deliver, Delivery!Deliver, Delivery!Next, rowVars
<1>4. ASSUME NEW c \in Consumers, Claim(c)
      PROVE  UNCHANGED Delivery!vars
  BY <1>0, <1>1, <1>4 DEF Claim, Verdict, GivenUp, queueVars
<1>5. ASSUME NEW c \in Consumers, StartAttempt(c) \/ SubmitRefused(c) \/ StartAttemptFails(c)
      PROVE  Delivery!Next
  <2>1. /\ UNCHANGED <<effects, deliveries, deadLetters>>
        /\ tries' = [tries EXCEPT ![cur[c]] = @ + 1]
        /\ status' \in {status, [status EXCEPT ![cur[c]] = "processing"]}
        /\ pc[c] = "begin"
    BY <1>5 DEF StartAttempt, SubmitRefused, StartAttemptFails, SaveProcessor, queueVars, rowVars
  <2>2. cur[c] \in Events /\ tries[cur[c]] < deliveries[cur[c]]
    BY <2>1, RoomToBegin DEF DeliveryInv
  <2>3. Delivery!Changeable(cur[c])
    BY <2>1, MayChange DEF Working
  <2>4. verdict' \in {verdict, [verdict EXCEPT ![cur[c]] = "open"]}
    BY <1>a, <1>b, <2>1, <2>2
  <2>5. Delivery!Begin(cur[c])
    BY <2>1, <2>2, <2>3, <2>4 DEF Delivery!Begin
  <2>. QED
    BY <2>2, <2>5 DEF Delivery!Next
<1>6. ASSUME NEW c \in Consumers, Complete(c)
      PROVE  Delivery!Next
  <2>1. /\ cur[c] \in Events /\ UNCHANGED <<tries, effects, deliveries, deadLetters>>
        /\ status' = [status EXCEPT ![cur[c]] = "completed"]
    BY <1>0, <1>6 DEF Complete, ResultReady, SaveProcessor, Return, queueVars
  <2>2. effects[cur[c]] > 0
    <3>1. futures[c] \in Seq(Job) /\ futures[c] # <<>>
      BY <1>6 DEF Complete, ResultReady, DeliveryInv, HandledInv, FuturesTruthful, TypeOK
    <3>2. Len(futures[c]) \in DOMAIN futures[c]
      BY <3>1
    <3>. QED
      BY <1>6, <3>2 DEF Complete, ResultReady, DeliveryInv, HandledInv, FuturesTruthful, Future
  <2>3. verdict' = [verdict EXCEPT ![cur[c]] = "done"]
    BY <1>a, <1>b, <2>1
  <2>4. Delivery!Done(cur[c])
    BY <2>1, <2>2, <2>3 DEF Delivery!Done
  <2>. QED
    BY <2>1, <2>4 DEF Delivery!Next
<1>7. ASSUME NEW c \in Consumers, ScheduleRetry(c)
      PROVE  [Delivery!Next]_(Delivery!vars)
  <2>1. /\ cur[c] \in Events /\ UNCHANGED <<tries, effects, deliveries, deadLetters>>
        /\ status' = [status EXCEPT ![cur[c]] = "pending"]
        /\ pc[c] = "settle" /\ memAttempts[c] < MaxRetries
    BY <1>0, <1>7 DEF ScheduleRetry, ShouldRetry, SaveProcessor, Return, queueVars
  <2>2. CASE Alone
    <3>1. Verdict(status[cur[c]]) = "open"
      <4>1. /\ attempts[cur[c]] \in Nat /\ memAttempts[c] \in Nat
            /\ status[cur[c]] # "completed" /\ memAttempts[c] >= attempts[cur[c]]
            /\ status[cur[c]] \in GivenUp => attempts[cur[c]] >= MaxRetries
        BY <2>1, <2>2 DEF DeliveryInv, TypeOK, RowsInv, Working
      <4>2. status[cur[c]] \notin GivenUp
        BY <2>1, <4>1, LimitsAssumption
      <4>. QED
        BY <4>1, <4>2 DEF Verdict
    <3>. QED
      BY <1>0, <1>1, <1>a, <2>1, <3>1
  <2>3. CASE ~Alone
    <3>1. verdict' = [verdict EXCEPT ![cur[c]] = Verdict("pending")]
      BY <1>b, <2>1
    <3>2. Delivery!Reopen(cur[c])
      BY <1>a, <2>1, <2>3, <3>1 DEF Delivery!Reopen
    <3>. QED
      BY <2>1, <3>2 DEF Delivery!Next
  <2>. QED
    BY <2>2, <2>3
<1>8. ASSUME NEW c \in Consumers, GiveUp(c) \/ SettleFails(c)
      PROVE  [Delivery!Next]_(Delivery!vars)
  <2>1. /\ cur[c] \in Events /\ UNCHANGED <<tries, effects, deliveries>> /\ pc[c] = "settle"
        /\ status' = status \/ \E s \in GivenUp : status' = [status EXCEPT ![cur[c]] = s]
    BY <1>0, <1>8
       DEF GiveUp, SettleFails, SaveProcessor, GivenUp, Return, Requeue, queueVars, rowVars
  <2>2. verdict' \in {verdict, [verdict EXCEPT ![cur[c]] = "givenup"]}
    BY <1>a, <1>b, <2>1
  <2>3. CASE ShouldRetry(memAttempts[c])
    BY <1>1, <1>8, <2>1, <2>3 DEF GiveUp, SettleFails, rowVars
  <2>4. CASE ~ShouldRetry(memAttempts[c])
    <3>1. tries[cur[c]] >= MaxRetries /\ Delivery!Changeable(cur[c])
      BY <2>1, <2>4, BudgetSpent, MayChange DEF Working
    <3>2. deadLetters' \in {deadLetters, [deadLetters EXCEPT ![cur[c]] = @ + 1]}
      BY <1>8 DEF GiveUp, SettleFails, SendToDeadLetter
    <3>3. Delivery!GiveUp(cur[c])
      BY <2>1, <2>2, <3>1, <3>2 DEF Delivery!GiveUp
    <3>. QED
      BY <2>1, <3>3 DEF Delivery!Next
  <2>. QED
    BY <2>3, <2>4
<1>9. ASSUME NEW c \in Consumers, NEW i \in DOMAIN futures[c], HandlerReturns(c, i)
      PROVE  Delivery!Next
  <2>1. futures[c][i].ev \in Events /\ effects[futures[c][i].ev] < tries[futures[c][i].ev]
    BY <1>9, RoomToReturn DEF HandlerReturns, DeliveryInv
  <2>2. Delivery!Handle(futures[c][i].ev)
    BY <1>9, <2>1 DEF HandlerReturns, rowVars, queueVars, Delivery!Handle
  <2>. QED
    BY <2>1, <2>2 DEF Delivery!Next
<1>10. ASSUME NEW c \in Consumers,
              \/ ProcessExits(c) \/ Crash(c)
              \/ \E i \in DOMAIN futures[c] : StartHandler(c, i) \/ HandlerRaises(c, i)
       PROVE  UNCHANGED Delivery!vars
  BY <1>1, <1>10 DEF ProcessExits, Crash, StartHandler, HandlerRaises, rowVars, queueVars
<1>11. ASSUME NEW o \in Operators, RetrySaves(o)
       PROVE  [Delivery!Next]_(Delivery!vars)
  <2>1. view[o].ev \in Events \/ view[o].ev = NoEvent
    BY DEF DeliveryInv, TypeOK
  <2>2. /\ UNCHANGED <<tries, effects, deliveries, deadLetters>> /\ ~Alone
        /\ status' = [status EXCEPT ![view[o].ev] = "pending"]
    BY <1>11 DEF RetrySaves, queueVars, Alone
  <2>3. CASE view[o].ev \in Events
    <3>1. verdict' = [verdict EXCEPT ![view[o].ev] = "open"]
      BY <1>a, <1>b, <2>2, <2>3
    <3>2. Delivery!Reopen(view[o].ev)
      BY <2>2, <3>1 DEF Delivery!Reopen
    <3>. QED
      BY <2>3, <3>2 DEF Delivery!Next
  <2>4. CASE view[o].ev \notin Events
    <3>1. status' = status
      BY <2>2, <2>4 DEF DeliveryInv, TypeOK
    <3>. QED
      BY <1>1, <2>2, <3>1
  <2>. QED
    BY <2>3, <2>4
<1>12. ASSUME NEW c \in Consumers, Loud(c)
       PROVE  [Delivery!Next]_(Delivery!vars)
  BY <1>3, <1>4, <1>5, <1>6, <1>7, <1>8, <1>9, <1>10, <1>12 DEF Loud, Pool
<1>. QED
  BY <1>2, <1>11, <1>12, StepKinds DEF DeliveryInv

(* The subscription keeps the promise of EventDelivery, for any number of consumers and *)
(* operators and whatever fails: deliveries, attempts, late handler calls, dead letters *)
(* and verdicts, seen through the processor rows.                                       *)
THEOREM DeliveryKept == Spec => ImplementsDelivery
<1>1. Init => DeliveryInv
  <2>1. Init => TypeOK
    BY DEF Init, TypeOK, NoView
  <2>2. Init => BudgetInv /\ HandledInv /\ RowsInv
    BY DEF Init, BudgetInv, AttemptsCounted, GivenUpOnlyAfterBudget, DeadLetterJustified,
           GivenUp, NoView, HandledInv, FuturesTruthful, CompletedMeansHandled, RowsInv, Working
  <2>. QED
    BY <2>1, <2>2, CountsInit DEF DeliveryInv
<1>2. DeliveryInv /\ [Next]_vars => DeliveryInv' /\ TypeOK'
  <2>. SUFFICES ASSUME DeliveryInv, [Next]_vars
                PROVE  DeliveryInv'
    BY DEF DeliveryInv
  <2>1. TypeOK'
    BY TypeStep DEF DeliveryInv
  <2>2. BudgetInv' /\ HandledInv' /\ JobsInv' /\ TakenInv'
    BY <2>1, BudgetStep, HandledStep, JobsStep, TakenStep DEF DeliveryInv
  <2>3. Alone => RowsInv'
    BY <2>1, RowsStep DEF DeliveryInv
  <2>. QED
    BY <2>1, <2>2, <2>3 DEF DeliveryInv, Alone
<1>3. Init => Delivery!Init
  BY DEF Init, Delivery!Init, Verdict, GivenUp
<1>4. DeliveryInv /\ TypeOK' /\ [Next]_vars => [Delivery!Next]_(Delivery!vars)
  BY DeliveryStep
<1>. QED
  BY <1>1, <1>2, <1>3, <1>4, PTL DEF Spec, ImplementsDelivery, Delivery!Spec
=============================================================================
