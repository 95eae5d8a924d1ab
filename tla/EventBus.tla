------------------------------ MODULE EventBus ------------------------------
(***************************************************************************)
(* platform_core/events with a RabbitMQ broker: EventPublisher.publish and *)
(* its database transaction, the queue of ONE subscription, the consumer   *)
(* processes that subscribe to it (EventConsumer), the thread pool each of *)
(* them runs the handler in, the events_processors rows they share, and    *)
(* the operator's "retry" endpoint.                                        *)
(*                                                                         *)
(* Every step between two accesses to shared state is one action: a        *)
(* message received and the event row read, the row inserted, the          *)
(* processor row loaded, an attempt recorded, the handler's future         *)
(* resolved, the outcome saved.  A Django processor.save() writes the      *)
(* whole row from the instance in memory.                                  *)
(***************************************************************************)
EXTENDS Naturals, Sequences, FiniteSets

CONSTANTS
  Events,           \* one identifier per call of publish()
  Matching,         \* the events whose type and filter the subscription wants
  Consumers,        \* processes that run a consumer of the subscription
  Operators,        \* staff who call EventProcessorViewSet.retry
  MaxRetries,       \* EventSubscription.max_retries
  Workers,          \* EventSubscription.concurrent_workers
  Prefetch,         \* EVENT_BROKER['prefetch_count']
  DeadLetterQueue,  \* is EventSubscription.dead_letter_queue set?
  Faults,           \* the kinds of fault that may happen
  MaxFaults,        \* bound: faults in a behaviour
  MaxDeliveries,    \* bound: deliveries of one message
  NoEvent

ASSUME EventsAssumption == Matching \subseteq Events /\ NoEvent \notin Events
ASSUME LimitsAssumption ==
  /\ MaxRetries \in Nat /\ Workers \in Nat /\ Prefetch \in Nat
  /\ MaxFaults \in Nat /\ MaxDeliveries \in Nat
  /\ DeadLetterQueue \in BOOLEAN
  /\ Faults \subseteq {"db", "handler_import", "connection", "shutdown", "crash",
                  "expiry"}

VARIABLES
  publication,  \* where publish(e) is
  eventRow,     \* status of the committed events_store row, or "absent"
  queue,        \* messages ready in the subscription's queue
  expired,      \* messages that left the queue at the end of x-message-ttl
  unacked,      \* messages delivered to a consumer and not acknowledged
  deadLetters,  \* number of copies sent to the dead letter queue
  link,         \* the consumer's broker connection: "up", "lost" (the broker has
                \* closed it), or what stop() left: "closed" or, if lost, "abandoned"
  pc,           \* where the consumer's thread is
  cur,          \* the message in _process_message
  memAttempts,  \* processor.attempts of the instance in the thread's memory
  futures,      \* the jobs submitted to the consumer's ThreadPoolExecutor
  status,       \* EventProcessor.status, "absent" while there is no row
  attempts,     \* EventProcessor.attempts
  view,         \* the instance an operator's retry request has loaded
  faults, deliveries,  \* counters for the bounds
  tries,        \* history: attempts begun (attempts += 1 executed)
  effects       \* history: handler calls that returned normally

busVars   == <<publication, eventRow>>
queueVars == <<queue, expired, unacked, link, deliveries>>
rowVars   == <<status, attempts>>
vars == <<publication, eventRow, queue, expired, unacked, deadLetters, link, pc, cur,
          memAttempts, futures, status, attempts, view, faults, deliveries,
          tries, effects>>

Stopping == {"closed", "abandoned"}

Job == [ev : Events, st : {"queued", "running", "ok", "error"}]

TypeOK ==
  /\ publication \in [Events -> {"new", "sent", "committed", "rejected", "rolledback"}]
  /\ eventRow \in [Events -> {"absent", "published", "failed"}]
  /\ queue \in SUBSET Events
  /\ expired \in SUBSET Events
  /\ unacked \in [Consumers -> SUBSET Events]
  /\ deadLetters \in [Events -> Nat]
  /\ link \in [Consumers -> {"up", "lost", "closed", "abandoned"}]
  /\ pc \in [Consumers -> {"idle", "lookup", "create", "begin", "running",
                           "settle", "exited", "down"}]
  /\ cur \in [Consumers -> Events \cup {NoEvent}]
  /\ \A c \in Consumers :
       pc[c] \in {"lookup", "create", "begin", "running", "settle"} => cur[c] \in Events
  /\ memAttempts \in [Consumers -> Nat]
  /\ futures \in [Consumers -> Seq(Job)]
  /\ status \in [Events -> {"absent", "pending", "processing", "completed",
                            "failed", "dead_lettered"}]
  /\ attempts \in [Events -> Nat]
  /\ view \in [Operators -> [ev : Events \cup {NoEvent}, attempts : Nat]]
  /\ faults \in Nat
  /\ deliveries \in [Events -> Nat]
  /\ tries \in [Events -> Nat]
  /\ effects \in [Events -> Nat]

NoView == [ev |-> NoEvent, attempts |-> 0]

Init ==
  /\ publication = [e \in Events |-> "new"]
  /\ eventRow = [e \in Events |-> "absent"]
  /\ queue = {}
  /\ expired = {}
  /\ unacked = [c \in Consumers |-> {}]
  /\ deadLetters = [e \in Events |-> 0]
  /\ link = [c \in Consumers |-> "up"]
  /\ pc = [c \in Consumers |-> "idle"]
  /\ cur = [c \in Consumers |-> NoEvent]
  /\ memAttempts = [c \in Consumers |-> 0]
  /\ futures = [c \in Consumers |-> <<>>]
  /\ status = [e \in Events |-> "absent"]
  /\ attempts = [e \in Events |-> 0]
  /\ view = [o \in Operators |-> NoView]
  /\ faults = 0
  /\ deliveries = [e \in Events |-> 0]
  /\ tries = [e \in Events |-> 0]
  /\ effects = [e \in Events |-> 0]

(* A fault of the given kind happens, if the run allows one more. *)
Fault(kind) == kind \in Faults /\ faults < MaxFaults /\ faults' = faults + 1

-----------------------------------------------------------------------------
(* EventPublisher.publish: one database transaction around the broker call. *)

(* The row is inserted, the broker takes the message and mark_published runs, *)
(* all before the commit: the row is still invisible to everyone else.        *)
PublishAccepted(e) ==
  /\ publication[e] = "new"
  /\ publication' = [publication EXCEPT ![e] = "sent"]
  /\ queue' = queue \cup {e}
  /\ UNCHANGED <<eventRow, expired, unacked, link, deliveries, deadLetters, pc, cur,
                 memAttempts, futures, rowVars, view, faults, tries, effects>>

(* The committed row after the broker refused the message: mark_failed writes *)
(* 'failed', and the exception raised out of the atomic block undoes it.      *)
RowAfterRefusal == "absent"

PublishRejected(e) ==
  /\ publication[e] = "new"
  /\ publication' = [publication EXCEPT ![e] = "rejected"]
  /\ eventRow' = [eventRow EXCEPT ![e] = RowAfterRefusal]
  /\ UNCHANGED <<queueVars, deadLetters, pc, cur, memAttempts, futures, rowVars,
                 view, faults, tries, effects>>

PublishCommit(e) ==
  /\ publication[e] = "sent"
  /\ publication' = [publication EXCEPT ![e] = "committed"]
  /\ eventRow' = [eventRow EXCEPT ![e] = "published"]
  /\ UNCHANGED <<queueVars, deadLetters, pc, cur, memAttempts, futures, rowVars,
                 view, faults, tries, effects>>

(* The transaction fails after the broker has the message: it stays sent. *)
PublishRollback(e) ==
  /\ publication[e] = "sent"
  /\ Fault("db")
  /\ publication' = [publication EXCEPT ![e] = "rolledback"]
  /\ UNCHANGED <<eventRow, queueVars, deadLetters, pc, cur, memAttempts, futures,
                 rowVars, view, tries, effects>>

(* create_queue declares x-message-ttl: a message that is ready for that long goes to *)
(* the dead letter exchange, which nobody declares and no queue is bound to.          *)
Expire(e) ==
  /\ e \in queue
  /\ Fault("expiry")
  /\ queue' = queue \ {e}
  /\ expired' = expired \cup {e}
  /\ UNCHANGED <<busVars, unacked, link, deliveries, deadLetters, pc, cur, memAttempts,
                 futures, rowVars, view, tries, effects>>

-----------------------------------------------------------------------------
(* EventConsumer._process_message, inside RabbitMQBroker's callback.          *)

(* The callback returns: the wrapper sends no acknowledgement. *)
Return(c) ==
  /\ pc' = [pc EXCEPT ![c] = "idle"]
  /\ cur' = [cur EXCEPT ![c] = NoEvent]
  /\ UNCHANGED queueVars

(* Mutant: basic_nack without requeue drops the message. *)
Requeue_Drops(c) ==
  /\ cur' = [cur EXCEPT ![c] = NoEvent]
  /\ pc' = [pc EXCEPT ![c] = IF link[c] = "up" THEN "idle" ELSE "exited"]
  /\ unacked' = [unacked EXCEPT ![c] = @ \ {cur[c]}]
  /\ UNCHANGED <<queue, expired, link, deliveries>>

(* Mutant: the thread carries on with the message it has put back. *)
Requeue_KeepsWorking(c) ==
  /\ cur' = [cur EXCEPT ![c] = NoEvent]
  /\ queue' = queue \cup {cur[c]}
  /\ unacked' = [unacked EXCEPT ![c] = @ \ {cur[c]}]
  /\ UNCHANGED <<pc, expired, link, deliveries>>

(* The callback raises: basic_nack with requeue, or, when the channel is gone, *)
(* an exception that ends start_consuming and the consumer's thread.           *)
Requeue(c) ==
  /\ cur' = [cur EXCEPT ![c] = NoEvent]
  /\ \/ /\ link[c] = "up"
        /\ pc' = [pc EXCEPT ![c] = "idle"]
        /\ queue' = queue \cup {cur[c]}
        /\ unacked' = [unacked EXCEPT ![c] = @ \ {cur[c]}]
     \/ /\ link[c] # "up"
        /\ pc' = [pc EXCEPT ![c] = "exited"]
        /\ UNCHANGED <<queue, unacked>>
  /\ UNCHANGED <<expired, link, deliveries>>

(* The broker hands a ready message to a consumer below its prefetch count. *)
Deliver(c, e) ==
  /\ pc[c] = "idle" /\ link[c] = "up"
  /\ e \in queue
  /\ Cardinality(unacked[c]) < Prefetch
  /\ deliveries[e] < MaxDeliveries
  /\ queue' = queue \ {e}
  /\ unacked' = [unacked EXCEPT ![c] = @ \cup {e}]
  /\ deliveries' = [deliveries EXCEPT ![e] = @ + 1]
  /\ pc' = [pc EXCEPT ![c] = "lookup"]
  /\ cur' = [cur EXCEPT ![c] = e]
  /\ UNCHANGED <<busVars, expired, link, deadLetters, memAttempts, futures, rowVars, view,
                 faults, tries, effects>>

Ignore(c) ==
  /\ pc[c] = "lookup" /\ cur[c] \notin Matching
  /\ Return(c)
  /\ UNCHANGED <<busVars, deadLetters, memAttempts, futures, rowVars, view, faults,
                 tries, effects>>

EventMissing(c) ==
  /\ pc[c] = "lookup" /\ cur[c] \in Matching
  /\ eventRow[cur[c]] = "absent"
  /\ pc' = [pc EXCEPT ![c] = "create"]
  /\ UNCHANGED <<busVars, queueVars, deadLetters, cur, memAttempts, futures, rowVars,
                 view, faults, tries, effects>>

(* The INSERT waits for a publisher that has not committed the same event_id. *)
InsertNotBlocked(e) == publication[e] # "sent"

CreateEvent(c) ==
  /\ pc[c] = "create" /\ InsertNotBlocked(cur[c])
  /\ eventRow[cur[c]] = "absent"
  /\ eventRow' = [eventRow EXCEPT ![cur[c]] = "published"]
  /\ pc' = [pc EXCEPT ![c] = "lookup"]
  /\ UNCHANGED <<publication, queueVars, deadLetters, cur, memAttempts, futures,
                 rowVars, view, faults, tries, effects>>

(* Somebody else inserted the row since it was looked up: IntegrityError. *)
CreateConflict(c) ==
  /\ pc[c] = "create" /\ InsertNotBlocked(cur[c])
  /\ eventRow[cur[c]] # "absent"
  /\ Requeue(c)
  /\ UNCHANGED <<busVars, deadLetters, memAttempts, futures, rowVars, view, faults,
                 tries, effects>>

LookupFails(c) ==
  /\ pc[c] \in {"lookup", "create"} /\ cur[c] \in Matching
  /\ Fault("db")
  /\ Requeue(c)
  /\ UNCHANGED <<busVars, deadLetters, memAttempts, futures, rowVars, view, tries,
                 effects>>

AlreadyProcessed_Never(s) == s = "skipped"   \* mutant: 'completed' forgotten

AlreadyProcessed(s) == s = "completed"

SkipProcessed(c) ==
  /\ pc[c] = "lookup" /\ cur[c] \in Matching
  /\ eventRow[cur[c]] # "absent"
  /\ AlreadyProcessed(status[cur[c]])
  /\ Return(c)
  /\ UNCHANGED <<busVars, deadLetters, memAttempts, futures, rowVars, view, faults,
                 tries, effects>>

(* get_or_create of the processor row, and the status check on its instance. *)
Claim(c) ==
  /\ pc[c] = "lookup" /\ cur[c] \in Matching
  /\ eventRow[cur[c]] # "absent"
  /\ ~AlreadyProcessed(status[cur[c]])
  /\ status' = [status EXCEPT ![cur[c]] = IF @ = "absent" THEN "pending" ELSE @]
  /\ memAttempts' = [memAttempts EXCEPT ![c] = attempts[cur[c]]]
  /\ pc' = [pc EXCEPT ![c] = "begin"]
  /\ UNCHANGED <<busVars, queueVars, deadLetters, cur, futures, attempts, view, faults,
                 tries, effects>>

-----------------------------------------------------------------------------
(* EventConsumer._process_event and the thread pool.                          *)

(* processor.save(): every column of the row comes from the instance. *)
SaveProcessor(c, s, n) ==
  /\ status' = [status EXCEPT ![cur[c]] = s]
  /\ attempts' = [attempts EXCEPT ![cur[c]] = n]

(* The handler cannot be imported; once it has been, it is cached. *)
HandlerMissing(c) ==
  /\ pc[c] = "begin" /\ futures[c] = <<>>
  /\ Fault("handler_import")
  /\ pc' = [pc EXCEPT ![c] = "settle"]
  /\ UNCHANGED <<busVars, queueVars, deadLetters, cur, memAttempts, futures, rowVars,
                 view, tries, effects>>

StartAttempt(c) ==
  /\ pc[c] = "begin"
  /\ memAttempts' = [memAttempts EXCEPT ![c] = @ + 1]
  /\ tries' = [tries EXCEPT ![cur[c]] = @ + 1]
  /\ SaveProcessor(c, "processing", memAttempts[c] + 1)
  /\ futures' = [futures EXCEPT ![c] = Append(@, [ev |-> cur[c], st |-> "queued"])]
  /\ pc' = [pc EXCEPT ![c] = "running"]
  /\ UNCHANGED <<busVars, queueVars, deadLetters, cur, view, faults, effects>>

(* The instance has counted the attempt, the save fails: nothing is submitted. *)
StartAttemptFails(c) ==
  /\ pc[c] = "begin"
  /\ Fault("db")
  /\ memAttempts' = [memAttempts EXCEPT ![c] = @ + 1]
  /\ tries' = [tries EXCEPT ![cur[c]] = @ + 1]
  /\ pc' = [pc EXCEPT ![c] = "settle"]
  /\ UNCHANGED <<busVars, queueVars, deadLetters, cur, futures, rowVars, view, effects>>

(* After stop() the pool takes no more jobs: submit() raises, the row is saved. *)
SubmitRefused(c) ==
  /\ pc[c] = "begin" /\ link[c] \in Stopping
  /\ memAttempts' = [memAttempts EXCEPT ![c] = @ + 1]
  /\ tries' = [tries EXCEPT ![cur[c]] = @ + 1]
  /\ SaveProcessor(c, "processing", memAttempts[c] + 1)
  /\ pc' = [pc EXCEPT ![c] = "settle"]
  /\ UNCHANGED <<busVars, queueVars, deadLetters, cur, futures, view, faults, effects>>

Running(c) == {i \in DOMAIN futures[c] : futures[c][i].st = "running"}
Waiting(c) == {i \in DOMAIN futures[c] : futures[c][i].st = "queued"}

(* A free worker takes the oldest job.  *)
StartHandler(c, i) ==
  /\ i \in Waiting(c) /\ \A j \in Waiting(c) : i <= j
  /\ Cardinality(Running(c)) < Workers
  /\ futures' = [futures EXCEPT ![c][i].st = "running"]
  /\ UNCHANGED <<busVars, queueVars, deadLetters, pc, cur, memAttempts, rowVars, view,
                 faults, tries, effects>>

HandlerReturns(c, i) ==
  /\ i \in Running(c)
  /\ futures' = [futures EXCEPT ![c][i].st = "ok"]
  /\ effects' = [effects EXCEPT ![futures[c][i].ev] = @ + 1]
  /\ UNCHANGED <<busVars, queueVars, deadLetters, pc, cur, memAttempts, rowVars, view,
                 faults, tries>>

HandlerRaises(c, i) ==
  /\ i \in Running(c)
  /\ futures' = [futures EXCEPT ![c][i].st = "error"]
  /\ UNCHANGED <<busVars, queueVars, deadLetters, pc, cur, memAttempts, rowVars, view,
                 faults, tries, effects>>

(* The future future.result() is waiting for. *)
Future(c) == futures[c][Len(futures[c])]

(* future.result(timeout=...) returns only for a handler that returned. *)
ResultReady(c) == pc[c] = "running" /\ Future(c).st = "ok"

Complete(c) ==
  /\ ResultReady(c)
  /\ SaveProcessor(c, "completed", memAttempts[c])
  /\ Return(c)
  /\ UNCHANGED <<busVars, deadLetters, memAttempts, futures, view, faults, tries,
                 effects>>

(* The save of 'completed' is inside the try block of the handler call. *)
CompleteFails(c) ==
  /\ ResultReady(c)
  /\ Fault("db")
  /\ pc' = [pc EXCEPT ![c] = "settle"]
  /\ UNCHANGED <<busVars, queueVars, deadLetters, cur, memAttempts, futures, rowVars,
                 view, tries, effects>>

NoResult_NoTimeout(c) == Future(c).st = "error"   \* mutant: result() without timeout

(* The handler raised, or future.result() timed out.  *)
NoResult(c) == Future(c).st \in {"queued", "running", "error"}

AttemptFails_Again(c) ==   \* mutant: the attempt is repeated at once
  /\ pc[c] = "running" /\ NoResult(c)
  /\ pc' = [pc EXCEPT ![c] = "begin"]
  /\ UNCHANGED <<busVars, queueVars, deadLetters, cur, memAttempts, futures, rowVars,
                 view, faults, tries, effects>>

(* The timeout does not cancel the job: it stays queued or running in the pool. *)
AttemptFails(c) ==
  /\ pc[c] = "running" /\ NoResult(c)
  /\ pc' = [pc EXCEPT ![c] = "settle"]
  /\ UNCHANGED <<busVars, queueVars, deadLetters, cur, memAttempts, futures, rowVars,
                 view, faults, tries, effects>>

-----------------------------------------------------------------------------
(* EventConsumer._handle_processing_error.                                    *)

ShouldRetry_OffByOne(n) == n + 1 < MaxRetries   \* mutant: one attempt too few

ShouldRetry(n) == n < MaxRetries

(* next_retry_at is written, and no code reads it. *)
ScheduleRetry(c) ==
  /\ pc[c] = "settle" /\ ShouldRetry(memAttempts[c])
  /\ SaveProcessor(c, "pending", memAttempts[c])
  /\ Return(c)
  /\ UNCHANGED <<busVars, deadLetters, memAttempts, futures, view, faults, tries,
                 effects>>

(* _send_to_dead_letter: a failed publish is logged or ignored.  The broker       *)
(* reconnects after disconnect(), and not after the server closed the connection. *)
SendToDeadLetter(c) ==
  \/ link[c] \in {"up", "closed"} /\ deadLetters' = [deadLetters EXCEPT ![cur[c]] = @ + 1]
  \/ UNCHANGED deadLetters

GiveUp(c) ==
  /\ pc[c] = "settle" /\ ~ShouldRetry(memAttempts[c])
  /\ \/ ~DeadLetterQueue /\ SaveProcessor(c, "failed", memAttempts[c])
                         /\ UNCHANGED deadLetters
     \/ DeadLetterQueue /\ SaveProcessor(c, "dead_lettered", memAttempts[c])
                        /\ SendToDeadLetter(c)
  /\ Return(c)
  /\ UNCHANGED <<busVars, memAttempts, futures, view, faults, tries, effects>>

(* The last save fails, after the dead letter has been sent: basic_nack. *)
SettleFails(c) ==
  /\ pc[c] = "settle"
  /\ Fault("db")
  /\ \/ ~ShouldRetry(memAttempts[c]) /\ DeadLetterQueue /\ SendToDeadLetter(c)
     \/ (ShouldRetry(memAttempts[c]) \/ ~DeadLetterQueue) /\ UNCHANGED deadLetters
  /\ Requeue(c)
  /\ UNCHANGED <<busVars, memAttempts, futures, rowVars, view, tries, effects>>

-----------------------------------------------------------------------------
(* Connections, processes and operators.                                      *)

(* The broker closes the connection and makes what it delivered ready again; *)
(* the consumer's thread notices when it next needs the channel.             *)
ConnectionLost(c) ==
  /\ link[c] = "up"
  /\ Fault("connection")
  /\ link' = [link EXCEPT ![c] = "lost"]
  /\ queue' = queue \cup unacked[c]
  /\ unacked' = [unacked EXCEPT ![c] = {}]
  /\ UNCHANGED <<busVars, expired, deliveries, deadLetters, pc, cur, memAttempts, futures,
                 rowVars, view, tries, effects>>

ThreadExits(c) ==
  /\ pc[c] = "idle" /\ link[c] # "up"
  /\ pc' = [pc EXCEPT ![c] = "exited"]
  /\ UNCHANGED <<busVars, queueVars, deadLetters, cur, memAttempts, futures, rowVars,
                 view, faults, tries, effects>>

(* SIGTERM: stop_all closes the connection and waits for the jobs in the pool; *)
(* the consumer's thread works on until the process exits.                      *)
Shutdown(c) ==
  /\ link[c] \in {"up", "lost"} /\ pc[c] # "down"
  /\ Fault("shutdown")
  /\ link' = [link EXCEPT ![c] = IF @ = "up" THEN "closed" ELSE "abandoned"]
  /\ queue' = queue \cup unacked[c]
  /\ unacked' = [unacked EXCEPT ![c] = {}]
  /\ UNCHANGED <<busVars, expired, deliveries, deadLetters, pc, cur, memAttempts, futures,
                 rowVars, view, tries, effects>>

ProcessExits(c) ==
  /\ link[c] \in Stopping
  /\ Running(c) = {} /\ Waiting(c) = {}
  /\ pc' = [pc EXCEPT ![c] = "down"]
  /\ cur' = [cur EXCEPT ![c] = NoEvent]
  /\ link' = [link EXCEPT ![c] = "lost"]
  /\ futures' = [futures EXCEPT ![c] = <<>>]
  /\ UNCHANGED <<busVars, queue, expired, unacked, deliveries, deadLetters, memAttempts,
                 rowVars, view, faults, tries, effects>>

Crash(c) ==
  /\ pc[c] # "down"
  /\ Fault("crash")
  /\ pc' = [pc EXCEPT ![c] = "down"]
  /\ cur' = [cur EXCEPT ![c] = NoEvent]
  /\ link' = [link EXCEPT ![c] = "lost"]
  /\ queue' = queue \cup unacked[c]
  /\ unacked' = [unacked EXCEPT ![c] = {}]
  /\ futures' = [futures EXCEPT ![c] = <<>>]
  /\ UNCHANGED <<busVars, expired, deliveries, deadLetters, memAttempts, rowVars, view, tries,
                 effects>>

Restart(c) ==
  /\ pc[c] = "down"
  /\ pc' = [pc EXCEPT ![c] = "idle"]
  /\ link' = [link EXCEPT ![c] = "up"]
  /\ UNCHANGED <<busVars, queue, expired, unacked, deliveries, deadLetters, cur, memAttempts,
                 futures, rowVars, view, faults, tries, effects>>

(* EventProcessorViewSet.retry: the row is read, checked, changed and saved    *)
(* whole; a consumer may have saved it in between.                             *)
RetryLoads(o, e) ==
  /\ view[o] = NoView
  /\ status[e] \in {"failed", "pending"}
  /\ view' = [view EXCEPT ![o] = [ev |-> e, attempts |-> attempts[e]]]
  /\ UNCHANGED <<busVars, queueVars, deadLetters, pc, cur, memAttempts, futures,
                 rowVars, faults, tries, effects>>

RetrySaves(o) ==
  /\ view[o] # NoView
  /\ status' = [status EXCEPT ![view[o].ev] = "pending"]
  /\ attempts' = [attempts EXCEPT ![view[o].ev] = view[o].attempts]
  /\ view' = [view EXCEPT ![o] = NoView]
  /\ UNCHANGED <<busVars, queueVars, deadLetters, pc, cur, memAttempts, futures,
                 faults, tries, effects>>

-----------------------------------------------------------------------------
Publisher(e) ==
  PublishAccepted(e) \/ PublishRejected(e) \/ PublishCommit(e) \/ PublishRollback(e)

Message(c) ==
  \/ \E e \in Events : Deliver(c, e)
  \/ Ignore(c) \/ EventMissing(c) \/ CreateEvent(c) \/ CreateConflict(c)
  \/ LookupFails(c) \/ SkipProcessed(c) \/ Claim(c)

Attempt(c) ==
  \/ HandlerMissing(c) \/ StartAttempt(c) \/ StartAttemptFails(c) \/ SubmitRefused(c)
  \/ Complete(c) \/ CompleteFails(c) \/ AttemptFails(c)
  \/ ScheduleRetry(c) \/ GiveUp(c) \/ SettleFails(c)

Pool(c) ==
  \E i \in DOMAIN futures[c] :
    StartHandler(c, i) \/ HandlerReturns(c, i) \/ HandlerRaises(c, i)

Process(c) ==
  \/ ConnectionLost(c) \/ ThreadExits(c)
  \/ Shutdown(c) \/ ProcessExits(c) \/ Crash(c) \/ Restart(c)

Operator(o) == (\E e \in Events : RetryLoads(o, e)) \/ RetrySaves(o)

Next ==
  \/ \E e \in Events : Publisher(e) \/ Expire(e)
  \/ \E c \in Consumers : Message(c) \/ Attempt(c) \/ Pool(c) \/ Process(c)
  \/ \E o \in Operators : Operator(o)

Spec == Init /\ [][Next]_vars

(* A consumer process keeps working and is restarted by its supervisor; the   *)
(* publisher's transaction ends.  Nothing is assumed of handlers (they may     *)
(* hang: the timeout ends the attempt), of operators, or of faults.            *)
Fairness ==
  /\ \A e \in Events : WF_vars(PublishCommit(e))
  /\ \A c \in Consumers : WF_vars(Message(c)) /\ WF_vars(Attempt(c)) /\ WF_vars(Restart(c))

FairSpec == Spec /\ Fairness

-----------------------------------------------------------------------------
(* Properties *)

GivenUp == {"failed", "dead_lettered"}
Sent(e) == publication[e] \in {"sent", "committed", "rolledback"}

(* A processor row says "failed" or "dead_lettered" only if max_retries attempts  *)
(* were begun, whatever mixture of timeouts, lost saves, duplicate deliveries,    *)
(* concurrent consumers and operator retries led there (_handle_processing_error).*)
GivenUpOnlyAfterBudget ==
  \A e \in Events : status[e] \in GivenUp => tries[e] >= MaxRetries

(* The same for the copies in the dead letter queue, which are sent before the   *)
(* row is saved and survive a failed save (_send_to_dead_letter).                 *)
DeadLetterJustified ==
  \A e \in Events : deadLetters[e] > 0 => tries[e] >= MaxRetries

(* A row says "completed" only if some call of the handler with this event        *)
(* returned, although the pool also holds jobs of attempts that timed out         *)
(* (_process_event).                                                              *)
CompletedMeansHandled ==
  \A e \in Events : status[e] = "completed" => effects[e] > 0

(* A message the subscription has not completed or given up is in exactly one place  *)
(* through nacks, lost connections, stops and crashes: ready, delivered to one       *)
(* consumer, or expired while it was ready.  Only its time to live takes it away      *)
(* from the subscription (RabbitMQBroker.subscribe's wrapper, create_queue).          *)
NoMessageLost ==
  \A e \in Events :
    Sent(e) /\ status[e] \notin GivenUp \cup {"completed"} =>
      LET holders == {c \in Consumers : e \in unacked[c]}
      IN  Cardinality(holders) + Cardinality({e} \cap queue) + Cardinality({e} \cap expired) = 1

(* What makes the three facts above inductive: no row, instance in a thread's      *)
(* memory or instance an operator loaded counts more attempts than were begun ...  *)
AttemptsCounted ==
  /\ \A e \in Events : attempts[e] <= tries[e]
  /\ \A c \in Consumers :
       pc[c] \in {"begin", "running", "settle"} => memAttempts[c] <= tries[cur[c]]
  /\ \A o \in Operators : view[o].ev \in Events => view[o].attempts <= tries[view[o].ev]

(* ... and the future a thread waits for is a job of its own message, counted in   *)
(* effects once it has returned.                                                   *)
FuturesTruthful ==
  /\ \A c \in Consumers : pc[c] = "running" => futures[c] # <<>> /\ Future(c).ev = cur[c]
  /\ \A c \in Consumers : \A i \in DOMAIN futures[c] :
       futures[c][i].st = "ok" => effects[futures[c][i].ev] > 0

(* The handler is called at most once for every attempt, and an attempt is made at *)
(* most once for every delivery, whatever times out, crashes or is redelivered       *)
(* (_process_message, _process_event).                                               *)
OneCallPerDelivery ==
  \A e \in Events : effects[e] <= tries[e] /\ tries[e] <= deliveries[e]

(* With one consumer and no operator, a completed event is never attempted again  *)
(* and its row never changes, however often it is redelivered (the status check   *)
(* of _process_message).                                                          *)
CompletedIsFinal ==
  [][\A e \in Events : status[e] = "completed" =>
       status'[e] = "completed" /\ tries'[e] = tries[e]]_vars

(* The verdict a processor row expresses. *)
Verdict(s) ==
  CASE s = "completed" -> "done" [] s \in GivenUp -> "givenup" [] OTHER -> "open"

(* One consumer process and no operator: nobody else writes the row a thread has in *)
(* memory.                                                                          *)
Alone == Operators = {} /\ \A c, d \in Consumers : c = d

Delivery == INSTANCE EventDelivery WITH
  Exclusive <- Alone,
  delivered <- deliveries, started <- tries, handled <- effects, copies <- deadLetters,
  verdict <- [e \in Events |-> Verdict(status[e])]

(* The subscription keeps the promise of EventDelivery, whatever interleaves: an       *)
(* attempt for each delivery at most, a returned call for each attempt at most, no     *)
(* verdict and no dead letter that they do not justify; and "done" for good where one  *)
(* process alone writes the rows.                                                      *)
ImplementsDelivery == Delivery!Spec

(* No row stays "processing": a timeout, a redelivery after a crash or a failed      *)
(* save ends every attempt, as long as no broker connection is lost and the message   *)
(* does not expire before it is redelivered.                                          *)
ProcessingResolves ==
  \A e \in Events : status[e] = "processing" ~> status[e] # "processing" \/ e \in expired

(* Every committed event the subscription wants is attempted, unless it expires       *)
(* first, even if database errors and crashes interrupt its first deliveries,          *)
(* provided the prefetch count exceeds the messages in flight (no message is ever      *)
(* acknowledged).                                                                      *)
EveryEventAttempted ==
  \A e \in Matching : publication[e] = "committed" ~> tries[e] > 0 \/ e \in expired

-----------------------------------------------------------------------------
(* What comments, tests and messages of the repository say and the code does not do. *)

(* consumers.py: "Schedule retry": a failed attempt with budget left is followed   *)
(* by another one.                                                                 *)
ScheduledRetryHappens ==
  \A e \in Events : status[e] = "pending" /\ attempts[e] > 0 ~> status[e] # "pending"

=============================================================================
