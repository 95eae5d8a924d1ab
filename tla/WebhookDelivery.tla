--------------------------- MODULE WebhookDelivery ---------------------------
(***************************************************************************)
(* platform_core/notifications: ONE webhook delivery, from the row that    *)
(* send_webhook_event or the endpoints create to its last status, with the *)
(* tasks (deliver_webhook) that attempt it and the administrators that ask *)
(* for it again.                                                           *)
(*                                                                         *)
(* A task reads the row once and later writes the WHOLE row back, again    *)
(* and again, each time in a transaction of its own; so does a retry       *)
(* request, in one transaction when ATOMIC_REQUESTS is set.  Every read,   *)
(* write, message and request is a step here.  Countdowns are left out: a  *)
(* task that is queued may start at any time.                              *)
(***************************************************************************)
EXTENDS Naturals, FiniteSets

CONSTANTS
  Workers,      \* Celery worker processes
  Admins,       \* users of the retry endpoint
  MaxAttempts,  \* WebhookDelivery.max_attempts
  Atomic,       \* may ATOMIC_REQUESTS be set?
  MaxTasks,     \* bound: tasks and requests in progress at the same time
  MaxCount      \* bound: the attempt_count a raced delivery can reach

ASSUME DeliveryAssumption ==
  /\ MaxAttempts \in Nat \ {0}
  /\ Atomic \subseteq BOOLEAN
  /\ MaxCount \in Nat /\ MaxCount > MaxAttempts

VARIABLES
  atomic,   \* ATOMIC_REQUESTS
  row,      \* the committed row: its status ("absent": no row) and attempt_count
  creator,  \* the code that creates the delivery and sends the first task
  queue,    \* messages of deliver_webhook for the row at the broker
  worker,   \* where each worker is in deliver_webhook
  mem,      \* the worker's copy of the row
  admin,    \* where each administrator's retry request is
  view,     \* the request's copy of the row
  dropped,  \* history: has a task, or the request for one, ended without its work?
  raced,    \* history: was a retry asked for while the delivery was in progress?
  posts     \* history: POST requests made, counted until raced

vars == <<atomic, row, creator, queue, worker, mem, admin, view, dropped, raced, posts>>

Statuses == {"pending", "success", "failed", "retrying"}
Rows == [status : Statuses \cup {"absent"}, attempts : Nat]
WorkerPlaces == {"idle", "loaded", "posting", "answered", "raised", "failing",
                 "retrying", "scheduling"}

TypeOK ==
  /\ atomic \in BOOLEAN
  /\ row \in Rows
  /\ creator \in {"idle", "created", "inserted", "sent", "done"}
  /\ queue \in Nat
  /\ worker \in [Workers -> WorkerPlaces]
  /\ mem \in [Workers -> Rows]
  /\ admin \in [Admins -> {"idle", "loaded", "updated", "sent"}]
  /\ view \in [Admins -> Rows]
  /\ dropped \in BOOLEAN
  /\ raced \in BOOLEAN
  /\ posts \in Nat

Busy(w) == worker[w] # "idle"
Asking(a) == admin[a] # "idle"

(* A request's transaction has written the row: other writes wait for it. *)
RowLocked == atomic /\ \E a \in Admins : admin[a] \in {"updated", "sent"}

(* The row promises an attempt. *)
Open == row.status \in {"pending", "retrying"}

NoRow == [status |-> "absent", attempts |-> 0]
NewRow == [status |-> "pending", attempts |-> 0]

Init ==
  /\ atomic \in Atomic
  /\ row = NoRow
  /\ creator = "idle"
  /\ queue = 0
  /\ worker = [w \in Workers |-> "idle"]
  /\ mem = [w \in Workers |-> NoRow]
  /\ admin = [a \in Admins |-> "idle"]
  /\ view = [a \in Admins |-> NoRow]
  /\ dropped = FALSE
  /\ raced = FALSE
  /\ posts = 0

-----------------------------------------------------------------------------
(* send_webhook_event, or the test endpoint without ATOMIC_REQUESTS: the   *)
(* row is committed before the task is sent.                               *)
Create ==
  /\ creator = "idle"
  /\ creator' = "created"
  /\ row' = NewRow
  /\ UNCHANGED <<atomic, queue, worker, mem, admin, view, dropped, raced, posts>>

Send ==
  /\ creator = "created"
  /\ creator' = "done"
  /\ queue' = queue + 1
  /\ UNCHANGED <<atomic, row, worker, mem, admin, view, dropped, raced, posts>>

(* The broker refuses the task, or the process dies. *)
SendFails ==
  /\ creator = "created"
  /\ creator' = "done"
  /\ dropped' = TRUE
  /\ UNCHANGED <<atomic, row, queue, worker, mem, admin, view, raced, posts>>

(* The test endpoint with ATOMIC_REQUESTS: the task is sent before the row *)
(* it is about is committed.                                               *)
Insert ==
  /\ atomic /\ creator = "idle"
  /\ creator' = "inserted"
  /\ UNCHANGED <<atomic, row, queue, worker, mem, admin, view, dropped, raced, posts>>

InsertSend ==
  /\ creator = "inserted"
  /\ creator' = "sent"
  /\ queue' = queue + 1
  /\ UNCHANGED <<atomic, row, worker, mem, admin, view, dropped, raced, posts>>

InsertCommit ==
  /\ creator = "sent"
  /\ creator' = "done"
  /\ row' = NewRow
  /\ UNCHANGED <<atomic, queue, worker, mem, admin, view, dropped, raced, posts>>

InsertFails ==
  /\ creator \in {"inserted", "sent"}
  /\ creator' = "done"
  /\ UNCHANGED <<atomic, row, queue, worker, mem, admin, view, dropped, raced, posts>>

-----------------------------------------------------------------------------
(* The worker takes a message, which is acknowledged early, and reads the row. *)
Take(w) ==
  /\ ~Busy(w) /\ queue > 0
  /\ row.status # "absent"
  /\ queue' = queue - 1
  /\ worker' = [worker EXCEPT ![w] = "loaded"]
  /\ mem' = [mem EXCEPT ![w] = row]
  /\ UNCHANGED <<atomic, row, creator, admin, view, dropped, raced, posts>>

(* WebhookDelivery.DoesNotExist is logged. *)
TakeMissing(w) ==
  /\ ~Busy(w) /\ queue > 0
  /\ row.status = "absent"
  /\ queue' = queue - 1
  /\ dropped' = TRUE
  /\ UNCHANGED <<atomic, row, creator, worker, mem, admin, view, raced, posts>>

(* The task ends; its copy of the row goes with it. *)
End(w) ==
  /\ worker' = [worker EXCEPT ![w] = "idle"]
  /\ mem' = [mem EXCEPT ![w] = NoRow]

(* An inactive endpoint: the task returns and the row stays as it is. *)
SkipInactive(w) ==
  /\ worker[w] = "loaded"
  /\ End(w)
  /\ dropped' = TRUE
  /\ UNCHANGED <<atomic, row, creator, queue, admin, view, raced, posts>>

(* delivery.save(), in autocommit. *)
Save(copy) == ~RowLocked /\ row' = copy

(* The attempt is counted and saved, then the POST begins. *)
SaveAttempt(w) ==
  /\ worker[w] = "loaded" /\ mem[w].attempts < MaxCount
  /\ LET copy == [mem[w] EXCEPT !.attempts = @ + 1]
     IN  Save(copy) /\ mem' = [mem EXCEPT ![w] = copy]
  /\ worker' = [worker EXCEPT ![w] = "posting"]
  /\ posts' = IF raced THEN posts ELSE posts + 1
  /\ UNCHANGED <<atomic, creator, queue, admin, view, dropped, raced>>

(* A response below 400 is a success, any other a failure. *)
Answer(w) ==
  /\ worker[w] = "posting"
  /\ worker' = [worker EXCEPT ![w] = "answered"]
  /\ \E s \in {"success", "failed"} : mem' = [mem EXCEPT ![w].status = s]
  /\ UNCHANGED <<atomic, row, creator, queue, admin, view, dropped, raced, posts>>

SaveOutcome(w) ==
  /\ worker[w] = "answered"
  /\ Save(mem[w])
  /\ End(w)
  /\ UNCHANGED <<atomic, creator, queue, admin, view, dropped, raced, posts>>

(* Mutant: the request's exceptions are not caught and end the task. *)
Raise_Uncaught(w) ==
  /\ worker[w] = "posting"
  /\ End(w)
  /\ UNCHANGED <<atomic, row, creator, queue, admin, view, dropped, raced, posts>>

(* No connection, or no answer within the timeout: RequestException. *)
Raise(w) ==
  /\ worker[w] = "posting"
  /\ worker' = [worker EXCEPT ![w] = "raised"]
  /\ UNCHANGED <<atomic, row, creator, queue, mem, admin, view, dropped, raced, posts>>

(* The handler reads the row afresh. *)
Reload(w) ==
  /\ worker[w] = "raised"
  /\ worker' = [worker EXCEPT ![w] = "failing"]
  /\ mem' = [mem EXCEPT ![w] = [row EXCEPT !.status = "failed"]]
  /\ UNCHANGED <<atomic, row, creator, queue, admin, view, dropped, raced, posts>>

(* Mutant: one attempt too many. *)
SaveFailed_OneMore(w) ==
  /\ worker[w] = "failing"
  /\ Save(mem[w])
  /\ IF mem[w].attempts <= MaxAttempts
     THEN /\ worker' = [worker EXCEPT ![w] = "retrying"]
          /\ mem' = [mem EXCEPT ![w].status = "retrying"]
     ELSE End(w)
  /\ UNCHANGED <<atomic, creator, queue, admin, view, dropped, raced, posts>>

(* FAILED is saved, and another attempt follows while there are any left. *)
SaveFailed(w) ==
  /\ worker[w] = "failing"
  /\ Save(mem[w])
  /\ IF mem[w].attempts < MaxAttempts
     THEN /\ worker' = [worker EXCEPT ![w] = "retrying"]
          /\ mem' = [mem EXCEPT ![w].status = "retrying"]
     ELSE End(w)
  /\ UNCHANGED <<atomic, creator, queue, admin, view, dropped, raced, posts>>

(* Mutant: a status the model does not have. *)
SaveRetrying_Misspelt(w) ==
  /\ worker[w] = "retrying"
  /\ Save([mem[w] EXCEPT !.status = "retry"])
  /\ worker' = [worker EXCEPT ![w] = "scheduling"]
  /\ UNCHANGED <<atomic, creator, queue, mem, admin, view, dropped, raced, posts>>

(* Mutant: the status is saved and the next task never sent. *)
SaveRetrying_Forgets(w) ==
  /\ worker[w] = "retrying"
  /\ Save(mem[w])
  /\ End(w)
  /\ UNCHANGED <<atomic, creator, queue, admin, view, dropped, raced, posts>>

SaveRetrying(w) ==
  /\ worker[w] = "retrying"
  /\ Save(mem[w])
  /\ worker' = [worker EXCEPT ![w] = "scheduling"]
  /\ UNCHANGED <<atomic, creator, queue, mem, admin, view, dropped, raced, posts>>

Schedule(w) ==
  /\ worker[w] = "scheduling"
  /\ End(w)
  /\ queue' = queue + 1
  /\ UNCHANGED <<atomic, row, creator, admin, view, dropped, raced, posts>>

(* The worker is killed or runs into the time limit, the database or the   *)
(* broker fails, or another exception ends the task.                       *)
Die(w) ==
  /\ Busy(w)
  /\ End(w)
  /\ dropped' = TRUE
  /\ UNCHANGED <<atomic, row, creator, queue, admin, view, raced, posts>>

-----------------------------------------------------------------------------
(* Something of the delivery is queued, running or asked for. *)
InProgress == queue > 0 \/ (\E w \in Workers : Busy(w)) \/ (\E a \in Admins : Asking(a))

Alive == queue + Cardinality({w \in Workers : Busy(w)}) + Cardinality({a \in Admins : Asking(a)})

(* Mutant: the retry endpoint does not look at the status. *)
RetryLoad_AnyStatus(a) ==
  /\ ~Asking(a)
  /\ row.status # "absent" /\ row.attempts < MaxAttempts
  /\ Alive < MaxTasks
  /\ admin' = [admin EXCEPT ![a] = "loaded"]
  /\ view' = [view EXCEPT ![a] = [row EXCEPT !.status = "pending"]]
  /\ raced' = (raced \/ InProgress)
  /\ UNCHANGED <<atomic, row, creator, queue, worker, mem, dropped, posts>>

(* The retry endpoint reads a failed delivery with attempts left. *)
RetryLoad(a) ==
  /\ ~Asking(a)
  /\ row.status = "failed" /\ row.attempts < MaxAttempts
  /\ Alive < MaxTasks
  /\ admin' = [admin EXCEPT ![a] = "loaded"]
  /\ view' = [view EXCEPT ![a] = [row EXCEPT !.status = "pending"]]
  /\ raced' = (raced \/ InProgress)
  /\ UNCHANGED <<atomic, row, creator, queue, worker, mem, dropped, posts>>

(* PENDING is written: for all to see, or in the request's transaction. *)
RetrySave(a) ==
  /\ admin[a] = "loaded"
  /\ IF atomic THEN ~RowLocked /\ UNCHANGED row
               ELSE row' = view[a]
  /\ admin' = [admin EXCEPT ![a] = "updated"]
  /\ UNCHANGED <<atomic, creator, queue, worker, mem, view, dropped, raced, posts>>

RetryReturn(a) ==
  /\ admin' = [admin EXCEPT ![a] = "idle"]
  /\ view' = [view EXCEPT ![a] = NoRow]

(* The task is sent; without a transaction the request is over. *)
RetrySend(a) ==
  /\ admin[a] = "updated"
  /\ queue' = queue + 1
  /\ IF atomic THEN admin' = [admin EXCEPT ![a] = "sent"] /\ UNCHANGED view
               ELSE RetryReturn(a)
  /\ UNCHANGED <<atomic, row, creator, worker, mem, dropped, raced, posts>>

RetryCommit(a) ==
  /\ admin[a] = "sent"
  /\ row' = view[a]
  /\ RetryReturn(a)
  /\ UNCHANGED <<atomic, creator, queue, worker, mem, dropped, raced, posts>>

(* The broker refuses the task or the process dies: the transaction is     *)
(* rolled back, and without one a saved PENDING stays.                     *)
RetryFails(a) ==
  /\ Asking(a)
  /\ RetryReturn(a)
  /\ dropped' = (dropped \/ (~atomic /\ admin[a] = "updated"))
  /\ UNCHANGED <<atomic, row, creator, queue, worker, mem, raced, posts>>

CreatorStep == Send \/ InsertSend \/ InsertCommit
Task(w) ==
  \/ Take(w) \/ TakeMissing(w) \/ SaveAttempt(w) \/ Answer(w) \/ Raise(w)
  \/ SaveOutcome(w) \/ Reload(w) \/ SaveFailed(w) \/ SaveRetrying(w) \/ Schedule(w)
Request(a) == RetrySave(a) \/ RetrySend(a) \/ RetryCommit(a)

Next ==
  \/ Create \/ Send \/ SendFails \/ Insert \/ InsertSend \/ InsertCommit \/ InsertFails
  \/ \E w \in Workers :
       \/ Take(w) \/ TakeMissing(w) \/ SkipInactive(w) \/ SaveAttempt(w) \/ Answer(w)
       \/ SaveOutcome(w) \/ Raise(w) \/ Reload(w) \/ SaveFailed(w) \/ SaveRetrying(w)
       \/ Schedule(w) \/ Die(w)
  \/ \E a \in Admins :
       RetryLoad(a) \/ RetrySave(a) \/ RetrySend(a) \/ RetryCommit(a) \/ RetryFails(a)

(* What has begun goes on: creators and requests run to their end, a worker*)
(* takes the tasks there are, and a POST is answered or times out.  Nothing*)
(* is assumed of crashes, of inactive endpoints or of administrators.      *)
Fairness ==
  /\ WF_vars(CreatorStep)
  /\ \A w \in Workers : WF_vars(Task(w))
  /\ \A a \in Admins : WF_vars(Request(a))

Spec == Init /\ [][Next]_vars
FairSpec == Spec /\ Fairness

-----------------------------------------------------------------------------
(* The endpoint receives at most max_attempts requests, those that         *)
(* administrators ask for included, though the count is read, incremented  *)
(* and written back as part of the whole row by tasks and requests that    *)
(* know nothing of each other (tasks.py:102, :135, views.py:128).  A retry *)
(* asked for while the delivery is in progress is excepted: it writes the  *)
(* count back to what it was.                                              *)
BudgetKept == ~raced => posts <= MaxAttempts

(* A delivery that succeeded stays successful: no task writes back the     *)
(* copy it read before, no request reopens it (tasks.py:124, :132, :139,   *)
(* views.py:135).  A retry asked for while it was in progress is excepted. *)
SuccessFinal == [][row.status = "success" /\ ~raced' => row'.status = "success"]_vars

(* A committed row that promises an attempt, PENDING or RETRYING, has a    *)
(* task, a worker or a creator or request that will still send one, unless *)
(* one of them ended without its work; nothing sweeps such rows            *)
(* (tasks.py:137-141, views.py:94-103, :135-139).                          *)
NoneStranded ==
  Open /\ ~dropped =>
    \/ queue > 0
    \/ \E w \in Workers : Busy(w)
    \/ creator = "created"
    \/ ~atomic /\ \E a \in Admins : admin[a] = "updated"

(* A delivery whose tasks do their work and are not raced ends: from some  *)
(* time on its row says success or failed, however attempts, retries and   *)
(* administrators interleave (tasks.py:72-147, views.py:117-141).          *)
Settles == <>dropped \/ <>raced \/ <>[]~Open
=============================================================================
