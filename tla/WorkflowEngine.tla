--------------------------- MODULE WorkflowEngine ---------------------------
(***************************************************************************)
(* platform_core/workflows: ONE workflow instance, its tasks, the requests *)
(* users make of WorkflowEngine.execute_task, the requests that cancel or  *)
(* update the instance and those that reassign a task or add a dependency. *)
(*                                                                         *)
(* A request reads its rows without locking them, works on those           *)
(* instances, and writes whole rows when its transaction commits; the      *)
(* only lock is the one the first UPDATE of the workflow row takes.  So a  *)
(* request is three steps: Load, an action on the task, Commit; a request  *)
(* of the other endpoints is two, the read and the save.  The instances    *)
(* base.py builds give every task at most one successor and no transition  *)
(* a condition.                                                            *)
(***************************************************************************)
EXTENDS Naturals, FiniteSets

CONSTANTS
  Tasks,
  NoTask,
  Successor,     \* the target of a task's transition, or NoTask
  System,        \* tasks of type 'system'
  InitiallySkipped,  \* tasks skipped while the instance was created
  Users,         \* a user has at most one request at a time
  Staff,         \* users of the other endpoints, one request at a time each
  Actions,       \* the actions users request
  MaxRequests    \* bound: requests staff make

ASSUME GraphAssumption ==
  /\ NoTask \notin Tasks
  /\ Successor \in [Tasks -> Tasks \cup {NoTask}]
  /\ \A t \in Tasks : Successor[t] # t
  /\ System \subseteq Tasks /\ InitiallySkipped \subseteq Tasks
  /\ Actions \subseteq {"start", "complete", "fail", "skip"}
  /\ MaxRequests \in Nat

VARIABLES
  task,      \* WorkflowTask.status
  deps,      \* WorkflowTask.depends_on, as pairs <<task, dependency>>
  wf,        \* the WorkflowInstance row: [status, done = completed_task_count]
  locked,    \* the users whose transaction holds the lock on that row
  req,       \* each user's request, with the instances it has in memory
  desk,      \* each staff member's request, with the instance or task it has loaded
  requests,  \* counter for the bound
  finished,  \* history: tasks that have been completed, skipped or failed
  failures,  \* history: tasks that have been failed
  undone     \* history: tasks that a stale save of their row made 'created' again

vars == <<task, deps, wf, locked, req, desk, requests, finished, failures, undone>>
history == <<finished, failures, undone>>

TaskStatus == {"created", "assigned", "started", "completed", "failed", "skipped"}
Pending    == {"created", "assigned", "started"}
Finished   == TaskStatus \ Pending
Row        == [status : {"started", "completed", "failed", "cancelled"}, done : Nat]
NoReq      == [at |-> "idle"]
Loaded     == [at : {"loaded"}, task : Tasks, action : Actions,
               seen : TaskStatus, wf : Row]
Acted      == [at : {"acted"}, task : Tasks, target : Tasks \cup {NoTask},
               result : TaskStatus, activated : TaskStatus,
               wf : Row, writes : {"nothing", "count", "row"}]
LoadedRow     == [at : {"instance"}, wf : Row]
LoadedTask    == [at : {"task"}, task : Tasks, seen : TaskStatus]
NewDependency == [at : {"dependency"}, task : Tasks, on : Tasks]

TypeOK ==
  /\ task \in [Tasks -> TaskStatus]
  /\ deps \in SUBSET (Tasks \X Tasks)
  /\ wf \in Row
  /\ locked \in SUBSET Users
  /\ req \in [Users -> {NoReq} \cup Loaded \cup Acted]
  /\ desk \in [Staff -> {NoReq} \cup LoadedRow \cup LoadedTask \cup NewDependency]
  /\ requests \in Nat
  /\ finished \in SUBSET Tasks
  /\ failures \in SUBSET Tasks
  /\ undone \in SUBSET Tasks

(* start_workflow commits the instance and all its tasks in one transaction. *)
Init ==
  /\ task = [t \in Tasks |-> IF t \in InitiallySkipped THEN "skipped" ELSE "created"]
  /\ deps = {}
  /\ wf = [status |-> "started", done |-> 0]
  /\ locked = {}
  /\ req = [u \in Users |-> NoReq]
  /\ desk = [s \in Staff |-> NoReq]
  /\ requests = 0
  /\ finished = InitiallySkipped
  /\ failures = {}
  /\ undone = {}

-----------------------------------------------------------------------------
(* WorkflowEngine.execute_task *)

(* The task and its workflow are read before the transaction. *)
Load(u, t, a) ==
  /\ req[u] = NoReq
  /\ req' = [req EXCEPT ![u] =
       [at |-> "loaded", task |-> t, action |-> a, seen |-> task[t], wf |-> wf]]
  /\ UNCHANGED <<task, deps, wf, locked, desk, requests, history>>

(* The statuses the state machine of WorkflowTask allows each action from. *)
Source(a) ==
  CASE a = "start"    -> {"created", "assigned"}
    [] a = "complete" -> {"started", "assigned"}
    [] a = "fail"     -> {"started", "assigned"}
    [] a = "skip"     -> {"created", "assigned"}

Result_Cancels(a) ==   \* mutant: skip() cancels the task
  CASE a = "start"    -> "started"
    [] a = "complete" -> "completed"
    [] a = "fail"     -> "failed"
    [] a = "skip"     -> "cancelled"

Result(a) ==
  CASE a = "start"    -> "started"
    [] a = "complete" -> "completed"
    [] a = "fail"     -> "failed"
    [] a = "skip"     -> "skipped"

Requested(u, as) ==
  req[u].at = "loaded" /\ req[u].action \in as

(* TransitionNotAllowed: the request ends and nothing is written. *)
Refused(u) ==
  /\ Requested(u, Actions)
  /\ req[u].seen \notin Source(req[u].action)
  /\ req' = [req EXCEPT ![u] = NoReq]
  /\ UNCHANGED <<task, deps, wf, locked, desk, requests, history>>

(* start and fail change the task alone. *)
StartOrFail(u) ==
  /\ Requested(u, {"start", "fail"})
  /\ req[u].seen \in Source(req[u].action)
  /\ req' = [req EXCEPT ![u] =
       [at |-> "acted", task |-> @.task, target |-> NoTask,
        result |-> Result(@.action), activated |-> @.seen,
        wf |-> @.wf, writes |-> "nothing"]]
  /\ UNCHANGED <<task, deps, wf, locked, desk, requests, history>>

(* can_start of the target: its dependencies, as the database shows them. *)
CanStart(t) == \A d \in Tasks : <<t, d>> \in deps => task[d] \notin Pending

(* The target a finished task activates; its own row has not been saved yet. *)
Target(t) ==
  IF Successor[t] \in Tasks /\ CanStart(Successor[t]) THEN Successor[t] ELSE NoTask

(* A user's task becomes 'assigned'; a system task runs at once, and its handler *)
(* may raise.                                                                     *)
Activations(t) ==
  IF t \in System THEN {"completed", "failed"} ELSE {"assigned"}

(* What the queries of _check_workflow_completion see: the activated target, and *)
(* the row of the task being finished as it was.                                  *)
Visible(target, activated) ==
  [t \in Tasks |-> IF t = target THEN activated ELSE task[t]]

NoPendingTasks_Created(view) ==   \* mutant: 'created' left out of the query
  \A t \in Tasks : view[t] \notin {"assigned", "started"}

NoPendingTasks(view) == \A t \in Tasks : view[t] \notin Pending

Outcome_Strict(view) ==   \* mutant: a skipped task counts as a failure
  IF \A t \in Tasks : view[t] = "completed" THEN "completed" ELSE "failed"

Outcome(view) == IF \E t \in Tasks : view[t] = "failed" THEN "failed" ELSE "completed"

(* completed_task_count as this request's instance has it. *)
Counted(u) == IF req[u].action = "complete" THEN req[u].wf.done + 1 ELSE req[u].wf.done

(* The count a run of a system task writes: it reads the row again. *)
SystemCount(u) ==
  1 + (IF req[u].action = "complete" THEN Counted(u) ELSE wf.done)

(* complete or skip, _handle_task_completion and _check_workflow_completion.  The *)
(* first UPDATE of the workflow row waits for whoever has updated it.             *)
Finish(u) ==
  /\ Requested(u, {"complete", "skip"})
  /\ req[u].seen \in Source(req[u].action)
  /\ LET r == req[u]
         target == Target(r.task)
     IN  \E activated \in (IF target = NoTask THEN {r.seen} ELSE Activations(target)) :
           LET view == Visible(target, activated)
               ran  == target \in System /\ activated = "completed"
               over == NoPendingTasks(view)
               writes == IF over THEN "row"
                         ELSE IF r.action = "complete" \/ ran THEN "count" ELSE "nothing"
           IN  /\ over => r.wf.status = "started"
               /\ writes # "nothing" => locked = {}
               /\ locked' = IF writes = "nothing" THEN locked ELSE {u}
               /\ req' = [req EXCEPT ![u] =
                    [at |-> "acted", task |-> r.task, target |-> target,
                     result |-> Result(r.action), activated |-> activated,
                     wf |-> IF over THEN [status |-> Outcome(view), done |-> Counted(u)]
                            ELSE [status |-> r.wf.status,
                                  done |-> IF ran THEN SystemCount(u) ELSE Counted(u)],
                     writes |-> writes]]
  /\ UNCHANGED <<task, deps, wf, desk, requests, history>>

(* The workflow the request has in memory is no longer running: complete() and   *)
(* fail() raise TransitionNotAllowed and the transaction rolls back.              *)
FinishRefused(u) ==
  /\ Requested(u, {"complete", "skip"})
  /\ req[u].seen \in Source(req[u].action)
  /\ req[u].wf.status # "started"
  /\ LET target == Target(req[u].task)
     IN  \E activated \in (IF target = NoTask THEN {req[u].seen} ELSE Activations(target)) :
           NoPendingTasks(Visible(target, activated))
  /\ req' = [req EXCEPT ![u] = NoReq]
  /\ UNCHANGED <<task, deps, wf, locked, desk, requests, history>>

Saved_OwnTask(r) ==   \* mutant: the target is changed and not saved
  [task EXCEPT ![r.task] = r.result]

(* The target saved by the request, then its own task, then the commit. *)
Saved(r) ==
  [t \in Tasks |-> IF t = r.task THEN r.result
                   ELSE IF t = r.target THEN r.activated ELSE task[t]]

Commit(u) ==
  /\ req[u].at = "acted"
  /\ LET r == req[u]
     IN  /\ task' = Saved(r)
         /\ wf' = CASE r.writes = "row"     -> r.wf
                    [] r.writes = "count"   -> [wf EXCEPT !.done = r.wf.done]
                    [] r.writes = "nothing" -> wf
         /\ finished' = finished \cup
              {t \in {r.task, r.target} \cap Tasks : task'[t] \in Finished}
         /\ failures' = failures \cup {t \in Tasks : task'[t] = "failed"}
         /\ undone' = undone \ {r.task, r.target}
  /\ locked' = locked \ {u}
  /\ req' = [req EXCEPT ![u] = NoReq]
  /\ UNCHANGED <<deps, desk, requests>>

-----------------------------------------------------------------------------
(* The other endpoints: each reads a row and then writes it whole, or adds to one. *)

Receive(s, request) ==
  /\ desk[s] = NoReq
  /\ requests < MaxRequests
  /\ requests' = requests + 1
  /\ desk' = [desk EXCEPT ![s] = request]
  /\ UNCHANGED <<task, deps, wf, locked, req, history>>

Answer(s) == desk' = [desk EXCEPT ![s] = NoReq] /\ UNCHANGED requests

(* WorkflowInstanceViewSet.cancel and update *)

LoadInstance(s) == Receive(s, [at |-> "instance", wf |-> wf])

(* instance.save(): the whole row, once nobody holds its lock. *)
SaveInstance(s, row) ==
  /\ locked = {}
  /\ wf' = row
  /\ Answer(s)
  /\ UNCHANGED <<task, deps, locked, req, history>>

CancelInstance(s) ==
  /\ desk[s].at = "instance" /\ desk[s].wf.status = "started"
  /\ SaveInstance(s, [desk[s].wf EXCEPT !.status = "cancelled"])

(* An update of other columns. *)
UpdateInstance(s) == desk[s].at = "instance" /\ SaveInstance(s, desk[s].wf)

(* WorkflowTaskViewSet.reassign and update *)

LoadTask(s, t) == Receive(s, [at |-> "task", task |-> t, seen |-> task[t]])

(* task.save(): the whole row as it was read, status included.  It waits for a request *)
(* that has saved the same row as its target, and is overwritten by one that has still  *)
(* to save it as its own.                                                               *)
SaveTask(s) ==
  /\ desk[s].at = "task"
  /\ \A u \in Users : req[u].at = "acted" => req[u].target # desk[s].task
  /\ LET t == desk[s].task
     IN  /\ task' = [task EXCEPT ![t] = desk[s].seen]
         /\ undone' = undone \cup {x \in {t} : task[x] # "created" /\ desk[s].seen = "created"}
  /\ Answer(s)
  /\ UNCHANGED <<deps, wf, locked, req, finished, failures>>

(* WorkflowTaskViewSet.add_dependency *)

CircularDependency(t, d) == d = t \/ <<d, t>> \in deps

CheckDependency(s, t, d) ==
  ~CircularDependency(t, d) /\ Receive(s, [at |-> "dependency", task |-> t, on |-> d])

AddDependency(s) ==
  /\ desk[s].at = "dependency"
  /\ deps' = deps \cup {<<desk[s].task, desk[s].on>>}
  /\ Answer(s)
  /\ UNCHANGED <<task, wf, locked, req, history>>

-----------------------------------------------------------------------------
User(u) ==
  \/ \E t \in Tasks, a \in Actions : Load(u, t, a)
  \/ Refused(u) \/ StartOrFail(u) \/ Finish(u) \/ FinishRefused(u) \/ Commit(u)

Endpoint(s) ==
  \/ LoadInstance(s) \/ CancelInstance(s) \/ UpdateInstance(s)
  \/ (\E t \in Tasks : LoadTask(s, t)) \/ SaveTask(s)
  \/ (\E t, d \in Tasks : CheckDependency(s, t, d)) \/ AddDependency(s)

Next ==
  \/ \E u \in Users : User(u)
  \/ \E s \in Staff : Endpoint(s)

Spec == Init /\ [][Next]_vars

(* Every user keeps making requests and every request is answered. *)
FairSpec == Spec /\ \A u \in Users : WF_vars(User(u))

-----------------------------------------------------------------------------
(* Properties *)

Predecessors(t) == {p \in Tasks : Successor[p] = t}

(* The instance is 'completed' only if every one of its tasks has been finished at  *)
(* some time, although the query that decides it, the save of the workflow and the  *)
(* requests of other users interleave (_check_workflow_completion).                 *)
CompletedMeansAllFinished ==
  wf.status = "completed" => finished = Tasks

(* The instance is 'failed' only if some task has been failed: skipping tasks or     *)
(* cancelling never fails it (_check_workflow_completion).                          *)
FailedMeansTaskFailed ==
  wf.status = "failed" => failures # {}

(* What makes these two inductive: every finished task has been recorded, the rows   *)
(* staff hold were true when they were read, and a request about to save the whole    *)
(* row found every other task finished.                                              *)
OutcomeJustified ==
  /\ \A t \in Tasks : task[t] \in Finished => t \in finished
  /\ \A t \in Tasks : task[t] = "failed" => t \in failures
  /\ \A s \in Staff : desk[s].at = "task" =>
       /\ desk[s].seen \in Finished => desk[s].task \in finished
       /\ desk[s].seen = "failed" => desk[s].task \in failures
  /\ \A s \in Staff : desk[s].at = "instance" =>
       /\ desk[s].wf.status = "completed" => finished = Tasks
       /\ desk[s].wf.status = "failed" => failures # {}
  /\ \A u \in Users : req[u].at = "acted" =>
       LET r == req[u]
       IN  /\ r.target # r.task
           /\ r.writes = "row" =>
                /\ r.wf.status \in {"completed", "failed"}
                /\ Tasks \ {r.task, r.target} \subseteq finished
                /\ r.result \in Finished /\ (r.target \in Tasks => r.activated \in Finished)
                /\ r.wf.status = "failed" =>
                     failures # {} \/ (r.target \in Tasks /\ r.activated = "failed")

(* When a user has completed or skipped a task, its successor is no longer           *)
(* 'created', whoever else saved what in between, unless the successor has            *)
(* dependencies or a stale save of its own row undid its activation, and nobody has    *)
(* acted on it since (_handle_task_completion, reassign).                             *)
SuccessorActivated ==
  \A t \in Tasks \ (System \cup InitiallySkipped) :
    /\ task[t] \in {"completed", "skipped"}
    /\ Successor[t] \in Tasks \ undone
    /\ \A d \in Tasks : <<Successor[t], d>> \notin deps
    => task[Successor[t]] # "created"

-----------------------------------------------------------------------------
(* What comments, tests and messages of the repository say and the code does not do. *)

(* engine.py: "Check if workflow is complete"; test_approval_workflow_flow: "Check   *)
(* workflow completed" after the last task.                                          *)
WorkflowCompletes ==
  (\A t \in Tasks : task[t] \in Finished) ~> wf.status # "started"

(* base.py: the merge task is to "Merge results from parallel tasks": the engine runs  *)
(* it when all of them are finished.                                                  *)
MergeAfterAllBranches ==
  [][\A u \in Users : req[u].at = "acted" /\ Commit(u) /\ req[u].target \in System
       => Predecessors(req[u].target) \subseteq finished']_vars

=============================================================================
