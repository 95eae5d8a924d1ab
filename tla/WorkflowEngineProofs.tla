------------------------ MODULE WorkflowEngineProofs ------------------------
(***************************************************************************)
(* Proofs about WorkflowEngine, for every graph of tasks with at most one  *)
(* successor each and every number of users and staff: the type invariant, *)
(* what a finished instance implies, and that a finished task has          *)
(* activated its successor.                                                *)
(***************************************************************************)
EXTENDS WorkflowEngine, TLAPS

(* What an action makes of a task is one of its statuses. *)
LEMMA ResultTypes ==
  ASSUME NEW a \in Actions
  PROVE  Source(a) \subseteq TaskStatus /\ Result(a) \in TaskStatus
BY GraphAssumption DEF Source, Result, TaskStatus

(* A finished task's target is a task or nothing, never the task itself, and is     *)
(* given one of the statuses.                                                        *)
LEMMA TargetTypes ==
  ASSUME NEW t \in Tasks
  PROVE  /\ Target(t) \in Tasks \cup {NoTask}
         /\ Target(t) # t
         /\ \A x : Activations(x) \subseteq TaskStatus
BY GraphAssumption DEF Target, Activations, TaskStatus

(* The record Finish leaves is well formed. *)
LEMMA FinishTypes ==
  ASSUME TypeOK, NEW u \in Users, Finish(u)
  PROVE  /\ \E r \in Acted : req' = [req EXCEPT ![u] = r]
         /\ locked' \in SUBSET Users
<1>1. req[u] \in Loaded
  BY DEF Finish, Requested, TypeOK, NoReq, Acted
<1>. DEFINE r == req[u]
            target == Target(r.task)
            choices == IF target = NoTask THEN {r.seen} ELSE Activations(target)
<1>2. /\ r.task \in Tasks /\ r.action \in Actions /\ r.seen \in TaskStatus /\ r.wf \in Row
      /\ target \in Tasks \cup {NoTask} /\ choices \subseteq TaskStatus
      /\ Result(r.action) \in TaskStatus
  BY <1>1, TargetTypes, ResultTypes DEF Loaded
<1>3. /\ Counted(u) \in Nat /\ SystemCount(u) \in Nat /\ r.wf.status \in
           {"started", "completed", "failed", "cancelled"} /\ r.wf.done \in Nat
  BY <1>2 DEF Counted, SystemCount, Row, TypeOK
<1>4. PICK activated \in choices :
        LET view == Visible(target, activated)
            ran  == target \in System /\ activated = "completed"
            over == NoPendingTasks(view)
            writes == IF over THEN "row"
                      ELSE IF r.action = "complete" \/ ran THEN "count" ELSE "nothing"
        IN  /\ locked' = IF writes = "nothing" THEN locked ELSE {u}
            /\ req' = [req EXCEPT ![u] =
                 [at |-> "acted", task |-> r.task, target |-> target,
                  result |-> Result(r.action), activated |-> activated,
                  wf |-> IF over THEN [status |-> Outcome(view), done |-> Counted(u)]
                         ELSE [status |-> r.wf.status,
                               done |-> IF ran THEN SystemCount(u) ELSE Counted(u)],
                  writes |-> writes]]
  BY DEF Finish
<1>. DEFINE view == Visible(target, activated)
            ran  == target \in System /\ activated = "completed"
            over == NoPendingTasks(view)
            writes == IF over THEN "row"
                      ELSE IF r.action = "complete" \/ ran THEN "count" ELSE "nothing"
            row == IF over THEN [status |-> Outcome(view), done |-> Counted(u)]
                   ELSE [status |-> r.wf.status,
                         done |-> IF ran THEN SystemCount(u) ELSE Counted(u)]
<1>5. row \in Row
  <2>1. Outcome(view) \in {"completed", "failed"}
    BY DEF Outcome
  <2>. HIDE DEF over, ran, view
  <2>. QED
    BY <1>3, <2>1 DEF Row
<1>6. writes \in {"nothing", "count", "row"}
  OBVIOUS
<1>7. [at |-> "acted", task |-> r.task, target |-> target,
       result |-> Result(r.action), activated |-> activated,
       wf |-> row, writes |-> writes] \in Acted
  <2>. HIDE DEF row, writes, target, choices
  <2>. QED
    BY <1>2, <1>4, <1>5, <1>6 DEF Acted
<1>8. locked' \in SUBSET Users
  BY <1>4 DEF TypeOK
<1>. QED
  BY <1>4, <1>7, <1>8

(* What a staff member's request has loaded. *)
LEMMA DeskKinds ==
  ASSUME TypeOK, NEW s \in Staff
  PROVE  /\ desk[s].at = "instance" => desk[s] \in LoadedRow
         /\ desk[s].at = "task" => desk[s] \in LoadedTask
         /\ desk[s].at = "dependency" => desk[s] \in NewDependency
BY DEF TypeOK, NoReq, LoadedRow, LoadedTask, NewDependency

(* A request that is well formed may be received. *)
LEMMA ReceiveTypes ==
  ASSUME TypeOK, NEW s \in Staff, NEW r \in LoadedRow \cup LoadedTask \cup NewDependency,
         Receive(s, r)
  PROVE  TypeOK'
BY DEF Receive, TypeOK, history

(* Every step of users and staff keeps the types of the state. *)
LEMMA TypeStep ==
  ASSUME TypeOK, [Next]_vars
  PROVE  TypeOK'
<1>1. ASSUME NEW u \in Users, NEW t \in Tasks, NEW a \in Actions, Load(u, t, a)
      PROVE  TypeOK'
  <2>1. [at |-> "loaded", task |-> t, action |-> a, seen |-> task[t], wf |-> wf] \in Loaded
    BY DEF TypeOK, Loaded
  <2>. QED
    BY <1>1, <2>1 DEF Load, TypeOK, history
<1>2. ASSUME NEW u \in Users, Refused(u)
      PROVE  TypeOK'
  BY <1>2 DEF Refused, TypeOK, history
<1>3. ASSUME NEW u \in Users, StartOrFail(u)
      PROVE  TypeOK'
  <2>1. req[u] \in Loaded
    BY <1>3 DEF StartOrFail, Requested, TypeOK, NoReq, Acted
  <2>2. [at |-> "acted", task |-> req[u].task, target |-> NoTask,
         result |-> Result(req[u].action), activated |-> req[u].seen,
         wf |-> req[u].wf, writes |-> "nothing"] \in Acted
    BY <2>1, ResultTypes DEF Loaded, Acted
  <2>. QED
    BY <1>3, <2>2 DEF StartOrFail, TypeOK, history
<1>4. ASSUME NEW u \in Users, Finish(u)
      PROVE  TypeOK'
  <2>1. UNCHANGED <<task, deps, wf, desk, requests, history>>
    BY <1>4 DEF Finish
  <2>. QED
    BY <1>4, <2>1, FinishTypes DEF TypeOK, history
<1>5. ASSUME NEW u \in Users, FinishRefused(u)
      PROVE  TypeOK'
  BY <1>5 DEF FinishRefused, TypeOK, history
<1>6. ASSUME NEW u \in Users, Commit(u)
      PROVE  TypeOK'
  <2>1. req[u] \in Acted
    BY <1>6 DEF Commit, TypeOK, NoReq, Loaded
  <2>2. task' \in [Tasks -> TaskStatus]
    BY <1>6, <2>1 DEF Commit, Saved, TypeOK, Acted
  <2>3. wf' \in Row
    <3>1. req[u].wf \in Row /\ wf \in Row /\ req[u].writes \in {"nothing", "count", "row"}
      BY <2>1 DEF Acted, TypeOK
    <3>2. wf' = req[u].wf \/ wf' = [wf EXCEPT !.done = req[u].wf.done] \/ wf' = wf
      BY <1>6, <3>1 DEF Commit
    <3>. QED
      BY <3>1, <3>2 DEF Row
  <2>4. /\ finished' \in SUBSET Tasks /\ failures' \in SUBSET Tasks
        /\ undone' \in SUBSET Tasks /\ locked' \in SUBSET Users
    BY <1>6 DEF Commit, TypeOK
  <2>. QED
    BY <1>6, <2>2, <2>3, <2>4 DEF Commit, TypeOK
<1>7. ASSUME NEW s \in Staff, LoadInstance(s)
      PROVE  TypeOK'
  <2>1. [at |-> "instance", wf |-> wf] \in LoadedRow
    BY DEF TypeOK, LoadedRow
  <2>. QED
    BY <1>7, <2>1, ReceiveTypes DEF LoadInstance
<1>8. ASSUME NEW s \in Staff, CancelInstance(s) \/ UpdateInstance(s)
      PROVE  TypeOK'
  <2>1. desk[s].wf \in Row
    BY <1>8, DeskKinds DEF CancelInstance, UpdateInstance, LoadedRow
  <2>2. [desk[s].wf EXCEPT !.status = "cancelled"] \in Row
    BY <2>1 DEF Row
  <2>3. wf' \in Row
    BY <1>8, <2>1, <2>2 DEF CancelInstance, UpdateInstance, SaveInstance
  <2>. QED
    BY <1>8, <2>3 DEF CancelInstance, UpdateInstance, SaveInstance, Answer, TypeOK, history
<1>9. ASSUME NEW s \in Staff, NEW t \in Tasks, LoadTask(s, t)
      PROVE  TypeOK'
  <2>1. [at |-> "task", task |-> t, seen |-> task[t]] \in LoadedTask
    BY DEF TypeOK, LoadedTask
  <2>. QED
    BY <1>9, <2>1, ReceiveTypes DEF LoadTask
<1>10. ASSUME NEW s \in Staff, SaveTask(s)
      PROVE  TypeOK'
  <2>1. desk[s].task \in Tasks /\ desk[s].seen \in TaskStatus
    BY <1>10, DeskKinds DEF SaveTask, LoadedTask
  <2>2. task' \in [Tasks -> TaskStatus] /\ undone' \in SUBSET Tasks
    BY <1>10, <2>1 DEF SaveTask, TypeOK
  <2>. QED
    BY <1>10, <2>2 DEF SaveTask, Answer, TypeOK
<1>11. ASSUME NEW s \in Staff, NEW t \in Tasks, NEW d \in Tasks, CheckDependency(s, t, d)
      PROVE  TypeOK'
  <2>1. [at |-> "dependency", task |-> t, on |-> d] \in NewDependency
    BY DEF NewDependency
  <2>. QED
    BY <1>11, <2>1, ReceiveTypes DEF CheckDependency
<1>12. ASSUME NEW s \in Staff, AddDependency(s)
      PROVE  TypeOK'
  <2>1. desk[s].task \in Tasks /\ desk[s].on \in Tasks
    BY <1>12, DeskKinds DEF AddDependency, NewDependency
  <2>2. deps' \in SUBSET (Tasks \X Tasks)
    BY <1>12, <2>1 DEF AddDependency, TypeOK
  <2>. QED
    BY <1>12, <2>2 DEF AddDependency, Answer, TypeOK, history
<1>13. CASE UNCHANGED vars
  BY <1>13 DEF vars, TypeOK
<1>. QED
  BY <1>1, <1>2, <1>3, <1>4, <1>5, <1>6, <1>7, <1>8, <1>9, <1>10, <1>11, <1>12, <1>13
  DEF Next, User, Endpoint

(* The state of a workflow instance always has its types (the type invariant). *)
THEOREM TypeCorrect == Spec => []TypeOK
<1>1. Init => TypeOK
  BY GraphAssumption DEF Init, TypeOK, TaskStatus, Row
<1>2. TypeOK /\ [Next]_vars => TypeOK'
  BY TypeStep
<1>. QED
  BY <1>1, <1>2, PTL DEF Spec

-----------------------------------------------------------------------------
(* The strengthening that makes the meaning of an outcome inductive: it already holds *)
(* of every row a request is about to save.                                           *)
OutcomeInv == OutcomeJustified /\ CompletedMeansAllFinished /\ FailedMeansTaskFailed

(* A row that staff have read was true when they read it. *)
TrueTask(t, st) ==
  (st \in Finished => t \in finished) /\ (st = "failed" => t \in failures)

TrueRow(row) ==
  (row.status = "completed" => finished = Tasks) /\ (row.status = "failed" => failures # {})

Truthful(d) ==
  (d.at = "task" => TrueTask(d.task, d.seen)) /\ (d.at = "instance" => TrueRow(d.wf))

(* What a request has decided and will save. *)
Justified(r) ==
  /\ r.target # r.task
  /\ r.writes = "row" =>
       /\ r.wf.status \in {"completed", "failed"}
       /\ Tasks \ {r.task, r.target} \subseteq finished
       /\ r.result \in Finished /\ (r.target \in Tasks => r.activated \in Finished)
       /\ r.wf.status = "failed" =>
            failures # {} \/ (r.target \in Tasks /\ r.activated = "failed")

(* The strengthening in terms of the two. *)
LEMMA OutcomeParts ==
  OutcomeInv <=> /\ \A t \in Tasks : TrueTask(t, task[t])
                 /\ \A s \in Staff : Truthful(desk[s])
                 /\ \A u \in Users : req[u].at = "acted" => Justified(req[u])
                 /\ TrueRow(wf)
BY DEF OutcomeInv, OutcomeJustified, CompletedMeansAllFinished, FailedMeansTaskFailed,
       TrueTask, TrueRow, Truthful, Justified

(* A step that commits no request and finishes nothing new keeps it, if what is loaded *)
(* and saved is true and no request decides to save the whole row.                     *)
LEMMA OutcomeFrame ==
  ASSUME OutcomeInv, UNCHANGED <<finished, failures>>,
         \A t \in Tasks : task'[t] = task[t] \/ TrueTask(t, task'[t]),
         wf' = wf \/ TrueRow(wf'),
         \A v \in Users : \/ req'[v] = req[v]
                          \/ req'[v].at # "acted"
                          \/ req'[v].target # req'[v].task /\ req'[v].writes # "row",
         \A s \in Staff : desk'[s] = desk[s] \/ Truthful(desk'[s])
  PROVE  OutcomeInv'
<1>1. /\ \A t \in Tasks : TrueTask(t, task'[t])
      /\ \A s \in Staff : Truthful(desk'[s])
      /\ \A u \in Users : req'[u].at = "acted" => Justified(req'[u])
      /\ TrueRow(wf')
  BY OutcomeParts DEF Justified
<1>2. /\ (\A t \in Tasks : TrueTask(t, task[t]))'
      /\ (\A s \in Staff : Truthful(desk[s]))'
      /\ (\A u \in Users : req[u].at = "acted" => Justified(req[u]))'
      /\ TrueRow(wf)'
  BY <1>1 DEF TrueTask, TrueRow, Truthful, Justified
<1>. QED
  BY <1>2 DEF OutcomeInv, OutcomeJustified, CompletedMeansAllFinished, FailedMeansTaskFailed,
              TrueTask, TrueRow, Truthful, Justified

(* Finish decides the outcome on what its queries see. *)
LEMMA OutcomeFinish ==
  ASSUME TypeOK, OutcomeInv, NEW u \in Users, Finish(u)
  PROVE  OutcomeInv'
<1>1. req[u] \in Loaded /\ req[u].action \in {"complete", "skip"}
  BY DEF Finish, Requested, TypeOK, NoReq, Acted
<1>. DEFINE r == req[u]
            target == Target(r.task)
<1>2. /\ r.task \in Tasks /\ target \in Tasks \cup {NoTask} /\ target # r.task
      /\ Result(r.action) \in Finished
  BY <1>1, TargetTypes, GraphAssumption DEF Loaded, Result, Finished, TaskStatus, Pending
<1>3. PICK activated \in (IF target = NoTask THEN {r.seen} ELSE Activations(target)) :
        \E row, writes :
          /\ writes = "row" => /\ NoPendingTasks(Visible(target, activated))
                               /\ row.status = Outcome(Visible(target, activated))
          /\ req' = [req EXCEPT ![u] =
               [at |-> "acted", task |-> r.task, target |-> target,
                result |-> Result(r.action), activated |-> activated,
                wf |-> row, writes |-> writes]]
  <2>1. PICK activated \in (IF target = NoTask THEN {r.seen} ELSE Activations(target)) :
          LET view == Visible(target, activated)
              ran  == target \in System /\ activated = "completed"
              over == NoPendingTasks(view)
              writes == IF over THEN "row"
                        ELSE IF r.action = "complete" \/ ran THEN "count" ELSE "nothing"
          IN  req' = [req EXCEPT ![u] =
                 [at |-> "acted", task |-> r.task, target |-> target,
                  result |-> Result(r.action), activated |-> activated,
                  wf |-> IF over THEN [status |-> Outcome(view), done |-> Counted(u)]
                         ELSE [status |-> r.wf.status,
                               done |-> IF ran THEN SystemCount(u) ELSE Counted(u)],
                  writes |-> writes]]
    BY DEF Finish
  <2>. DEFINE over == NoPendingTasks(Visible(target, activated))
              ran  == target \in System /\ activated = "completed"
              row  == IF over
                      THEN [status |-> Outcome(Visible(target, activated)), done |-> Counted(u)]
                      ELSE [status |-> r.wf.status,
                            done |-> IF ran THEN SystemCount(u) ELSE Counted(u)]
              writes == IF over THEN "row"
                        ELSE IF r.action = "complete" \/ ran THEN "count" ELSE "nothing"
  <2>2. req' = [req EXCEPT ![u] =
               [at |-> "acted", task |-> r.task, target |-> target,
                result |-> Result(r.action), activated |-> activated,
                wf |-> row, writes |-> writes]]
    BY <2>1
  <2>3. writes = "row" => over /\ row.status = Outcome(Visible(target, activated))
    BY Zenon
  <2>. HIDE DEF target, row, writes
  <2>. QED
    BY <2>2, <2>3
<1>. PICK row, writes :
          /\ writes = "row" => /\ NoPendingTasks(Visible(target, activated))
                               /\ row.status = Outcome(Visible(target, activated))
          /\ req' = [req EXCEPT ![u] =
               [at |-> "acted", task |-> r.task, target |-> target,
                result |-> Result(r.action), activated |-> activated,
                wf |-> row, writes |-> writes]]
  BY <1>3
<1>. DEFINE view == Visible(target, activated)
            new == [at |-> "acted", task |-> r.task, target |-> target,
                    result |-> Result(r.action), activated |-> activated,
                    wf |-> row, writes |-> writes]
<1>4. req'[u] = new /\ \A v \in Users : v # u => req'[v] = req[v]
  BY <1>3 DEF TypeOK
<1>5. UNCHANGED <<task, wf, desk, finished, failures>>
  BY DEF Finish, history
<1>6. ASSUME writes = "row"
      PROVE  /\ row.status \in {"completed", "failed"}
             /\ Tasks \ {r.task, target} \subseteq finished
             /\ target \in Tasks => activated \in Finished
             /\ row.status = "failed" =>
                  failures # {} \/ (target \in Tasks /\ activated = "failed")
  <2>1. row.status = Outcome(view) /\ \A t \in Tasks : view[t] \notin Pending
    BY <1>3, <1>6 DEF NoPendingTasks
  <2>2. \A t \in Tasks : view[t] = IF t = target THEN activated ELSE task[t]
    BY DEF Visible
  <2>3. Tasks \ {r.task, target} \subseteq finished
    BY <2>1, <2>2 DEF OutcomeInv, OutcomeJustified, TypeOK, Finished
  <2>4. target \in Tasks => activated \in Finished
    <3>1. target \in Tasks => activated \in TaskStatus
      BY <1>3, TargetTypes, <1>2, GraphAssumption
    <3>. QED
      BY <2>1, <2>2, <3>1 DEF Finished
  <2>5. row.status = "failed" =>
          failures # {} \/ (target \in Tasks /\ activated = "failed")
    BY <2>1, <2>2 DEF Outcome, OutcomeInv, OutcomeJustified
  <2>6. row.status \in {"completed", "failed"}
    BY <2>1 DEF Outcome
  <2>. QED
    BY <2>3, <2>4, <2>5, <2>6
<1>7. OutcomeJustified'
  <2>. HIDE DEF target
  <2>1. ASSUME NEW v \in Users, req'[v].at = "acted"
        PROVE  (LET q == req[v]
         IN  /\ q.target # q.task
             /\ q.writes = "row" =>
                  /\ q.wf.status \in {"completed", "failed"}
                  /\ Tasks \ {q.task, q.target} \subseteq finished
                  /\ q.result \in Finished /\ (q.target \in Tasks => q.activated \in Finished)
                  /\ q.wf.status = "failed" =>
                       failures # {} \/ (q.target \in Tasks /\ q.activated = "failed"))'
    <3>1. CASE v = u
      BY <3>1, <1>2, <1>4, <1>5, <1>6
    <3>2. CASE v # u
      BY <3>2, <2>1, <1>4, <1>5 DEF OutcomeInv, OutcomeJustified
    <3>. QED
      BY <3>1, <3>2
  <2>. QED
    BY <2>1, <1>5 DEF OutcomeInv, OutcomeJustified
<1>. QED
  BY <1>5, <1>7 DEF OutcomeInv, CompletedMeansAllFinished, FailedMeansTaskFailed

(* Commit saves the row together with the tasks it rests on. *)
LEMMA OutcomeCommit ==
  ASSUME TypeOK, OutcomeInv, NEW u \in Users, Commit(u)
  PROVE  OutcomeInv'
<1>. DEFINE r == req[u]
<1>1. r \in Acted /\ r.at = "acted"
  BY DEF Commit, TypeOK, NoReq, Loaded
<1>2. r.task \in Tasks /\ r.target \in Tasks \cup {NoTask} /\ r.result \in TaskStatus
  BY <1>1 DEF Acted
<1>3. /\ \A t \in Tasks : task'[t] = IF t = r.task THEN r.result
                                     ELSE IF t = r.target THEN r.activated ELSE task[t]
      /\ finished' = finished \cup {t \in {r.task, r.target} \cap Tasks : task'[t] \in Finished}
      /\ failures' = failures \cup {t \in Tasks : task'[t] = "failed"}
      /\ req' = [req EXCEPT ![u] = NoReq] /\ desk' = desk
  BY DEF Commit, Saved
<1>4. wf'.status = wf.status \/ (r.writes = "row" /\ wf' = r.wf)
  <2>1. r.writes \in {"nothing", "count", "row"} /\ wf \in Row
    BY <1>1 DEF Acted, TypeOK
  <2>. QED
    BY <2>1 DEF Commit, Row
<1>5. r.target # r.task /\ (r.writes = "row" =>
                /\ r.wf.status \in {"completed", "failed"}
                /\ Tasks \ {r.task, r.target} \subseteq finished
                /\ r.result \in Finished /\ (r.target \in Tasks => r.activated \in Finished)
                /\ r.wf.status = "failed" =>
                     failures # {} \/ (r.target \in Tasks /\ r.activated = "failed"))
  BY <1>1 DEF OutcomeInv, OutcomeJustified
<1>6. r.writes = "row" => finished' = Tasks
  <2>1. finished' \subseteq Tasks
    BY <1>3 DEF TypeOK
  <2>. QED
    BY <2>1, <1>2, <1>3, <1>5
<1>7. r.writes = "row" /\ r.wf.status = "failed" => failures' # {}
  BY <1>2, <1>3, <1>5
<1>8. /\ \A t \in Tasks : task'[t] \in Finished => t \in finished'
      /\ \A t \in Tasks : task'[t] = "failed" => t \in failures'
  BY <1>3 DEF OutcomeInv, OutcomeJustified
<1>9. OutcomeJustified'
  <2>1. \A v \in Users : req'[v] = IF v = u THEN NoReq ELSE req[v]
    BY <1>3 DEF TypeOK
  <2>2. finished \subseteq finished' /\ failures \subseteq failures'
    BY <1>3
  <2>3. ASSUME NEW v \in Users, req'[v].at = "acted"
        PROVE  (LET q == req[v]
         IN  /\ q.target # q.task
             /\ q.writes = "row" =>
                  /\ q.wf.status \in {"completed", "failed"}
                  /\ Tasks \ {q.task, q.target} \subseteq finished
                  /\ q.result \in Finished /\ (q.target \in Tasks => q.activated \in Finished)
                  /\ q.wf.status = "failed" =>
                       failures # {} \/ (q.target \in Tasks /\ q.activated = "failed"))'
    BY <2>1, <2>2, <2>3 DEF NoReq, OutcomeInv, OutcomeJustified
  <2>4. /\ finished' \subseteq Tasks
        /\ \A d \in Staff : desk[d].at = "task" => TrueTask(desk[d].task, desk[d].seen)
        /\ \A d \in Staff : desk[d].at = "instance" => TrueRow(desk[d].wf)
    BY <1>3, OutcomeParts DEF Truthful, TypeOK
  <2>5. /\ \A d \in Staff : desk'[d].at = "task" =>
            /\ desk'[d].seen \in Finished => desk'[d].task \in finished'
            /\ desk'[d].seen = "failed" => desk'[d].task \in failures'
        /\ \A d \in Staff : desk'[d].at = "instance" =>
            /\ desk'[d].wf.status = "completed" => finished' = Tasks
            /\ desk'[d].wf.status = "failed" => failures' # {}
    BY <1>3, <2>2, <2>4 DEF TrueTask, TrueRow
  <2>. QED
    BY <2>3, <2>5, <1>8 DEF OutcomeJustified
<1>10. CompletedMeansAllFinished'
  BY <1>3, <1>4, <1>6 DEF OutcomeInv, CompletedMeansAllFinished, TypeOK
<1>11. FailedMeansTaskFailed'
  BY <1>3, <1>4, <1>7 DEF OutcomeInv, FailedMeansTaskFailed
<1>. QED
  BY <1>9, <1>10, <1>11 DEF OutcomeInv

(* Every step keeps the strengthening. *)
LEMMA OutcomeStep ==
  ASSUME TypeOK, OutcomeInv, [Next]_vars
  PROVE  OutcomeInv'
<1>1. ASSUME NEW u \in Users, NEW t \in Tasks, NEW a \in Actions, Load(u, t, a)
      PROVE  OutcomeInv'
  BY <1>1, OutcomeFrame DEF Load, TypeOK, history
<1>2. ASSUME NEW u \in Users, Refused(u)
      PROVE  OutcomeInv'
  BY <1>2, OutcomeFrame DEF Refused, TypeOK, NoReq, history
<1>3. ASSUME NEW u \in Users, StartOrFail(u)
      PROVE  OutcomeInv'
  <2>1. req[u] \in Loaded
    BY <1>3 DEF StartOrFail, Requested, TypeOK, NoReq, Acted
  <2>2. req[u].task # NoTask
    BY <2>1, GraphAssumption DEF Loaded
  <2>3. \A v \in Users : \/ req'[v] = req[v]
                         \/ req'[v].target = NoTask /\ req'[v].task = req[u].task
                            /\ req'[v].writes = "nothing"
    BY <1>3 DEF StartOrFail, TypeOK
  <2>4. UNCHANGED <<task, finished, failures, wf, desk>>
    BY <1>3 DEF StartOrFail, history
  <2>. QED
    BY <2>2, <2>3, <2>4, OutcomeFrame
<1>4. ASSUME NEW u \in Users, Finish(u)
      PROVE  OutcomeInv'
  BY <1>4, OutcomeFinish
<1>5. ASSUME NEW u \in Users, FinishRefused(u)
      PROVE  OutcomeInv'
  BY <1>5, OutcomeFrame DEF FinishRefused, TypeOK, NoReq, history
<1>6. ASSUME NEW u \in Users, Commit(u)
      PROVE  OutcomeInv'
  BY <1>6, OutcomeCommit
<1>7. ASSUME NEW s \in Staff,
             \/ LoadInstance(s)
             \/ \E t \in Tasks : LoadTask(s, t)
             \/ \E t, d \in Tasks : CheckDependency(s, t, d)
      PROVE  OutcomeInv'
  <2>1. PICK r : Receive(s, r) /\ Truthful(r)
    <3>1. /\ Truthful([at |-> "instance", wf |-> wf])
          /\ \A t \in Tasks : Truthful([at |-> "task", task |-> t, seen |-> task[t]])
          /\ \A t, d \in Tasks : Truthful([at |-> "dependency", task |-> t, on |-> d])
      BY OutcomeParts DEF Truthful
    <3>. QED
      BY <1>7, <3>1 DEF LoadInstance, LoadTask, CheckDependency
  <2>2. \A d \in Staff : desk'[d] = desk[d] \/ desk'[d] = r
    BY <2>1 DEF Receive, TypeOK
  <2>3. UNCHANGED <<task, wf, req, finished, failures>>
    BY <2>1 DEF Receive, history
  <2>. QED
    BY <2>1, <2>2, <2>3, OutcomeFrame
<1>8. ASSUME NEW s \in Staff, CancelInstance(s) \/ UpdateInstance(s)
      PROVE  OutcomeInv'
  <2>1. desk[s].wf \in Row /\ TrueRow(desk[s].wf)
    BY <1>8, DeskKinds, OutcomeParts DEF CancelInstance, UpdateInstance, LoadedRow, Truthful
  <2>2. TrueRow(wf')
    BY <1>8, <2>1 DEF CancelInstance, UpdateInstance, SaveInstance, Row, TrueRow
  <2>3. UNCHANGED <<task, req, finished, failures>> /\ Answer(s)
    BY <1>8 DEF CancelInstance, UpdateInstance, SaveInstance, history
  <2>4. \A d \in Staff : desk'[d] = desk[d] \/ Truthful(desk'[d])
    BY <2>3 DEF Answer, TypeOK, Truthful, NoReq
  <2>. QED
    BY <2>2, <2>3, <2>4, OutcomeFrame
<1>9. ASSUME NEW s \in Staff, SaveTask(s)
      PROVE  OutcomeInv'
  <2>1. desk[s].task \in Tasks /\ TrueTask(desk[s].task, desk[s].seen)
    BY <1>9, DeskKinds, OutcomeParts DEF SaveTask, LoadedTask, Truthful
  <2>2. \A t \in Tasks : task'[t] = task[t] \/ TrueTask(t, task'[t])
    BY <1>9, <2>1 DEF SaveTask, TypeOK
  <2>3. UNCHANGED <<wf, req, finished, failures>>
    BY <1>9 DEF SaveTask
  <2>4. \A d \in Staff : desk'[d] = desk[d] \/ Truthful(desk'[d])
    BY <1>9 DEF SaveTask, Answer, TypeOK, Truthful, NoReq
  <2>. QED
    BY <2>2, <2>3, <2>4, OutcomeFrame
<1>10. ASSUME NEW s \in Staff, AddDependency(s)
      PROVE  OutcomeInv'
  <2>1. \A d \in Staff : desk'[d] = desk[d] \/ Truthful(desk'[d])
    BY <1>10 DEF AddDependency, Answer, TypeOK, Truthful, NoReq
  <2>. QED
    BY <1>10, <2>1, OutcomeFrame DEF AddDependency, history
<1>11. CASE UNCHANGED vars
  BY <1>11, OutcomeFrame DEF vars
<1>. QED
  BY <1>1, <1>2, <1>3, <1>4, <1>5, <1>6, <1>7, <1>8, <1>9, <1>10, <1>11
  DEF Next, User, Endpoint

LEMMA OutcomeInvariant == Spec => []OutcomeInv
<1>1. Init => OutcomeInv
  BY DEF Init, OutcomeInv, OutcomeJustified, CompletedMeansAllFinished,
         FailedMeansTaskFailed, Finished, Pending, TaskStatus, NoReq
<1>2. TypeOK /\ OutcomeInv /\ [Next]_vars => OutcomeInv'
  BY OutcomeStep
<1>. QED
  BY <1>1, <1>2, TypeCorrect, PTL DEF Spec

(* A 'completed' instance has had every task finished, under every interleaving of    *)
(* requests with stale instances (_check_workflow_completion).                        *)
THEOREM OutcomeCorrect == Spec => []CompletedMeansAllFinished
<1>1. OutcomeInv => CompletedMeansAllFinished
  BY DEF OutcomeInv
<1>. QED
  BY <1>1, OutcomeInvariant, PTL

(* A 'failed' instance has had some task failed: skipping and cancelling, in any      *)
(* interleaving, never fail it (_check_workflow_completion).                          *)
THEOREM FailureCorrect == Spec => []FailedMeansTaskFailed
<1>1. OutcomeInv => FailedMeansTaskFailed
  BY DEF OutcomeInv
<1>. QED
  BY <1>1, OutcomeInvariant, PTL

-----------------------------------------------------------------------------
(* The strengthening for successors: a request about to save a task as completed or     *)
(* skipped saves its successor with it, unless the successor has dependencies.          *)
NoDependencies(t) == \A d \in Tasks : <<t, d>> \notin deps

Activates(r) ==
  /\ r.result # "created"
  /\ r.target \in Tasks => r.activated # "created"
  /\ r.target \in Tasks \ System => r.activated = "assigned"
  /\ /\ r.result \in {"completed", "skipped"}
     /\ Successor[r.task] \in Tasks /\ NoDependencies(Successor[r.task])
     => r.target = Successor[r.task]

(* A row somebody has read as completed or skipped had its successor activated. *)
Followed(t, st) ==
  /\ t \in Tasks \ (System \cup InitiallySkipped) /\ st \in {"completed", "skipped"}
  /\ Successor[t] \in Tasks \ undone /\ NoDependencies(Successor[t])
  => task[Successor[t]] # "created"

SuccessorInv ==
  /\ SuccessorActivated
  /\ \A s \in Staff : desk[s].at = "task" => Followed(desk[s].task, desk[s].seen)
  /\ \A u \in Users : req[u].at = "acted" => Activates(req[u])

LEMMA SuccessorParts == SuccessorActivated <=> \A t \in Tasks : Followed(t, task[t])
BY DEF SuccessorActivated, Followed, NoDependencies

(* A step that makes no task 'created' without recording it as undone forgets nothing. *)
LEMMA FollowedKept ==
  ASSUME deps \subseteq deps',
         \A x \in Tasks \ undone' : task'[x] = "created" => x \notin undone /\ task[x] = "created",
         NEW t, NEW st, Followed(t, st)
  PROVE  /\ t \in Tasks \ (System \cup InitiallySkipped) /\ st \in {"completed", "skipped"}
         /\ Successor[t] \in Tasks \ undone' /\ \A d \in Tasks : <<Successor[t], d>> \notin deps'
         => task'[Successor[t]] # "created"
BY DEF Followed, NoDependencies

(* A step that saves no task, if what the requests are about to save is unchanged or    *)
(* activates what it should, and what is loaded is as it is in the row.                 *)
LEMMA SuccessorFrame ==
  ASSUME SuccessorInv, task' = task, undone' = undone, deps \subseteq deps',
         \A s \in Staff : \/ desk'[s] = desk[s]
                          \/ desk'[s].at # "task"
                          \/ desk'[s].task \in Tasks /\ desk'[s].seen = task[desk'[s].task],
         \A v \in Users : \/ req'[v] = req[v]
                          \/ req'[v].at # "acted"
                          \/ Activates(req'[v])
  PROVE  SuccessorInv'
<1>1. \A r : Activates(r) => Activates(r)'
  BY DEF Activates, NoDependencies
<1>2. \A v \in Users : req'[v].at = "acted" => Activates(req[v])'
  BY <1>1 DEF SuccessorInv
<1>3. \A t, st : Followed(t, st) => Followed(t, st)'
  BY DEF Followed, NoDependencies
<1>4. \A t \in Tasks : Followed(t, task[t])
  BY SuccessorParts DEF SuccessorInv
<1>5. SuccessorActivated'
  BY <1>3, <1>4 DEF SuccessorActivated, Followed, NoDependencies
<1>6. ASSUME NEW s \in Staff, desk'[s].at = "task"
      PROVE  Followed(desk'[s].task, desk'[s].seen)
  BY <1>4, <1>6 DEF SuccessorInv
<1>7. \A s \in Staff : desk'[s].at = "task" => Followed(desk[s].task, desk[s].seen)'
  BY <1>6 DEF Followed, NoDependencies
<1>. QED
  BY <1>2, <1>5, <1>7 DEF SuccessorInv

(* Finish chooses the successor if it may start, and gives it a status of its own.       *)
LEMMA SuccessorFinish ==
  ASSUME TypeOK, NEW u \in Users, Finish(u)
  PROVE  Activates(req'[u]) /\ \A v \in Users \ {u} : req'[v] = req[v]
<1>1. req[u] \in Loaded /\ req[u].task \in Tasks
  BY DEF Finish, Requested, TypeOK, NoReq, Acted, Loaded
<1>. DEFINE r == req[u]
            target == Target(r.task)
<1>2. PICK new : /\ req' = [req EXCEPT ![u] = new]
                 /\ new.task = r.task /\ new.target = target
                 /\ new.result = Result(r.action) /\ r.action \in {"complete", "skip"}
                 /\ target # NoTask => new.activated \in Activations(target)
  <2>1. PICK activated \in (IF target = NoTask THEN {r.seen} ELSE Activations(target)) :
          LET view == Visible(target, activated)
              ran  == target \in System /\ activated = "completed"
              over == NoPendingTasks(view)
              writes == IF over THEN "row"
                        ELSE IF r.action = "complete" \/ ran THEN "count" ELSE "nothing"
          IN  req' = [req EXCEPT ![u] =
                 [at |-> "acted", task |-> r.task, target |-> target,
                  result |-> Result(r.action), activated |-> activated,
                  wf |-> IF over THEN [status |-> Outcome(view), done |-> Counted(u)]
                         ELSE [status |-> r.wf.status,
                               done |-> IF ran THEN SystemCount(u) ELSE Counted(u)],
                  writes |-> writes]]
    BY DEF Finish
  <2>2. \E row, writes :
          req' = [req EXCEPT ![u] =
                 [at |-> "acted", task |-> r.task, target |-> target,
                  result |-> Result(r.action), activated |-> activated,
                  wf |-> row, writes |-> writes]]
    BY <2>1, Zenon
  <2>3. PICK row, writes :
          req' = [req EXCEPT ![u] =
                 [at |-> "acted", task |-> r.task, target |-> target,
                  result |-> Result(r.action), activated |-> activated,
                  wf |-> row, writes |-> writes]]
    BY <2>2
  <2>. DEFINE new == [at |-> "acted", task |-> r.task, target |-> target,
                      result |-> Result(r.action), activated |-> activated,
                      wf |-> row, writes |-> writes]
  <2>4. r.action \in {"complete", "skip"}
    BY DEF Finish, Requested
  <2>5. /\ new.task = r.task /\ new.target = target /\ new.result = Result(r.action)
        /\ target # NoTask => new.activated \in Activations(target)
    BY <2>1
  <2>6. req' = [req EXCEPT ![u] = new]
    BY <2>3
  <2>. HIDE DEF new, target
  <2>. QED
    BY <2>4, <2>5, <2>6
<1>3. req'[u] = new /\ \A v \in Users \ {u} : req'[v] = req[v]
  BY <1>2 DEF TypeOK
<1>4. Successor[r.task] \in Tasks /\ NoDependencies(Successor[r.task]) => target = Successor[r.task]
  BY DEF Target, CanStart, NoDependencies
<1>5. /\ target \in Tasks => new.activated # "created"
      /\ target \in Tasks \ System => new.activated = "assigned"
  <2>1. \A t : "created" \notin Activations(t) /\ (t \notin System => Activations(t) = {"assigned"})
    BY DEF Activations
  <2>. QED
    BY <1>2, <2>1, GraphAssumption
<1>6. new.result # "created"
  BY <1>2 DEF Result
<1>. HIDE DEF target
<1>. QED
  BY <1>1, <1>2, <1>3, <1>4, <1>5, <1>6 DEF Activates

(* Commit saves a task together with its successor, and saves no task as created. *)
LEMMA SuccessorCommit ==
  ASSUME TypeOK, SuccessorInv, NEW u \in Users, Commit(u)
  PROVE  SuccessorInv'
<1>. DEFINE r == req[u]
<1>1. /\ r \in Acted /\ r.at = "acted" /\ r.task \in Tasks /\ Activates(r)
      /\ r.target \in Tasks \cup {NoTask}
  BY DEF Commit, TypeOK, NoReq, Loaded, Acted, SuccessorInv
<1>2. /\ \A t \in Tasks : task'[t] = IF t = r.task THEN r.result
                                     ELSE IF t = r.target THEN r.activated ELSE task[t]
      /\ deps' = deps /\ desk' = desk /\ undone' = undone \ {r.task, r.target}
      /\ \A v \in Users : req'[v] = IF v = u THEN NoReq ELSE req[v]
  BY DEF Commit, Saved, TypeOK
<1>3. \A v \in Users : req'[v].at = "acted" => Activates(req[v])'
  BY <1>2 DEF SuccessorInv, Activates, NoDependencies, NoReq
<1>4. \A x \in Tasks \ undone' : task'[x] = "created" => x \notin undone /\ task[x] = "created"
  BY <1>1, <1>2 DEF Activates
<1>5. ASSUME NEW t \in Tasks \ (System \cup InitiallySkipped),
             task'[t] \in {"completed", "skipped"}, Successor[t] \in Tasks \ undone',
             NoDependencies(Successor[t])
      PROVE  task'[Successor[t]] # "created"
  <2>1. Successor[t] # t
    BY GraphAssumption
  <2>2. CASE t = r.task
    BY <1>1, <1>2, <1>5, <2>1, <2>2 DEF Activates
  <2>3. CASE t # r.task
    <3>1. t # r.target /\ task'[t] = task[t]
      BY <1>1, <1>2, <1>5, <2>3 DEF Activates
    <3>2. Followed(t, task[t])
      BY SuccessorParts DEF SuccessorInv
    <3>. QED
      BY <1>2, <1>4, <1>5, <3>1, <3>2, FollowedKept DEF NoDependencies
  <2>. QED
    BY <2>2, <2>3
<1>6. SuccessorActivated'
  BY <1>2, <1>5 DEF SuccessorActivated, NoDependencies
<1>7. \A s \in Staff : desk'[s].at = "task" => Followed(desk[s].task, desk[s].seen)'
  BY <1>2, <1>4, FollowedKept DEF SuccessorInv, Followed, NoDependencies
<1>. QED
  BY <1>3, <1>6, <1>7 DEF SuccessorInv

(* The save of a row that was read earlier: a task is 'created' again only if it is     *)
(* recorded as undone, and a finished one had its successor activated before.           *)
LEMMA SuccessorSave ==
  ASSUME TypeOK, SuccessorInv, NEW s \in Staff, SaveTask(s)
  PROVE  SuccessorInv'
<1>. DEFINE t == desk[s].task
            seen == desk[s].seen
<1>1. t \in Tasks /\ Followed(t, seen)
  BY DeskKinds DEF SaveTask, LoadedTask, SuccessorInv
<1>2. /\ \A x \in Tasks : task'[x] = IF x = t THEN seen ELSE task[x]
      /\ undone' = undone \cup {x \in {t} : task[x] # "created" /\ seen = "created"}
      /\ deps' = deps /\ req' = req
      /\ \A d \in Staff : desk'[d] = IF d = s THEN NoReq ELSE desk[d]
  BY DEF SaveTask, Answer, TypeOK
<1>. HIDE DEF t, seen
<1>3. \A x \in Tasks \ undone' : task'[x] = "created" => x \notin undone /\ task[x] = "created"
  BY <1>2
<1>4. \A x \in Tasks : Followed(x, task'[x])
  BY <1>1, <1>2, SuccessorParts DEF SuccessorInv
<1>5. \A x, st : Followed(x, st) => Followed(x, st)'
  BY <1>2, <1>3, FollowedKept DEF Followed, NoDependencies
<1>6. SuccessorActivated'
  BY <1>4, <1>5 DEF SuccessorActivated, Followed, NoDependencies
<1>7. \A d \in Staff : desk'[d].at = "task" => Followed(desk[d].task, desk[d].seen)
  BY <1>2 DEF SuccessorInv, NoReq
<1>8. \A d \in Staff : desk'[d].at = "task" => desk'[d] = desk[d]
  BY <1>2 DEF NoReq
<1>9. \A d \in Staff : desk'[d].at = "task" => Followed(desk[d].task, desk[d].seen)'
  BY <1>2, <1>3, <1>7, <1>8, FollowedKept DEF Followed, NoDependencies
<1>10. \A v \in Users : req'[v].at = "acted" => Activates(req[v])'
  BY <1>2 DEF SuccessorInv, Activates, NoDependencies
<1>. QED
  BY <1>6, <1>9, <1>10 DEF SuccessorInv

(* Every step keeps the strengthening. *)
LEMMA SuccessorStep ==
  ASSUME TypeOK, SuccessorInv, [Next]_vars
  PROVE  SuccessorInv'
<1>1. ASSUME NEW u \in Users, NEW t \in Tasks, NEW a \in Actions, Load(u, t, a)
      PROVE  SuccessorInv'
  BY <1>1, SuccessorFrame DEF Load, TypeOK, history
<1>2. ASSUME NEW u \in Users, Refused(u)
      PROVE  SuccessorInv'
  BY <1>2, SuccessorFrame DEF Refused, TypeOK, NoReq, history
<1>3. ASSUME NEW u \in Users, StartOrFail(u)
      PROVE  SuccessorInv'
  <2>1. req[u] \in Loaded /\ req[u].action \in {"start", "fail"}
    BY <1>3 DEF StartOrFail, Requested, TypeOK, NoReq, Acted
  <2>2. req'[u].target = NoTask /\ req'[u].result \in {"started", "failed"}
    BY <1>3, <2>1 DEF StartOrFail, Result, TypeOK
  <2>3. Activates(req'[u]) /\ \A v \in Users \ {u} : req'[v] = req[v]
    BY <1>3, <2>2, GraphAssumption DEF StartOrFail, Activates, TypeOK
  <2>4. UNCHANGED <<task, undone, deps, desk>>
    BY <1>3 DEF StartOrFail, history
  <2>. QED
    BY <2>3, <2>4, SuccessorFrame
<1>4. ASSUME NEW u \in Users, Finish(u)
      PROVE  SuccessorInv'
  <2>1. UNCHANGED <<task, undone, deps, desk>>
    BY <1>4 DEF Finish, history
  <2>. QED
    BY <1>4, <2>1, SuccessorFinish, SuccessorFrame
<1>5. ASSUME NEW u \in Users, FinishRefused(u)
      PROVE  SuccessorInv'
  BY <1>5, SuccessorFrame DEF FinishRefused, TypeOK, NoReq, history
<1>6. ASSUME NEW u \in Users, Commit(u)
      PROVE  SuccessorInv'
  BY <1>6, SuccessorCommit
<1>7. ASSUME NEW s \in Staff,
             \/ LoadInstance(s)
             \/ \E t \in Tasks : LoadTask(s, t)
             \/ \E t, d \in Tasks : CheckDependency(s, t, d)
      PROVE  SuccessorInv'
  <2>1. PICK r : /\ Receive(s, r)
                 /\ r.at = "task" => r.task \in Tasks /\ r.seen = task[r.task]
    <3>1. CASE LoadInstance(s)
      <4>1. [at |-> "instance", wf |-> wf].at # "task"
        OBVIOUS
      <4>. QED
        BY <3>1, <4>1 DEF LoadInstance
    <3>2. CASE \E t \in Tasks : LoadTask(s, t)
      BY <3>2 DEF LoadTask
    <3>3. CASE \E t, d \in Tasks : CheckDependency(s, t, d)
      <4>1. \A t, d \in Tasks : [at |-> "dependency", task |-> t, on |-> d].at # "task"
        OBVIOUS
      <4>. QED
        BY <3>3, <4>1 DEF CheckDependency
    <3>. QED
      BY <1>7, <3>1, <3>2, <3>3
  <2>2. \A d \in Staff : desk'[d] = desk[d] \/ desk'[d] = r
    BY <2>1 DEF Receive, TypeOK
  <2>3. UNCHANGED <<task, undone, deps, req>>
    BY <2>1 DEF Receive, history
  <2>. QED
    BY <2>1, <2>2, <2>3, SuccessorFrame
<1>8. ASSUME NEW s \in Staff, CancelInstance(s) \/ UpdateInstance(s) \/ AddDependency(s)
      PROVE  SuccessorInv'
  <2>1. /\ UNCHANGED <<task, undone, req>> /\ deps \subseteq deps' /\ Answer(s)
    BY <1>8 DEF CancelInstance, UpdateInstance, SaveInstance, AddDependency, history
  <2>2. \A d \in Staff : desk'[d] = desk[d] \/ desk'[d].at # "task"
    BY <2>1 DEF Answer, TypeOK, NoReq
  <2>. QED
    BY <2>1, <2>2, SuccessorFrame
<1>9. ASSUME NEW s \in Staff, SaveTask(s)
      PROVE  SuccessorInv'
  BY <1>9, SuccessorSave
<1>10. CASE UNCHANGED vars
  BY <1>10, SuccessorFrame DEF vars
<1>. QED
  BY <1>1, <1>2, <1>3, <1>4, <1>5, <1>6, <1>7, <1>8, <1>9, <1>10 DEF Next, User, Endpoint

(* Once a user's task is completed or skipped, its successor has left 'created',        *)
(* whoever else saved what in between, unless it has dependencies or a stale save of    *)
(* its own row undid the activation and nobody has acted on it since                    *)
(* (_handle_task_completion, reassign).                                                 *)
THEOREM SuccessorsActivated == Spec => []SuccessorActivated
<1>1. Init => SuccessorInv
  BY DEF Init, SuccessorInv, SuccessorActivated, NoReq
<1>2. TypeOK /\ SuccessorInv /\ [Next]_vars => SuccessorInv'
  BY SuccessorStep
<1>3. SuccessorInv => SuccessorActivated
  BY DEF SuccessorInv
<1>. QED
  BY <1>1, <1>2, <1>3, TypeCorrect, PTL DEF Spec
=============================================================================
