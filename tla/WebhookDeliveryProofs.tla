------------------------ MODULE WebhookDeliveryProofs ------------------------
(***************************************************************************)
(* Theorems about WebhookDelivery, for any number of workers, of           *)
(* administrators and of attempts, with and without ATOMIC_REQUESTS.       *)
(***************************************************************************)
EXTENDS WebhookDelivery, TLAPS

(* Nothing works on a row before it is committed. *)
Unborn ==
  /\ row.status = "absent" =>
       /\ row.attempts = 0 /\ posts = 0
       /\ \A w \in Workers : ~Busy(w)
       /\ \A a \in Admins : ~Asking(a)
  /\ creator \in {"idle", "inserted", "sent"} => row.status = "absent"

(* What the copies of the row say, by the place of who holds them. *)
Copies ==
  /\ \A w \in Workers :
       /\ Busy(w) => mem[w].status # "absent"
       /\ worker[w] = "answered" => mem[w].status \in {"success", "failed"}
       /\ worker[w] = "failing" => mem[w].status = "failed"
       /\ worker[w] = "retrying" => mem[w].status = "retrying"
  /\ \A a \in Admins :
       /\ Asking(a) => view[a].status = "pending"
       /\ admin[a] = "sent" => atomic

(* Who will see to it that an open row is attempted. *)
Awaiting ==
  \/ queue > 0
  \/ \E w \in Workers : Busy(w)
  \/ creator = "created"
  \/ ~atomic /\ \E a \in Admins : admin[a] = "updated"

(* A row that is open, or will be when a transaction commits, is awaited.  *)
Awaited ==
  ~dropped /\ (Open \/ creator = "sent" \/ \E a \in Admins : admin[a] = "sent") => Awaiting

(* Without a race one thing at a time is in progress, the count is what    *)
(* everyone who will write it believes, and success is the end.            *)
Solo ==
  ~raced =>
    /\ posts = row.attempts /\ posts <= MaxAttempts
    /\ queue <= 1
    /\ queue > 0 => row.attempts < MaxAttempts
    /\ \A v, w \in Workers : Busy(v) /\ Busy(w) => v = w
    /\ \A a, b \in Admins : Asking(a) /\ Asking(b) => a = b
    /\ \A w \in Workers : Busy(w) =>
         /\ queue = 0
         /\ mem[w].attempts = row.attempts
         /\ worker[w] = "loaded" => mem[w].status # "success"
         /\ worker[w] \in {"loaded", "retrying", "scheduling"} => row.attempts < MaxAttempts
    /\ \A a \in Admins : Asking(a) =>
         /\ creator = "done"
         /\ view[a].attempts = row.attempts
         /\ admin[a] \in {"loaded", "updated"} =>
              row.attempts < MaxAttempts /\ queue = 0 /\ \A w \in Workers : ~Busy(w)
    /\ creator \in {"idle", "inserted", "created"} => queue = 0
    /\ creator = "created" => row = NewRow /\ \A w \in Workers : ~Busy(w)
    /\ row.status = "success" =>
         queue = 0 /\ (\A w \in Workers : ~Busy(w)) /\ (\A a \in Admins : ~Asking(a))

IInv == TypeOK /\ Unborn /\ Copies /\ Awaited /\ Solo

LEMMA InitIInv == ASSUME DeliveryAssumption, Init PROVE IInv
<1>1. atomic \in BOOLEAN
  BY DEF DeliveryAssumption, Init
<1>2. TypeOK
  BY <1>1 DEF Init, TypeOK, Rows, Statuses, WorkerPlaces, NoRow
<1>3. Unborn /\ Copies /\ Awaited
  BY DEF Init, NoRow, Unborn, Copies, Awaited, Open, Busy, Asking
<1>4. Solo
  BY DEF DeliveryAssumption, Init, NoRow, Solo, Busy, Asking
<1> QED BY <1>2, <1>3, <1>4 DEF IInv

USE DEF Rows, Statuses, WorkerPlaces, NoRow, NewRow

LEMMA TypeStep == ASSUME DeliveryAssumption, TypeOK, [Next]_vars PROVE TypeOK'
<1>1. CASE Create
  BY <1>1 DEF TypeOK, Create
<1>2. CASE Send
  BY <1>2 DEF TypeOK, Send
<1>3. CASE SendFails
  BY <1>3 DEF TypeOK, SendFails
<1>4. CASE Insert
  BY <1>4 DEF TypeOK, Insert
<1>5. CASE InsertSend
  BY <1>5 DEF TypeOK, InsertSend
<1>6. CASE InsertCommit
  BY <1>6 DEF TypeOK, InsertCommit
<1>7. CASE InsertFails
  BY <1>7 DEF TypeOK, InsertFails
<1>8. ASSUME NEW w \in Workers, Take(w) PROVE TypeOK'
  BY <1>8 DEF TypeOK, Take
<1>9. ASSUME NEW w \in Workers, TakeMissing(w) PROVE TypeOK'
  BY <1>9 DEF TypeOK, TakeMissing
<1>10. ASSUME NEW w \in Workers, SkipInactive(w) PROVE TypeOK'
  BY <1>10 DEF TypeOK, SkipInactive, End
<1>11. ASSUME NEW w \in Workers, SaveAttempt(w) PROVE TypeOK'
  BY <1>11 DEF TypeOK, SaveAttempt, Save
<1>12. ASSUME NEW w \in Workers, Answer(w) PROVE TypeOK'
  BY <1>12 DEF TypeOK, Answer
<1>13. ASSUME NEW w \in Workers, SaveOutcome(w) PROVE TypeOK'
  BY <1>13 DEF TypeOK, SaveOutcome, Save, End
<1>14. ASSUME NEW w \in Workers, Raise(w) PROVE TypeOK'
  BY <1>14 DEF TypeOK, Raise
<1>15. ASSUME NEW w \in Workers, Reload(w) PROVE TypeOK'
  BY <1>15 DEF TypeOK, Reload
<1>16. ASSUME NEW w \in Workers, SaveFailed(w) PROVE TypeOK'
  <2>1. row' \in Rows /\ worker' \in [Workers -> WorkerPlaces] /\ mem' \in [Workers -> Rows]
    <3>1. CASE mem[w].attempts < MaxAttempts
      BY <3>1, <1>16 DEF TypeOK, SaveFailed, Save
    <3>2. CASE ~(mem[w].attempts < MaxAttempts)
      BY <3>2, <1>16 DEF TypeOK, SaveFailed, Save, End
    <3> QED BY <3>1, <3>2
  <2> QED BY <2>1, <1>16 DEF TypeOK, SaveFailed
<1>17. ASSUME NEW w \in Workers, SaveRetrying(w) PROVE TypeOK'
  BY <1>17 DEF TypeOK, SaveRetrying, Save
<1>18. ASSUME NEW w \in Workers, Schedule(w) PROVE TypeOK'
  BY <1>18 DEF TypeOK, Schedule, End
<1>19. ASSUME NEW w \in Workers, Die(w) PROVE TypeOK'
  BY <1>19 DEF TypeOK, Die, End
<1>20. ASSUME NEW a \in Admins, RetryLoad(a) PROVE TypeOK'
  BY <1>20 DEF TypeOK, RetryLoad
<1>21. ASSUME NEW a \in Admins, RetrySave(a) PROVE TypeOK'
  BY <1>21 DEF TypeOK, RetrySave
<1>22. ASSUME NEW a \in Admins, RetrySend(a) PROVE TypeOK'
  BY <1>22 DEF TypeOK, RetrySend, RetryReturn
<1>23. ASSUME NEW a \in Admins, RetryCommit(a) PROVE TypeOK'
  BY <1>23 DEF TypeOK, RetryCommit, RetryReturn
<1>24. ASSUME NEW a \in Admins, RetryFails(a) PROVE TypeOK'
  BY <1>24 DEF TypeOK, RetryFails, RetryReturn
<1>25. CASE UNCHANGED vars
  BY <1>25 DEF TypeOK, vars
<1> QED BY <1>1, <1>2, <1>3, <1>4, <1>5, <1>6, <1>7, <1>8, <1>9, <1>10, <1>11, <1>12, <1>13,
     <1>14, <1>15, <1>16, <1>17, <1>18, <1>19, <1>20, <1>21, <1>22, <1>23, <1>24, <1>25 DEF
     Next

LEMMA UnbornStep == ASSUME DeliveryAssumption, TypeOK, Unborn, Copies, [Next]_vars PROVE Unborn'
<1>1. CASE Create \/ Send \/ SendFails \/ Insert
             \/ InsertSend \/ InsertCommit \/ InsertFails
  BY <1>1 DEF Unborn, Busy, Asking, Create, Send, SendFails, Insert, InsertSend, InsertCommit,
       InsertFails
<1>2. ASSUME NEW w \in Workers, Take(w) PROVE Unborn'
  BY <1>2 DEF Unborn, Take
<1>3. ASSUME NEW w \in Workers, TakeMissing(w) PROVE Unborn'
  BY <1>3 DEF Unborn, Busy, Asking, TakeMissing
<1>4. ASSUME NEW w \in Workers, SkipInactive(w) PROVE Unborn'
  BY <1>4 DEF Unborn, Busy, SkipInactive
<1>5. ASSUME NEW w \in Workers, SaveAttempt(w) PROVE Unborn'
  BY <1>5 DEF Unborn, Copies, Busy, SaveAttempt, Save
<1>6. ASSUME NEW w \in Workers, Answer(w) PROVE Unborn'
  BY <1>6 DEF Unborn, Busy, Answer
<1>7. ASSUME NEW w \in Workers, SaveOutcome(w) PROVE Unborn'
  BY <1>7 DEF Unborn, Copies, Busy, SaveOutcome, Save
<1>8. ASSUME NEW w \in Workers, Raise(w) PROVE Unborn'
  BY <1>8 DEF Unborn, Busy, Raise
<1>9. ASSUME NEW w \in Workers, Reload(w) PROVE Unborn'
  BY <1>9 DEF Unborn, Busy, Reload
<1>10. ASSUME NEW w \in Workers, SaveFailed(w) PROVE Unborn'
  BY <1>10 DEF Unborn, Copies, Busy, SaveFailed, Save
<1>11. ASSUME NEW w \in Workers, SaveRetrying(w) PROVE Unborn'
  BY <1>11 DEF Unborn, Copies, Busy, SaveRetrying, Save
<1>12. ASSUME NEW w \in Workers, Schedule(w) PROVE Unborn'
  BY <1>12 DEF Unborn, Busy, Schedule
<1>13. ASSUME NEW w \in Workers, Die(w) PROVE Unborn'
  BY <1>13 DEF Unborn, Die
<1>14. ASSUME NEW a \in Admins, RetryLoad(a) PROVE Unborn'
  BY <1>14 DEF Unborn, RetryLoad
<1>15. ASSUME NEW a \in Admins, RetrySave(a) PROVE Unborn'
  BY <1>15 DEF Unborn, Copies, Asking, RetrySave
<1>16. ASSUME NEW a \in Admins, RetrySend(a) PROVE Unborn'
  BY <1>16 DEF Unborn, Asking, RetrySend
<1>17. ASSUME NEW a \in Admins, RetryCommit(a) PROVE Unborn'
  BY <1>17 DEF Unborn, Copies, Asking, RetryCommit
<1>18. ASSUME NEW a \in Admins, RetryFails(a) PROVE Unborn'
  BY <1>18 DEF Unborn, RetryFails
<1>19. CASE UNCHANGED vars
  BY <1>19 DEF Unborn, Busy, Asking, vars
<1> QED BY <1>1, <1>2, <1>3, <1>4, <1>5, <1>6, <1>7, <1>8, <1>9, <1>10, <1>11, <1>12, <1>13,
     <1>14, <1>15, <1>16, <1>17, <1>18, <1>19 DEF Next

LEMMA CopiesStep == ASSUME DeliveryAssumption, TypeOK, Unborn, Copies, [Next]_vars PROVE Copies'
<1>1. CASE Create \/ Send \/ SendFails \/ Insert
             \/ InsertSend \/ InsertCommit \/ InsertFails
  BY <1>1 DEF Copies, Busy, Asking, Create, Send, SendFails, Insert, InsertSend, InsertCommit,
       InsertFails
<1>2. ASSUME NEW w \in Workers, Take(w) PROVE Copies'
  BY <1>2 DEF TypeOK, Copies, Busy, Asking, Take
<1>3. ASSUME NEW w \in Workers, TakeMissing(w) PROVE Copies'
  BY <1>3 DEF Copies, Busy, Asking, TakeMissing
<1>4. ASSUME NEW w \in Workers, SkipInactive(w) PROVE Copies'
  BY <1>4 DEF TypeOK, Copies, Busy, Asking, SkipInactive, End
<1>5. ASSUME NEW w \in Workers, SaveAttempt(w) PROVE Copies'
  BY <1>5 DEF Copies, Busy, Asking, SaveAttempt
<1>6. ASSUME NEW w \in Workers, Answer(w) PROVE Copies'
  BY <1>6 DEF TypeOK, Copies, Busy, Asking, Answer
<1>7. ASSUME NEW w \in Workers, SaveOutcome(w) PROVE Copies'
  BY <1>7 DEF TypeOK, Copies, Busy, Asking, SaveOutcome, End
<1>8. ASSUME NEW w \in Workers, Raise(w) PROVE Copies'
  BY <1>8 DEF Copies, Busy, Asking, Raise
<1>9. ASSUME NEW w \in Workers, Reload(w) PROVE Copies'
  BY <1>9 DEF TypeOK, Copies, Busy, Asking, Reload
<1>10. ASSUME NEW w \in Workers, SaveFailed(w) PROVE Copies'
  BY <1>10 DEF TypeOK, Copies, Busy, Asking, SaveFailed, End
<1>11. ASSUME NEW w \in Workers, SaveRetrying(w) PROVE Copies'
  BY <1>11 DEF Copies, Busy, Asking, SaveRetrying
<1>12. ASSUME NEW w \in Workers, Schedule(w) PROVE Copies'
  BY <1>12 DEF TypeOK, Copies, Busy, Asking, Schedule, End
<1>13. ASSUME NEW w \in Workers, Die(w) PROVE Copies'
  BY <1>13 DEF TypeOK, Copies, Busy, Asking, Die, End
<1>14. ASSUME NEW a \in Admins, RetryLoad(a) PROVE Copies'
  BY <1>14 DEF TypeOK, Copies, Busy, Asking, RetryLoad
<1>15. ASSUME NEW a \in Admins, RetrySave(a) PROVE Copies'
  BY <1>15 DEF Copies, Busy, Asking, RetrySave
<1>16. ASSUME NEW a \in Admins, RetrySend(a) PROVE Copies'
  BY <1>16 DEF TypeOK, Copies, Busy, Asking, RetrySend, RetryReturn
<1>17. ASSUME NEW a \in Admins, RetryCommit(a) PROVE Copies'
  BY <1>17 DEF TypeOK, Copies, Busy, Asking, RetryCommit, RetryReturn
<1>18. ASSUME NEW a \in Admins, RetryFails(a) PROVE Copies'
  BY <1>18 DEF TypeOK, Copies, Busy, Asking, RetryFails, RetryReturn
<1>19. CASE UNCHANGED vars
  BY <1>19 DEF Copies, Busy, Asking, vars
<1> QED BY <1>1, <1>2, <1>3, <1>4, <1>5, <1>6, <1>7, <1>8, <1>9, <1>10, <1>11, <1>12, <1>13,
     <1>14, <1>15, <1>16, <1>17, <1>18, <1>19 DEF Next

LEMMA AwaitedStep == ASSUME DeliveryAssumption, TypeOK, Unborn, Copies, Awaited, [Next]_vars
     PROVE Awaited'
<1>1. CASE Create \/ Send \/ SendFails \/ Insert
             \/ InsertSend \/ InsertCommit \/ InsertFails
  BY <1>1 DEF TypeOK, Awaited, Awaiting, Open, Busy, Create, Send, SendFails, Insert,
       InsertSend, InsertCommit, InsertFails
<1>2. ASSUME NEW w \in Workers, Take(w) PROVE Awaited'
  BY <1>2 DEF TypeOK, Awaited, Awaiting, Busy, Take
<1>3. ASSUME NEW w \in Workers, TakeMissing(w) PROVE Awaited'
  BY <1>3 DEF Awaited, TakeMissing
<1>4. ASSUME NEW w \in Workers, SkipInactive(w) PROVE Awaited'
  BY <1>4 DEF Awaited, SkipInactive
<1>5. ASSUME NEW w \in Workers, SaveAttempt(w) PROVE Awaited'
  BY <1>5 DEF Awaited, Awaiting, Busy, SaveAttempt
<1>6. ASSUME NEW w \in Workers, Answer(w) PROVE Awaited'
  BY <1>6 DEF Awaited, Awaiting, Busy, Answer
<1>7. ASSUME NEW w \in Workers, SaveOutcome(w) PROVE Awaited'
  BY <1>7 DEF Unborn, Copies, Awaited, Open, RowLocked, Busy, SaveOutcome, Save
<1>8. ASSUME NEW w \in Workers, Raise(w) PROVE Awaited'
  BY <1>8 DEF Awaited, Awaiting, Busy, Raise
<1>9. ASSUME NEW w \in Workers, Reload(w) PROVE Awaited'
  BY <1>9 DEF Awaited, Awaiting, Busy, Reload
<1>10. ASSUME NEW w \in Workers, SaveFailed(w) PROVE Awaited'
  BY <1>10 DEF Unborn, Copies, Awaited, Open, RowLocked, Busy, SaveFailed, Save
<1>11. ASSUME NEW w \in Workers, SaveRetrying(w) PROVE Awaited'
  BY <1>11 DEF Awaited, Awaiting, Busy, SaveRetrying
<1>12. ASSUME NEW w \in Workers, Schedule(w) PROVE Awaited'
  BY <1>12 DEF TypeOK, Awaited, Awaiting, Schedule
<1>13. ASSUME NEW w \in Workers, Die(w) PROVE Awaited'
  BY <1>13 DEF Awaited, Die
<1>14. ASSUME NEW a \in Admins, RetryLoad(a) PROVE Awaited'
  BY <1>14 DEF Awaited, Awaiting, Open, Busy, Asking, RetryLoad
<1>15. ASSUME NEW a \in Admins, RetrySave(a) PROVE Awaited'
  BY <1>15 DEF TypeOK, Awaited, Awaiting, Open, Busy, RetrySave
<1>16. ASSUME NEW a \in Admins, RetrySend(a) PROVE Awaited'
  BY <1>16 DEF TypeOK, Awaited, Awaiting, RetrySend
<1>17. ASSUME NEW a \in Admins, RetryCommit(a) PROVE Awaited'
  BY <1>17 DEF Awaited, Awaiting, Busy, RetryCommit, RetryReturn
<1>18. ASSUME NEW a \in Admins, RetryFails(a) PROVE Awaited'
  BY <1>18 DEF TypeOK, Awaited, Awaiting, Open, Busy, RetryFails, RetryReturn
<1>19. CASE UNCHANGED vars
  BY <1>19 DEF Awaited, Awaiting, Open, Busy, vars
<1> QED BY <1>1, <1>2, <1>3, <1>4, <1>5, <1>6, <1>7, <1>8, <1>9, <1>10, <1>11, <1>12, <1>13,
     <1>14, <1>15, <1>16, <1>17, <1>18, <1>19 DEF Next

LEMMA SoloStep == ASSUME DeliveryAssumption, TypeOK, Unborn, Copies, Solo, [Next]_vars PROVE Solo'
<1>1. CASE Create
  <2>1. row' = [status |-> "pending", attempts |-> 0] /\ creator' = "created" /\ posts' = 0 /\
       queue' = queue
    BY <1>1 DEF Create, Unborn
  <2>2. (\A w \in Workers : ~Busy(w)') /\ \A a \in Admins : ~Asking(a)'
    BY <1>1 DEF Create, Unborn, Busy, Asking
  <2>3. ~raced' => queue = 0
    BY <1>1 DEF Create, Solo
  <2> QED BY <2>1, <2>2, <2>3 DEF DeliveryAssumption, Solo
<1>2. CASE Send
  BY <1>2 DEF DeliveryAssumption, TypeOK, Solo, Busy, Asking, Send
<1>3. CASE SendFails
  BY <1>3 DEF Solo, Busy, Asking, SendFails
<1>4. CASE Insert
  BY <1>4 DEF Solo, Busy, Asking, Insert
<1>5. CASE InsertSend
  BY <1>5 DEF Unborn, Solo, Busy, Asking, InsertSend
<1>6. CASE InsertCommit
  BY <1>6 DEF Unborn, Solo, Busy, Asking, InsertCommit
<1>7. CASE InsertFails
  BY <1>7 DEF Solo, Busy, Asking, InsertFails
<1>8. ASSUME NEW w \in Workers, Take(w) PROVE Solo'
  BY <1>8 DEF TypeOK, Solo, Busy, Asking, Take
<1>9. ASSUME NEW w \in Workers, TakeMissing(w) PROVE Solo'
  BY <1>9 DEF TypeOK, Solo, Busy, Asking, TakeMissing
<1>10. ASSUME NEW w \in Workers, SkipInactive(w) PROVE Solo'
  BY <1>10 DEF TypeOK, Solo, Busy, Asking, SkipInactive, End
<1>11. ASSUME NEW w \in Workers, SaveAttempt(w) PROVE Solo'
  <2>1. /\ worker[w] = "loaded" /\ Busy(w)
        /\ row' = [mem[w] EXCEPT !.attempts = @ + 1]
        /\ mem' = [mem EXCEPT ![w] = row']
        /\ worker' = [worker EXCEPT ![w] = "posting"]
        /\ UNCHANGED <<atomic, creator, queue, admin, view, raced>>
        /\ ~RowLocked
    BY <1>11 DEF SaveAttempt, Save, Busy
  <2>2. row'.attempts = mem[w].attempts + 1 /\ row'.status = mem[w].status
    BY <2>1 DEF TypeOK
  <2>3. \A v \in Workers : Busy(v)' <=> Busy(v)
    BY <2>1 DEF TypeOK, Busy
  <2> SUFFICES ASSUME ~raced' PROVE Solo'
    BY DEF Solo
  <2>4. row.attempts < MaxAttempts /\ mem[w].attempts = row.attempts /\ queue = 0 /\ posts' =
       posts + 1
    BY <1>11, <2>1 DEF Solo, SaveAttempt
  <2>5. \A a \in Admins : ~Asking(a)
    <3> SUFFICES ASSUME NEW a \in Admins, Asking(a) PROVE FALSE
      OBVIOUS
    <3>1. admin[a] = "sent"
      BY <2>1 DEF Solo, TypeOK, Asking
    <3> QED BY <3>1, <2>1 DEF Copies, RowLocked
  <2>6. row'.status # "success"
    BY <1>11, <2>1, <2>2 DEF Solo, SaveAttempt
  <2> QED BY <2>1, <2>2, <2>3, <2>4, <2>5, <2>6 DEF DeliveryAssumption, TypeOK, Unborn, Copies,
       Solo, Asking, Busy
<1>12. ASSUME NEW w \in Workers, Answer(w) PROVE Solo'
  BY <1>12 DEF Solo, Busy, Asking, Answer
<1>13. ASSUME NEW w \in Workers, SaveOutcome(w) PROVE Solo'
  BY <1>13 DEF TypeOK, Copies, Solo, RowLocked, Busy, Asking, SaveOutcome, Save, End
<1>14. ASSUME NEW w \in Workers, Raise(w) PROVE Solo'
  BY <1>14 DEF Solo, Busy, Asking, Raise
<1>15. ASSUME NEW w \in Workers, Reload(w) PROVE Solo'
  BY <1>15 DEF Solo, Busy, Asking, Reload
<1>16. ASSUME NEW w \in Workers, SaveFailed(w) PROVE Solo'
  BY <1>16 DEF TypeOK, Copies, Solo, RowLocked, Busy, Asking, SaveFailed, Save, End
<1>17. ASSUME NEW w \in Workers, SaveRetrying(w) PROVE Solo'
  BY <1>17 DEF Copies, Solo, Busy, Asking, SaveRetrying, Save
<1>18. ASSUME NEW w \in Workers, Schedule(w) PROVE Solo'
  BY <1>18 DEF TypeOK, Unborn, Solo, Busy, Asking, Schedule, End
<1>19. ASSUME NEW w \in Workers, Die(w) PROVE Solo'
  BY <1>19 DEF TypeOK, Solo, Busy, Asking, Die, End
<1>20. ASSUME NEW a \in Admins, RetryLoad(a) PROVE Solo'
  <2> SUFFICES ASSUME ~raced' PROVE Solo'
    BY DEF Solo
  <2>1. ~raced /\ ~InProgress
    BY <1>20 DEF RetryLoad
  <2>2. queue = 0 /\ (\A w \in Workers : ~Busy(w)) /\ (\A b \in Admins : ~Asking(b))
    BY <2>1 DEF InProgress, TypeOK
  <2>3. creator = "done"
    BY <1>20, <2>1 DEF RetryLoad, Unborn, Solo, TypeOK
  <2>4. /\ \A b \in Admins : Asking(b)' => b = a
        /\ view'[a].attempts = row.attempts
        /\ row.status = "failed" /\ row.attempts < MaxAttempts
        /\ UNCHANGED <<row, creator, queue, worker, mem, posts>>
    BY <1>20, <2>2 DEF RetryLoad, TypeOK, Asking
  <2> QED BY <2>1, <2>2, <2>3, <2>4 DEF Solo, Busy
<1>21. ASSUME NEW a \in Admins, RetrySave(a) PROVE Solo'
  BY <1>21 DEF Copies, Solo, Busy, Asking, RetrySave
<1>22. ASSUME NEW a \in Admins, RetrySend(a) PROVE Solo'
  BY <1>22 DEF TypeOK, Solo, Busy, Asking, RetrySend, RetryReturn
<1>23. ASSUME NEW a \in Admins, RetryCommit(a) PROVE Solo'
  BY <1>23 DEF TypeOK, Copies, Solo, Busy, Asking, RetryCommit, RetryReturn
<1>24. ASSUME NEW a \in Admins, RetryFails(a) PROVE Solo'
  BY <1>24 DEF TypeOK, Solo, Busy, Asking, RetryFails, RetryReturn
<1>25. CASE UNCHANGED vars
  BY <1>25 DEF Solo, Busy, Asking, vars
<1> QED BY <1>1, <1>2, <1>3, <1>4, <1>5, <1>6, <1>7, <1>8, <1>9, <1>10, <1>11, <1>12, <1>13,
     <1>14, <1>15, <1>16, <1>17, <1>18, <1>19, <1>20, <1>21, <1>22, <1>23, <1>24, <1>25 DEF
     Next

LEMMA Invariance == Spec => []IInv
<1>1. Init => IInv
  BY InitIInv, DeliveryAssumption
<1>2. IInv /\ [Next]_vars => IInv'
  BY TypeStep, UnbornStep, CopiesStep, AwaitedStep, SoloStep, DeliveryAssumption DEF IInv
<1> QED BY <1>1, <1>2, PTL DEF Spec

(* Every reachable state has the types of the model. *)
THEOREM TypeCorrect == Spec => []TypeOK
<1>1. IInv => TypeOK
  BY DEF IInv
<1> QED BY <1>1, Invariance, PTL

(* No row promises an attempt that nobody will make, however many workers  *)
(* and administrators there are, unless a step of theirs was lost.         *)
THEOREM PromisesAwaited == Spec => []NoneStranded
<1>1. IInv => NoneStranded
  BY DEF IInv, Awaited, Awaiting, NoneStranded
<1> QED BY <1>1, Invariance, PTL

(* The endpoint never sees more than max_attempts requests, whatever       *)
(* max_attempts is, unless a retry raced.                                  *)
THEOREM BudgetHolds == Spec => []BudgetKept
<1>1. IInv => BudgetKept
  BY DEF IInv, Solo, BudgetKept
<1> QED BY <1>1, Invariance, PTL

(* A successful delivery stays successful unless a retry raced. *)
THEOREM SuccessStays == Spec => SuccessFinal
<1>1. ASSUME IInv, [Next]_vars
      PROVE  [row.status = "success" /\ ~raced' => row'.status = "success"]_vars
  <2> SUFFICES ASSUME row.status = "success", ~raced' PROVE row' = row
    OBVIOUS
  <2>1. ~raced
    BY <1>1 DEF Next, vars, Create, Send, SendFails, Insert, InsertSend, InsertCommit, InsertFails,
       Take, TakeMissing, SkipInactive, SaveAttempt, Answer, SaveOutcome, Raise, Reload,
       SaveFailed, SaveRetrying, Schedule, Die,
       RetryLoad, RetrySave, RetrySend, RetryCommit, RetryFails
  <2>2. /\ creator \notin {"idle", "inserted", "sent"}
        /\ \A w \in Workers : ~Busy(w)
        /\ \A a \in Admins : ~Asking(a)
    BY <1>1, <2>1 DEF IInv, Unborn, Solo
  <2> QED
    BY <1>1, <2>2 DEF Next, vars, Busy, Asking, Create, Send, SendFails, Insert, InsertSend,
       InsertCommit, InsertFails, Take, TakeMissing, SkipInactive, SaveAttempt, Answer,
       SaveOutcome, Raise, Reload, SaveFailed, SaveRetrying, Schedule, Die,
       RetryLoad, RetrySave, RetrySend, RetryCommit, RetryFails
<1> QED BY <1>1, Invariance, PTL DEF Spec, SuccessFinal

=============================================================================
