--------------------------- MODULE EventDelivery ---------------------------
(***************************************************************************)
(* What one subscription promises about each event, without queues,        *)
(* processes or database rows: the message is delivered, attempts are      *)
(* begun, calls of the handler return, and a verdict is reached.  Every    *)
(* attempt needs a delivery of its own and every call an attempt of its    *)
(* own.  "done" needs a call that returned; "given up", and every copy in  *)
(* the dead letter queue, needs the whole budget of attempts.  A            *)
(* redelivery may reopen what was given up; what is done stays done where  *)
(* one process alone writes the verdicts.                                  *)
(***************************************************************************)
EXTENDS Naturals

CONSTANTS
  Events, MaxRetries,
  Exclusive   \* does one process alone write the verdicts?

VARIABLES delivered, started, handled, copies, verdict

vars == <<delivered, started, handled, copies, verdict>>

Init ==
  /\ delivered = [e \in Events |-> 0]
  /\ started = [e \in Events |-> 0]
  /\ handled = [e \in Events |-> 0]
  /\ copies = [e \in Events |-> 0]
  /\ verdict = [e \in Events |-> "open"]

(* The verdict may be changed: it is not final, or somebody has an old copy of it. *)
Changeable(e) == verdict[e] = "done" => ~Exclusive

Deliver(e) ==
  /\ delivered' = [delivered EXCEPT ![e] = @ + 1]
  /\ UNCHANGED <<started, handled, copies, verdict>>

(* An attempt begins; the event is open again once this has been recorded. *)
Begin(e) ==
  /\ Changeable(e)
  /\ started[e] < delivered[e]
  /\ started' = [started EXCEPT ![e] = @ + 1]
  /\ verdict' \in {verdict, [verdict EXCEPT ![e] = "open"]}
  /\ UNCHANGED <<delivered, handled, copies>>

(* A handler call returns, however late: at most one per attempt begun. *)
Handle(e) ==
  /\ handled[e] < started[e]
  /\ handled' = [handled EXCEPT ![e] = @ + 1]
  /\ UNCHANGED <<delivered, started, copies, verdict>>

Done(e) ==
  /\ handled[e] > 0
  /\ verdict' = [verdict EXCEPT ![e] = "done"]
  /\ UNCHANGED <<delivered, started, handled, copies>>

(* The copy is sent with the verdict, or the verdict is lost, or the copy is. *)
GiveUp(e) ==
  /\ Changeable(e)
  /\ started[e] >= MaxRetries
  /\ copies' \in {copies, [copies EXCEPT ![e] = @ + 1]}
  /\ verdict' \in {verdict, [verdict EXCEPT ![e] = "givenup"]}
  /\ UNCHANGED <<delivered, started, handled>>

(* Somebody saves a verdict read before it was changed. *)
Reopen(e) ==
  /\ ~Exclusive
  /\ verdict' = [verdict EXCEPT ![e] = "open"]
  /\ UNCHANGED <<delivered, started, handled, copies>>

Next ==
  \E e \in Events :
    Deliver(e) \/ Begin(e) \/ Handle(e) \/ Done(e) \/ GiveUp(e) \/ Reopen(e)

Spec == Init /\ [][Next]_vars
=============================================================================
