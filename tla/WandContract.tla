---------------------------- MODULE WandContract ----------------------------
(***************************************************************************)
(* What a wand (the backend boundary of nxtrt, wand.hpp) promises to the   *)
(* tasks that await wishes on it, with no execution record, queue or       *)
(* kernel in sight: an awaited wish is settled exactly once, its task is   *)
(* put back on the deck exactly once per await, `operation_cancelled` is   *)
(* delivered only to a task that was asked to stop, and a stopped task     *)
(* does not stay parked.  The backends are shown to implement this.        *)
(***************************************************************************)

CONSTANT Tasks

VARIABLES
    place,    \* where a task is: on the deck, parked in the wand, finished
    stopped,  \* the tasks whose stop source has been asked to stop
    result    \* what the wand stored in the urge state of the last await

vars == <<place, stopped, result>>

Outcomes == {"value", "error", "cancelled"}

TypeOK ==
    /\ place \in [Tasks -> {"deck", "parked", "finished"}]
    /\ stopped \in SUBSET Tasks
    /\ result \in [Tasks -> Outcomes \cup {"none"}]

Init ==
    /\ place = [t \in Tasks |-> "deck"]
    /\ stopped = {}
    /\ result = [t \in Tasks |-> "none"]

(* The task's turn ends in `co_await wish`: prepare, suspend, arm the stop  *)
(* callback.                                                               *)
Await(t) ==
    /\ place[t] = "deck"
    /\ place' = [place EXCEPT ![t] = "parked"]
    /\ result' = [result EXCEPT ![t] = "none"]
    /\ UNCHANGED stopped

(* The task's turn ends in its final suspension.                           *)
Finish(t) ==
    /\ place[t] = "deck"
    /\ place' = [place EXCEPT ![t] = "finished"]
    /\ UNCHANGED <<stopped, result>>

RequestStop(t) ==
    /\ stopped' = stopped \cup {t}
    /\ UNCHANGED <<place, result>>

(* The wand stores one outcome and requeues the task.                      *)
Settle(t, o) ==
    /\ place[t] = "parked"
    /\ o = "cancelled" => t \in stopped
    /\ place' = [place EXCEPT ![t] = "deck"]
    /\ result' = [result EXCEPT ![t] = o]
    /\ UNCHANGED stopped

(* A backend without an operation in flight cancels inside the stop        *)
(* callback itself.                                                        *)
StopAndSettle(t) ==
    /\ place[t] = "parked"
    /\ stopped' = stopped \cup {t}
    /\ place' = [place EXCEPT ![t] = "deck"]
    /\ result' = [result EXCEPT ![t] = "cancelled"]

Next ==
    \E t \in Tasks :
        \/ Await(t)
        \/ Finish(t)
        \/ RequestStop(t)
        \/ \E o \in Outcomes : Settle(t, o)
        \/ StopAndSettle(t)

SafeSpec == Init /\ [][Next]_vars

(* "Settle each parked execution exactly once": a stopped task is settled. *)
SettleStopped(t) ==
    /\ t \in stopped
    /\ \E o \in Outcomes : Settle(t, o)

Spec == SafeSpec /\ \A t \in Tasks : WF_vars(SettleStopped(t))
=============================================================================
