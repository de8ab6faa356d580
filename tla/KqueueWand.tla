---------------------------- MODULE KqueueWand ------------------------------
(***************************************************************************)
(* The kqueue backend (wand/kqueue.cpp) between the deck that drives it    *)
(* and the kernel's list of registered events.                             *)
(*                                                                         *)
(* A wish is tried inside `wave`; one that would block asks for one-shot   *)
(* events, and the changes of a wave go to the kernel in one kevent call.  *)
(* A wish with two events whose first arrives, or one that is cancelled,   *)
(* is settled at once while its other events are still to be deleted: its  *)
(* record stays until the deletes are applied and one more receive pass is *)
(* over, because the events carry its address.                             *)
(***************************************************************************)
EXTENDS Naturals, FiniteSets

CONSTANTS
    Tasks,        \* the tasks the root task waits for
    Execs,        \* hub addresses
    Wishes,       \* the kinds of wishes the tasks make
    Children,     \* the processes that wait_child wishes name
    BatchSize,    \* length of the array given to kevent
    AddMayFail    \* whether the kernel may refuse an event to be added

ASSUME BatchAssumption == BatchSize \in Nat \ {0}
ASSUME AddAssumption == AddMayFail \in BOOLEAN
ASSUME ExecsAssumption == IsFiniteSet(Execs)

VARIABLES
    pc, ret,                \* position of the driver; where poll returns to
    ready, round,           \* deck::ready_ and the round swapped out of it
    finished, stopped,      \* tasks at final suspend; tasks asked to stop
    result,                 \* urge_state of the task's last await
    status, kind, waiter,   \* exec: lifecycle phase, wish, need
    child,                  \* exec: the process a wait_child is about
    shared,                 \* execs whose child another one has watched too
    pendSub, pendCan,       \* pending_submissions_, pending_cancellations_
    executions,             \* stage_submissions' local
    adds, deletes,          \* pending_changes_: EV_ADD and EV_DELETE
    reg, active,            \* events in the kernel, those that have happened
    batch                   \* events received and not yet handled

deckVars == <<ready, round, finished, stopped, result>>
idVars == <<waiter, child, shared>>
execVars == <<status, kind, idVars>>
pendVars == <<pendSub, pendCan, executions>>
changeVars == <<adds, deletes>>
kernVars == <<reg, active>>
vars == <<pc, ret, deckVars, execVars, pendVars, changeVars, kernVars, batch>>

(* The wishes by how they use kqueue: done inside wave ("sync": manual,    *)
(* openat, spawns, signal_child); tried, then retried on readiness ("io":  *)
(* read, write, recv, send, accept); and those whose event ends them.      *)
(* "poll_both" is a poll for both directions, "poll_none" one for neither  *)
(* (poll's default); wait_child is "wait_timer" while watching_timer_ is   *)
(* set.                                                                    *)
Kinds == {"sync", "io", "connect", "poll", "poll_both", "poll_none",
          "timeout", "poll_until", "wait_child"}

ASSUME WishesAssumption == Wishes \subseteq Kinds

(* The events a waiting wish has in the kernel, by filter.  One direction  *)
(* stands for either.                                                      *)
Filters == {"read", "write", "timer", "proc"}

filters(k) ==
    IF k \in {"io", "connect", "poll"} THEN {"read"}
    ELSE IF k = "poll_both" THEN {"read", "write"}
    ELSE IF k = "poll_until" THEN {"read", "timer"}
    ELSE IF k \in {"timeout", "wait_timer"} THEN {"timer"}
    ELSE IF k = "wait_child" THEN {"proc"}
    ELSE {}
Events == Execs \X Filters
events_of(e, fs) == {e} \X fs
delete_events(e) == events_of(e, filters(kind[e]))

(* What the kernel knows an event by.  An fd is the record's private dup   *)
(* and a timer's ident its address, but NOTE_EXIT is registered by pid:    *)
(* two waits for one child have one event between them.  <<e, f>> is the   *)
(* event with the address of e in its udata.                               *)
ident(ev) == <<IF ev[2] = "proc" THEN child[ev[1]] ELSE ev[1], ev[2]>>
same_event(evs) == {r \in reg : \E ev \in evs : ident(ev) = ident(r)}

ParkedPhases == {"queued", "submitted", "cancel_queued", "delete_queued"}
SettledPhases == {"ready_to_retire", "delete_pending", "delete_applied"}

Parked(e) == status[e] \in ParkedPhases

Init ==
    /\ pc = "top" /\ ret = "check"
    /\ ready = Tasks /\ round = {}
    /\ finished = {} /\ stopped = {}
    /\ result = [t \in Tasks |-> "none"]
    /\ status = [e \in Execs |-> "free"]
    /\ kind = [e \in Execs |-> "none"]
    /\ waiter = [e \in Execs |-> "none"]
    /\ child = [e \in Execs |-> "none"] /\ shared = {}
    /\ pendSub = {} /\ pendCan = {} /\ executions = {}
    /\ adds = {} /\ deletes = {} /\ reg = {} /\ active = {} /\ batch = {}

-----------------------------------------------------------------------------
(* Helpers of the wand                                                     *)

has_pending_work ==
    pendSub # {} \/ pendCan # {} \/ adds # {} \/ deletes # {}

(* Mutant: looks at the wishes not yet submitted.                          *)
has_submitted_completions_queued == \E e \in Execs : status[e] = "queued"

has_submitted_completions ==
    \E e \in Execs : status[e] \in {"submitted", "delete_queued"}

root_done == finished = Tasks

(* compact_execs on the phases st: drop pending pointers that are of no    *)
(* use any more, and erase every settled record with nothing to delete.    *)
compact_execs(st) ==
    /\ status' = [e \in Execs |->
                  IF st[e] = "ready_to_retire" THEN "free" ELSE st[e]]
    /\ kind' = [e \in Execs |->
                  IF st[e] = "ready_to_retire" THEN "none" ELSE kind[e]]
    /\ waiter' = [e \in Execs |->
                  IF st[e] = "ready_to_retire" THEN "none" ELSE waiter[e]]
    /\ child' = [e \in Execs |->
                  IF st[e] = "ready_to_retire" THEN "none" ELSE child[e]]
    /\ shared' = {e \in shared : st[e] # "ready_to_retire"}
parked_only(ps) == {e \in ps : Parked(e)}
delete_queued_only(ps) == {e \in ps : status[e] = "delete_queued"}

(* Mutant: a settled record does not wait for its deletes.                 *)
settled_phase_at_once(dels) == "ready_to_retire"

settled_phase(dels) ==
    IF dels = {} THEN "ready_to_retire" ELSE "delete_pending"

(* Mutant: a failed wish is reported as cancelled.                         *)
settle_cancelling(e, outcome, dels) ==
    /\ status' = [status EXCEPT ![e] = settled_phase(dels)]
    /\ result' = [result EXCEPT ![waiter[e]] =
                    IF outcome = "error" THEN "cancelled" ELSE outcome]
    /\ ready' = ready \cup {waiter[e]}
    /\ deletes' = deletes \cup dels
    /\ UNCHANGED <<round, finished, stopped, kind, idVars>>

(* settle: the outcome is stored, the need requeued, and the record waits  *)
(* for the deletes it has staged, if any.                                  *)
settle(e, outcome, dels) ==
    /\ status' = [status EXCEPT ![e] = settled_phase(dels)]
    /\ result' = [result EXCEPT ![waiter[e]] = outcome]
    /\ ready' = ready \cup {waiter[e]}
    /\ deletes' = deletes \cup dels
    /\ UNCHANGED <<round, finished, stopped, kind, idVars>>

-----------------------------------------------------------------------------
(* Turns of the tasks on the deck                                          *)

Top ==
    /\ pc = "top"
    /\ \/ /\ root_done
          /\ pc' = "done" /\ UNCHANGED <<ret, ready, round>>
       \/ /\ ~root_done /\ ready # {}
          /\ pc' = "round" /\ round' = ready /\ ready' = {}
          /\ UNCHANGED ret
       \/ /\ ~root_done /\ ready = {}
          /\ pc' = "apply" /\ ret' = "check" /\ UNCHANGED <<ready, round>>
    /\ UNCHANGED <<finished, stopped, result, execVars, pendVars, changeVars,
                   kernVars, batch>>

(* `co_await wish`: prepare_kqueue_wish, suspend, and the stop callback at *)
(* once when the task is already stopped.                                  *)
AwaitWish(t, e, k, c) ==
    /\ pc = "round" /\ t \in round /\ status[e] = "free"
    /\ round' = round \ {t}
    /\ status' = [status EXCEPT ![e] =
                    IF t \in stopped THEN "cancel_queued" ELSE "queued"]
    /\ c \in IF k = "wait_child" THEN Children ELSE {"none"}
    /\ kind' = [kind EXCEPT ![e] = k]
    /\ waiter' = [waiter EXCEPT ![e] = t]
    /\ child' = [child EXCEPT ![e] = c]
    /\ pendSub' = pendSub \cup {e}
    /\ result' = [result EXCEPT ![t] = "none"]
    /\ UNCHANGED <<pc, ret, ready, finished, stopped, shared, pendCan,
                   executions, changeVars, kernVars, batch>>

Yield(t) ==
    /\ pc = "round" /\ t \in round
    /\ round' = round \ {t} /\ ready' = ready \cup {t}
    /\ UNCHANGED <<pc, ret, finished, stopped, result, execVars, pendVars,
                   changeVars, kernVars, batch>>

FinishTask(t) ==
    /\ pc = "round" /\ t \in round
    /\ round' = round \ {t} /\ finished' = finished \cup {t}
    /\ UNCHANGED <<pc, ret, ready, stopped, result, execVars, pendVars,
                   changeVars, kernVars, batch>>

(* Mutant: cancel marks the wish and leaves it to the next wave to find.   *)
records_to_delete_none(armed) == {}

(* What cancel pushes to pending_cancellations_.                           *)
records_to_delete(armed) == {e \in armed : status[e] = "submitted"}

(* A task asks u to stop, and u's stop callback calls cancel.              *)
RequestStop(u) ==
    /\ pc = "round" /\ round # {} /\ u \notin stopped \cup finished
    /\ stopped' = stopped \cup {u}
    /\ LET armed == {e \in Execs : Parked(e) /\ waiter[e] = u}
       IN /\ status' = [e \in Execs |->
                          IF e \notin armed THEN status[e]
                          ELSE IF status[e] = "queued" THEN "cancel_queued"
                          ELSE IF status[e] = "submitted" THEN "delete_queued"
                          ELSE status[e]]
          /\ pendCan' = pendCan \cup records_to_delete(armed)
    /\ UNCHANGED <<pc, ret, ready, round, finished, result, kind, idVars,
                   pendSub, executions, changeVars, kernVars, batch>>

-----------------------------------------------------------------------------
(* wave: compact_execs, stage_submissions, stage_cancellations,            *)
(* apply_changes                                                           *)

BeginWave(next) ==
    /\ compact_execs(status)
    /\ executions' = parked_only(pendSub) /\ pendSub' = {}
    /\ pendCan' = delete_queued_only(pendCan)
    /\ pc' = "stage" /\ ret' = next
    /\ UNCHANGED <<deckVars, changeVars, kernVars, batch>>

EndRound ==
    /\ pc = "round" /\ round = {}
    /\ BeginWave("check")

(* What submit_op may find, by kind of wish: the syscall succeeds or fails *)
(* at once, or an event has to be waited for.  The dup for the event may   *)
(* fail, and so may the kevent call that watch_child makes itself.         *)
submit_sync == {"value", "error"}
submit_io == {"value", "error", "wait"}
submit_poll(k) == IF k = "timeout" THEN {"wait"} ELSE {"error", "wait"}
submit_op(k) ==
    IF k = "sync" THEN submit_sync
    ELSE IF k \in {"io", "connect", "wait_child"} THEN submit_io
    ELSE submit_poll(k)

StageCancelled(e) ==
    /\ pc = "stage" /\ e \in executions /\ status[e] = "cancel_queued"
    /\ executions' = executions \ {e}
    /\ settle(e, "cancelled", {})
    /\ UNCHANGED <<pc, ret, pendSub, pendCan, adds, kernVars, batch>>

StageFinished(e, outcome) ==
    /\ pc = "stage" /\ e \in executions /\ status[e] = "queued"
    /\ outcome \in submit_op(kind[e]) \ {"wait"}
    /\ executions' = executions \ {e}
    /\ settle(e, outcome, {})
    /\ UNCHANGED <<pc, ret, pendSub, pendCan, adds, kernVars, batch>>

StageSubmitted(e) ==
    /\ pc = "stage" /\ e \in executions /\ status[e] = "queued"
    /\ kind[e] # "wait_child" /\ "wait" \in submit_op(kind[e])
    /\ executions' = executions \ {e}
    /\ status' = [status EXCEPT ![e] = "submitted"]
    /\ adds' = adds \cup events_of(e, filters(kind[e]))
    /\ UNCHANGED <<pc, ret, deckVars, kind, idVars, pendSub, pendCan, deletes,
                   kernVars, batch>>

(* Others that wait for e's child by its pid.                              *)
rivals(e) ==
    {o \in Execs \ {e} : /\ child[o] = child[e] /\ kind[o] = "wait_child"
                         /\ status[o] \in {"submitted", "delete_queued"}}

(* watch_child: the event is added at once, outside the changes.  While    *)
(* the child is exiting but no zombie, a timer to look again replaces it.  *)
(* Adding an event the kernel has already gives it the new udata.          *)
watch_child(e, k) ==
    /\ k \in {"wait_child", "wait_timer"}
    /\ kind' = [kind EXCEPT ![e] = k]
    /\ LET new == events_of(e, filters(k))
           old == same_event(new)
       IN /\ reg' = (reg \ old) \cup new
          /\ active' = (active \ old)
                         \cup (IF old \cap active = {} THEN {} ELSE new)
    /\ shared' = IF k = "wait_timer" \/ rivals(e) = {} THEN shared
                 ELSE shared \cup rivals(e) \cup {e}

StageWatchesChild(e, k) ==
    /\ pc = "stage" /\ e \in executions /\ status[e] = "queued"
    /\ kind[e] = "wait_child"
    /\ executions' = executions \ {e}
    /\ status' = [status EXCEPT ![e] = "submitted"]
    /\ watch_child(e, k)
    /\ UNCHANGED <<pc, ret, deckVars, waiter, child, pendSub, pendCan,
                   changeVars, batch>>

(* stage_cancellations: a wish waiting to be deleted stages the deletes    *)
(* and is settled.  A poll for neither direction has none to stage, and is *)
(* ready to retire at once.                                                *)
StageCancellation(e) ==
    /\ pc = "stage" /\ executions = {} /\ e \in delete_queued_only(pendCan)
    /\ pendCan' = pendCan \ {e}
    /\ settle(e, "cancelled", delete_events(e))
    /\ UNCHANGED <<pc, ret, pendSub, executions, adds, kernVars, batch>>

EndStaging ==
    /\ pc = "stage" /\ executions = {} /\ delete_queued_only(pendCan) = {}
    /\ pendCan' = {}
    /\ pc' = "apply"
    /\ UNCHANGED <<ret, deckVars, execVars, pendSub, executions, changeVars,
                   kernVars, batch>>

(* kevent with a changelist and no room for events stops at the first      *)
(* change it cannot make: deleting an event that is not there is one, and  *)
(* so is deleting one twice.                                               *)
changes_possible ==
    /\ \A d \in deletes : same_event({d}) # {}
    /\ \A d, d2 \in deletes : ident(d) = ident(d2) => d = d2

mark_deletes_applied ==
    status' = [e \in Execs |->
                 IF status[e] = "delete_pending" THEN "delete_applied"
                 ELSE status[e]]

(* apply_changes, the last step of wave and the first of poll_with_timeout *)
(* (which finds nothing left to apply right after a wave).                 *)
ApplyChanges ==
    /\ pc \in {"apply", "apply_wait"}
    /\ changes_possible
    /\ reg' = (reg \cup adds) \ same_event(deletes)
    /\ active' = active \ same_event(deletes)
    /\ adds' = {} /\ deletes' = {}
    /\ mark_deletes_applied
    /\ pc' = IF pc = "apply" THEN "poll" ELSE "wait"
    /\ UNCHANGED <<ret, deckVars, kind, idVars, pendVars, batch>>

(* The exception leaves run_until_done; the changes are lost.              *)
ApplyThrows ==
    /\ pc \in {"apply", "apply_wait"}
    /\ \/ ~changes_possible
       \/ AddMayFail /\ adds # {}
    /\ adds' = {} /\ deletes' = {}
    /\ pc' = "failed"
    /\ UNCHANGED <<ret, deckVars, execVars, pendVars, kernVars, batch>>

-----------------------------------------------------------------------------
(* poll_with_timeout and handle_event                                      *)

(* kevent returns some of the events that happened; they were one-shot and *)
(* are gone from the kernel.  The second half of wait is a poll.           *)
kevent(events) ==
    /\ pc \in {"poll", "wait"}
    /\ events # {} /\ Cardinality(events) <= BatchSize
    /\ batch' = events
    /\ reg' = reg \ events /\ active' = active \ events
    /\ pc' = "batch" /\ ret' = IF pc = "wait" THEN "apply" ELSE ret
    /\ UNCHANGED <<deckVars, execVars, pendVars, changeVars>>

(* drain_applied_deletes: the receive pass is over.                        *)
drain_applied_deletes ==
    [e \in Execs |-> IF status[e] = "delete_applied" THEN "ready_to_retire"
                     ELSE status[e]]

AfterPoll ==
    /\ compact_execs(drain_applied_deletes)
    /\ pendSub' = parked_only(pendSub)
    /\ pendCan' = delete_queued_only(pendCan)
    /\ pc' = ret /\ ret' = IF ret = "apply" THEN "top" ELSE ret
    /\ UNCHANGED <<deckVars, executions, changeVars, kernVars, batch>>

PollEmpty == pc = "poll" /\ active = {} /\ AfterPoll

EndBatch == pc = "batch" /\ batch = {} /\ AfterPoll

(* event_op: what an event makes of its wish.                              *)
event_io(k) ==
    IF k = "connect" THEN {"value", "error"} ELSE {"value", "error", "again"}
event_poll == {"value"}
event_op(k) ==
    IF k \in {"io", "connect", "wait_child", "wait_timer"} THEN event_io(k)
    ELSE event_poll

(* The other events of the wish, which are not wanted any more.            *)
siblings(e, f) == events_of(e, filters(kind[e]) \ {f})

(* An earlier event of the array settled this record.                      *)
StaleEvent(e, f) ==
    /\ pc = "batch" /\ <<e, f>> \in batch /\ ~Parked(e)
    /\ batch' = batch \ {<<e, f>>}
    /\ UNCHANGED <<pc, ret, deckVars, execVars, pendVars, changeVars,
                   kernVars>>

(* The event ends the wish.                                                *)
EventFinishes(e, f, outcome) ==
    /\ pc = "batch" /\ <<e, f>> \in batch /\ Parked(e)
    /\ outcome \in event_op(kind[e]) \ {"again"}
    /\ batch' = batch \ {<<e, f>>}
    /\ settle(e, outcome, siblings(e, f))
    /\ UNCHANGED <<pc, ret, pendVars, adds, kernVars>>

(* The readiness was stale: the operation would block and is armed again,  *)
(* by a kevent call of its own.                                            *)
EventRearms(e, f) ==
    /\ pc = "batch" /\ <<e, f>> \in batch /\ Parked(e) /\ kind[e] = "io"
    /\ batch' = batch \ {<<e, f>>}
    /\ reg' = reg \cup {<<e, f>>}
    /\ UNCHANGED <<pc, ret, deckVars, execVars, pendVars, changeVars, active>>

(* The child is still running: it is watched again, as its state allows.   *)
EventWatchesChild(e, f, k) ==
    /\ pc = "batch" /\ <<e, f>> \in batch /\ Parked(e)
    /\ kind[e] \in {"wait_child", "wait_timer"}
    /\ batch' = batch \ {<<e, f>>}
    /\ watch_child(e, k)
    /\ UNCHANGED <<pc, ret, deckVars, status, waiter, child, pendVars,
                   changeVars>>

(* arm throws out of poll.                                                 *)
EventThrows(e, f) ==
    /\ AddMayFail
    /\ pc = "batch" /\ <<e, f>> \in batch /\ Parked(e) /\ kind[e] = "io"
    /\ batch' = {} /\ pc' = "failed"
    /\ UNCHANGED <<ret, deckVars, execVars, pendVars, changeVars, kernVars>>

(* The rest of run_until_done's loop body.                                 *)
Check ==
    /\ pc = "check"
    /\ IF ready = {} /\ ~root_done /\ has_pending_work
       THEN BeginWave("top")
       ELSE /\ pc' = IF ready # {} \/ root_done THEN "top"
                     ELSE IF has_submitted_completions THEN "apply_wait"
                     ELSE "deadlock"
            /\ UNCHANGED <<ret, deckVars, execVars, pendVars, changeVars,
                           kernVars, batch>>

-----------------------------------------------------------------------------
(* The kernel: a registered event happens.                                 *)
EventHappens(ev) ==
    /\ ev \in reg \ active
    /\ active' = active \cup {ev}
    /\ UNCHANGED <<pc, ret, deckVars, execVars, pendVars, changeVars, reg,
                   batch>>

-----------------------------------------------------------------------------
Turn ==
    \E t \in Tasks :
        \/ \E e \in Execs, k \in Wishes, c \in Children \cup {"none"} :
              AwaitWish(t, e, k, c)
        \/ Yield(t)
        \/ FinishTask(t)
        \/ RequestStop(t)

Stage ==
    \E e \in Execs :
        \/ StageCancelled(e)
        \/ \E o \in {"value", "error"} : StageFinished(e, o)
        \/ StageSubmitted(e)
        \/ \E k \in {"wait_child", "wait_timer"} : StageWatchesChild(e, k)
        \/ StageCancellation(e)

Poll ==
    \/ \E events \in SUBSET active : kevent(events)
    \/ PollEmpty
    \/ EndBatch

handle_event ==
    \E e \in Execs, f \in Filters :
        \/ StaleEvent(e, f)
        \/ \E o \in {"value", "error"} : EventFinishes(e, f, o)
        \/ EventRearms(e, f)
        \/ \E k \in {"wait_child", "wait_timer"} : EventWatchesChild(e, f, k)
        \/ EventThrows(e, f)

Driver ==
    \/ Top \/ Turn \/ EndRound \/ Stage \/ EndStaging
    \/ ApplyChanges \/ ApplyThrows \/ Poll \/ handle_event \/ Check

Kernel == \E ev \in Events : EventHappens(ev)

(* The driver has returned or thrown, or is blocked in kevent with nothing *)
(* registered.                                                             *)
Ended ==
    /\ pc \in {"done", "failed"} \/ (pc = "wait" /\ reg = {})
    /\ UNCHANGED vars

Next == Driver \/ Kernel \/ Ended

Spec == Init /\ [][Next]_vars

(* The deck's thread keeps running; nothing makes an event happen.         *)
Fairness == WF_vars(Driver)

FairSpec == Spec /\ Fairness

-----------------------------------------------------------------------------
TypeOK ==
    /\ pc \in {"top", "round", "stage", "apply", "apply_wait", "poll", "batch",
               "check", "wait", "done", "failed", "deadlock"}
    /\ ret \in {"check", "top", "apply"}
    /\ ready \subseteq Tasks /\ round \subseteq Tasks
    /\ finished \subseteq Tasks /\ stopped \subseteq Tasks
    /\ result \in [Tasks -> {"none", "value", "error", "cancelled"}]
    /\ status \in [Execs -> {"free"} \cup ParkedPhases \cup SettledPhases]
    /\ kind \in [Execs -> Kinds \cup {"none", "wait_timer"}]
    /\ waiter \in [Execs -> Tasks \cup {"none"}]
    /\ child \in [Execs -> Children \cup {"none"}] /\ shared \subseteq Execs
    /\ pendSub \subseteq Execs /\ pendCan \subseteq Execs
    /\ executions \subseteq Execs
    /\ adds \subseteq Events /\ deletes \subseteq Events
    /\ reg \subseteq Events /\ active \subseteq reg
    /\ batch \subseteq Events /\ Cardinality(batch) <= BatchSize

(* The addresses the wand and the kernel still hold: pending pointers,     *)
(* changes to be made, registered events and received ones.                *)
named(e) ==
    \/ e \in pendSub \cup pendCan \cup executions
    \/ \E f \in Filters : <<e, f>> \in adds \cup deletes \cup reg \cup batch

(* The wishes nothing will wake: a poll for neither direction registers no *)
(* event, and a wait for a child that was also watched by another wish may *)
(* have lost the one event they share, to that wish or to its deletion.    *)
Asleep(e) == kind[e] = "poll_none" \/ e \in shared

(* The events in the kernel and the records agree: no record is erased,    *)
(* and its address given to another wish, while something names it (the    *)
(* two-step retirement of deleted records), whatever the wish; and a       *)
(* submitted wish can still be woken, by an event about to be added,       *)
(* registered, or received, unless it is of the two kinds Asleep names.    *)
EventsMatchRecords ==
    pc # "failed" =>
        \A e \in Execs :
            /\ status[e] = "free" => ~named(e)
            /\ status[e] \in {"submitted", "delete_queued"} =>
                  \/ Asleep(e)
                  \/ \E f \in Filters : <<e, f>> \in adds \cup reg \cup batch

(* run_until_done never throws "nxtrt kqueue wand deadlock" under a parked *)
(* task, and blocks in kevent with no event that can still happen only if  *)
(* every wish it waits for is one that nothing will wake.                  *)
DriverNotStranded ==
    /\ pc # "deadlock"
    /\ (pc = "wait" /\ reg = {}) =>
          \A e \in Execs : Parked(e) => Asleep(e)

(* "Throws `runtime_error` ("deadlock") if `root` is unfinished while      *)
(* nothing is ready, staged, or registered" (kqueue.hpp on                 *)
(* run_until_done): a kernel that refuses no added event gives it no other *)
(* reason to throw.                                                        *)
ThrowsOnlyOnDeadlock == pc # "failed"

(* The promise to the tasks, checked as an implementation of WandContract. *)
place ==
    [t \in Tasks |->
        IF t \in finished THEN "finished"
        ELSE IF \E e \in Execs : Parked(e) /\ waiter[e] = t THEN "parked"
        ELSE "deck"]

Contract == INSTANCE WandContract

ContractSafety == Contract!SafeSpec

(* A stopped task does not stay parked, unless the driver has thrown.      *)
StoppedTaskIsSettled ==
    \A t \in Tasks :
        (t \in stopped /\ place[t] = "parked")
            ~> (place[t] # "parked" \/ pc = "failed")
=============================================================================
