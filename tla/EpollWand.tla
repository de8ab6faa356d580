----------------------------- MODULE EpollWand ------------------------------
(***************************************************************************)
(* The epoll backend (wand/epoll.hpp) between the deck that drives it and  *)
(* the kernel's interest list.                                             *)
(*                                                                         *)
(* Unlike io_uring, nothing is in flight: a wish is tried inside `wave`,   *)
(* and one that would block leaves a one-shot interest (a private dup of   *)
(* its fd, a timerfd, or both) whose event data is the record's address.   *)
(* The hazard is the array of events a poll has collected but not handled: *)
(* an event may name a record that an earlier event of the array settled.  *)
(***************************************************************************)
EXTENDS Naturals, FiniteSets

CONSTANTS
    Tasks,        \* the tasks the root task waits for
    Execs,        \* hub addresses
    BatchSize,    \* length of the array given to epoll_wait
    AddMayThrow   \* whether fcntl(F_DUPFD_CLOEXEC) or timerfd_create may fail

ASSUME BatchAssumption == BatchSize \in Nat \ {0}
ASSUME ThrowAssumption == AddMayThrow \in BOOLEAN
ASSUME ExecsAssumption == IsFiniteSet(Execs)

VARIABLES
    pc, ret,                \* position of the driver; where poll returns to
    ready, round,           \* deck::ready_ and the round swapped out of it
    finished, stopped,      \* tasks at final suspend; tasks asked to stop
    result,                 \* urge_state of the task's last await
    status, kind, waiter,   \* exec: lifecycle phase, wish, need
    pendSub, executions,    \* pending_submissions_; stage_submissions' local
    watch, timer,           \* the record's registrations, per event_kind
    batch                   \* events collected and not yet handled

deckVars == <<ready, round, finished, stopped, result>>
execVars == <<status, kind, waiter>>
pendVars == <<pendSub, executions>>
regVars == <<watch, timer>>
vars == <<pc, ret, deckVars, execVars, pendVars, regVars, batch>>

(* The wishes by how they use epoll: done inside wave ("sync": manual,     *)
(* openat, statx, getdents64, spawns, signal_child); tried, then retried   *)
(* on readiness ("io": read, write, recv, send, accept); and those whose   *)
(* event ends them.                                                        *)
Kinds == {"sync", "io", "connect", "wait_child", "poll", "timeout",
          "poll_until"}
TimerKinds == {"timeout", "poll_until"}

ParkedPhases == {"queued", "submitted", "cancel_queued"}

Parked(e) == status[e] \in ParkedPhases

(* A registration's interest: armed, ready in the kernel (for an fd also   *)
(* with EPOLLERR), or reported and disabled by EPOLLONESHOT.               *)
Interests == {"off", "armed", "fired", "failed", "taken"}

(* An array entry: the record and its event_kind, "error" for an event of  *)
(* kind op that has EPOLLERR set.                                          *)
EventKinds == {"op", "error", "timer"}
Events == Execs \X EventKinds

Init ==
    /\ pc = "top" /\ ret = "check"
    /\ ready = Tasks /\ round = {}
    /\ finished = {} /\ stopped = {}
    /\ result = [t \in Tasks |-> "none"]
    /\ status = [e \in Execs |-> "free"]
    /\ kind = [e \in Execs |-> "none"]
    /\ waiter = [e \in Execs |-> "none"]
    /\ pendSub = {} /\ executions = {}
    /\ watch = [e \in Execs |-> "off"] /\ timer = [e \in Execs |-> "off"]
    /\ batch = {}

-----------------------------------------------------------------------------
(* Helpers of the wand                                                     *)

has_pending_work == pendSub # {}

(* Mutant: looks at the wishes not yet submitted.                          *)
has_submitted_completions_queued == \E e \in Execs : status[e] = "queued"

has_submitted_completions == \E e \in Execs : status[e] = "submitted"
root_done == finished = Tasks

(* compact_execs: drop pending pointers to records no longer parked, and   *)
(* erase every settled record, its wish and its need included.             *)
parked_only(ps) == {e \in ps : Parked(e)}
erase_retirable ==
    /\ status' = [e \in Execs |->
                  IF status[e] = "ready_to_retire" THEN "free" ELSE status[e]]
    /\ kind' = [e \in Execs |->
                  IF status[e] = "ready_to_retire" THEN "none" ELSE kind[e]]
    /\ waiter' = [e \in Execs |->
                  IF status[e] = "ready_to_retire" THEN "none" ELSE waiter[e]]

(* cleanup: EPOLL_CTL_DEL and close every registration of the records.     *)
cleanup(es) ==
    /\ watch' = [e \in Execs |-> IF e \in es THEN "off" ELSE watch[e]]
    /\ timer' = [e \in Execs |-> IF e \in es THEN "off" ELSE timer[e]]

(* Mutant: the record is erased while the array may still name it.         *)
settle_and_erase(e, outcome) ==
    /\ status' = [status EXCEPT ![e] = "free"]
    /\ result' = [result EXCEPT ![waiter[e]] = outcome]
    /\ ready' = ready \cup {waiter[e]}
    /\ UNCHANGED <<round, finished, stopped, kind, waiter>>

(* complete, then settle: store the outcome and requeue the need.          *)
settle(e, outcome) ==
    /\ status' = [status EXCEPT ![e] = "ready_to_retire"]
    /\ result' = [result EXCEPT ![waiter[e]] = outcome]
    /\ ready' = ready \cup {waiter[e]}
    /\ UNCHANGED <<round, finished, stopped, kind, waiter>>

-----------------------------------------------------------------------------
(* Turns of the tasks on the deck                                          *)

Top ==
    /\ pc = "top"
    /\ \/ /\ root_done
          /\ pc' = "done" /\ UNCHANGED <<ret, ready, round>>
       \/ /\ ~root_done /\ ready # {}
          /\ pc' = "round" /\ round' = ready /\ ready' = {}
          /\ UNCHANGED ret
       \/ /\ ~root_done /\ ready = {}
          /\ pc' = "poll" /\ ret' = "check" /\ UNCHANGED <<ready, round>>
    /\ UNCHANGED <<finished, stopped, result, execVars, pendVars, regVars,
                   batch>>

(* Mutant: a task stopped before it waits parks like any other.            *)
parked_phase_unstopped(t) == "queued"

parked_phase(t) == IF t \in stopped THEN "cancel_queued" ELSE "queued"

(* `co_await wish`: prepare_epoll_wish, suspend, and the stop callback at  *)
(* once when the task is already stopped.                                  *)
AwaitWish(t, e, k) ==
    /\ pc = "round" /\ t \in round /\ status[e] = "free"
    /\ round' = round \ {t}
    /\ status' = [status EXCEPT ![e] = parked_phase(t)]
    /\ kind' = [kind EXCEPT ![e] = k]
    /\ waiter' = [waiter EXCEPT ![e] = t]
    /\ pendSub' = pendSub \cup {e}
    /\ result' = [result EXCEPT ![t] = "none"]
    /\ UNCHANGED <<pc, ret, ready, finished, stopped, executions, regVars,
                   batch>>

Yield(t) ==
    /\ pc = "round" /\ t \in round
    /\ round' = round \ {t} /\ ready' = ready \cup {t}
    /\ UNCHANGED <<pc, ret, finished, stopped, result, execVars, pendVars,
                   regVars, batch>>

FinishTask(t) ==
    /\ pc = "round" /\ t \in round
    /\ round' = round \ {t} /\ finished' = finished \cup {t}
    /\ UNCHANGED <<pc, ret, ready, stopped, result, execVars, pendVars,
                   regVars, batch>>

(* The records that cancel settles by itself.                              *)
inline_cancelled(armed) == {e \in armed : status[e] = "submitted"}

(* Mutant: settled without a deck to resume the need on.                   *)
requeue_nowhere(u) == ready

(* need::resume on current_deck_.                                          *)
requeue(u) == ready \cup {u}

(* A task asks u to stop, and u's stop callback calls cancel: a wish not   *)
(* yet submitted is marked; a submitted one is settled inside the call and *)
(* its task requeued on the deck that is running.                          *)
RequestStop(u) ==
    /\ pc = "round" /\ round # {} /\ u \notin stopped \cup finished
    /\ stopped' = stopped \cup {u}
    /\ LET armed == {e \in Execs : Parked(e) /\ waiter[e] = u}
           inline == inline_cancelled(armed)
       IN /\ status' = [e \in Execs |->
                          IF e \in inline THEN "ready_to_retire"
                          ELSE IF e \in armed THEN "cancel_queued"
                          ELSE status[e]]
          /\ cleanup(inline)
          /\ result' = [result EXCEPT ![u] =
                          IF inline # {} THEN "cancelled" ELSE @]
          /\ ready' = IF inline # {} THEN requeue(u) ELSE ready
    /\ UNCHANGED <<pc, ret, round, finished, kind, waiter, pendVars, batch>>

-----------------------------------------------------------------------------
(* wave: compact_execs, then stage_submissions                             *)

BeginWave(next) ==
    /\ erase_retirable
    /\ executions' = parked_only(pendSub) /\ pendSub' = {}
    /\ pc' = "stage" /\ ret' = next
    /\ UNCHANGED <<deckVars, regVars, batch>>

EndRound ==
    /\ pc = "round" /\ round = {}
    /\ BeginWave("check")

(* What submit_op may find, by kind of wish: the syscall succeeds, fails,  *)
(* or has to wait for an event.                                            *)
submit_op(k) ==
    IF k = "sync" THEN {"value", "error"}
    ELSE IF k \in {"io", "connect"} THEN {"value", "error", "wait"}
    ELSE IF k = "wait_child" THEN {"error", "wait"}
    ELSE {"wait"}

(* epoll_ctl refuses the fd: complete(-errno), which poll_until turns into *)
(* a value.                                                                *)
refused(k) == IF k = "poll_until" THEN "value" ELSE "error"

finish_outcomes(k) ==
    (submit_op(k) \ {"wait"})
      \cup (IF "wait" \in submit_op(k) THEN {refused(k)} ELSE {})

StageCancelled(e) ==
    /\ pc = "stage" /\ e \in executions /\ status[e] = "cancel_queued"
    /\ executions' = executions \ {e}
    /\ settle(e, "cancelled")
    /\ UNCHANGED <<pc, ret, pendSub, regVars, batch>>

(* submit finished the wish; a registration it made is cleaned up again.   *)
StageFinished(e, outcome) ==
    /\ pc = "stage" /\ e \in executions /\ status[e] = "queued"
    /\ outcome \in finish_outcomes(kind[e])
    /\ executions' = executions \ {e}
    /\ cleanup({e})
    /\ settle(e, outcome)
    /\ UNCHANGED <<pc, ret, pendSub, batch>>

(* Mutant: poll_until registers its fd and forgets its deadline.           *)
has_deadline_forgotten(k) == k = "timeout"

has_deadline(k) == k \in TimerKinds

StageSubmitted(e) ==
    /\ pc = "stage" /\ e \in executions /\ status[e] = "queued"
    /\ "wait" \in submit_op(kind[e])
    /\ executions' = executions \ {e}
    /\ status' = [status EXCEPT ![e] = "submitted"]
    /\ watch' = [watch EXCEPT ![e] = IF kind[e] = "timeout" THEN @ ELSE "armed"]
    /\ timer' = [timer EXCEPT ![e] = IF has_deadline(kind[e]) THEN "armed" ELSE @]
    /\ UNCHANGED <<pc, ret, deckVars, kind, waiter, pendSub, batch>>

(* add or make_timerfd throws out of wave: the rest of the swapped-out     *)
(* vector is lost, and so may be the first of two registrations.           *)
StageThrows(e, first) ==
    /\ AddMayThrow
    /\ pc = "stage" /\ e \in executions /\ status[e] = "queued"
    /\ "wait" \in submit_op(kind[e])
    /\ first => kind[e] = "poll_until"
    /\ watch' = [watch EXCEPT ![e] = IF first THEN "armed" ELSE @]
    /\ pc' = "failed" /\ executions' = {}
    /\ UNCHANGED <<ret, deckVars, execVars, pendSub, timer, batch>>

EndWave ==
    /\ pc = "stage" /\ executions = {}
    /\ pc' = "poll"
    /\ UNCHANGED <<ret, deckVars, execVars, pendVars, regVars, batch>>

-----------------------------------------------------------------------------
(* poll_with_timeout and handle_event                                      *)

fired_events ==
    {ev \in Events : \/ ev[2] = "op" /\ watch[ev[1]] = "fired"
                     \/ ev[2] = "error" /\ watch[ev[1]] = "failed"
                     \/ ev[2] = "timer" /\ timer[ev[1]] = "fired"}

fits(events) == Cardinality(events) <= BatchSize

(* epoll_wait copies some of the ready events and disables their interest. *)
(* The second half of wait is a poll.                                      *)
epoll_wait(events) ==
    /\ pc \in {"poll", "wait"}
    /\ events # {} /\ fits(events)
    /\ batch' = events
    /\ watch' = [e \in Execs |->
                   IF <<e, "op">> \in events \/ <<e, "error">> \in events THEN "taken"
                   ELSE watch[e]]
    /\ timer' = [e \in Execs |->
                   IF <<e, "timer">> \in events THEN "taken" ELSE timer[e]]
    /\ pc' = "batch" /\ ret' = IF pc = "wait" THEN "poll" ELSE ret
    /\ UNCHANGED <<deckVars, execVars, pendVars>>

AfterPoll ==
    /\ erase_retirable
    /\ pendSub' = parked_only(pendSub)
    /\ pc' = ret /\ ret' = IF ret = "poll" THEN "top" ELSE ret
    /\ UNCHANGED <<deckVars, executions, regVars, batch>>

PollEmpty == pc = "poll" /\ fired_events = {} /\ AfterPoll

EndBatch == pc = "batch" /\ batch = {} /\ AfterPoll

(* handle_event calls cleanup before on_event, so the registrations that   *)
(* on_event looks the descriptor up in are none.                           *)
registrations_in_on_event == {}

(* event_fd's descriptor of the event, if any; getsockopt(SO_ERROR) on it  *)
(* or on -1.                                                               *)
socket_error ==
    IF "op" \in registrations_in_on_event THEN {"none", "error"} ELSE {"bad_fd"}

event_op(k) ==
    IF k = "io" THEN {"value", "error", "again"}
    ELSE IF k \in {"connect", "wait_child"} THEN {"value", "error"}
    ELSE {"value"}

(* on_event: what an event of record e makes of its wish.                  *)
on_event(e, k) ==
    LET before == IF k = "error" THEN socket_error ELSE {"none"} IN
      (before \ {"none"})
        \cup (IF "none" \in before THEN event_op(kind[e]) ELSE {})

(* An earlier event of the array settled this record.                      *)
StaleEvent(e, k) ==
    /\ pc = "batch" /\ <<e, k>> \in batch /\ ~Parked(e)
    /\ batch' = batch \ {<<e, k>>}
    /\ UNCHANGED <<pc, ret, deckVars, execVars, pendVars, regVars>>

(* Mutant: does not look whether the record is still parked.               *)
EventFinishes_unguarded(e, k, outcome) ==
    /\ pc = "batch" /\ <<e, k>> \in batch
    /\ outcome \in on_event(e, k) \ {"again"}
    /\ batch' = batch \ {<<e, k>>}
    /\ cleanup({e})
    /\ settle(e, outcome)
    /\ UNCHANGED <<pc, ret, pendVars>>

(* The wish ends; a retry that epoll_ctl refuses ends it as well.          *)
EventFinishes(e, k, outcome) ==
    /\ pc = "batch" /\ <<e, k>> \in batch /\ Parked(e)
    /\ \/ outcome \in on_event(e, k) \ {"again"}
       \/ "again" \in on_event(e, k) /\ outcome = refused(kind[e])
    /\ batch' = batch \ {<<e, k>>}
    /\ cleanup({e})
    /\ settle(e, outcome)
    /\ UNCHANGED <<pc, ret, pendVars>>

(* Mutant: readiness was stale, and the retry is not armed again.          *)
EventRearms_forgotten(e, k) ==
    /\ pc = "batch" /\ <<e, k>> \in batch /\ Parked(e)
    /\ "again" \in on_event(e, k)
    /\ batch' = batch \ {<<e, k>>}
    /\ cleanup({e})
    /\ UNCHANGED <<pc, ret, deckVars, execVars, pendVars>>

(* The readiness was stale: the operation would block, and is armed again. *)
EventRearms(e, k) ==
    /\ pc = "batch" /\ <<e, k>> \in batch /\ Parked(e)
    /\ "again" \in on_event(e, k)
    /\ batch' = batch \ {<<e, k>>}
    /\ watch' = [watch EXCEPT ![e] = "armed"]
    /\ timer' = [timer EXCEPT ![e] = "off"]
    /\ UNCHANGED <<pc, ret, deckVars, execVars, pendVars>>

(* The dup for the retry fails and the exception leaves poll.              *)
EventThrows(e, k) ==
    /\ AddMayThrow
    /\ pc = "batch" /\ <<e, k>> \in batch /\ Parked(e)
    /\ "again" \in on_event(e, k)
    /\ batch' = {} /\ pc' = "failed"
    /\ cleanup({e})
    /\ UNCHANGED <<ret, deckVars, execVars, pendVars>>

(* The rest of run_until_done's loop body.                                 *)
Check ==
    /\ pc = "check"
    /\ IF ready = {} /\ ~root_done /\ has_pending_work
       THEN BeginWave("top")
       ELSE /\ pc' = IF ready # {} \/ root_done THEN "top"
                     ELSE IF has_submitted_completions THEN "wait"
                     ELSE "deadlock"
            /\ UNCHANGED <<ret, deckVars, execVars, pendVars, regVars, batch>>

-----------------------------------------------------------------------------
(* The kernel                                                              *)

(* A watched descriptor becomes ready, or ready with EPOLLERR; an error    *)
(* may join readiness that has not been reported yet.                      *)
FdReady(e, how) ==
    /\ watch[e] = "armed" \/ (watch[e] = "fired" /\ how = "failed")
    /\ watch' = [watch EXCEPT ![e] = how]
    /\ UNCHANGED <<pc, ret, deckVars, execVars, pendVars, timer, batch>>

TimerFires(e) ==
    /\ timer[e] = "armed"
    /\ timer' = [timer EXCEPT ![e] = "fired"]
    /\ UNCHANGED <<pc, ret, deckVars, execVars, pendVars, watch, batch>>

-----------------------------------------------------------------------------
Turn ==
    \E t \in Tasks :
        \/ \E e \in Execs, k \in Kinds : AwaitWish(t, e, k)
        \/ Yield(t)
        \/ FinishTask(t)
        \/ RequestStop(t)

Stage ==
    \E e \in Execs :
        \/ StageCancelled(e)
        \/ \E o \in {"value", "error"} : StageFinished(e, o)
        \/ StageSubmitted(e)
        \/ \E first \in BOOLEAN : StageThrows(e, first)

Poll ==
    \/ \E events \in SUBSET fired_events : epoll_wait(events)
    \/ PollEmpty
    \/ EndBatch

handle_event ==
    \E e \in Execs, k \in EventKinds :
        \/ StaleEvent(e, k)
        \/ \E o \in {"value", "error", "bad_fd"} : EventFinishes(e, k, o)
        \/ EventRearms(e, k)
        \/ EventThrows(e, k)

Driver ==
    Top \/ Turn \/ EndRound \/ Stage \/ EndWave \/ Poll \/ handle_event \/ Check

Kernel ==
    \E e \in Execs :
        \/ \E how \in {"fired", "failed"} : FdReady(e, how)
        \/ TimerFires(e)

(* The driver has returned or thrown.                                      *)
Ended == pc \in {"done", "failed"} /\ UNCHANGED vars

Next == Driver \/ Kernel \/ Ended

Spec == Init /\ [][Next]_vars

(* The deck's thread keeps running; armed timers fire; and epoll's ready   *)
(* list is a rotating queue, so an event is not passed over for ever.      *)
Fairness ==
    /\ WF_vars(Driver)
    /\ \A e \in Execs :
         /\ WF_vars(TimerFires(e))
         /\ SF_vars(\E events \in SUBSET fired_events :
                        <<e, "timer">> \in events /\ epoll_wait(events))

FairSpec == Spec /\ Fairness

-----------------------------------------------------------------------------
TypeOK ==
    /\ pc \in {"top", "round", "stage", "poll", "batch", "check", "wait",
               "done", "failed", "deadlock"}
    /\ ret \in {"check", "top", "poll"}
    /\ ready \subseteq Tasks /\ round \subseteq Tasks
    /\ finished \subseteq Tasks /\ stopped \subseteq Tasks
    /\ result \in [Tasks -> {"none", "value", "error", "bad_fd", "cancelled"}]
    /\ status \in [Execs -> {"free", "ready_to_retire"} \cup ParkedPhases]
    /\ kind \in [Execs -> Kinds \cup {"none"}]
    /\ waiter \in [Execs -> Tasks \cup {"none"}]
    /\ pendSub \subseteq Execs /\ executions \subseteq Execs
    /\ watch \in [Execs -> Interests] /\ timer \in [Execs -> Interests]
    /\ batch \subseteq Events /\ Cardinality(batch) <= BatchSize

(* No pending entry, no registration and no event that poll_with_timeout   *)
(* has collected names an erased record: several events of one array may   *)
(* belong to one record, and handle_event settles it at the first.         *)
NoDanglingRecord ==
    \A e \in Execs :
        status[e] = "free" =>
            /\ e \notin pendSub \cup executions
            /\ watch[e] = "off" /\ timer[e] = "off"
            /\ \A ev \in batch : ev[1] # e

(* A submitted wish can always still be woken: one of its registrations is *)
(* armed or has an event on its way to handle_event.  A record in any      *)
(* other phase has no registration, so no dup or timerfd outlives its wish *)
(* (stage_submissions, cancel, finish_or_rearm).                           *)
WatchedWhileSubmitted ==
    pc # "failed" =>
        \A e \in Execs :
            IF status[e] = "submitted"
            THEN \/ watch[e] \in {"armed", "fired", "failed"}
                 \/ timer[e] \in {"armed", "fired"}
                 \/ \E ev \in batch : ev[1] = e
            ELSE watch[e] = "off" /\ timer[e] = "off"

(* An unfinished task is queued on the deck, or in the round being run, or *)
(* the need of exactly one parked record.                                  *)
TaskInOnePlace ==
    /\ ready \cap round = {}
    /\ finished \cap (ready \cup round) = {}
    /\ \A t \in Tasks :
         LET holds == {e \in Execs : Parked(e) /\ waiter[e] = t} IN
           /\ \A e1, e2 \in holds : e1 = e2
           /\ t \in ready \cup round \cup finished <=> holds = {}

(* run_until_done never throws "nxtrt epoll wand deadlock" under a parked  *)
(* task, and calls epoll_wait without a timeout only with an interest that *)
(* can still fire.                                                         *)
DriverNotStranded ==
    /\ pc # "deadlock"
    /\ pc = "wait" => \E e \in Execs :
                        \/ watch[e] \in {"armed", "fired", "failed"}
                        \/ timer[e] \in {"armed", "fired"}

(* A failed connect reports the socket's own error: wish_ops.hpp says of   *)
(* connect that epoll reports "the final `SO_ERROR` as an `errno_error`".  *)
ConnectReportsSocketError ==
    \A e \in Execs :
        status[e] = "ready_to_retire" /\ kind[e] = "connect"
            => result[waiter[e]] # "bad_fd"

(* The promise to the tasks, checked as an implementation of WandContract. *)
place ==
    [t \in Tasks |->
        IF t \in finished THEN "finished"
        ELSE IF \E e \in Execs : Parked(e) /\ waiter[e] = t THEN "parked"
        ELSE "deck"]

outcome_class ==
    [t \in Tasks |-> IF result[t] = "bad_fd" THEN "error" ELSE result[t]]

Contract == INSTANCE WandContract WITH result <- outcome_class

ContractSafety == Contract!SafeSpec

(* A stopped task does not stay parked, unless the driver has thrown.      *)
StoppedTaskIsSettled ==
    \A t \in Tasks :
        (t \in stopped /\ place[t] = "parked")
            ~> (place[t] # "parked" \/ pc = "failed")

(* A task parked on a timeout or poll_until is resumed, whatever the other *)
(* tasks and descriptors do: its timerfd fires, poll collects the event    *)
(* and handle_event settles it.                                            *)
TimerWakesTask ==
    \A t \in Tasks :
        (\E e \in Execs : Parked(e) /\ waiter[e] = t /\ kind[e] \in TimerKinds)
            ~> (place[t] # "parked" \/ pc = "failed")

-----------------------------------------------------------------------------
(* The inductive invariant behind the safety properties.                   *)

Unsent == {"queued", "cancel_queued"}

(* pending_submissions_ and the local it is swapped into hold exactly the  *)
(* records not submitted yet; outside a round and its wave there are none, *)
(* so run_until_done never finds pending work.                             *)
PendingInv ==
    /\ \A e \in pendSub \cup executions : status[e] \in Unsent
    /\ pc # "failed" =>
         \A e \in Execs : status[e] \in Unsent => e \in pendSub \cup executions
    /\ pc # "stage" => executions = {}
    /\ pc # "round" => pendSub = {}

(* Which records have registrations, and which the collected events name.  *)
RegisteredInv ==
    /\ WatchedWhileSubmitted
    /\ \A e \in Execs : status[e] \in {"free", "ready_to_retire"}
         => watch[e] = "off" /\ timer[e] = "off"
    /\ pc # "batch" => batch = {}
    /\ \A ev \in batch : status[ev[1]] \in {"submitted", "ready_to_retire"}

PlaceInv ==
    /\ \A e \in Execs : Parked(e) =>
         waiter[e] \in Tasks \ (ready \cup round \cup finished)
    /\ \A e1, e2 \in Execs :
         Parked(e1) /\ Parked(e2) /\ waiter[e1] = waiter[e2] => e1 = e2
    /\ \A t \in Tasks :
         \/ t \in ready \cup round \cup finished
         \/ \E e \in Execs : Parked(e) /\ waiter[e] = t
    /\ ready \cap round = {}
    /\ finished \cap (ready \cup round) = {}
    /\ pc # "round" => round = {}

(* Only a stopped task's wish is marked for cancellation.                  *)
StopInv ==
    \A e \in Execs : status[e] = "cancel_queued" => waiter[e] \in stopped

IndInv ==
    /\ TypeOK
    /\ PendingInv
    /\ RegisteredInv
    /\ PlaceInv
    /\ StopInv
    /\ DriverNotStranded
=============================================================================
