----------------------------- MODULE UringWand ------------------------------
(***************************************************************************)
(* The io_uring backend (wand/uring.hpp) between the deck that drives it   *)
(* and the kernel that completes its operations.                           *)
(*                                                                         *)
(* A hub record (`exec`) is named by its address: the address is the coin, *)
(* the user data of its SQEs and CQEs, and the entry of the two pending    *)
(* vectors.  Addresses are reused, so the model has a fixed set of them    *)
(* and a record is "free" once compact_execs has erased it.                *)
(*                                                                         *)
(* Tasks run on the deck one turn at a time; `pc` is the position of       *)
(* run_until_done and of the wave, poll or wait it is in.  The order       *)
(* inside a round and inside the pending vectors only decides who goes     *)
(* first, so both are sets and any order is allowed.                       *)
(***************************************************************************)
EXTENDS Naturals, FiniteSets

CONSTANTS
    Tasks,          \* the tasks the root task waits for
    Execs,          \* hub addresses
    SQDepth,        \* entries of the submission queue
    SubmitMayFail   \* whether io_uring_submit may return an error

ASSUME DepthAssumption == SQDepth \in Nat \ {0}
ASSUME SubmitAssumption == SubmitMayFail \in BOOLEAN

VARIABLES
    pc, ret,                \* position of the driver; where poll returns to
    ready, round,           \* deck::ready_ and the round swapped out of it
    finished, stopped,      \* tasks at final suspend; tasks asked to stop
    result,                 \* urge_state of the task's last await
    status, kind, waiter,   \* exec: lifecycle phase, wish, need
    pendSub, pendCan,       \* pending_submissions_, pending_cancellations_
    executions, deferred,   \* locals of the two staging loops
    op, can,                \* the record's operation and cancel SQE/CQE
    effect                  \* ghost: the kernel carried out the task's wish

deckVars == <<ready, round, finished, stopped, result>>
execVars == <<status, kind, waiter>>
pendVars == <<pendSub, pendCan, executions, deferred>>
kernVars == <<op, can, effect>>
vars == <<pc, ret, deckVars, execVars, pendVars, kernVars>>

(* The wishes the wand treats differently: the CQE is the result ("io");   *)
(* completed inside wave ("sync": getdents64, spawn_piped, spawn_pty,      *)
(* signal_child); pidfd poll, then waitid ("wait_child"); poll of an epoll *)
(* proxy for an fd and a timer ("poll_until").                             *)
Kinds == {"io", "sync", "wait_child", "poll_until"}

ParkedPhases ==
    {"queued", "submitted", "cancel_queued", "cancel_submitted",
     "cancel_drained"}
SettledPhases == {"ready_to_retire", "waiting_cancel_cqe"}
CancelPhases == {"cancel_queued", "cancel_submitted", "cancel_drained"}

(* An operation's SQE is staged, then owned by the kernel, then a CQE.     *)
Completed == {"ok", "error", "ecanceled"}
OpStates == {"none", "staged", "flying", "cancelling"} \cup Completed
CanStates == {"none", "staged", "sent", "posted"}

Parked(e) == status[e] \in ParkedPhases

Init ==
    /\ pc = "top" /\ ret = "check"
    /\ ready = Tasks /\ round = {}
    /\ finished = {} /\ stopped = {}
    /\ result = [t \in Tasks |-> "none"]
    /\ status = [e \in Execs |-> "free"]
    /\ kind = [e \in Execs |-> "none"]
    /\ waiter = [e \in Execs |-> "none"]
    /\ pendSub = {} /\ pendCan = {} /\ executions = {} /\ deferred = {}
    /\ op = [e \in Execs |-> "none"] /\ can = [e \in Execs |-> "none"]
    /\ effect = [t \in Tasks |-> FALSE]

-----------------------------------------------------------------------------
(* Helpers of the wand                                                     *)

sq_space_left ==
    SQDepth - Cardinality({e \in Execs : op[e] = "staged"})
            - Cardinality({e \in Execs : can[e] = "staged"})

sqes_required(e) == IF kind[e] = "sync" THEN 0 ELSE 1

(* Mutant: forgets that a drained cancel still waits for the operation.     *)
is_submitted_not_drained(phase) ==
    phase \in ParkedPhases \ {"queued", "cancel_drained"}

is_submitted(phase) == phase \in ParkedPhases \ {"queued"}

has_submitted_completions == \E e \in Execs : is_submitted(status[e])

has_pending_work == pendSub # {} \/ pendCan # {}

root_done == finished = Tasks

(* compact_execs: drop pending pointers to records that no longer need     *)
(* them, then erase every settled record that is ready to retire, its wish *)
(* and its need included.                                                  *)
compact_execs(st, ps, pcn) ==
    /\ pendSub' = {e \in ps : st[e] \in ParkedPhases}
    /\ pendCan' = {e \in pcn : st[e] = "cancel_queued"}
    /\ status' = [e \in Execs |->
                    IF st[e] = "ready_to_retire" THEN "free" ELSE st[e]]
    /\ kind' = [e \in Execs |->
                    IF st[e] = "ready_to_retire" THEN "none" ELSE kind[e]]
    /\ waiter' = [e \in Execs |->
                    IF st[e] = "ready_to_retire" THEN "none" ELSE waiter[e]]

(* settle's part for the task: store the outcome and requeue the need.     *)
fulfill(e, outcome) ==
    /\ result' = [result EXCEPT ![waiter[e]] = outcome]
    /\ ready' = ready \cup {waiter[e]}
    /\ UNCHANGED <<round, finished, stopped>>

-----------------------------------------------------------------------------
(* Turns of the tasks on the deck                                          *)

Top ==
    /\ pc = "top"
    /\ \/ /\ root_done
          /\ pc' = "done" /\ UNCHANGED <<ret, ready, round>>
       \/ /\ ~root_done /\ ready # {}
          /\ pc' = "round" /\ round' = ready /\ ready' = {}
          /\ UNCHANGED ret
       \/ /\ ~root_done /\ ready = {}
          /\ pc' = "poll" /\ ret' = "check" /\ UNCHANGED <<ready, round>>
    /\ UNCHANGED <<finished, stopped, result, execVars, pendVars, kernVars>>

(* `co_await wish`: prep allocates a record, suspend parks the task on it, *)
(* and a task already stopped has its stop callback run on registration.   *)
AwaitWish(t, e, k) ==
    /\ pc = "round" /\ t \in round /\ status[e] = "free"
    /\ round' = round \ {t}
    /\ status' = [status EXCEPT ![e] =
                    IF t \in stopped THEN "cancel_queued" ELSE "queued"]
    /\ kind' = [kind EXCEPT ![e] = k]
    /\ waiter' = [waiter EXCEPT ![e] = t]
    /\ pendSub' = pendSub \cup {e}
    /\ result' = [result EXCEPT ![t] = "none"]
    /\ effect' = [effect EXCEPT ![t] = FALSE]
    /\ UNCHANGED <<pc, ret, ready, finished, stopped, pendCan, executions,
                   deferred, op, can>>

Yield(t) ==
    /\ pc = "round" /\ t \in round
    /\ round' = round \ {t} /\ ready' = ready \cup {t}
    /\ UNCHANGED <<pc, ret, finished, stopped, result, execVars, pendVars,
                   kernVars>>

FinishTask(t) ==
    /\ pc = "round" /\ t \in round
    /\ round' = round \ {t} /\ finished' = finished \cup {t}
    /\ UNCHANGED <<pc, ret, ready, stopped, result, execVars, pendVars,
                   kernVars>>

(* What cancel makes of a record: only a parked record that is not already *)
(* being cancelled changes.                                                *)
cancelled_phase(phase) ==
    IF phase \in {"queued", "submitted"} THEN "cancel_queued" ELSE phase

(* Mutant: a submitted wish is marked cancelled but no cancel SQE is asked *)
(* for.                                                                    *)
records_needing_cancel_none(armed) == {}

(* Of the records whose stop callback runs, those the kernel already has.  *)
records_needing_cancel(armed) == {e \in armed : status[e] = "submitted"}

(* A running task asks task u to stop: the stop callback armed by u's      *)
(* await calls wand::cancel for the record u is parked on.                 *)
RequestStop(u) ==
    /\ pc = "round" /\ round # {} /\ u \notin stopped \cup finished
    /\ stopped' = stopped \cup {u}
    /\ LET armed == {e \in Execs : Parked(e) /\ waiter[e] = u} IN
         /\ status' = [e \in Execs |->
                         IF e \in armed THEN cancelled_phase(status[e])
                         ELSE status[e]]
         /\ pendCan' = pendCan \cup records_needing_cancel(armed)
    /\ UNCHANGED <<pc, ret, ready, round, finished, result, kind, waiter,
                   pendSub, executions, deferred, kernVars>>

-----------------------------------------------------------------------------
(* wave: stage_submissions, stage_cancellations, compact_execs, submit     *)

BeginWave(next) ==
    /\ executions' = pendSub /\ pendSub' = {} /\ deferred' = {}
    /\ pc' = "stage_sub" /\ ret' = next
    /\ UNCHANGED <<pendCan, deckVars, execVars, kernVars>>

EndRound ==
    /\ pc = "round" /\ round = {}
    /\ BeginWave("check")

(* Mutant: settles the record but forgets to requeue its task.             *)
StageCancelled_no_requeue(e) ==
    /\ pc = "stage_sub" /\ e \in executions /\ status[e] = "cancel_queued"
    /\ executions' = executions \ {e}
    /\ status' = [status EXCEPT ![e] = "ready_to_retire"]
    /\ result' = [result EXCEPT ![waiter[e]] = "cancelled"]
    /\ UNCHANGED <<pc, ret, ready, round, finished, stopped, kind, waiter,
                   pendSub, pendCan, deferred, kernVars>>

(* A wish cancelled before it was submitted settles without an SQE.        *)
StageCancelled(e) ==
    /\ pc = "stage_sub" /\ e \in executions /\ status[e] = "cancel_queued"
    /\ executions' = executions \ {e}
    /\ status' = [status EXCEPT ![e] = "ready_to_retire"]
    /\ fulfill(e, "cancelled")
    /\ UNCHANGED <<pc, ret, kind, waiter, pendSub, pendCan, deferred, kernVars>>

StageDeferred(e) ==
    /\ pc = "stage_sub" /\ e \in executions /\ status[e] = "queued"
    /\ sqes_required(e) > sq_space_left
    /\ executions' = executions \ {e}
    /\ deferred' = deferred \cup {e}
    /\ UNCHANGED <<pc, ret, pendSub, pendCan, deckVars, execVars, kernVars>>

(* complete_sync: handle_op_cqe on a queued record, then compact_execs.    *)
(* wait_child and poll_until take this path only for an error found while  *)
(* preparing them (a bad pidfd, no epoll proxy).                           *)
StageSync(e, outcome) ==
    /\ pc = "stage_sub" /\ e \in executions /\ status[e] = "queued"
    /\ sqes_required(e) <= sq_space_left
    /\ \/ kind[e] = "sync" /\ outcome \in {"value", "error"}
       \/ kind[e] \in {"wait_child", "poll_until"} /\ outcome = "error"
    /\ executions' = executions \ {e}
    /\ compact_execs([status EXCEPT ![e] = "ready_to_retire"],
                     pendSub, pendCan)
    /\ fulfill(e, outcome)
    /\ UNCHANGED <<pc, ret, deferred, kernVars>>

StageSqe(e) ==
    /\ pc = "stage_sub" /\ e \in executions /\ status[e] = "queued"
    /\ kind[e] # "sync" /\ sqes_required(e) <= sq_space_left
    /\ executions' = executions \ {e}
    /\ op' = [op EXCEPT ![e] = "staged"]
    /\ status' = [status EXCEPT ![e] = "submitted"]
    /\ UNCHANGED <<pc, ret, deckVars, kind, waiter, pendSub, pendCan, deferred,
                   can, effect>>

EndSubmissions ==
    /\ pc = "stage_sub" /\ executions = {}
    /\ pendSub' = deferred \cup pendSub /\ deferred' = {}
    /\ executions' = pendCan /\ pendCan' = {}
    /\ pc' = "stage_can"
    /\ UNCHANGED <<ret, deckVars, execVars, kernVars>>

StageCancelSqe(e) ==
    /\ pc = "stage_can" /\ e \in executions /\ status[e] = "cancel_queued"
    /\ sq_space_left # 0
    /\ executions' = executions \ {e}
    /\ can' = [can EXCEPT ![e] = "staged"]
    /\ status' = [status EXCEPT ![e] = "cancel_submitted"]
    /\ UNCHANGED <<pc, ret, deckVars, kind, waiter, pendSub, pendCan, deferred,
                   op, effect>>

DeferCancel(e) ==
    /\ pc = "stage_can" /\ e \in executions /\ status[e] = "cancel_queued"
    /\ sq_space_left = 0
    /\ executions' = executions \ {e}
    /\ deferred' = deferred \cup {e}
    /\ UNCHANGED <<pc, ret, pendSub, pendCan, deckVars, execVars, kernVars>>

(* pending_cancellations_ = deferred; compact_execs; io_uring_submit, whose *)
(* failure is thrown out of run_until_done.  wave does not compare a        *)
(* count it returns with what it staged: the kernel is assumed to take      *)
(* every entry of a call that succeeds.                                     *)
EndWave ==
    /\ pc = "stage_can" /\ executions = {}
    /\ compact_execs(status, pendSub, deferred)
    /\ deferred' = {}
    /\ \/ /\ pc' = "poll"
          /\ op' = [e \in Execs |-> IF op[e] = "staged" THEN "flying" ELSE op[e]]
          /\ can' = [e \in Execs |-> IF can[e] = "staged" THEN "sent" ELSE can[e]]
       \/ /\ SubmitMayFail /\ pc' = "failed" /\ UNCHANGED <<op, can>>
    /\ UNCHANGED <<ret, deckVars, executions, effect>>

-----------------------------------------------------------------------------
(* poll and wait: handle_cqe                                               *)

AfterCqe ==
    /\ pc' = "poll"
    /\ ret' = IF pc = "wait" THEN "top" ELSE ret

(* What handle_op_cqe makes of a CQE of a poll_until proxy: epoll_wait on  *)
(* the proxy finds the fd or the timer, fails, or finds nothing any more.  *)
ProxyReports == {"ready", "timed_out", "failed", "nothing"}

op_result(e, report) ==
    IF kind[e] # "poll_until" \/ op[e] # "ok" THEN op[e]
    ELSE IF report \in {"ready", "timed_out"} THEN "ok"
    ELSE IF report = "failed" THEN "error" ELSE "ecanceled"

(* Readiness that disappeared before the CQE was consumed: poll again.     *)
RepollProxy(e) ==
    /\ pc \in {"poll", "wait"}
    /\ op[e] = "ok" /\ kind[e] = "poll_until" /\ status[e] = "submitted"
    /\ op' = [op EXCEPT ![e] = "none"]
    /\ compact_execs([status EXCEPT ![e] = "queued"], pendSub \cup {e}, pendCan)
    /\ AfterCqe
    /\ UNCHANGED <<deckVars, executions, deferred, can, effect>>

(* Mutant: a requested cancellation hides what the operation returned.      *)
op_cancelled_on_request(e, res) == status[e] \in CancelPhases

(* Mutant: reports cancellation to a task nobody asked to stop.             *)
op_cancelled_unasked(e, res) == res = "ecanceled" \/ kind[e] = "wait_child"

(* A cancellation is only a request: the operation's CQE is authoritative, *)
(* except that a child wait not yet reaped can still be given up.          *)
op_cancelled(e, res) ==
    /\ status[e] \in CancelPhases
    /\ res = "ecanceled" \/ kind[e] = "wait_child"

(* completion::complete.  wait_child reaps here, and waitid may fail.      *)
op_outcomes(e, res) ==
    IF op_cancelled(e, res) THEN {"cancelled"}
    ELSE IF res # "ok" THEN {"error"}
    ELSE IF kind[e] = "wait_child" THEN {"value", "error"}
    ELSE {"value"}

(* Mutant: retires the record while its cancel CQE is still to come.        *)
settled_phase_early(e) == "ready_to_retire"

settled_phase(e) ==
    IF status[e] = "cancel_submitted" THEN "waiting_cancel_cqe"
    ELSE "ready_to_retire"

handle_op_cqe(e, report, outcome) ==
    /\ pc \in {"poll", "wait"}
    /\ op[e] \in Completed /\ Parked(e)
    /\ ~ (op[e] = "ok" /\ kind[e] = "poll_until" /\ report = "nothing"
            /\ status[e] = "submitted")
    /\ outcome \in op_outcomes(e, op_result(e, report))
    /\ op' = [op EXCEPT ![e] = "none"]
    /\ fulfill(e, outcome)
    /\ compact_execs([status EXCEPT ![e] = settled_phase(e)], pendSub, pendCan)
    /\ AfterCqe
    /\ UNCHANGED <<executions, deferred, can, effect>>

handle_cancel_cqe(e) ==
    /\ pc \in {"poll", "wait"}
    /\ can[e] = "posted"
    /\ can' = [can EXCEPT ![e] = "none"]
    /\ compact_execs(
         [status EXCEPT ![e] =
            IF @ = "cancel_submitted" THEN "cancel_drained"
            ELSE IF @ = "waiting_cancel_cqe" THEN "ready_to_retire" ELSE @],
         pendSub, pendCan)
    /\ AfterCqe
    /\ UNCHANGED <<deckVars, executions, deferred, op, effect>>

CqePending == \E e \in Execs : op[e] \in Completed \/ can[e] = "posted"

EndPoll ==
    /\ pc = "poll" /\ ~CqePending
    /\ pc' = ret
    /\ UNCHANGED <<ret, deckVars, execVars, pendVars, kernVars>>

(* The rest of run_until_done's loop body.                                 *)
Check ==
    /\ pc = "check"
    /\ \/ /\ ready # {} \/ root_done
          /\ pc' = "top" /\ UNCHANGED <<ret, pendVars, deckVars, execVars, kernVars>>
       \/ /\ ready = {} /\ ~root_done /\ has_pending_work
          /\ BeginWave("check2")
       \/ /\ ready = {} /\ ~root_done /\ ~has_pending_work
          /\ pc' = IF has_submitted_completions THEN "wait" ELSE "deadlock"
          /\ UNCHANGED <<ret, pendVars, deckVars, execVars, kernVars>>

Check2 ==
    /\ pc = "check2"
    /\ pc' = IF /\ ready = {} /\ ~root_done
                /\ has_pending_work /\ has_submitted_completions
             THEN "wait" ELSE "top"
    /\ UNCHANGED <<ret, deckVars, execVars, pendVars, kernVars>>

-----------------------------------------------------------------------------
(* The kernel                                                              *)

(* An operation completes, or is cut short once a cancel has found it.     *)
KernelComplete(e, r) ==
    /\ op[e] \in {"flying", "cancelling"}
    /\ r \in {"ok", "error"} \/ (r = "ecanceled" /\ op[e] = "cancelling")
    /\ op' = [op EXCEPT ![e] = r]
    /\ effect' = [effect EXCEPT ![waiter[e]] =
                    @ \/ (r = "ok" /\ kind[e] = "io")]
    /\ UNCHANGED <<pc, ret, deckVars, execVars, pendVars, can>>

(* The cancel request itself completes, whether or not it found its target. *)
KernelCancel(e) ==
    /\ can[e] = "sent"
    /\ can' = [can EXCEPT ![e] = "posted"]
    /\ op' = [op EXCEPT ![e] = IF @ = "flying" THEN "cancelling" ELSE @]
    /\ UNCHANGED <<pc, ret, deckVars, execVars, pendVars, effect>>

-----------------------------------------------------------------------------
Turn ==
    \E t \in Tasks :
        \/ \E e \in Execs, k \in Kinds : AwaitWish(t, e, k)
        \/ Yield(t)
        \/ FinishTask(t)
        \/ RequestStop(t)

Stage ==
    \E e \in Execs :
        \/ StageCancelled(e)
        \/ StageDeferred(e)
        \/ \E o \in {"value", "error"} : StageSync(e, o)
        \/ StageSqe(e)
        \/ StageCancelSqe(e)
        \/ DeferCancel(e)

Handle ==
    \E e \in Execs :
        \/ RepollProxy(e)
        \/ \E r \in ProxyReports, o \in {"value", "error", "cancelled"} :
              handle_op_cqe(e, r, o)
        \/ handle_cancel_cqe(e)

Driver ==
    \/ Top \/ Turn \/ EndRound
    \/ Stage \/ EndSubmissions \/ EndWave
    \/ Handle \/ EndPoll \/ Check \/ Check2

Kernel ==
    \E e \in Execs :
        \/ \E r \in Completed : KernelComplete(e, r)
        \/ KernelCancel(e)

(* The driver has returned or thrown.                                      *)
Ended == pc \in {"done", "failed"} /\ UNCHANGED vars

Next == Driver \/ Kernel \/ Ended

Spec == Init /\ [][Next]_vars

(* The thread of the deck keeps running; the kernel processes every cancel *)
(* request, and an operation found by one does not stay in flight.  An     *)
(* operation nobody cancels may take forever.                              *)
Fairness ==
    /\ WF_vars(Driver)
    /\ \A e \in Execs :
         /\ WF_vars(KernelCancel(e))
         /\ WF_vars(op[e] = "cancelling" /\ \E r \in Completed : KernelComplete(e, r))

FairSpec == Spec /\ Fairness

-----------------------------------------------------------------------------
TypeOK ==
    /\ pc \in {"top", "round", "stage_sub", "stage_can", "poll", "check",
               "check2", "wait", "done", "failed", "deadlock"}
    /\ ret \in {"check", "check2", "top"}
    /\ ready \subseteq Tasks /\ round \subseteq Tasks
    /\ finished \subseteq Tasks /\ stopped \subseteq Tasks
    /\ result \in [Tasks -> {"none", "value", "error", "cancelled"}]
    /\ status \in [Execs -> {"free"} \cup ParkedPhases \cup SettledPhases]
    /\ kind \in [Execs -> Kinds \cup {"none"}]
    /\ waiter \in [Execs -> Tasks \cup {"none"}]
    /\ pendSub \subseteq Execs /\ pendCan \subseteq Execs
    /\ executions \subseteq Execs /\ deferred \subseteq Execs
    /\ op \in [Execs -> OpStates] /\ can \in [Execs -> CanStates]
    /\ effect \in [Tasks -> BOOLEAN]

(* Every pointer to a record that the wand or the kernel still holds (the  *)
(* pending vectors, the staging loops' locals, an SQE, an operation in     *)
(* flight, a CQE) names a record that has not been erased: wand.hpp,       *)
(* "Retire (free) a record only when no kernel structure can still refer   *)
(* to it", for compact_execs and every path that settles a record.         *)
NoDanglingRecord ==
    \A e \in Execs :
        status[e] = "free" =>
            /\ e \notin pendSub \cup pendCan \cup executions \cup deferred
            /\ op[e] = "none" /\ can[e] = "none"

(* A task is never lost and never in two places: unfinished, it is queued  *)
(* on the deck or in the round being run or the need of exactly one parked *)
(* record (suspend, settle, need::resume).                                 *)
TaskInOnePlace ==
    /\ ready \cap round = {}
    /\ finished \cap (ready \cup round) = {}
    /\ \A t \in Tasks :
         LET holds == {e \in Execs : Parked(e) /\ waiter[e] = t} IN
           /\ \A e1, e2 \in holds : e1 = e2
           /\ t \in ready \cup round \cup finished <=> holds = {}

(* A wish that was carried out is never reported as cancelled: the bytes   *)
(* read, the descriptor accepted or opened reach the task even when a stop *)
(* raced with the completion (handle_op_cqe, "a successful                 *)
(* accept/openat/read CQE must publish its FD or byte count").             *)
EffectIsDelivered ==
    \A t \in Tasks : result[t] = "cancelled" => ~effect[t]

(* run_until_done never reports a deadlock while a task is parked on a     *)
(* live operation, and blocks in io_uring_wait_cqe only while the kernel   *)
(* owes a completion.                                                      *)
DriverNotStranded ==
    /\ pc # "deadlock"
    /\ pc = "wait" => \E e \in Execs : op[e] # "none" \/ can[e] # "none"

(* The promise to the tasks, checked as an implementation of WandContract. *)
place ==
    [t \in Tasks |->
        IF t \in finished THEN "finished"
        ELSE IF \E e \in Execs : Parked(e) /\ waiter[e] = t THEN "parked"
        ELSE "deck"]

Contract == INSTANCE WandContract

ContractSafety == Contract!SafeSpec

(* A task asked to stop while parked is put back on the deck: the cancel   *)
(* reaches the kernel and its CQE reaches the task.  Said without its two  *)
(* exceptions, by which a full queue breaks it (run uring_full).           *)
StoppedTaskIsSettled ==
    \A t \in Tasks :
        (t \in stopped /\ place[t] = "parked") ~> (place[t] # "parked")

(* The exceptions: the driver has thrown, or this wave found the queue     *)
(* full and put the cancel back into pending_cancellations_, with which    *)
(* the driver may then block.                                              *)
CancelHeldBack(t) ==
    \/ pc = "failed"
    \/ pc \in {"poll", "wait"} /\ \E e \in pendCan : waiter[e] = t

(* But for these, a stop request is never forgotten, whether the wish is   *)
(* queued, deferred, staged or in flight when it comes; and a cancel that  *)
(* was put back is settled unless waves keep finding the queue full.       *)
StopIsNotForgotten ==
    \A t \in Tasks :
        (t \in stopped /\ place[t] = "parked")
            ~> (place[t] # "parked" \/ CancelHeldBack(t))

-----------------------------------------------------------------------------
(* The inductive invariant behind the properties above.                    *)

(* Which SQEs and CQEs a record in each phase can be named by.             *)
PhaseInv ==
    \A e \in Execs :
        /\ status[e] \in {"free", "queued"} \cup SettledPhases => op[e] = "none"
        /\ status[e] \in {"submitted", "cancel_submitted", "cancel_drained"}
             => op[e] # "none"
        /\ can[e] # "none"
             <=> status[e] \in {"cancel_submitted", "waiting_cancel_cqe"}
        /\ op[e] = "staged" \/ can[e] = "staged"
             => pc \in {"stage_sub", "stage_can", "failed"}

(* A wish the kernel has not been given, and one it has but whose cancel    *)
(* it has not.                                                             *)
Unsent(e) == status[e] = "queued" \/ (status[e] = "cancel_queued" /\ op[e] = "none")
CancelUnsent(e) == status[e] = "cancel_queued" /\ op[e] # "none"

(* The pending vectors and the loops' locals hold exactly those records.    *)
PendingInv ==
    /\ \A e \in Execs :
         /\ Unsent(e) <=> \/ e \in pendSub
                          \/ pc = "stage_sub" /\ e \in executions \cup deferred
         /\ CancelUnsent(e) <=> \/ e \in pendCan
                                \/ pc = "stage_can" /\ e \in executions \cup deferred
    /\ executions \cap deferred = {}
    /\ pc \notin {"stage_sub", "stage_can"} => executions = {} /\ deferred = {}
    /\ pc = "stage_sub" => pendSub = {} /\ \A e \in deferred : status[e] = "queued"
    /\ pc = "stage_can" => pendCan = {}

PlaceInv ==
    /\ \A e \in Execs : Parked(e) =>
         waiter[e] \in Tasks \ (ready \cup round \cup finished)
    /\ \A e1, e2 \in Execs :
         Parked(e1) /\ Parked(e2) /\ waiter[e1] = waiter[e2] => e1 = e2
    /\ \A t \in Tasks :
         \/ t \in ready \cup round \cup finished
         \/ \E e \in Execs : Parked(e) /\ waiter[e] = t
    /\ ready \cap round = {}
    /\ finished \cap (ready \cup round) = {}
    /\ pc # "round" => round = {}

(* A parked task has no result yet, and an effect only behind a CQE that    *)
(* says so; a record is being cancelled only for a stopped task.           *)
ResultInv ==
    /\ \A e \in Execs : Parked(e) =>
         /\ result[waiter[e]] = "none"
         /\ effect[waiter[e]] => kind[e] = "io" /\ op[e] = "ok"
         /\ status[e] \in CancelPhases => waiter[e] \in stopped
    /\ EffectIsDelivered

(* After a wave that tasks did not run behind, what is left pending was     *)
(* deferred or polled again, not cancelled.                                *)
WaitInv ==
    /\ DriverNotStranded
    /\ pc = "check2" \/ (pc \in {"poll", "stage_can"} /\ ret = "check2")
         => \A e \in pendSub : status[e] = "queued"

IndInv ==
    /\ TypeOK
    /\ PhaseInv
    /\ PendingInv
    /\ PlaceInv
    /\ ResultInv
    /\ WaitInv
=============================================================================
