-------------------------------- MODULE Group -------------------------------
(***************************************************************************)
(* run_group of task/concurrent.hpp, with the functions built on it:       *)
(* settle, when_all, wait_any, with_timeout.  The group starts its jobs on *)
(* its own deck, watches them through completion links, stops the rest     *)
(* when its policy says so or when its own task is stopped, and returns    *)
(* after every started job has settled.                                    *)
(*                                                                         *)
(* The jobs themselves are the environment: a started job ends when it     *)
(* likes, with a value, an error or a cancellation, stopped or not.  Setup *)
(* is one uninterrupted turn of the group's task, taken a job at a time.   *)
(* run_group, settle and the function that called settle are three tasks,  *)
(* each awaiting the one before: when one ends the next has its own turn.  *)
(***************************************************************************)
EXTENDS Naturals, FiniteSets

CONSTANT N    \* jobs

ASSUME JobsAssumption == N \in Nat \ {0}

Jobs == 1..N

(* with_timeout has two jobs: the body and the timer.                      *)
Modes == {"settle", "primary", "when_all", "wait_any"}
           \cup (IF N = 2 THEN {"with_timeout"} ELSE {})
Timer == 2

VARIABLES
    mode,            \* which of the functions was called
    pc, at,          \* control of run_group; the job setup has come to
    job,             \* what has become of each job
    observed,        \* jobs that already have somebody else's observer
    told,            \* jobs asked to stop by the group
    pending, waiter, \* countdown
    flags,           \* the Booleans below that are true
    first,           \* record_first::first, 0 for none
    result           \* how the call ended; before that, the error under way

vars == <<mode, pc, at, job, observed, told, pending, waiter, flags, first,
          result>>

(* `asked`: the awaiting task is stopped while run_group can still see it; *)
(* `late`: after that.  The others are locals of run_group.                *)
Flags == {"asked", "late", "stopping", "parent_stopped", "setup_failure"}
asked == "asked" \in flags
late == "late" \in flags
stopping == "stopping" \in flags
parent_stopped == "parent_stopped" \in flags
setup_failure == "setup_failure" \in flags

Ends == {"ok", "error", "cancelled"}
JobStates == {"ok", "error", "cancelled", "empty", "lazy", "started"}
Done(i) == job[i] \in Ends
Failed(i) == job[i] \in {"error", "cancelled"}
Started == {i \in Jobs : job[i] = "started"}

NoResult == [how |-> "none", of |-> 0]
SetupError == [how |-> "setup", of |-> 0]
Cancelled == [how |-> "cancelled", of |-> 0]

(* Some jobs may be done at entry; the timer is made by with_timeout.      *)
Init ==
    /\ mode \in Modes
    /\ pc = "enter" /\ at = 1
    /\ job \in [Jobs -> JobStates \ {"started"}]
    /\ observed \in SUBSET {i \in Jobs : job[i] = "lazy"}
    /\ mode = "with_timeout" => job[Timer] = "lazy" /\ Timer \notin observed
    /\ flags \in SUBSET {"asked"}
    /\ told = {} /\ pending = 0 /\ waiter = "none"
    /\ first = 0 /\ result = NoResult

-----------------------------------------------------------------------------
(* The group policies: does this completion stop the others?               *)
policy(i, failed) ==
    \/ mode = "primary" /\ i = 1
    \/ mode = "when_all" /\ failed
    \/ mode = "wait_any" /\ ~failed
    \/ mode = "with_timeout"

(* The jobs stop() reaches: registered and not done, hence not i itself.   *)
stoppable(i) == Started \ {i}

triggers(i, failed) == ~stopping /\ policy(i, failed)

(* A job's completion link: consult the policy, stop the others, and       *)
(* remember the trigger where the caller asked for it (record_first).      *)
link_callback(i, failed) ==
    IF triggers(i, failed)
    THEN /\ flags' = flags \cup {"stopping"} /\ told' = told \cup stoppable(i)
         /\ first' = IF mode \in {"when_all", "wait_any"} THEN i ELSE first
    ELSE UNCHANGED <<flags, told, first>>

(* Mutant: the last arrival resumes nobody.                                *)
arrive_silent == pending' = pending - 1 /\ UNCHANGED waiter

(* countdown::arrive: the last one queues the waiter.                      *)
arrive ==
    /\ pending' = pending - 1
    /\ waiter' = IF pending = 1 /\ waiter = "set" THEN "queued" ELSE waiter

(* stop(), with the flags its caller sets.                                 *)
stop_all(more) ==
    /\ flags' = flags \cup {"stopping"} \cup more
    /\ told' = told \cup stoppable(0)

-----------------------------------------------------------------------------
(* Setup                                                                   *)

(* An empty task throws before anything starts.  A task stopped already    *)
(* runs the stop callback as it is registered.                             *)
Enter ==
    /\ pc = "enter"
    /\ IF \E i \in Jobs : job[i] = "empty"
       THEN /\ pc' = "ended" /\ result' = SetupError
            /\ UNCHANGED <<told, flags>>
       ELSE /\ pc' = "setup" /\ UNCHANGED result
            /\ IF asked THEN stop_all({"parent_stopped"})
                        ELSE UNCHANGED <<told, flags>>
    /\ UNCHANGED <<mode, at, job, observed, pending, waiter, first>>

(* Mutant: jobs are started although the group is stopping.                *)
skips_never(i) == FALSE

skips(i) == ~Done(i) /\ stopping

SetupSkips ==
    /\ pc = "setup" /\ at <= N /\ skips(at)
    /\ at' = at + 1
    /\ UNCHANGED <<mode, pc, job, observed, told, pending, waiter, flags,
                   first, result>>

(* A job done at entry is counted and arrives inline.                      *)
SetupFindsDone ==
    /\ pc = "setup" /\ at <= N /\ Done(at)
    /\ link_callback(at, Failed(at))
    /\ at' = at + 1
    /\ UNCHANGED <<mode, pc, job, observed, pending, waiter, result>>

SetupStarts ==
    /\ pc = "setup" /\ at <= N /\ ~Done(at) /\ ~skips(at) /\ at \notin observed
    /\ job' = [job EXCEPT ![at] = "started"]
    /\ pending' = pending + 1
    /\ at' = at + 1
    /\ UNCHANGED <<mode, pc, observed, told, waiter, flags, first, result>>

(* Connecting to an observed job throws, and starting one may, when the    *)
(* task table is full: the loop is left, the started jobs are stopped.     *)
SetupThrows ==
    /\ pc = "setup" /\ at <= N /\ ~Done(at) /\ ~skips(at)
    /\ stop_all({"setup_failure"})
    /\ at' = N + 1
    /\ UNCHANGED <<mode, pc, job, observed, pending, waiter, first, result>>

(* Mutant: a failed setup does not wait for the jobs it started.           *)
nothing_to_await_failed == pending = 0 \/ setup_failure

nothing_to_await == pending = 0

(* co_await done                                                           *)
SetupEnds ==
    /\ pc = "setup" /\ at = N + 1
    /\ IF nothing_to_await THEN pc' = "drained" /\ UNCHANGED waiter
                           ELSE pc' = "waiting" /\ waiter' = "set"
    /\ UNCHANGED <<mode, at, job, observed, told, pending, flags, first,
                   result>>

-----------------------------------------------------------------------------
(* While the group waits                                                   *)

(* timeout_after throws timeout_error when its wish is granted, even if it *)
(* has been told to stop by then, and is cancelled only when told.         *)
timer_may_end(end) == end = "error" \/ (end = "cancelled" /\ Timer \in told)

(* A started job reaches final suspension; its link runs.                  *)
JobEnds(i, end) ==
    /\ pc = "waiting" /\ job[i] = "started"
    /\ (mode = "with_timeout" /\ i = Timer) => timer_may_end(end)
    /\ job' = [job EXCEPT ![i] = end]
    /\ link_callback(i, end # "ok")
    /\ arrive
    /\ UNCHANGED <<mode, pc, at, observed, result>>

(* Mutant: a stop that comes when the jobs have drained is forgotten.      *)
stop_callback_early ==
    stop_all({"asked"} \cup
             (IF waiter = "set" THEN {"parent_stopped"} ELSE {}))

stop_callback == stop_all({"asked", "parent_stopped"})

(* The task that awaits the group is stopped while the group waits.        *)
ParentStop ==
    /\ pc = "waiting" /\ ~asked
    /\ stop_callback
    /\ UNCHANGED <<mode, pc, at, job, observed, pending, waiter, first,
                   result>>

(* It is stopped when run_group has returned but settle, or the function   *)
(* that called settle, has yet to have its turn.  The stop callback is     *)
(* gone by then, and nobody looks at the stop flag again.                  *)
LateStop ==
    /\ pc \in {"ended", "settled"} /\ ~asked /\ ~late
    /\ flags' = flags \cup {"late"}
    /\ UNCHANGED <<mode, pc, at, job, observed, told, pending, waiter, first,
                   result>>

WaiterResumes ==
    /\ pc = "waiting" /\ waiter = "queued"
    /\ pc' = "drained" /\ waiter' = "none"
    /\ UNCHANGED <<mode, at, job, observed, told, pending, flags, first,
                   result>>

-----------------------------------------------------------------------------
(* What the callers make of the outcomes                                   *)

(* extract_outcome: a job that never started was cancelled.                *)
outcome(i) == IF Done(i) THEN job[i] ELSE "cancelled"

throw(i) == [how |-> "throw", of |-> i]
value(i) == [how |-> "value", of |-> i]
values == [how |-> "values", of |-> 0]

(* take_all_or_throw                                                       *)
take_all ==
    LET bad == {i \in Jobs : outcome(i) # "ok"}
    IN IF bad = {} THEN values
       ELSE throw(CHOOSE i \in bad : \A j \in bad : i <= j)

(* Mutant: the first failure in tuple order is thrown.                     *)
when_all_tuple_order == take_all

when_all == IF first # 0 THEN throw(first) ELSE take_all

(* With no success, every outcome's error goes into an exception_group.    *)
wait_any ==
    IF first # 0
    THEN IF outcome(first) = "ok" THEN value(first) ELSE throw(first)
    ELSE [how |-> "group", of |-> 0]

(* Mutant: a timer that fired is reported whatever the body did.           *)
with_timeout_deadline_first ==
    IF outcome(Timer) = "error" THEN throw(Timer)
    ELSE IF outcome(1) = "ok" THEN value(1) ELSE throw(1)

with_timeout ==
    IF outcome(1) = "ok" THEN value(1)
    ELSE IF outcome(1) # "cancelled" THEN throw(1)
    ELSE IF outcome(Timer) # "ok" THEN throw(Timer)
    ELSE throw(1)

(* The rest of the turn in which run_group finds its jobs drained.         *)
RunGroupReturns ==
    /\ pc = "drained"
    /\ pc' = "ended"
    /\ result' = IF setup_failure THEN SetupError
                 ELSE IF parent_stopped THEN Cancelled ELSE NoResult
    /\ UNCHANGED <<mode, at, job, observed, told, pending, waiter, flags,
                   first>>

(* The turn of settle: run_group's error goes on, or the outcomes do.      *)
SettleReturns ==
    /\ pc = "ended"
    /\ IF mode \in {"settle", "primary"}
       THEN /\ pc' = "returned"
            /\ result' = IF result = NoResult THEN values ELSE result
       ELSE pc' = "settled" /\ UNCHANGED result
    /\ UNCHANGED <<mode, at, job, observed, told, pending, waiter, flags,
                   first>>

(* The turn of when_all, wait_any or with_timeout.                         *)
CallerReturns ==
    /\ pc = "settled"
    /\ pc' = "returned"
    /\ result' = IF result # NoResult THEN result
                 ELSE IF mode = "when_all" THEN when_all
                 ELSE IF mode = "wait_any" THEN wait_any ELSE with_timeout
    /\ UNCHANGED <<mode, at, job, observed, told, pending, waiter, flags,
                   first>>

Returned == pc = "returned" /\ UNCHANGED vars

GroupTurn ==
    \/ Enter
    \/ SetupSkips \/ SetupFindsDone \/ SetupStarts \/ SetupThrows \/ SetupEnds
    \/ WaiterResumes \/ RunGroupReturns \/ SettleReturns \/ CallerReturns

Next ==
    \/ GroupTurn
    \/ \E i \in Jobs, end \in Ends : JobEnds(i, end)
    \/ ParentStop \/ LateStop \/ Returned

Spec == Init /\ [][Next]_vars

(* The deck runs a task that is due, and a job that has been told to stop  *)
(* comes to an end.  Nothing is assumed of the others.                     *)
FairSpec ==
    /\ Spec
    /\ WF_vars(GroupTurn)
    /\ \A i \in Jobs : WF_vars(i \in told /\ \E end \in Ends : JobEnds(i, end))

-----------------------------------------------------------------------------
TypeOK ==
    /\ mode \in Modes
    /\ pc \in {"enter", "setup", "waiting", "drained", "ended", "settled",
               "returned"}
    /\ at \in 1..(N + 1)
    /\ job \in [Jobs -> JobStates]
    /\ observed \subseteq Jobs /\ told \subseteq Jobs
    /\ pending \in 0..N
    /\ waiter \in {"none", "set", "queued"}
    /\ flags \subseteq Flags
    /\ first \in 0..N
    /\ result \in [how : {"none", "setup", "cancelled", "values", "value",
                          "throw", "group"}, of : 0..N]

(* A group never returns while a job it started is still running, however  *)
(* it was stopped and however far its setup got: the jobs may borrow from  *)
(* the frame that waits (countdown, `co_await done`).                      *)
DrainsBeforeReturn ==
    pc \in {"drained", "ended", "settled", "returned"} => Started = {}

(* While the group waits, it is owed an arrival by every started job, or   *)
(* is already queued: the last completion is never missed, whether jobs    *)
(* end inside setup or after it.                                           *)
LastArrivalWakes ==
    /\ pending = Cardinality(Started)
    /\ pc = "waiting" => waiter = (IF pending = 0 THEN "queued" ELSE "set")

(* when_all throws what made it stop, never the cancellation it caused;    *)
(* wait_any returns the success that made it stop, never one that came     *)
(* while draining, and reports failure only if no job has a value; and     *)
(* when_all returns values only when every job has one.                    *)
ResultIsTheTriggers ==
    pc = "returned" =>
      /\ (mode = "when_all" /\ result.how = "throw") =>
            Failed(result.of) /\ result.of \notin told
      /\ (mode = "when_all" /\ result.how = "values") =>
            \A i \in Jobs : job[i] = "ok"
      /\ (mode = "wait_any" /\ result.how \in {"value", "throw"}) =>
            job[result.of] = "ok" /\ result.of \notin told
      /\ (mode = "wait_any" /\ result.how = "group") =>
            \A i \in Jobs : Failed(i)

(* A call ends as cancelled (or with its setup error) when the awaiting    *)
(* task was stopped before run_group returned, even if every job had       *)
(* settled by then, and for no other reason.  Two more tasks take their    *)
(* turns after run_group: neither makes of that stop a timeout, a value or *)
(* a job's failure, and neither sees a stop that comes only then.          *)
StopIsCancellation ==
    pc = "returned" =>
      /\ asked => result.how \in {"cancelled", "setup"}
      /\ result.how = "cancelled" => asked

(* The inductive invariant behind the three above.  Setup has only started *)
(* jobs it has passed; a passed job left lazy means the group is stopping. *)
(* It lasts until the caller's turn when no error is under way.            *)
Awaited == pc \in {"ended", "settled"} /\ result.how = "none"
Busy == pc \in {"setup", "waiting", "drained"} \/ Awaited
SetupInv ==
    /\ \A i \in Jobs : (pc = "enter" \/ i >= at) => i \notin Started
    /\ pc \in {"waiting", "drained"} \/ Awaited => at = N + 1
    /\ pc = "enter" => at = 1 /\ ~stopping /\ first = 0
    /\ Busy => \A i \in Jobs :
                 job[i] # "empty" /\ (i < at /\ job[i] = "lazy" => stopping)

(* The recorded trigger is a job of the right kind that was never told to  *)
(* stop; until something stops the group no job it passed is a trigger.    *)
TriggerInv ==
    /\ ~stopping => told = {} /\ first = 0
    /\ first # 0 => Done(first) /\ first \notin told
    /\ first # 0 /\ mode = "when_all" => Failed(first)
    /\ first # 0 /\ mode = "wait_any" => job[first] = "ok"
    /\ Busy /\ stopping /\ first = 0 /\ mode \in {"when_all", "wait_any"}
         => parent_stopped \/ setup_failure
    /\ Busy /\ ~stopping => \A i \in Jobs :
         /\ i < at /\ mode = "when_all" => ~Failed(i)
         /\ i < at /\ mode = "wait_any" => job[i] # "ok"

(* A stop seen, or a failed setup, goes on to the caller as an error.      *)
StopInv ==
    /\ Busy /\ asked => parent_stopped
    /\ parent_stopped \/ result.how = "cancelled" => asked
    /\ Awaited => ~parent_stopped /\ ~setup_failure
    /\ pc \in {"ended", "settled"}
         => result \in {NoResult, SetupError, Cancelled}
    /\ pc = "settled" => mode \in {"when_all", "wait_any", "with_timeout"}

IndInv ==
    /\ TypeOK /\ SetupInv /\ LastArrivalWakes /\ DrainsBeforeReturn
    /\ TriggerInv /\ StopInv /\ ResultIsTheTriggers /\ StopIsCancellation

(* What with_timeout makes of a race between the body and the deadline: a  *)
(* value or a failure of the body is never replaced by the timeout, and a  *)
(* body the group cancelled is reported as the timeout that cancelled it.  *)
BodyAgainstDeadline ==
    (mode = "with_timeout" /\ pc = "returned"
       /\ result.how \in {"value", "throw"})
    =>/\ job[1] = "ok" => result = value(1)
      /\ job[1] = "error" => result = throw(1)
      /\ job[1] = "cancelled" /\ 1 \in told =>
            result = throw(Timer) /\ job[Timer] = "error"

(* A stopping group comes to an end, although it waits uncancellably: each *)
(* job it started is told to stop.                                         *)
StoppingGroupReturns == stopping ~> pc = "returned"
=============================================================================
