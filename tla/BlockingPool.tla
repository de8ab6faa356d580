---------------------------- MODULE BlockingPool ----------------------------
(***************************************************************************)
(* blocking_pool of blocking.hpp: worker threads that run synchronous      *)
(* calls for the tasks of one deck.  A call's task waits for admission     *)
(* credit, queues its job, and waits for the worker to publish; a pipe per *)
(* job carries every wakeup.  Stop requests come from any thread.          *)
(*                                                                         *)
(* Steps of the deck, of the workers and of foreign stop requests          *)
(* interleave wherever the code holds no lock.  One deck turn runs at a    *)
(* time: `deck` is the call in the middle of a turn.  The queue is a set:  *)
(* its order is left out.                                                  *)
(***************************************************************************)
EXTENDS Naturals, FiniteSets

CONSTANTS Calls, Workers, Capacity, None

ASSUME PoolAssumption ==
    /\ IsFiniteSet(Calls) /\ IsFiniteSet(Workers)
    /\ Capacity \in Nat \ {0}
    /\ None \notin Calls

VARIABLES
    at,         \* where each call's task is in run()
    outcome,    \* how it ended
    deck,       \* the call whose task is in the middle of a turn, or None
    calls,      \* calls_
    occupied,   \* occupied_
    queue,      \* queue_
    submitted, cancelled, running, done,   \* the flags of a job, as sets
    result,     \* what the callable returned, per job
    pipe,       \* jobs whose notification pipe is readable
    worker,     \* what each worker thread is doing
    holds,      \* the job it has taken
    closing, worker_stop,
    closer,     \* the task in close()
    bell        \* the pool's own pipe is readable

job == <<submitted, cancelled, running, done, result>>
threads == <<worker, holds>>
pool == <<closing, worker_stop, closer, bell>>
vars == <<at, outcome, deck, calls, occupied, queue, job, pipe, threads, pool>>

Init ==
    /\ at = [c \in Calls |-> "lazy"]
    /\ outcome = [c \in Calls |-> "none"]
    /\ deck = None /\ calls = {} /\ occupied = 0 /\ queue = {}
    /\ submitted = {} /\ cancelled = {} /\ running = {} /\ done = {}
    /\ result = [c \in Calls |-> "none"]
    /\ pipe = {}
    /\ worker = [w \in Workers |-> "awake"]
    /\ holds = [w \in Workers |-> None]
    /\ closing = "no" /\ worker_stop = "no"
    /\ closer = "none" /\ bell = "quiet"

(* join_workers blocks the deck's thread, and so does the loop of stop().  *)
DeckFree == deck = None /\ closer # "joining" /\ closing # "cancelling"

Stage(c, from, to) == at[c] = from /\ at' = [at EXCEPT ![c] = to]

-----------------------------------------------------------------------------
(* run(), on the deck                                                      *)

(* bind, the job and its residence, the two stop callbacks: a token that   *)
(* is stopped already cancels the job at once.                             *)
Begin(c, stopped) ==
    /\ DeckFree /\ deck' = c /\ Stage(c, "lazy", "admission")
    /\ calls' = calls \cup {c}
    /\ cancelled' = IF stopped THEN cancelled \cup {c} ELSE cancelled
    /\ pipe' = IF stopped THEN pipe \cup {c} ELSE pipe
    /\ UNCHANGED <<outcome, occupied, queue, submitted, running, done, result,
                   threads, pool>>

(* Mutant: waiting calls are not told of returned credit.                  *)
tell_nobody(c) == bell' = "rung" /\ pipe' = pipe \ {c}

(* ~call_guard tells every other call, and close().                        *)
tell(c) == bell' = "rung" /\ pipe' = (pipe \cup calls) \ {c}

(* Mutant: only a call that ran gives its credit back.                     *)
has_credit_to_return_run(c) == c \in running

has_credit_to_return(c) == c \in submitted

(* The task ends: its residence returns the credit and leaves calls_.      *)
leave(c, how) ==
    /\ at' = [at EXCEPT ![c] = "over"]
    /\ outcome' = [outcome EXCEPT ![c] = how]
    /\ calls' = calls \ {c}
    /\ occupied' = IF has_credit_to_return(c) THEN occupied - 1 ELSE occupied
    /\ tell(c)
    /\ deck' = None
    /\ UNCHANGED <<queue, job, threads, closing, worker_stop, closer>>

(* job->changed.drain(), at the head of both loops.                        *)
Drain(c) ==
    /\ deck = c
    /\ \/ Stage(c, "admission", "admission check")
       \/ Stage(c, "delivery", "delivery check")
    /\ pipe' = pipe \ {c}
    /\ UNCHANGED <<outcome, deck, calls, occupied, queue, job, threads, pool>>

(* Mutant: a stopped pool still admits calls.                              *)
refused_cancelled(c) == c \in cancelled

refused(c) == closing # "no" \/ c \in cancelled

has_credit == occupied < Capacity

(* The admission check, under the job's lock.                              *)
Refuse(c) ==
    /\ deck = c /\ at[c] = "admission check" /\ refused(c)
    /\ leave(c, "cancelled")

Submit(c) ==
    /\ deck = c /\ ~refused(c) /\ has_credit
    /\ Stage(c, "admission check", "submitted")
    /\ queue' = queue \cup {c} /\ submitted' = submitted \cup {c}
    /\ occupied' = occupied + 1
    /\ UNCHANGED <<outcome, deck, calls, cancelled, running, done, result,
                   pipe, threads, pool>>

wakes(w) == worker' = [worker EXCEPT ![w] = "awake"]

(* available_.notify_one()                                                 *)
NotifyOne(c) ==
    /\ deck = c /\ Stage(c, "submitted", "delivery")
    /\ LET asleep == {w \in Workers : worker[w] = "asleep"} IN
         IF asleep = {} THEN UNCHANGED worker ELSE \E w \in asleep : wakes(w)
    /\ UNCHANGED <<outcome, deck, calls, occupied, queue, job, pipe, holds,
                   pool>>

(* No credit, or no result yet: the turn ends in a stop-shielded poll.     *)
AwaitCredit(c) ==
    /\ deck = c /\ ~refused(c) /\ ~has_credit
    /\ Stage(c, "admission check", "awaiting credit")
    /\ deck' = None
    /\ UNCHANGED <<outcome, calls, occupied, queue, job, pipe, threads, pool>>

may_deliver(c) == c \in done

AwaitResult(c) ==
    /\ deck = c /\ ~may_deliver(c)
    /\ Stage(c, "delivery check", "awaiting result")
    /\ deck' = None
    /\ UNCHANGED <<outcome, calls, occupied, queue, job, pipe, threads, pool>>

(* The poll is granted while the pipe is readable.                         *)
PollFires(c) ==
    /\ DeckFree /\ c \in pipe /\ deck' = c
    /\ \/ Stage(c, "awaiting credit", "admission")
       \/ Stage(c, "awaiting result", "delivery")
    /\ UNCHANGED <<outcome, calls, occupied, queue, job, pipe, threads, pool>>

(* Mutant: the result of a cancelled call is delivered if there is one.    *)
delivered_result(c) == IF result[c] # "none" THEN result[c] ELSE "cancelled"

delivered(c) == IF c \in cancelled THEN "cancelled" ELSE result[c]

Deliver(c) ==
    /\ deck = c /\ at[c] = "delivery check" /\ may_deliver(c)
    /\ leave(c, delivered(c))

(* Mutant: the residence does not wait for the worker.                     *)
joined_at_once(c) == TRUE

(* blocking_job::join in the residence.                                    *)
joined(c) == c \in submitted => c \in done

(* The wait fails: it cannot be set up (the wand or the task table is      *)
(* full), or its delegate ends with an error in a later turn.  The         *)
(* exception unwinds run(), whose residence blocks the deck for the job.   *)
WaitFails(c) ==
    /\ \/ /\ deck = c /\ Stage(c, "admission check", "unwinding")
          /\ ~refused(c) /\ ~has_credit
       \/ /\ deck = c /\ Stage(c, "delivery check", "unwinding")
          /\ ~may_deliver(c)
       \/ DeckFree /\ Stage(c, "awaiting credit", "unwinding")
       \/ DeckFree /\ Stage(c, "awaiting result", "unwinding")
    /\ deck' = c
    /\ UNCHANGED <<outcome, calls, occupied, queue, job, pipe, threads, pool>>

Unwind(c) ==
    /\ deck = c /\ at[c] = "unwinding" /\ joined(c)
    /\ leave(c, "error")

-----------------------------------------------------------------------------
(* Stopping                                                                *)

(* A stop request on the task or on the external token, from any thread.   *)
Cancel(c) ==
    /\ at[c] \notin {"lazy", "unwinding", "over"} /\ c \notin cancelled
    /\ cancelled' = cancelled \cup {c} /\ pipe' = pipe \cup {c}
    /\ UNCHANGED <<at, outcome, deck, calls, occupied, queue, submitted,
                   running, done, result, threads, pool>>

(* stop(): closing_ is set, then every job is cancelled in turn, each      *)
(* under its own lock, while the workers go on.                            *)
Stop ==
    /\ DeckFree /\ closing' = "cancelling"
    /\ UNCHANGED <<at, outcome, deck, calls, occupied, queue, job, pipe,
                   threads, worker_stop, closer, bell>>

StopCancels(c) ==
    /\ closing = "cancelling" /\ c \in calls \ cancelled
    /\ cancelled' = cancelled \cup {c} /\ pipe' = pipe \cup {c}
    /\ UNCHANGED <<at, outcome, deck, calls, occupied, queue, submitted,
                   running, done, result, threads, pool>>

(* Mutant: close() waits for the submitted calls only.                     *)
outstanding_submitted == calls \cap submitted

outstanding == calls

(* close() after its stop(): drain and wait while calls are left, then     *)
(* join_workers.  The wait itself is taken to be set up.                   *)
close_loop ==
    IF outstanding # {}
    THEN /\ bell' = "quiet" /\ closer' = "waiting"
         /\ UNCHANGED <<worker_stop, worker>>
    ELSE /\ worker_stop' = "yes" /\ closer' = "joining"
         /\ worker' = [w \in Workers |->
                         IF worker[w] = "asleep" THEN "awake" ELSE worker[w]]
         /\ UNCHANGED bell

Close ==
    /\ DeckFree /\ closer = "none"
    /\ closing' = "cancelling" /\ closer' = "stopping"
    /\ UNCHANGED <<at, outcome, deck, calls, occupied, queue, job, pipe,
                   threads, worker_stop, bell>>

(* The loop has reached every job, those cancelled before included: stop() *)
(* returns to its caller, or close() goes on.                              *)
StopReturns ==
    /\ closing = "cancelling" /\ calls \subseteq cancelled
    /\ closing' = "yes" /\ pipe' = pipe \cup calls
    /\ IF closer = "stopping" THEN close_loop
       ELSE UNCHANGED <<worker_stop, worker, closer, bell>>
    /\ UNCHANGED <<at, outcome, deck, calls, occupied, queue, job, holds>>

CloserWakes ==
    /\ DeckFree /\ closer = "waiting" /\ bell = "rung" /\ close_loop
    /\ UNCHANGED <<at, outcome, deck, calls, occupied, queue, job, pipe, holds,
                   closing>>

Joined ==
    /\ closer = "joining" /\ \A w \in Workers : worker[w] = "exited"
    /\ closer' = "closed"
    /\ UNCHANGED <<at, outcome, deck, calls, occupied, queue, job, pipe,
                   threads, closing, worker_stop, bell>>

-----------------------------------------------------------------------------
(* work(), on a worker thread                                              *)

pop_front(c) == queue' = queue \ {c}

(* Under the queue's lock: take a job, or sleep, or leave for good.        *)
Take(w, c) ==
    /\ worker[w] = "awake" /\ c \in queue
    /\ pop_front(c) /\ holds' = [holds EXCEPT ![w] = c]
    /\ worker' = [worker EXCEPT ![w] = "took"]
    /\ UNCHANGED <<at, outcome, deck, calls, occupied, job, pipe, pool>>

Sleep(w) ==
    /\ worker[w] = "awake" /\ queue = {} /\ worker_stop = "no"
    /\ worker' = [worker EXCEPT ![w] = "asleep"]
    /\ UNCHANGED <<at, outcome, deck, calls, occupied, queue, job, pipe, holds,
                   pool>>

Exit(w) ==
    /\ worker[w] = "awake" /\ queue = {} /\ worker_stop = "yes"
    /\ worker' = [worker EXCEPT ![w] = "exited"]
    /\ UNCHANGED <<at, outcome, deck, calls, occupied, queue, job, pipe, holds,
                   pool>>

may_run(c) == c \notin cancelled

(* execute: queued -> running, under the job's lock.                       *)
Execute(w) ==
    /\ worker[w] = "took"
    /\ LET c == holds[w] IN
         IF may_run(c)
         THEN /\ running' = running \cup {c}
              /\ worker' = [worker EXCEPT ![w] = "invoking"]
         ELSE /\ worker' = [worker EXCEPT ![w] = "publishing"]
              /\ UNCHANGED running
    /\ UNCHANGED <<at, outcome, deck, calls, occupied, queue, submitted,
                   cancelled, done, result, pipe, holds, pool>>

(* The callable returns or throws.                                         *)
InvokeReturns(w, r) ==
    /\ worker[w] = "invoking"
    /\ result' = [result EXCEPT ![holds[w]] = r]
    /\ worker' = [worker EXCEPT ![w] = "publishing"]
    /\ UNCHANGED <<at, outcome, deck, calls, occupied, queue, submitted,
                   cancelled, running, done, pipe, holds, pool>>

(* Mutant: publication writes no byte.                                     *)
publish_silent(c) == done' = done \cup {c} /\ UNCHANGED pipe

publish(c) == done' = done \cup {c} /\ pipe' = pipe \cup {c}

Publish(w) ==
    /\ worker[w] = "publishing"
    /\ publish(holds[w])
    /\ worker' = [worker EXCEPT ![w] = "awake"]
    /\ holds' = [holds EXCEPT ![w] = None]
    /\ UNCHANGED <<at, outcome, deck, calls, occupied, queue, submitted,
                   cancelled, running, result, pool>>

-----------------------------------------------------------------------------
CallStep(c) ==
    \/ Drain(c) \/ Refuse(c) \/ Submit(c) \/ NotifyOne(c)
    \/ AwaitCredit(c) \/ AwaitResult(c) \/ Deliver(c) \/ Unwind(c)
    \/ PollFires(c)

WorkerStep(w) ==
    \/ (\E c \in Calls : Take(w, c)) \/ Sleep(w) \/ Exit(w)
    \/ Execute(w) \/ (\E r \in {"value", "error"} : InvokeReturns(w, r))
    \/ Publish(w)

Ended ==
    /\ closer = "closed" /\ \A c \in Calls : at[c] = "over"
    /\ UNCHANGED vars

Next ==
    \/ \E c \in Calls, stopped \in BOOLEAN : Begin(c, stopped)
    \/ \E c \in Calls : CallStep(c) \/ WaitFails(c) \/ Cancel(c)
                          \/ StopCancels(c)
    \/ \E w \in Workers : WorkerStep(w)
    \/ Stop \/ Close \/ StopReturns \/ CloserWakes \/ Joined \/ Ended

Spec == Init /\ [][Next]_vars

(* The driver resumes every task whose poll is ready, the operating system *)
(* runs every thread, and every callable returns.  Nothing makes a task    *)
(* begin, or anybody stop or close the pool.                               *)
FairSpec ==
    /\ Spec
    /\ \A c \in Calls : SF_vars(CallStep(c))
    /\ \A w \in Workers : WF_vars(WorkerStep(w))
    /\ \A c \in Calls : WF_vars(StopCancels(c))
    /\ WF_vars(StopReturns) /\ SF_vars(CloserWakes) /\ WF_vars(Joined)

-----------------------------------------------------------------------------
Stages == {"lazy", "admission", "admission check", "awaiting credit",
           "submitted", "delivery", "delivery check", "awaiting result",
           "unwinding", "over"}

TypeOK ==
    /\ at \in [Calls -> Stages]
    /\ outcome \in [Calls -> {"none", "value", "error", "cancelled"}]
    /\ deck \in Calls \cup {None}
    /\ calls \subseteq Calls /\ queue \subseteq Calls
    /\ submitted \subseteq Calls /\ cancelled \subseteq Calls
    /\ running \subseteq Calls /\ done \subseteq Calls /\ pipe \subseteq Calls
    /\ occupied \in 0..Capacity
    /\ result \in [Calls -> {"none", "value", "error"}]
    /\ worker \in [Workers -> {"awake", "asleep", "took", "invoking",
                               "publishing", "exited"}]
    /\ holds \in [Workers -> Calls \cup {None}]
    /\ closing \in {"no", "cancelling", "yes"} /\ worker_stop \in {"no", "yes"}
    /\ closer \in {"none", "stopping", "waiting", "joining", "closed"}
    /\ bell \in {"quiet", "rung"}

Over(c) == at[c] = "over"
HeldBy(w) == {c \in Calls : holds[w] = c}
Held == UNION {HeldBy(w) : w \in Workers}

(* The credit in use counts the calls queued, running, or finished and not *)
(* yet delivered, and never passes the capacity (occupied_, ~call_guard).  *)
CreditIsAccounted ==
    /\ occupied <= Capacity
    /\ occupied = Cardinality({c \in submitted : ~Over(c)})

(* A worker never touches a job whose task has left run(), however the     *)
(* task ended: the callable, the result and the pipe are still there when  *)
(* the worker publishes (call_guard's join, the delivery loop).            *)
JobOutlivesWorker ==
    \A c \in queue \cup Held : c \in calls /\ ~Over(c) /\ c \notin done

(* A job is in the hands of one worker at most, or in the queue, or done,  *)
(* from its submission on.                                                 *)
JobInOnePlace ==
    /\ \A c \in submitted : c \in queue \/ c \in Held \/ c \in done
    /\ \A v, w \in Workers : v # w /\ holds[v] # None => holds[v] # holds[w]
    /\ queue \cap Held = {}

(* A cancellation that comes before a worker commits to the job prevents   *)
(* the invocation, and once stop() has returned no callable starts at all, *)
(* whether its call was waiting for credit, queued, taken or not yet begun *)
(* (execute's linearization point, the admission check).                   *)
NothingStartsAfterStop ==
    [][\A c \in running' \ running : c \notin cancelled /\ closing # "yes"]_vars

(* A cancellation that comes before the delivery check wins, even over a   *)
(* finished result; without one the task gets what the callable made.      *)
StopBeatsResult ==
    [][\A c \in Calls : outcome'[c] # outcome[c] /\ at[c] = "delivery check" =>
          outcome'[c] = (IF c \in cancelled THEN "cancelled" ELSE result[c])
            /\ (c \notin cancelled => c \in running)]_vars

(* When close() has joined the workers nothing of a call is left: no task, *)
(* no credit, no queued job.                                               *)
ClosedIsQuiet ==
    closer \in {"joining", "closed"} =>
        /\ queue = {} /\ occupied = 0
        /\ \A c \in Calls : at[c] \in {"lazy", "admission", "admission check",
                                      "over"}

(* Every call that began ends: no wakeup is lost between the drained pipe, *)
(* the check and the poll, and credit reaches the calls waiting for it.    *)
CallEnds == \A c \in Calls : (at[c] # "lazy") ~> Over(c)

(* close() comes to its end.                                               *)
CloseEnds == (closer # "none") ~> (closer = "closed")
=============================================================================
