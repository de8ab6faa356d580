-------------------------------- MODULE Deck --------------------------------
(***************************************************************************)
(* The deck (deck.hpp, task/runtime.hpp) and the task frames it schedules  *)
(* (task/task.hpp, task/promise.hpp): the table of registered tasks with   *)
(* reusable rows, the ready queue of task ids, awaiting and starting a     *)
(* child, stop propagation, final suspension, destruction.                 *)
(*                                                                         *)
(* A frame is owned by the frame that created it and dies with it.  The    *)
(* rules the documentation gives to callers are guards: do not await a     *)
(* task after starting it or after it was queued for an await, and do not  *)
(* destroy a frame the wand holds.  An await that threw may be tried again *)
(* or followed by a start.  The wand itself is only the place where tasks  *)
(* are parked.  A round is run in any order.                               *)
(*                                                                         *)
(* Nothing keeps start from queueing a frame that is suspended on          *)
(* something else, or a child that still has the continuation of a failed  *)
(* await.  Once a frame is queued that the deck should not resume the      *)
(* model ends, in pc = "misqueued": what the frame does then is its own.   *)
(***************************************************************************)
EXTENDS Naturals, FiniteSets

CONSTANTS
    Tasks,       \* frames
    Root,        \* the frame deck::drive or run_until_done was given
    Rows,        \* capacity of the task table
    Eras,        \* number of eras a row cycles through (255 in the code)
    RowDrops,    \* bound: times one row is given up in one round
    Other,       \* some task outside Tasks that holds a row throughout
    None

ASSUME RootAssumption == Root \in Tasks /\ {None, Other} \cap Tasks = {}
ASSUME SizeAssumption == Rows \in Nat \ {0} /\ Eras \in Nat \ {0}

(* An id stays queued for at most two rounds.  In that time a row must not *)
(* come back to the same era.                                              *)
ASSUME EraAssumption == RowDrops \in Nat /\ 2 * RowDrops < Eras

VARIABLES
    pc, cur,                 \* idle, in a round, ended; the task being resumed
    ready, round,            \* ready_ and the round swapped out of it
    row, era,                \* the table: the live promise and the era of a row
    st,                      \* what each frame is doing
    id,                      \* promise_base::id
    owner, cont, follow,     \* owning frame; continuation; follows its stop
    stray,                   \* started with a failed await's continuation
    stop,                    \* stop_.stop_requested()
    drops                    \* times each row was given up in this round

table == <<row, era, id>>
links == <<owner, cont, follow, stray>>
vars == <<pc, cur, ready, round, table, st, links, stop, drops>>

(* A frame is "lazy" before it is first queued, "queued" while its next    *)
(* resumption is due, then running, parked on a wish, awaiting a child, or *)
(* done.                                                                   *)
States == {"absent", "lazy", "queued", "running", "parked", "awaiting", "done"}

RowIndex == 1..Rows
Ids == RowIndex \X (1..Eras)

(* A queue entry is a task id; `of` remembers for whom it was pushed.      *)
Entries == [id : Ids, of : Tasks]

Init ==
    /\ pc = "idle" /\ cur = None
    /\ ready = {[id |-> <<1, 1>>, of |-> Root]} /\ round = {}
    /\ \E last \in {None, Other} :
          row = [r \in RowIndex |->
                   IF r = 1 THEN Root ELSE IF r = Rows THEN last ELSE None]
    /\ era = [r \in RowIndex |-> 1]
    /\ st = [t \in Tasks |-> IF t = Root THEN "queued" ELSE "absent"]
    /\ id = [t \in Tasks |-> IF t = Root THEN <<1, 1>> ELSE None]
    /\ owner = [t \in Tasks |-> None]
    /\ cont = [t \in Tasks |-> None]
    /\ follow = [t \in Tasks |-> FALSE]
    /\ stray = {}
    /\ stop = [t \in Tasks |-> FALSE]
    /\ drops = [r \in RowIndex |-> 0]

-----------------------------------------------------------------------------
(* The task table                                                          *)

resolve(i) ==
    IF i # None /\ row[i[1]] \in Tasks /\ id[row[i[1]]] = i
    THEN row[i[1]] ELSE None

vacant == {r \in RowIndex : row[r] = None}
TableFull(t) == resolve(id[t]) = None /\ vacant = {}

(* register_task: keep a live id, else take the first vacant row.          *)
new_id(t) ==
    IF resolve(id[t]) # None THEN id[t]
    ELSE LET r == CHOOSE v \in vacant : \A w \in vacant : v <= w
         IN <<r, era[r]>>

register_task(t) ==
    /\ ~TableFull(t)
    /\ row' = [row EXCEPT ![new_id(t)[1]] = t]
    /\ id' = [id EXCEPT ![t] = new_id(t)]
    /\ UNCHANGED era

(* Mutant: a reused row keeps its era.                                     *)
next_era_same(n) == n

(* Mutant: zero, the era of no id, is not skipped.                         *)
next_era_zero(n) == (n + 1) % Eras

(* ++era, skipping zero when the byte wraps.                               *)
next_era(n) == (n % Eras) + 1

(* unregister_task for every frame of a destroyed tree.                    *)
unregister_tasks(ts) ==
    LET gone == {r \in RowIndex : row[r] \in ts} IN
      /\ \A r \in gone : drops[r] < RowDrops
      /\ drops' = [r \in RowIndex |->
                     IF r \in gone THEN drops[r] + 1 ELSE drops[r]]
      /\ row' = [r \in RowIndex |-> IF r \in gone THEN None ELSE row[r]]
      /\ era' = [r \in RowIndex |->
                   IF r \in gone THEN next_era(era[r]) ELSE era[r]]
      /\ id' = [t \in Tasks |-> IF t \in ts THEN None ELSE id[t]]

entry(t) == [id |-> new_id(t), of |-> t]

(* The frames a stop request or a destruction reaches: t and, with every   *)
(* one of them, the frames linked to it.                                   *)
Closure(t, linked(_, _)) ==
    LET within[n \in 0..Cardinality(Tasks)] ==
          IF n = 0 THEN {t}
          ELSE LET near == within[n - 1]
               IN near \cup {c \in Tasks : \E p \in near : linked(p, c)}
    IN within[Cardinality(Tasks)]

Follows(p, c) == cont[c] = p /\ follow[c]
Owns(p, c) == owner[c] = p

(* request_stop runs the stop callbacks: every task that follows is asked  *)
(* to stop in turn.                                                        *)
stop_reaches(t) == Closure(t, Follows)

frames_of(t) == Closure(t, Owns)

-----------------------------------------------------------------------------
(* Rounds                                                                  *)

root_done == st[Root] = "done"

BeginRound ==
    /\ pc = "idle" /\ ~root_done /\ ready # {}
    /\ pc' = "round" /\ round' = ready /\ ready' = {}
    /\ UNCHANGED <<cur, table, st, links, stop, drops>>

(* resume_if_ready: an id that no longer resolves, or whose task is done,  *)
(* is skipped.                                                             *)
resume_if_ready(e) ==
    /\ pc = "round" /\ cur = None /\ e \in round
    /\ round' = round \ {e}
    /\ LET t == resolve(e.id) IN
         IF t = None \/ (t # None /\ st[t] = "done")
         THEN UNCHANGED <<cur, st>>
         ELSE cur' = t /\ st' = [st EXCEPT ![t] = "running"]
    /\ UNCHANGED <<pc, ready, table, links, stop, drops>>

(* The round is over; the wand is waved, and the driver looks at the root. *)
EndRound ==
    /\ pc = "round" /\ cur = None /\ round = {}
    /\ pc' = IF root_done THEN "done" ELSE "idle"
    /\ drops' = [r \in RowIndex |-> 0]
    /\ UNCHANGED <<cur, ready, round, table, st, links, stop>>

(* drive: nothing queued and the root unfinished is the deadlock error.    *)
DeadlockError ==
    /\ pc = "idle" /\ ~root_done /\ ready = {}
    /\ pc' = "deadlock"
    /\ UNCHANGED <<cur, ready, round, table, st, links, stop, drops>>

(* The wand settles a parked task's wish: need::resume.                    *)
Settle(t) ==
    /\ pc = "idle" /\ ~root_done /\ st[t] = "parked"
    /\ register_task(t)
    /\ ready' = ready \cup {entry(t)}
    /\ st' = [st EXCEPT ![t] = "queued"]
    /\ UNCHANGED <<pc, cur, round, links, stop, drops>>

-----------------------------------------------------------------------------
(* What the running task does in its turn                                  *)

in_turn == pc = "round" /\ cur # None

(* A coroutine function is called: the frame exists and is lazy.           *)
Create(c) ==
    /\ in_turn /\ st[c] = "absent" /\ c # Root
    /\ st' = [st EXCEPT ![c] = "lazy"]
    /\ owner' = [owner EXCEPT ![c] = cur]
    /\ UNCHANGED <<pc, cur, ready, round, table, cont, follow, stray, stop,
                   drops>>

(* deck::start, which returns at once for a task that is done.  A full     *)
(* table throws, and nothing has changed.                                  *)
Start(c) ==
    /\ in_turn /\ st[c] \notin {"absent", "done"} /\ owner[c] = cur
    /\ register_task(c)
    /\ ready' = ready \cup {entry(c)}
    /\ IF st[c] = "lazy"
       THEN /\ st' = [st EXCEPT ![c] = "queued"] /\ UNCHANGED pc
            /\ stray' = IF cont[c] = None THEN stray ELSE stray \cup {c}
       ELSE pc' = "misqueued" /\ UNCHANGED <<st, stray>>
    /\ UNCHANGED <<cur, round, owner, cont, follow, stop, drops>>

(* Mutant: a child awaited by an already stopped task is not told.         *)
inherited_stop_lost(c, f) == {}

(* follow_stop on a parent already stopped runs the callback at once.      *)
inherited_stop(c, f) == IF f /\ stop[cur] THEN stop_reaches(c) ELSE {}

(* splice_handle: `co_await child`, or through shield (f = FALSE).  When   *)
(* the table is full enqueue throws into the awaiting task, which runs on, *)
(* with the child already linked to it.                                    *)
Await(c, f) ==
    /\ in_turn /\ st[c] = "lazy" /\ owner[c] = cur
    /\ cont' = [cont EXCEPT ![c] = cur]
    /\ follow' = [follow EXCEPT ![c] = @ \/ f]
    /\ LET told == inherited_stop(c, f) IN
         stop' = [t \in Tasks |-> stop[t] \/ t \in told]
    /\ IF TableFull(c)
       THEN UNCHANGED <<cur, ready, st, table>>
       ELSE /\ register_task(c)
            /\ ready' = ready \cup {entry(c)}
            /\ st' = [st EXCEPT ![c] = "queued", ![cur] = "awaiting"]
            /\ cur' = None
    /\ UNCHANGED <<pc, round, owner, stray, drops>>

(* Mutant: a wish settled on the spot is still held by the wand.           *)
Park_still_held(inline) ==
    /\ in_turn /\ (inline => stop[cur])
    /\ st' = [st EXCEPT ![cur] = "parked"]
    /\ ready' = IF inline THEN ready \cup {entry(cur)} ELSE ready
    /\ cur' = None
    /\ UNCHANGED <<pc, round, table, links, stop, drops>>

(* urge::await_suspend: the wand takes the task; if it is stopped already  *)
(* the wish is cancelled at once, and the wand may settle it on the spot.  *)
Park(inline) ==
    /\ in_turn /\ (inline => stop[cur])
    /\ st' = [st EXCEPT ![cur] = IF inline THEN "queued" ELSE "parked"]
    /\ ready' = IF inline THEN ready \cup {entry(cur)} ELSE ready
    /\ cur' = None
    /\ UNCHANGED <<pc, round, table, links, stop, drops>>

(* Mutant: the yielding task goes into the round being run.                *)
requeue_now(t) == round' = round \cup {entry(t)} /\ UNCHANGED ready

requeue(t) == ready' = ready \cup {entry(t)} /\ UNCHANGED round

Yield ==
    /\ in_turn
    /\ requeue(cur)
    /\ st' = [st EXCEPT ![cur] = "queued"] /\ cur' = None
    /\ UNCHANGED <<pc, table, links, stop, drops>>

(* request_stop, by the owner or, on the root, by the host.  What follows  *)
(* the task is stopped too, and the wand is told of those that are parked; *)
(* `inline` are the ones it settles and requeues inside cancel.            *)
RequestStop(c, inline) ==
    /\ \/ in_turn /\ owner[c] = cur
       \/ pc = "idle" /\ c = Root /\ ~root_done
    /\ ~stop[c]
    /\ LET reached == stop_reaches(c) IN
         /\ inline \subseteq {t \in reached : ~stop[t]}
         /\ stop' = [t \in Tasks |-> stop[t] \/ t \in reached]
    /\ ready' = ready \cup {entry(t) : t \in inline}
    /\ st' = [t \in Tasks |-> IF t \in inline THEN "queued" ELSE st[t]]
    /\ UNCHANGED <<pc, cur, round, table, links, drops>>

Forget(ts) ==
    /\ owner' = [t \in Tasks |-> IF t \in ts THEN None ELSE owner[t]]
    /\ cont' = [t \in Tasks |-> IF t \in ts THEN None ELSE cont[t]]
    /\ follow' = [t \in Tasks |-> t \notin ts /\ follow[t]]
    /\ stray' = stray \ ts
    /\ stop' = [t \in Tasks |-> t \notin ts /\ stop[t]]

(* ~task: the frame and every frame it owns, none of them parked.          *)
Destroy(c) ==
    /\ in_turn /\ st[c] # "absent" /\ owner[c] = cur
    /\ LET ts == frames_of(c) IN
         /\ \A t \in ts : st[t] # "parked"
         /\ unregister_tasks(ts) /\ Forget(ts)
         /\ st' = [t \in Tasks |-> IF t \in ts THEN "absent" ELSE st[t]]
    /\ UNCHANGED <<pc, cur, ready, round>>

(* Mutant: the continuation is left to whoever looks at the result.        *)
continuation_none(t) == None

continuation(t) == cont[t]

(* The body ends: its locals are destroyed, then final_suspend queues the  *)
(* continuation, under noexcept.                                           *)
Finish ==
    /\ in_turn
    /\ LET ts == frames_of(cur) \ {cur}
           k == continuation(cur)
       IN /\ \A t \in ts : st[t] # "parked"
          /\ unregister_tasks(ts) /\ Forget(ts)
          /\ ready' = IF k = None THEN ready ELSE ready \cup {entry(k)}
          /\ pc' = IF cur \in stray THEN "misqueued" ELSE pc
          /\ st' = [t \in Tasks |->
                      IF t \in ts THEN "absent"
                      ELSE IF t = cur THEN "done"
                      ELSE IF t = k /\ cur \notin stray THEN "queued"
                      ELSE st[t]]
    /\ cur' = None
    /\ UNCHANGED round

Ended == pc \in {"done", "deadlock", "misqueued"} /\ UNCHANGED vars

Turn ==
    \/ \E c \in Tasks : Create(c) \/ Start(c) \/ Destroy(c)
    \/ \E c \in Tasks, f \in BOOLEAN : Await(c, f)
    \/ \E c \in Tasks, inline \in SUBSET {t \in Tasks : st[t] = "parked"} :
          RequestStop(c, inline)
    \/ \E inline \in BOOLEAN : Park(inline)
    \/ Yield \/ Finish

Pump ==
    \/ BeginRound \/ EndRound
    \/ \E e \in round : resume_if_ready(e)

Next == Pump \/ Turn \/ DeadlockError \/ (\E t \in Tasks : Settle(t)) \/ Ended

Spec == Init /\ [][Next]_vars

(* The pump is called until the root is done, and every turn comes to a    *)
(* suspension (cooperative scheduling).                                    *)
FairSpec ==
    /\ Spec
    /\ WF_vars(Pump)
    /\ WF_vars(Park(FALSE) \/ Yield \/ Finish)

-----------------------------------------------------------------------------
TypeOK ==
    /\ pc \in {"idle", "round", "done", "deadlock", "misqueued"}
    /\ cur \in Tasks \cup {None}
    /\ ready \subseteq Entries /\ round \subseteq Entries
    /\ row \in [RowIndex -> Tasks \cup {None, Other}]
    /\ era \in [RowIndex -> 1..Eras]
    /\ st \in [Tasks -> States]
    /\ id \in [Tasks -> Ids \cup {None}]
    /\ owner \in [Tasks -> Tasks \cup {None}]
    /\ cont \in [Tasks -> Tasks \cup {None}]
    /\ follow \in [Tasks -> BOOLEAN]
    /\ stray \subseteq Tasks
    /\ stop \in [Tasks -> BOOLEAN]
    /\ drops \in [RowIndex -> 0..RowDrops]

Queue == ready \cup round
AtWork == {"queued", "running", "parked", "awaiting"}

(* An id in the queue names the task it was pushed for, or nothing: a task *)
(* destroyed while queued is skipped, even when its row has been given to  *)
(* another task meanwhile (resume_if_ready, unregister_task).              *)
QueuedIdNeverAliases ==
    \A e \in Queue : resolve(e.id) \in {e.of, None}

(* The queue holds exactly the tasks whose resumption is due, each once: a *)
(* resumed task was never parked, awaiting or running, and no due task is  *)
(* missing from the queue, as long as nobody starts a task that is already *)
(* at work or that a failed await has linked.                              *)
ResumedExactlyOnce ==
    pc # "misqueued" =>
      /\ \A e \in Queue : resolve(e.id) = e.of => st[e.of] = "queued"
      /\ \A t \in Tasks : st[t] = "queued" =>
            Cardinality({e \in ready : e.id = id[t]})
              + Cardinality({e \in round : e.id = id[t]}) = 1

(* A task at work with a continuation, even one left by an await that met  *)
(* a full table, finds it alive and registered when it ends, so that the   *)
(* enqueue in the noexcept final_suspend never has to find a row; unless   *)
(* it is such a one the continuation is still waiting for it; and a        *)
(* waiting task always has a child at work that will resume it             *)
(* (splice_handle, resume_continuation, ~task).                            *)
ContinuationIsLive ==
    /\ \A c \in Tasks :
          (cont[c] # None /\ st[c] \in AtWork) =>
             /\ resolve(id[cont[c]]) = cont[c]
             /\ st[cont[c]] = "awaiting" \/ c \in stray
    /\ \A t \in Tasks : st[t] = "awaiting" =>
          \E c \in Tasks \ stray : cont[c] = t /\ st[c] \in AtWork

(* A stop request reaches whatever the task awaits, however late the await *)
(* starts (request_stop, follow_stop).                                     *)
StopReachesAwaited ==
    \A c \in Tasks : (cont[c] # None /\ follow[c] /\ stop[cont[c]]) => stop[c]

(* The deadlock error of drive means what it says: following what the root *)
(* awaits leads to a task parked on a wish.                                *)
DeadlockIsAWish ==
    pc = "deadlock" =>
        LET awaits(p, c) == cont[c] = p /\ st[p] = "awaiting" /\ c \notin stray
        IN \E t \in Closure(Root, awaits) : st[t] = "parked"

(* A task that is due runs: the tasks queued behind a round, yields        *)
(* included, cannot hold up the ones in it (run_ready_with's swap).        *)
DueTaskRuns ==
    \A t \in Tasks :
        (st[t] = "queued")
            ~> (st[t] # "queued" \/ root_done \/ pc = "misqueued")
=============================================================================
