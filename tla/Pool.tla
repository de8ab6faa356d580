-------------------------------- MODULE Pool --------------------------------
(***************************************************************************)
(* pool of pool.hpp: a feed of ideas becomes a feed of their results, with *)
(* at most one admitted idea per slot of a farm.  One consumer on one deck *)
(* reads, stops and closes it; jobs and the pending input read are tasks   *)
(* of the same deck, which run while the consumer is between two turns.    *)
(*                                                                         *)
(* `pc` is where the consumer is.  In the middle of a turn nothing else    *)
(* runs, except that the input feed and the ideas, which the pool calls,   *)
(* may call stop().  Values are left out: a result is known by its slot.   *)
(***************************************************************************)
EXTENDS Naturals, FiniteSets, SequencesExt

CONSTANTS
    N,          \* slots
    HotSize,    \* cells of the farm's hot ring
    MaxIdeas,   \* bound: ideas the input delivers
    None

ASSUME PoolAssumption ==
    N \in Nat \ {0} /\ HotSize \in Nat \ {0} /\ MaxIdeas \in Nat /\ None \notin Nat

Slots == 0..(N - 1)

VARIABLES
    pc,         \* where the consumer is
    verb,       \* what it called: "fill", "stream" or "close"
    slow,       \* read_slow runs, rather than stream_more
    before,     \* buffered_size() when the read began
    saw,        \* how its last call ended
    failure,    \* failure_
    first,      \* the first failure of the input, an idea or a job
    hot, cold,  \* the farm's free indices
    owned, started,     \* slots with owner_, with started_
    job,        \* each slot's task_ and ready_
    input,      \* input_task_
    input_slot, prepared, completed, buffered,
    hand,       \* the slot accept_input is filling
    occupied, running,
    input_ended, changed, stopping,
    reader_stop,        \* the reading task's stop token is stopped
    fed                 \* ideas delivered

farm == <<hot, cold>>
slots == <<farm, owned, started, job, occupied>>
queues == <<prepared, completed, buffered, running>>
source == <<input, input_slot, hand, input_ended, fed>>
call == <<verb, slow, before, saw>>
signals == <<changed, stopping, reader_stop>>
vars == <<pc, call, failure, first, slots, queues, source, signals>>

Init ==
    /\ pc = "idle" /\ verb = "fill" /\ slow = FALSE /\ before = 0 /\ saw = "none"
    /\ failure = "none" /\ first = "none"
    /\ hot = <<>> /\ cold = Slots
    /\ owned = {} /\ started = {} /\ job = [s \in Slots |-> "none"]
    /\ input = "none" /\ input_slot = None /\ hand = None /\ prepared = None
    /\ completed = <<>> /\ buffered = <<>> /\ occupied = 0 /\ running = 0
    /\ input_ended = FALSE /\ changed = FALSE /\ stopping = FALSE
    /\ reader_stop = FALSE /\ fed = 0

(* The consumer has given the deck back: it waits in the pool, it or one   *)
(* of its lazy tasks is queued, or it is busy elsewhere.                   *)
Turn == pc \in {"idle", "again", "slow", "waiting", "woken"}

-----------------------------------------------------------------------------
(* The farm and the slots                                                  *)

(* farm::empty                                                             *)
exhausted == hot = <<>> /\ cold = {}

(* try_alloc: the oldest hot index, else the lowest cold one.              *)
try_alloc == IF hot # <<>> THEN Head(hot) ELSE Min(cold)

reserve ==
    /\ owned' = owned \cup {try_alloc} /\ occupied' = occupied + 1
    /\ hot' = IF hot # <<>> THEN Tail(hot) ELSE hot
    /\ cold' = IF hot # <<>> THEN cold ELSE cold \ {try_alloc}

(* Mutant: an index that the hot ring has no room for is lost.             *)
give_hot_only(s) ==
    LET room == HotSize - Len(hot) IN
      /\ hot' = hot \o SubSeq(s, 1, IF room < Len(s) THEN room ELSE Len(s))
      /\ UNCHANGED cold

(* give, for each of a sequence of slots: hot while there is room.         *)
give(s) ==
    LET room == HotSize - Len(hot)
        kept == SubSeq(s, 1, IF room < Len(s) THEN room ELSE Len(s))
    IN  /\ hot' = hot \o kept
        /\ cold' = cold \cup (ToSet(s) \ ToSet(kept))

(* release, for each of a sequence of slots.                               *)
release(s) ==
    /\ give(s)
    /\ owned' = owned \ ToSet(s) /\ started' = started \ ToSet(s)
    /\ job' = [x \in Slots |-> IF x \in ToSet(s) THEN "none" ELSE job[x]]
    /\ occupied' = occupied - Len(s)

-----------------------------------------------------------------------------
(* Completion, stop and wakeup                                             *)

(* Mutant: a completion is recorded, the waiter is not resumed.            *)
signal_flag_only == changed' = TRUE /\ pc' = pc

(* signal: a waiting consumer is queued on the deck.                       *)
signal ==
    /\ changed' = TRUE
    /\ pc' = IF pc = "waiting" THEN "woken" ELSE pc

(* completed, from the final suspension of a job.                          *)
JobEnds(s, how) ==
    /\ Turn /\ job[s] = "running"
    /\ job' = [job EXCEPT ![s] = how]
    /\ running' = running - 1 /\ completed' = Append(completed, s)
    /\ signal
    /\ UNCHANGED <<call, failure, first, farm, owned, started, occupied,
                   prepared, buffered, source, stopping, reader_stop>>

(* What the input feed may have for the pool.                              *)
Offers(what) == what # "item" \/ fed < MaxIdeas

fed_by(what) == fed' = IF what = "item" THEN fed + 1 ELSE fed

InputEnds(what) ==
    /\ Turn /\ input = "running" /\ Offers(what)
    /\ input' = what /\ fed_by(what) /\ signal
    /\ UNCHANGED <<call, failure, first, slots, queues, input_slot,
                   hand, input_ended, stopping, reader_stop>>

(* stop() sets stopping_, asks the input read and the jobs to stop, and    *)
(* signals.  It comes from another task of the deck, or from the feed or   *)
(* the idea the pool is calling.                                           *)
Stop ==
    /\ Turn \/ pc \in {"take", "admit", "invoke"}
    /\ stopping' = TRUE /\ signal
    /\ UNCHANGED <<call, failure, first, slots, queues, source, reader_stop>>

(* The reading task is asked to stop: read_slow's callback calls stop().   *)
RequestStop ==
    /\ Turn /\ verb # "close" /\ ~reader_stop /\ reader_stop' = TRUE
    /\ IF slow /\ pc \in {"waiting", "woken"}
         THEN stopping' = TRUE /\ signal
         ELSE UNCHANGED <<stopping, changed, pc>>
    /\ UNCHANGED <<call, failure, first, slots, queues, source>>

-----------------------------------------------------------------------------
(* The consumer's calls                                                    *)

(* throw: the first failure of a read is remembered.                       *)
throw(what) ==
    /\ pc' = "caught" /\ failure' = what
    /\ first' = IF first = "none" /\ what # "cancelled" THEN what ELSE first

(* A buffered result is taken, streamed or discarded: consumed().          *)
Consume ==
    /\ pc = "idle" /\ saw # "closed" /\ buffered # <<>>
    /\ buffered' = Tail(buffered) /\ release(<<Head(buffered)>>)
    /\ saw' = "none"
    /\ UNCHANGED <<pc, verb, slow, before, failure, first, prepared, completed,
                   running, source, signals>>

(* fill_more, for take, peek, fill and discard, or stream() with nothing   *)
(* buffered: stream_more.  A full buffer is refused before.                *)
Read(v) ==
    /\ pc = "idle" /\ saw # "closed" /\ Len(buffered) < N
    /\ v = "stream" => buffered = <<>>
    /\ verb' = v /\ slow' = FALSE /\ before' = Len(buffered) /\ saw' = "none"
    /\ first' = "none" /\ pc' = "pump"
    /\ UNCHANGED <<failure, slots, queues, source, signals>>

(* read_more_slow: the pending hope of a first stream_more was dropped,    *)
(* and stream_more runs again.                                             *)
ReadAgain ==
    /\ pc = "again" /\ pc' = "pump"
    /\ verb' = "again" /\ before' = Len(buffered)
    /\ UNCHANGED <<slow, saw, failure, first, slots, queues, source, signals>>

(* A ready answer of either; a thrown one.                                 *)
returns(how) == pc' = "idle" /\ saw' = how /\ UNCHANGED failure

rethrows(what) == pc' = "idle" /\ saw' = what /\ failure' = "none"

(* A pending hope of stream_more: fill_more drops it for read_more_slow,   *)
(* others await read_slow.                                                 *)
pends ==
    /\ pc' = IF verb = "fill" THEN "again" ELSE "slow"
    /\ UNCHANGED <<saw, failure>>

(* read_slow begins: a stopped token calls stop() at once.                 *)
BeginSlow ==
    /\ pc = "slow" /\ slow' = TRUE
    /\ stopping' = (stopping \/ reader_stop)
    /\ changed' = (changed \/ reader_stop)
    /\ pc' = IF stopping' THEN "settle" ELSE "pump"
    /\ UNCHANGED <<verb, before, saw, failure, first, slots, queues, source,
                   reader_stop>>

Close ==
    /\ pc = "idle" /\ pc' = "settle"
    /\ verb' = "close" /\ slow' = TRUE /\ stopping' = TRUE /\ changed' = TRUE
    /\ UNCHANGED <<before, saw, failure, first, slots, queues, source,
                   reader_stop>>

-----------------------------------------------------------------------------
(* pump                                                                    *)

(* publish_completed: one result moves to the output, or is rethrown and   *)
(* its slot stays.                                                         *)
Publish ==
    /\ pc = "pump" /\ ~stopping /\ completed # <<>>
    /\ LET s == Head(completed) IN
         IF job[s] = "err"
           THEN throw("job") /\ UNCHANGED <<completed, buffered, job>>
           ELSE /\ completed' = Tail(completed)
                /\ buffered' = Append(buffered, s)
                /\ job' = [job EXCEPT ![s] = "none"]
                /\ UNCHANGED <<pc, failure, first>>
    /\ UNCHANGED <<call, farm, owned, started, occupied, prepared, running,
                   source, signals>>

Published == pc = "pump" /\ ~stopping /\ completed = <<>>

(* The prepared job and the input read are given to the deck only by       *)
(* read_slow; a deck without a free row throws.                            *)
StartPrepared ==
    /\ Published /\ slow /\ prepared # None
    /\ \/ throw("deck") /\ UNCHANGED <<job, started, running, prepared>>
       \/ /\ job' = [job EXCEPT ![prepared] = "running"]
          /\ started' = started \cup {prepared}
          /\ running' = running + 1 /\ prepared' = None
          /\ UNCHANGED <<pc, failure, first>>
    /\ UNCHANGED <<call, farm, owned, occupied, completed, buffered, source,
                   signals>>

StartInput ==
    /\ Published /\ slow /\ prepared = None /\ input = "lazy"
    /\ \/ throw("deck") /\ UNCHANGED input
       \/ input' = "running" /\ UNCHANGED <<pc, failure, first>>
    /\ UNCHANGED <<call, slots, queues, input_slot, hand, input_ended, fed,
                   signals>>

(* accept_input, with an idea or with the end of the input.                *)
accept_input(what) ==
    /\ input_slot' = None
    /\ IF what = "end"
         THEN /\ input_ended' = TRUE /\ release(<<input_slot>>)
              /\ pc' = "pump" /\ UNCHANGED hand
         ELSE /\ hand' = input_slot /\ pc' = "admit"
              /\ UNCHANGED <<input_ended, slots>>

AcceptRead ==
    /\ Published /\ prepared = None
    /\ \/ input = "err" /\ throw("input")
          /\ UNCHANGED <<slots, input, input_slot, hand, input_ended>>
       \/ /\ input \in {"item", "end"} /\ accept_input(input)
          /\ input' = "none" /\ UNCHANGED <<failure, first>>
    /\ UNCHANGED <<call, queues, fed, signals>>

(* A slot is reserved before the input is asked.                           *)
Reserve ==
    /\ Published /\ prepared = None /\ input = "none" /\ ~input_ended
    /\ ~exhausted /\ reserve
    /\ input_slot' = try_alloc /\ pc' = "take"
    /\ UNCHANGED <<call, failure, first, started, job, queues, input, hand,
                   input_ended, fed, signals>>

(* input_.take() throws, is pending, or is ready; after a stop() inside it *)
(* the answer is dropped.                                                  *)
TakeReturns(what) ==
    /\ pc = "take" /\ Offers(what) /\ fed_by(what)
    /\ \/ what = "err" /\ throw("input")
          /\ UNCHANGED <<slots, input, input_slot, hand, input_ended>>
       \/ /\ what # "err" /\ stopping /\ pc' = "pumped"
          /\ UNCHANGED <<failure, first, slots, input, input_slot, hand,
                         input_ended>>
       \/ /\ what = "pending" /\ ~stopping /\ input' = "lazy" /\ pc' = "pump"
          /\ UNCHANGED <<failure, first, slots, input_slot, hand, input_ended>>
       \/ /\ what \in {"item", "end"} /\ ~stopping /\ accept_input(what)
          /\ UNCHANGED <<failure, first, input>>
    /\ UNCHANGED <<call, queues, signals>>

(* The idea has moved into its slot.                                       *)
Admit ==
    /\ pc = "admit" /\ pc' = IF stopping THEN "pumped" ELSE "invoke"
    /\ hand' = IF stopping THEN None ELSE hand
    /\ UNCHANGED <<call, failure, first, slots, queues, input, input_slot,
                   input_ended, fed, signals>>

(* The idea throws or gives an empty task, gives a ready hope or a done    *)
(* task, or a task to schedule.                                            *)
InvokeReturns(what) ==
    /\ pc = "invoke" /\ hand' = None
    /\ \/ what = "throws" /\ throw("idea") /\ UNCHANGED <<job, completed, prepared>>
       \/ /\ what # "throws" /\ pc' = "pump"
          /\ job' = [job EXCEPT ![hand] = what]
          /\ completed' = IF what = "lazy" THEN completed ELSE Append(completed, hand)
          /\ prepared' = IF what = "lazy" THEN hand ELSE prepared
          /\ UNCHANGED <<failure, first>>
    /\ UNCHANGED <<call, farm, owned, started, occupied, buffered, running,
                   input, input_slot, input_ended, fed, signals>>

(* The loop's exits.                                                       *)
PumpReturns ==
    /\ pc = "pump" /\ pc' = "pumped"
    /\ \/ stopping
       \/ Published /\ ~slow /\ (prepared # None \/ input = "lazy")
       \/ Published /\ prepared = None /\ input = "running"
       \/ Published /\ prepared = None /\ input = "none" /\ (input_ended \/ exhausted)
    /\ UNCHANGED <<call, failure, first, slots, queues, source, signals>>

-----------------------------------------------------------------------------
(* The ends of a read, and teardown                                        *)

(* Mutant: the end of the input is the end of the results.                 *)
at_eof_input_only == input_ended

(* EOF: the input has ended and every result left is in the buffer.        *)
at_eof == input_ended /\ occupied = Len(buffered)

(* After pump returns, in stream_more or in read_slow.                     *)
Pumped ==
    /\ pc = "pumped"
    /\ \/ /\ stopping /\ ~slow /\ throw("cancelled") /\ UNCHANGED saw
       \/ /\ stopping /\ slow /\ pc' = "settle" /\ UNCHANGED <<saw, failure, first>>
       \/ /\ ~stopping /\ Len(buffered) > before /\ returns("none")
          /\ UNCHANGED first
       \/ /\ ~stopping /\ Len(buffered) <= before /\ at_eof /\ returns("eof")
          /\ UNCHANGED first
       \/ /\ ~stopping /\ Len(buffered) <= before /\ ~at_eof
          /\ IF slow THEN pc' = "settle" /\ UNCHANGED <<saw, failure>> ELSE pends
          /\ UNCHANGED first
    /\ UNCHANGED <<verb, slow, before, slots, queues, source, signals>>

(* The input slot that stays reserved: one whose read is running.          *)
reserved_slot(idle) == IF idle THEN None ELSE input_slot

(* discard_settled: everything but running frames is given back.           *)
discard_settled ==
    LET idle == input # "running"
        settled == {s \in owned \ (ToSet(buffered) \cup {reserved_slot(idle)}) :
                      s \notin started \/ job[s] \in {"ok", "err"}}
    IN  /\ release(buffered \o SetToSortSeq(settled, <))
        /\ buffered' = <<>> /\ completed' = <<>> /\ prepared' = None
        /\ input' = IF idle THEN "none" ELSE input
        /\ input_slot' = reserved_slot(idle)
        /\ UNCHANGED <<running, hand, input_ended, fed>>

(* The catch blocks: stop(), and in stream_more the drain if it can be     *)
(* done at once.                                                           *)
Caught ==
    /\ pc = "caught" /\ stopping' = TRUE /\ changed' = TRUE
    /\ IF slow
         THEN pc' = "settle" /\ UNCHANGED <<saw, failure, slots, queues, source>>
         ELSE /\ discard_settled
              /\ IF occupied' = 0 THEN rethrows(failure) ELSE pends
    /\ UNCHANGED <<verb, slow, before, first, reader_stop>>

(* changed_awaiter: a change since the last look skips the wait.           *)
suspend ==
    /\ changed' = FALSE
    /\ pc' = IF ~changed THEN "waiting" ELSE IF stopping THEN "settle" ELSE "pump"
    /\ UNCHANGED <<saw, failure>>

(* The foot of read_slow's loop, and close()'s loop.                       *)
Settle ==
    /\ pc = "settle"
    /\ IF ~stopping THEN suspend /\ UNCHANGED <<slots, queues, source>>
       ELSE /\ discard_settled
            /\ IF occupied' # 0 THEN suspend
               ELSE /\ UNCHANGED changed
                    /\ IF verb = "close" THEN returns("closed")
                       ELSE rethrows(IF failure = "none" THEN "cancelled" ELSE failure)
    /\ UNCHANGED <<verb, slow, before, first, stopping, reader_stop>>

Wake ==
    /\ pc = "woken" /\ changed' = FALSE
    /\ pc' = IF stopping THEN "settle" ELSE "pump"
    /\ UNCHANGED <<call, failure, first, slots, queues, source, stopping,
                   reader_stop>>

(* The answers after which the pool may be destroyed.                      *)
Thrown == {"input", "idea", "job", "deck", "cancelled"}
Final == {"eof", "closed"} \cup Thrown

(* ~pool discards what has settled.                                        *)
Destroy ==
    /\ pc = "idle" /\ saw \in Final /\ pc' = "gone"
    /\ discard_settled
    /\ UNCHANGED <<call, failure, first, signals>>

Gone == pc = "gone" /\ UNCHANGED vars

Next ==
    \/ \E s \in Slots : \E how \in {"ok", "err"} : JobEnds(s, how)
    \/ \E what \in {"item", "end", "err"} : InputEnds(what)
    \/ Stop \/ RequestStop
    \/ Consume \/ ReadAgain \/ BeginSlow \/ Close
    \/ \E v \in {"fill", "stream"} : Read(v)
    \/ Publish \/ StartPrepared \/ StartInput \/ AcceptRead \/ Reserve
    \/ \E what \in {"item", "end", "err", "pending"} : TakeReturns(what)
    \/ Admit
    \/ \E what \in {"throws", "value", "ok", "err", "lazy"} : InvokeReturns(what)
    \/ PumpReturns \/ Pumped \/ Caught \/ Settle \/ Wake
    \/ Destroy \/ Gone

Spec == Init /\ [][Next]_vars

-----------------------------------------------------------------------------
SlotOrNone == Slots \cup {None}

(* Type invariant.                                                         *)
TypeOK ==
    /\ pc \in {"idle", "again", "slow", "waiting", "woken", "pump", "take",
               "admit", "invoke", "pumped", "caught", "settle", "gone"}
    /\ verb \in {"fill", "stream", "again", "close"} /\ slow \in BOOLEAN
    /\ before \in 0..N /\ saw \in {"none"} \cup Final
    /\ failure \in {"none"} \cup Thrown /\ first \in {"none"} \cup Thrown
    /\ hot \in Seq(Slots) /\ cold \subseteq Slots
    /\ owned \subseteq Slots /\ started \subseteq owned
    /\ job \in [Slots -> {"none", "lazy", "running", "ok", "err", "value"}]
    /\ input \in {"none", "lazy", "running", "item", "end", "err"}
    /\ {input_slot, prepared, hand} \subseteq SlotOrNone
    /\ completed \in Seq(Slots) /\ buffered \in Seq(Slots)
    /\ {occupied, running} \subseteq 0..N /\ fed \in 0..MaxIdeas
    /\ {input_ended, changed, stopping, reader_stop} \subseteq BOOLEAN

Running == {s \in Slots : job[s] = "running"}
Reserved == {input_slot, prepared} \ {None}

(* free + reserved + running + completed/unconsumed = capacity: whenever   *)
(* the consumer has given the deck back, every slot is free in the farm,   *)
(* or is owned in exactly one role; the counters agree with the slots and  *)
(* the feed's buffer has a cell for every result.  Reservation, release,   *)
(* publication and discard_settled each move a slot from role to role.     *)
SlotAccounting ==
    LET free == hot \o SetToSeq(cold)
        roles == completed \o buffered \o SetToSeq(Running) \o SetToSeq(Reserved)
    IN  Turn \/ pc = "gone" =>
          /\ IsInjective(free \o roles) /\ Len(free \o roles) = N
          /\ ToSet(roles) = owned
          /\ occupied = Len(roles) /\ running = Cardinality(Running)
          /\ Len(hot) <= HotSize

(* A consumer suspended on changed_awaiter has something to wait for, and  *)
(* nothing it could do: some job or the input read runs, no result or      *)
(* answer is waiting to be looked at, and no slot is free for an idea that *)
(* the input has not been asked for.                                       *)
WaitsForSomething ==
    pc = "waiting" =>
      /\ running > 0 \/ input = "running"
      /\ stopping \/ /\ completed = <<>> /\ prepared = None
                     /\ input \in {"none", "running"}
                     /\ input = "none" => input_ended \/ exhausted

(* Once a read has met EOF or has thrown, or close() has returned, nothing *)
(* of the pool runs, so ~pool does not abort; after a throw or close()     *)
(* every slot is back in the farm, and so it is after ~pool.               *)
DestroyIsSafe ==
    /\ pc = "idle" /\ saw \in Final => running = 0 /\ input # "running"
    /\ pc = "idle" /\ saw \in Final \ {"eof"} => occupied = 0
    /\ pc = "gone" => occupied = 0 /\ owned = {}

(* A read that failed rethrows the first failure it met (pool.hpp's        *)
(* "Failure and cancellation").                                            *)
RethrowsFirstFailure ==
    pc = "idle" /\ saw \in Thrown /\ first # "none" => saw = first
=============================================================================
