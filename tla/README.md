# A TLA+ development for nxt

This directory models the concurrent core of the `nxt` libraries: the
coroutine runtime `nxtrt` (tasks, the deck, the wands, groups, the blocking
pool, the idea pool). Every module is translated from the source under `src/`, checked with
TLC on small instances, and the central ones are proved with TLAPS for every
value of their constants. `PROJECT.json` maps each definition to the lines it
models, and lists the runs, the mutants that show each property can fail, the
hazards and the theorems.

## The system

`nxt` is one process built around one cooperative scheduler per thread.

| Part | State | Operations | Talks to |
| --- | --- | --- | --- |
| task, promise | coroutine frame: continuation, stop source, stop callbacks, completion observer, id | create, await (splice), park, yield, finish, request_stop, destroy | deck, wand |
| deck | ready queue of task ids; table of rows with an 8-bit era | start, enqueue, run_ready, resume_if_ready, register, unregister, drive | tasks, wand |
| wand: io_uring, epoll, kqueue, IOCP | hub of execution records, pending submissions and cancellations, kernel registrations | prep, suspend, cancel, wave, poll, wait, run_until_done | deck, kernel |
| groups | countdown, completion links, parent stop callback | run_group, settle, when_all, wait_any, with_timeout | tasks, deck |
| blocking pool | credit, queue, per-call job flags and pipe, worker threads | run, cancel, stop, close, work | deck, wand (polls), threads |
| pool, farm | slots, input read, completed and buffered results; free indices | read, pump, accept, publish, consume, stop, close, destroy | tasks, deck, feeds |
| bell | a flag and a readable descriptor | ring, reset, wait | wand |
| buffers, wire, land | byte and value windows, in-process pipes, arenas | fill, consume, write, flush, close | tasks |
| processes, files, net, HTTP, TLS, WebSocket, MTProto | protocol state machines over byte streams | | wands |
| nxtui | rasters, compositor, terminal regions, input parser, text field | | terminal |
| nxtai | tool batches, agent loop, response streams | | runtime, network |
| Wisp | heap with collection, tape (checkpoint), control stack machine, vat | | runtime, files |

What is hard about it: a completion, a cancel and a destruction of the same
wait come in every order; records are addressed by the kernel through raw
pointers; task ids are reused; stop requests run callbacks inside other tasks'
turns; the submission queue and the task table are finite; the blocking pool
adds real threads. What must hold: every wait is settled once and only once,
nothing names a freed record, no task is lost, a group never leaves its
children behind, credit and counts stay exact, and what is stopped ends.

## Modules

| Module | Models | State and actions |
| --- | --- | --- |
| `WandContract` | the promise of `wand.hpp` | where each task is, who is stopped, the last outcome; `Await`, `Finish`, `RequestStop`, `Settle`, `StopAndSettle` |
| `UringWand` | `wand/uring.hpp` and its driver | hub records by address, the two pending vectors and the staging loops' locals, the operation and cancel entry of each record, the deck's queue. One action per turn of a task, staging step, completion and driver decision, and the kernel |
| `EpollWand` | `wand/epoll.hpp` and its driver | the same with one-shot registrations, timerfds and the array of collected events |
| `KqueueWand` | `wand/kqueue.cpp` and its driver | the same with one-shot kernel events, the changelist, the deletes staged for siblings and cancels, and the two steps in which a deleted record is retired |
| `Deck` | `deck.hpp`, `task/runtime.hpp`, `task/task.hpp`, `task/promise.hpp`, `ids.hpp` | rows, eras, ids, queue entries that remember for whom they were pushed, ownership and continuation links, stop flags |
| `Group` | `task/concurrent.hpp` | children, countdown, flags, the setup loop's position, the result |
| `BlockingPool` | `blocking.hpp` | per-call stage and job flags, pipes, credit, workers, the closer |
| `Pool` | `pool.hpp`, `farm.hpp`, the refill path of `value-buffers.hpp` | where the consumer is in its read or close, the role of every slot, the farm's hot ring and cold mask, the input read |

`MC*.tla` are the modules TLC runs, `MC*.cfg` give the constants.
`UringWandProofs`, `EpollWandProofs` and `GroupProofs` hold the theorems.

Abstractions shared by the modules:

- A payload is its class: `value`, `error`, `cancelled`. Wishes are classed by
  how they use the backend (`Kinds`).
- A deck turn is one action, because nothing else runs on its thread; the
  places where a turn calls out (a stop callback that settles inline, a
  synchronous completion inside a wave) are inside the action.
- Queues whose order only decides who goes first are sets, so TLC explores
  every order. FIFO order is therefore not claimed.
- Pointers are a fixed set of addresses that are reused after `free`.

### UringWand, EpollWand and KqueueWand

`pc` walks through `run_until_done`: a round of turns, the wave, the poll, the
decision to block. A record's `status` is its lifecycle phase. The kernel is
external: it may complete any operation in flight, must answer a cancel, may
fire any armed interest. `SubmitMayFail`, `AddMayThrow` and `AddMayFail` let the
system calls fail with an exception, which ends the driver as it does in the
code. All three are shown to implement `WandContract` with the refinement mapping `place` (a task is
parked if a parked record waits for it). `KqueueWand` runs over a constant set
`Wishes`, so that an instance names the kinds of wish its tasks use; the queues
of the deck and of the changelist are sets.

`UringWand` assumes that an `io_uring_submit` that succeeds takes every entry:
`wave` does not compare the count it returns with what it staged, and an entry
left behind would be submitted by a later wave only.

In `KqueueWand` the kernel knows an event by its `ident`: a private descriptor
or the record's address, but for `NOTE_EXIT` the pid, so that two waits for one
of the `Children` have one event, and the later one's address in it. `shared`
remembers the records this happened to. A poll for neither direction
(`poll_none`) is submitted with nothing registered. Both are wishes that no
event need ever wake (`Asleep`); `EventsMatchRecords` and `DriverNotStranded`
speak of the others, and say that nothing else sleeps without an event. The
contract and the liveness of stopped tasks hold with them included.

### Deck

A queue entry is an id; the model also remembers the task it was pushed for,
so that `QueuedIdNeverAliases` can say that an id never resumes somebody else.
The 8-bit era wraps, which `ids.hpp` documents. The bound `EraAssumption`
(`2 * RowDrops < Eras`) keeps the model below the wrap: `RowDrops` bounds how
often one row is vacated. Frames own each other as locals do, so destroying a
task destroys what it owns.

A task outside the model (`Other`) may hold the last row from the beginning, so
that both instances meet a full table. `Await` sets the continuation before it
registers the child, as `splice_handle` does: when registration throws, the
child is left lazy with a continuation that does not await it, and may be
started, awaited again or destroyed. `stray` is the set of children started in
that state. When a stray child finishes it queues its continuation, and `start`
queues any task that is not finished, the parked and the queued ones included:
either puts a task in the queue that is not due. The model ends there
(`misqueued`), because what a frame does that is resumed out of turn depends on
what it is suspended on; the invariants speak of every state before that.

### Group

The five policies are modelled by what they trigger on. Children may be lazy or
already done at entry. `SetupThrows` is a failure of `start` or `connect`. Three
tasks return one after the other, each in a turn of its own: `run_group`
(`RunGroupReturns`), `settle` (`SettleReturns`) and `when_all`, `wait_any` or
`with_timeout` (`CallerReturns`). `run_group`'s stop callback is gone when it
returns; `ParentStop` comes before that, `LateStop` after. The timer of `with_timeout` is job 2 and can only fail or be cancelled
(`timer_may_end`).

### BlockingPool

`deck` is the call in the middle of a turn, so that worker steps and foreign
cancels fall between its drain, check and poll. `WaitFails` is the exception of
a wait that cannot be set up, or that fails in a later turn; the residence then
blocks the deck until the worker has published. `stop()` cancels the calls one
by one, with worker steps between (`StopCancels`). One `run` per call and one `close` bound the model.

### Pool

`pc` is where the consumer is; jobs and the input read advance only at the
points where it has given the deck back (`Turn`). `pump` is several actions, one
per stage of its loop, with nothing of the deck between them, because what the
feed and the idea answer is chosen there and because either may call `stop()`
back. `verb` tells apart the two ways into `stream_more`: `stream()` awaits the
hope it returns, `fill_more` drops a pending one and calls `stream_more` again.
`first` is a history variable: the first failure the current read met.
`MaxIdeas` bounds the input. A second deck and overlapping calls, which throw
before they change anything, are left out.

## Runs

| Run | Instance | Shows |
| --- | --- | --- |
| `uring` | 2 tasks, 2 records, queue of 1 | records outlive their names, tasks are in one place, effects are delivered, the driver is not stranded, no stop is forgotten, the contract is implemented |
| `uring_full` (violated) | as `uring`, submit never fails | a cancel that found the queue full is left behind while the driver blocks |
| `epoll` | 2 tasks, 2 records, array of 2 | as for io_uring; a submitted wish is watched; stopped tasks leave; timers wake |
| `epoll_error` (violated) | 2 tasks, 3 records, array of 2 | an error event is looked up after cleanup |
| `kqueue` | 2 tasks, 2 records, array of 2, 2 children, four kinds of wish | events in the kernel and records agree, the driver is not stranded, stopped tasks leave, the contract is implemented |
| `kqueue_siblings` (violated) | as `kqueue`, with polls for both directions, no refused registration | a sibling's delete finds no event and the driver throws |
| `deck_safety` | 3 tasks, 3 rows, one perhaps taken | ids, resumptions, continuations, stops |
| `deck_live` | 3 tasks, 2 rows, one perhaps taken | starts and awaits that fail; a due task runs |
| `group` | 2 jobs, all policies | draining, wakeup, result, cancellation, deadline against body; a stopping group returns |
| `blocking` | 2 calls, 2 workers, credit 1 | credit, lifetime, stop and close; calls and close() end |
| `pool` | 3 slots, hot ring of 2, 4 ideas | slot accounting, no lost wakeup, safe destruction |
| `pool_failure` (violated) | 2 slots, 2 ideas | a failure is replaced by `operation_cancelled` |

The bounds are enough for the cases that matter: two waits that contend for one
queue entry, a record reused while another is draining, two events of one record
in one array, two waits for one child, a row reused while an old id is queued,
an await that finds the table full, a group stopped in the
middle of its setup with one child done and one still lazy, a call that waits
for the credit of another while both workers are awake, a pool with one result
buffered, one job running and one slot reserved for the input. For the wands of
io_uring and epoll and for groups the proofs remove the bounds. The type
invariants of those modules are proved and not run.

Fairness. The driver's thread keeps running (weak fairness of `Driver`, of a
deck's pump and turns). The kernel answers cancels and expired timers fire; an
operation nobody cancels may take for ever, a descriptor need never become
ready. In the blocking pool the operating system runs every thread, callables
return, and the driver resumes a task whose pipe is readable; strong fairness is
used where several tasks compete for the deck, because rounds are finite and in
order. Nothing makes anybody start, stop or close.

## Findings

1. `uring_full`: `run_until_done` blocks with a deferred cancel (or submission)
   pending although the submission queue has been emptied by the wave
   (`uring.hpp:316`).
2. `epoll_error`: `handle_event` removes the registration before `on_event` asks
   it for the descriptor of an `EPOLLERR` event, so the error is `EBADF`
   (`epoll.hpp:1207`).
3. `kqueue_siblings`: when one `kevent` returns both events of a wish, the delete
   staged for the second fails with `ENOENT` and `apply_changes` throws out of
   the driver (`kqueue.cpp:1538`).
4. `pool_failure`: a failure met by the first `stream_more` of a refill, while
   other jobs run, is overwritten by the `operation_cancelled` that the second
   `stream_more` throws (`pool.hpp:470`).

Other disagreements follow from the models and have no run of their own:

- `Group`: `with_timeout` reports `timeout_error` for a body that cancelled
  itself before the deadline, if the timer expires before its own cancel takes
  effect (`concurrent.hpp:546-547` promises `operation_cancelled`).
- `Group`: a stop that comes after `run_group` has returned, while `settle` or
  `with_timeout` still waits for its turn, is not seen: the call ends with the
  value, the failure or `timeout_error` (`concurrent.hpp:549-550` promises
  `operation_cancelled`). `StopIsCancellation` states what the code does: a stop
  is a cancellation if and only if it came before `run_group` returned, setup
  failures aside.
- `KqueueWand`: with only a poll for neither direction left, `run_until_done`
  blocks with nothing registered, where `kqueue.hpp:87-88` promises the deadlock
  error.
- `KqueueWand`: two waits for one child share a kernel event, although
  `kqueue.cpp:1393` says "Each execution owns an independent kevent identity".
  The earlier one is never woken, and the two deletes of a cancelled pair make
  `apply_changes` throw.
- `Deck`: after an await that failed on a full table, a child that is started
  queues a task that does not await it, although `deck.hpp:320` says of `start`
  "without awaiting it".

## Proofs

For each of `UringWand`, `EpollWand` and `Group` an inductive invariant `IndInv`
is stated in the module, with one lemma per action that the action preserves it,
and `Spec => []IndInv` from those. The safety properties follow from it.

- `UringWand`: a record's phase decides which queue entries can name it
  (`PhaseInv`), the pending vectors hold exactly the records not yet given to
  the kernel (`PendingInv`), each task is in one place (`PlaceInv`). Assumptions:
  a positive queue depth.
- `EpollWand`: the same with registrations (`RegisteredInv`); only records that
  are submitted are registered. Assumptions: finitely many records, a positive
  array length.
- `Group`: the countdown equals the number of started children (`SetupInv`,
  `LastArrivalWakes`), and the first trigger is fixed once the group is stopping
  (`TriggerInv`). Assumption: `N` is a positive natural number.

For both wands `ImplementsContract` proves `Spec => Contract!SafeSpec`: every
step maps to a step of the contract or to a stutter.

Only model-checked: everything about `KqueueWand`, `Deck`, `BlockingPool` and
`Pool`, and all liveness (fairness is out of the prover's reach).

## Not modelled yet, and the plan

1. The bell; proofs of `BlockingPool`, `Deck`, `Pool` and `KqueueWand`.
2. `IocpWand` against `WandContract`.
3. Wire, feeds and sinks: windows, flush and close, against an abstract stream.
4. Wisp: heap collection against reachability, tape round trip, the vat.
5. Terminal: raster diff and regional terminal against the screen, the input
   parser, the text field.
6. Protocols: HTTP framing, WebSocket close, MTProto sessions, TLS handshake
   order, the c-ares pump, scoped processes; the tool batch and the agent loop.

Left out for good: cryptography (out of TLC's reach), codecs of external
libraries, formatting and layout, tracing, and system call wrappers.
