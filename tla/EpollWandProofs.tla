-------------------------- MODULE EpollWandProofs ---------------------------
(***************************************************************************)
(* The safety properties of EpollWand for any tasks, any finite set of hub *)
(* addresses and any length of the event array: IndInv is inductive, one   *)
(* lemma per action, and every step is a step of WandContract or invisible *)
(* to it.                                                                  *)
(***************************************************************************)
EXTENDS EpollWand, FiniteSetTheorems, TLAPS

USE DEF Parked, ParkedPhases, Unsent, Interests, Kinds, TimerKinds, EventKinds,
        Events, deckVars, execVars, pendVars, regVars, root_done

(* Removing an event keeps the array within its bound.                     *)
LEMMA FewerEvents ==
    ASSUME TypeOK, NEW ev, NEW b, b = batch \ {ev}
    PROVE  b \subseteq Events /\ Cardinality(b) <= BatchSize
<1>1. IsFiniteSet(EventKinds)
    <2>1. IsFiniteSet({"op"} \cup {"error"})
        BY ZenonT(30), FS_Singleton, FS_Union
    <2>2. IsFiniteSet(({"op"} \cup {"error"}) \cup {"timer"})
        BY ZenonT(30), <2>1, FS_Singleton, FS_Union
    <2>3. EventKinds = ({"op"} \cup {"error"}) \cup {"timer"}
        OBVIOUS
    <2> QED
        BY <2>2, <2>3
<1>2. IsFiniteSet(Events)
    BY <1>1, FS_Product, ExecsAssumption
<1>3. IsFiniteSet(batch) /\ b \subseteq batch
    BY <1>2, FS_Subset DEF TypeOK
<1>4. /\ IsFiniteSet(b) /\ Cardinality(b) <= Cardinality(batch)
      /\ Cardinality(b) \in Nat /\ Cardinality(batch) \in Nat
    BY <1>3, FS_Subset, FS_CardinalityType
<1> QED
    BY <1>3, <1>4, BatchAssumption DEF TypeOK

(* The empty wand on a deck where every task is queued.                    *)
LEMMA InitInd == Init => IndInv
<1> SUFFICES ASSUME Init PROVE IndInv
    OBVIOUS
<1>1. TypeOK
    BY FS_EmptySet, BatchAssumption DEF Init, TypeOK
<1>2. PendingInv
    BY DEF Init, PendingInv
<1>3. RegisteredInv
    BY DEF Init, RegisteredInv, WatchedWhileSubmitted
<1>4. PlaceInv
    BY DEF Init, PlaceInv
<1>5. StopInv
    BY DEF Init, StopInv
<1>6. DriverNotStranded
    BY DEF Init, DriverNotStranded
<1> QED
    BY <1>1, <1>2, <1>3, <1>4, <1>5, <1>6 DEF IndInv

(* run_until_done's loop head: a round, or a poll when nothing is ready.   *)
LEMMA TopInd ==
    ASSUME IndInv,
           Top
    PROVE  IndInv'
<1> USE DEF Top
<1>1. TypeOK'
    BY DEF IndInv, TypeOK, PlaceInv
<1>2. PendingInv'
    BY DEF IndInv, TypeOK, PendingInv, RegisteredInv, WatchedWhileSubmitted
<1>3. RegisteredInv'
    BY DEF IndInv, TypeOK, PendingInv, RegisteredInv, WatchedWhileSubmitted
<1>4. PlaceInv'
    BY DEF IndInv, TypeOK, PlaceInv, PendingInv
<1>5. StopInv'
    BY DEF IndInv, TypeOK, StopInv, PlaceInv
<1>6. DriverNotStranded'
    BY DEF IndInv, TypeOK, DriverNotStranded, PendingInv, RegisteredInv,
       WatchedWhileSubmitted, PlaceInv
<1> HIDE DEF Top
<1> QED
    BY <1>1, <1>2, <1>3, <1>4, <1>5, <1>6 DEF IndInv

(* Parking a task takes a free record, which nothing names.                *)
LEMMA AwaitInd ==
    ASSUME IndInv,
           NEW t \in Tasks, NEW e \in Execs, NEW k \in Kinds,
           AwaitWish(t, e, k)
    PROVE  IndInv'
<1> USE DEF AwaitWish, parked_phase
<1>1. TypeOK'
    BY DEF IndInv, TypeOK, PlaceInv
<1>2. PendingInv'
    BY DEF IndInv, TypeOK, PendingInv, RegisteredInv, WatchedWhileSubmitted
<1>3. RegisteredInv'
    BY DEF IndInv, TypeOK, PendingInv, RegisteredInv, WatchedWhileSubmitted
<1>4. PlaceInv'
    BY DEF IndInv, TypeOK, PlaceInv, PendingInv
<1>5. StopInv'
    BY DEF IndInv, TypeOK, StopInv, PlaceInv
<1>6. DriverNotStranded'
    BY DEF IndInv, TypeOK, DriverNotStranded, PendingInv, RegisteredInv,
       WatchedWhileSubmitted, PlaceInv
<1> HIDE DEF AwaitWish, parked_phase
<1> QED
    BY SMTT(30), <1>1, <1>2, <1>3, <1>4, <1>5, <1>6 DEF IndInv

(* A task puts itself back on the queue.                                   *)
LEMMA YieldInd ==
    ASSUME IndInv,
           NEW t \in Tasks,
           Yield(t)
    PROVE  IndInv'
<1> USE DEF Yield
<1>1. TypeOK'
    BY DEF IndInv, TypeOK, PlaceInv
<1>2. PendingInv'
    BY DEF IndInv, TypeOK, PendingInv, RegisteredInv, WatchedWhileSubmitted
<1>3. RegisteredInv'
    BY DEF IndInv, TypeOK, PendingInv, RegisteredInv, WatchedWhileSubmitted
<1>4. PlaceInv'
    BY DEF IndInv, TypeOK, PlaceInv, PendingInv
<1>5. StopInv'
    BY DEF IndInv, TypeOK, StopInv, PlaceInv
<1>6. DriverNotStranded'
    BY DEF IndInv, TypeOK, DriverNotStranded, PendingInv, RegisteredInv,
       WatchedWhileSubmitted, PlaceInv
<1> HIDE DEF Yield
<1> QED
    BY <1>1, <1>2, <1>3, <1>4, <1>5, <1>6 DEF IndInv

(* A task ends its last turn.                                              *)
LEMMA FinishInd ==
    ASSUME IndInv,
           NEW t \in Tasks,
           FinishTask(t)
    PROVE  IndInv'
<1> USE DEF FinishTask
<1>1. TypeOK'
    BY DEF IndInv, TypeOK, PlaceInv
<1>2. PendingInv'
    BY DEF IndInv, TypeOK, PendingInv, RegisteredInv, WatchedWhileSubmitted
<1>3. RegisteredInv'
    BY DEF IndInv, TypeOK, PendingInv, RegisteredInv, WatchedWhileSubmitted
<1>4. PlaceInv'
    BY DEF IndInv, TypeOK, PlaceInv, PendingInv
<1>5. StopInv'
    BY DEF IndInv, TypeOK, StopInv, PlaceInv
<1>6. DriverNotStranded'
    BY SMTT(30) DEF IndInv, TypeOK, DriverNotStranded, PendingInv, RegisteredInv,
       WatchedWhileSubmitted, PlaceInv
<1> HIDE DEF FinishTask
<1> QED
    BY <1>1, <1>2, <1>3, <1>4, <1>5, <1>6 DEF IndInv

(* cancel marks a queued wish and settles a submitted one.                 *)
LEMMA StopInd ==
    ASSUME IndInv,
           NEW u \in Tasks,
           RequestStop(u)
    PROVE  IndInv'
<1> USE DEF RequestStop, inline_cancelled, requeue, cleanup
<1>1. TypeOK'
    BY SMTT(30) DEF IndInv, TypeOK, PlaceInv
<1>2. PendingInv'
    BY DEF IndInv, TypeOK, PendingInv, RegisteredInv, WatchedWhileSubmitted
<1>3. RegisteredInv'
    BY SMTT(30) DEF IndInv, TypeOK, PendingInv, RegisteredInv, WatchedWhileSubmitted
<1>4. PlaceInv'
    BY DEF IndInv, TypeOK, PlaceInv, PendingInv
<1>5. StopInv'
    BY SMTT(30) DEF IndInv, TypeOK, StopInv, PlaceInv
<1>6. DriverNotStranded'
    BY DEF IndInv, TypeOK, DriverNotStranded, PendingInv, RegisteredInv,
       WatchedWhileSubmitted, PlaceInv
<1> HIDE DEF RequestStop, inline_cancelled, requeue, cleanup
<1> QED
    BY SMTT(30), <1>1, <1>2, <1>3, <1>4, <1>5, <1>6 DEF IndInv

(* wave erases the settled records and takes the pending vector.           *)
LEMMA BeginWaveInd ==
    ASSUME IndInv,
           NEW next \in {"check", "top"}, pc \in {"round", "check"}, round = {},
           BeginWave(next)
    PROVE  IndInv'
<1> USE DEF BeginWave, erase_retirable, parked_only
<1>1. TypeOK'
    BY DEF IndInv, TypeOK, PlaceInv
<1>2. PendingInv'
    BY DEF IndInv, TypeOK, PendingInv, RegisteredInv, WatchedWhileSubmitted
<1>3. RegisteredInv'
    BY DEF IndInv, TypeOK, PendingInv, RegisteredInv, WatchedWhileSubmitted
<1>4. PlaceInv'
    BY DEF IndInv, TypeOK, PlaceInv, PendingInv
<1>5. StopInv'
    BY DEF IndInv, TypeOK, StopInv, PlaceInv
<1>6. DriverNotStranded'
    BY SMTT(30) DEF IndInv, TypeOK, DriverNotStranded, PendingInv, RegisteredInv,
       WatchedWhileSubmitted, PlaceInv
<1> HIDE DEF BeginWave, erase_retirable, parked_only
<1> QED
    BY SMTT(30), <1>1, <1>2, <1>3, <1>4, <1>5, <1>6 DEF IndInv

(* A cancelled wish settles without a syscall.                             *)
LEMMA StageCancelledInd ==
    ASSUME IndInv,
           NEW e \in Execs,
           StageCancelled(e)
    PROVE  IndInv'
<1> USE DEF StageCancelled, settle
<1>1. TypeOK'
    BY DEF IndInv, TypeOK, PlaceInv
<1>2. PendingInv'
    BY DEF IndInv, TypeOK, PendingInv, RegisteredInv, WatchedWhileSubmitted
<1>3. RegisteredInv'
    BY DEF IndInv, TypeOK, PendingInv, RegisteredInv, WatchedWhileSubmitted
<1>4. PlaceInv'
    BY DEF IndInv, TypeOK, PlaceInv, PendingInv
<1>5. StopInv'
    BY DEF IndInv, TypeOK, StopInv, PlaceInv
<1>6. DriverNotStranded'
    BY DEF IndInv, TypeOK, DriverNotStranded, PendingInv, RegisteredInv,
       WatchedWhileSubmitted, PlaceInv
<1> HIDE DEF StageCancelled, settle
<1> QED
    BY <1>1, <1>2, <1>3, <1>4, <1>5, <1>6 DEF IndInv

(* submit ends the wish.                                                   *)
LEMMA StageFinishedInd ==
    ASSUME IndInv,
           NEW e \in Execs, NEW o \in {"value", "error"},
           StageFinished(e, o)
    PROVE  IndInv'
<1> USE DEF StageFinished, settle, cleanup
<1>1. TypeOK'
    BY DEF IndInv, TypeOK, PlaceInv
<1>2. PendingInv'
    BY DEF IndInv, TypeOK, PendingInv, RegisteredInv, WatchedWhileSubmitted
<1>3. RegisteredInv'
    BY DEF IndInv, TypeOK, PendingInv, RegisteredInv, WatchedWhileSubmitted
<1>4. PlaceInv'
    BY DEF IndInv, TypeOK, PlaceInv, PendingInv
<1>5. StopInv'
    BY DEF IndInv, TypeOK, StopInv, PlaceInv
<1>6. DriverNotStranded'
    BY SMTT(30) DEF IndInv, TypeOK, DriverNotStranded, PendingInv, RegisteredInv,
       WatchedWhileSubmitted, PlaceInv
<1> HIDE DEF StageFinished, settle, cleanup
<1> QED
    BY SMTT(30), <1>1, <1>2, <1>3, <1>4, <1>5, <1>6 DEF IndInv

(* submit leaves registrations behind.                                     *)
LEMMA StageSubmittedInd ==
    ASSUME IndInv,
           NEW e \in Execs,
           StageSubmitted(e)
    PROVE  IndInv'
<1> USE DEF StageSubmitted, has_deadline
<1>1. TypeOK'
    BY DEF IndInv, TypeOK, PlaceInv
<1>2. PendingInv'
    BY DEF IndInv, TypeOK, PendingInv, RegisteredInv, WatchedWhileSubmitted
<1>3. RegisteredInv'
    BY DEF IndInv, TypeOK, PendingInv, RegisteredInv, WatchedWhileSubmitted
<1>4. PlaceInv'
    BY DEF IndInv, TypeOK, PlaceInv, PendingInv
<1>5. StopInv'
    BY DEF IndInv, TypeOK, StopInv, PlaceInv
<1>6. DriverNotStranded'
    BY DEF IndInv, TypeOK, DriverNotStranded, PendingInv, RegisteredInv,
       WatchedWhileSubmitted, PlaceInv
<1> HIDE DEF StageSubmitted, has_deadline
<1> QED
    BY SMTT(30), <1>1, <1>2, <1>3, <1>4, <1>5, <1>6 DEF IndInv

(* add throws out of wave.                                                 *)
LEMMA StageThrowsInd ==
    ASSUME IndInv,
           NEW e \in Execs, NEW first \in BOOLEAN,
           StageThrows(e, first)
    PROVE  IndInv'
<1> USE DEF StageThrows
<1>1. TypeOK'
    BY DEF IndInv, TypeOK, PlaceInv
<1>2. PendingInv'
    BY DEF IndInv, TypeOK, PendingInv, RegisteredInv, WatchedWhileSubmitted
<1>3. RegisteredInv'
    BY DEF IndInv, TypeOK, PendingInv, RegisteredInv, WatchedWhileSubmitted
<1>4. PlaceInv'
    BY DEF IndInv, TypeOK, PlaceInv, PendingInv
<1>5. StopInv'
    BY DEF IndInv, TypeOK, StopInv, PlaceInv
<1>6. DriverNotStranded'
    BY SMTT(30) DEF IndInv, TypeOK, DriverNotStranded, PendingInv, RegisteredInv,
       WatchedWhileSubmitted, PlaceInv
<1> HIDE DEF StageThrows
<1> QED
    BY SMTT(30), <1>1, <1>2, <1>3, <1>4, <1>5, <1>6 DEF IndInv

(* Every swapped-out record has been staged.                               *)
LEMMA EndWaveInd ==
    ASSUME IndInv,
           EndWave
    PROVE  IndInv'
<1> USE DEF EndWave
<1>1. TypeOK'
    BY DEF IndInv, TypeOK, PlaceInv
<1>2. PendingInv'
    BY DEF IndInv, TypeOK, PendingInv, RegisteredInv, WatchedWhileSubmitted
<1>3. RegisteredInv'
    BY DEF IndInv, TypeOK, PendingInv, RegisteredInv, WatchedWhileSubmitted
<1>4. PlaceInv'
    BY DEF IndInv, TypeOK, PlaceInv, PendingInv
<1>5. StopInv'
    BY DEF IndInv, TypeOK, StopInv, PlaceInv
<1>6. DriverNotStranded'
    BY DEF IndInv, TypeOK, DriverNotStranded, PendingInv, RegisteredInv,
       WatchedWhileSubmitted, PlaceInv
<1> HIDE DEF EndWave
<1> QED
    BY SMTT(30), <1>1, <1>2, <1>3, <1>4, <1>5, <1>6 DEF IndInv

(* epoll_wait collects events of submitted records.                        *)
LEMMA EpollWaitInd ==
    ASSUME IndInv,
           NEW events \in SUBSET fired_events,
           epoll_wait(events)
    PROVE  IndInv'
<1> USE DEF epoll_wait, fired_events, fits
<1>1. TypeOK'
    BY SMTT(30) DEF IndInv, TypeOK, PlaceInv
<1>2. PendingInv'
    BY SMTT(30) DEF IndInv, TypeOK, PendingInv, RegisteredInv, WatchedWhileSubmitted
<1>3. RegisteredInv'
    BY SMTT(30) DEF IndInv, TypeOK, PendingInv, RegisteredInv, WatchedWhileSubmitted
<1>4. PlaceInv'
    BY SMTT(30) DEF IndInv, TypeOK, PlaceInv, PendingInv
<1>5. StopInv'
    BY SMTT(30) DEF IndInv, TypeOK, StopInv, PlaceInv
<1>6. DriverNotStranded'
    BY DEF IndInv, TypeOK, DriverNotStranded, PendingInv, RegisteredInv,
       WatchedWhileSubmitted, PlaceInv
<1> HIDE DEF epoll_wait, fired_events, fits
<1> QED
    BY SMTT(30), <1>1, <1>2, <1>3, <1>4, <1>5, <1>6 DEF IndInv

(* poll erases the settled records once its events are handled.            *)
LEMMA AfterPollInd ==
    ASSUME IndInv,
           pc = "poll" \/ (pc = "batch" /\ batch = {}),
           AfterPoll
    PROVE  IndInv'
<1> USE DEF AfterPoll, erase_retirable, parked_only
<1>1. TypeOK'
    BY SMTT(30) DEF IndInv, TypeOK, PlaceInv
<1>2. PendingInv'
    BY DEF IndInv, TypeOK, PendingInv, RegisteredInv, WatchedWhileSubmitted
<1>3. RegisteredInv'
    BY SMTT(30) DEF IndInv, TypeOK, PendingInv, RegisteredInv, WatchedWhileSubmitted
<1>4. PlaceInv'
    BY DEF IndInv, TypeOK, PlaceInv, PendingInv
<1>5. StopInv'
    BY SMTT(30) DEF IndInv, TypeOK, StopInv, PlaceInv
<1>6. DriverNotStranded'
    BY DEF IndInv, TypeOK, DriverNotStranded, PendingInv, RegisteredInv,
       WatchedWhileSubmitted, PlaceInv
<1> HIDE DEF AfterPoll, erase_retirable, parked_only
<1> QED
    BY SMTT(30), <1>1, <1>2, <1>3, <1>4, <1>5, <1>6 DEF IndInv

(* An event of a record already settled is dropped.                        *)
LEMMA StaleInd ==
    ASSUME IndInv,
           NEW e \in Execs, NEW k \in EventKinds,
           StaleEvent(e, k)
    PROVE  IndInv'
<1> USE DEF StaleEvent
<1>1. TypeOK'
    BY ZenonT(30), FewerEvents DEF IndInv, TypeOK, PlaceInv, StopInv
<1>2. PendingInv'
    BY SMTT(30) DEF IndInv, TypeOK, PendingInv, RegisteredInv, WatchedWhileSubmitted
<1>3. RegisteredInv'
    BY SMTT(30) DEF IndInv, TypeOK, PendingInv, RegisteredInv, WatchedWhileSubmitted
<1>4. PlaceInv'
    BY DEF IndInv, TypeOK, PlaceInv, PendingInv
<1>5. StopInv'
    BY SMTT(30) DEF IndInv, TypeOK, StopInv, PlaceInv
<1>6. DriverNotStranded'
    BY SMTT(30) DEF IndInv, TypeOK, DriverNotStranded, PendingInv, RegisteredInv,
       WatchedWhileSubmitted, PlaceInv
<1> HIDE DEF StaleEvent
<1> QED
    BY SMTT(30), <1>1, <1>2, <1>3, <1>4, <1>5, <1>6 DEF IndInv

(* An event ends the wish.                                                 *)
LEMMA FinishesInd ==
    ASSUME IndInv,
           NEW e \in Execs, NEW k \in EventKinds,
           NEW o \in {"value", "error", "bad_fd"},
           EventFinishes(e, k, o)
    PROVE  IndInv'
<1> USE DEF EventFinishes, settle, cleanup
<1>1. TypeOK'
    <2>1. batch' \subseteq Events /\ Cardinality(batch') <= BatchSize
        BY ZenonT(30), FewerEvents DEF IndInv
    <2>2. waiter[e] \in Tasks
        BY SMTT(30) DEF IndInv, PlaceInv
    <2> QED
        BY <2>1, <2>2 DEF IndInv, TypeOK
<1>2. PendingInv'
    BY SMTT(30) DEF IndInv, TypeOK, PendingInv, RegisteredInv, WatchedWhileSubmitted
<1>3. RegisteredInv'
    BY SMTT(30) DEF IndInv, TypeOK, PendingInv, RegisteredInv, WatchedWhileSubmitted
<1>4. PlaceInv'
    BY SMTT(30) DEF IndInv, TypeOK, PlaceInv, PendingInv
<1>5. StopInv'
    BY SMTT(30) DEF IndInv, TypeOK, StopInv, PlaceInv
<1>6. DriverNotStranded'
    BY SMTT(30) DEF IndInv, TypeOK, DriverNotStranded, PendingInv, RegisteredInv,
       WatchedWhileSubmitted, PlaceInv
<1> HIDE DEF EventFinishes, settle, cleanup
<1> QED
    BY SMTT(30), <1>1, <1>2, <1>3, <1>4, <1>5, <1>6 DEF IndInv

(* An event whose readiness was stale arms the interest again.             *)
LEMMA RearmsInd ==
    ASSUME IndInv,
           NEW e \in Execs, NEW k \in EventKinds,
           EventRearms(e, k)
    PROVE  IndInv'
<1> USE DEF EventRearms
<1>1. TypeOK'
    BY ZenonT(30), FewerEvents DEF IndInv, TypeOK, PlaceInv, StopInv
<1>2. PendingInv'
    BY SMTT(30) DEF IndInv, TypeOK, PendingInv, RegisteredInv, WatchedWhileSubmitted
<1>3. RegisteredInv'
    BY SMTT(30) DEF IndInv, TypeOK, PendingInv, RegisteredInv, WatchedWhileSubmitted
<1>4. PlaceInv'
    BY SMTT(30) DEF IndInv, TypeOK, PlaceInv, PendingInv
<1>5. StopInv'
    BY SMTT(30) DEF IndInv, TypeOK, StopInv, PlaceInv
<1>6. DriverNotStranded'
    BY SMTT(30) DEF IndInv, TypeOK, DriverNotStranded, PendingInv, RegisteredInv,
       WatchedWhileSubmitted, PlaceInv
<1> HIDE DEF EventRearms
<1> QED
    BY SMTT(30), <1>1, <1>2, <1>3, <1>4, <1>5, <1>6 DEF IndInv

(* The retry's dup fails.                                                  *)
LEMMA ThrowsInd ==
    ASSUME IndInv,
           NEW e \in Execs, NEW k \in EventKinds,
           EventThrows(e, k)
    PROVE  IndInv'
<1> USE DEF EventThrows, cleanup
<1>1. TypeOK'
    BY SMTT(30), FS_EmptySet, BatchAssumption DEF IndInv, TypeOK, PlaceInv
<1>2. PendingInv'
    BY SMTT(30) DEF IndInv, TypeOK, PendingInv, RegisteredInv, WatchedWhileSubmitted
<1>3. RegisteredInv'
    BY SMTT(30) DEF IndInv, TypeOK, PendingInv, RegisteredInv, WatchedWhileSubmitted
<1>4. PlaceInv'
    BY SMTT(30) DEF IndInv, TypeOK, PlaceInv, PendingInv
<1>5. StopInv'
    BY SMTT(30) DEF IndInv, TypeOK, StopInv, PlaceInv
<1>6. DriverNotStranded'
    BY SMTT(30) DEF IndInv, TypeOK, DriverNotStranded, PendingInv, RegisteredInv,
       WatchedWhileSubmitted, PlaceInv
<1> HIDE DEF EventThrows, cleanup
<1> QED
    BY SMTT(30), <1>1, <1>2, <1>3, <1>4, <1>5, <1>6 DEF IndInv

(* Nothing is pending at the check, and a parked task is submitted.        *)
LEMMA CheckInd ==
    ASSUME IndInv,
           Check
    PROVE  IndInv'
<1> USE DEF Check, has_pending_work, has_submitted_completions
<1>1. TypeOK'
    BY SMTT(30) DEF IndInv, TypeOK, PlaceInv, PendingInv
<1>2. PendingInv'
    BY SMTT(30) DEF IndInv, TypeOK, PendingInv, RegisteredInv, WatchedWhileSubmitted
<1>3. RegisteredInv'
    BY SMTT(30) DEF IndInv, TypeOK, PendingInv, RegisteredInv, WatchedWhileSubmitted
<1>4. PlaceInv'
    BY SMTT(30) DEF IndInv, TypeOK, PlaceInv, PendingInv
<1>5. StopInv'
    BY SMTT(30) DEF IndInv, TypeOK, StopInv, PlaceInv, PendingInv
<1>6. DriverNotStranded'
    BY DEF IndInv, TypeOK, DriverNotStranded, PendingInv, RegisteredInv,
       WatchedWhileSubmitted, PlaceInv
<1> HIDE DEF Check, has_pending_work, has_submitted_completions
<1> QED
    BY SMTT(30), <1>1, <1>2, <1>3, <1>4, <1>5, <1>6 DEF IndInv

(* A descriptor becomes ready.                                             *)
LEMMA FdReadyInd ==
    ASSUME IndInv,
           NEW e \in Execs, NEW how \in {"fired", "failed"},
           FdReady(e, how)
    PROVE  IndInv'
<1> USE DEF FdReady
<1>1. TypeOK'
    BY SMTT(30) DEF IndInv, TypeOK, PlaceInv
<1>2. PendingInv'
    BY SMTT(30) DEF IndInv, TypeOK, PendingInv, RegisteredInv, WatchedWhileSubmitted
<1>3. RegisteredInv'
    BY SMTT(30) DEF IndInv, TypeOK, PendingInv, RegisteredInv, WatchedWhileSubmitted
<1>4. PlaceInv'
    BY SMTT(30) DEF IndInv, TypeOK, PlaceInv, PendingInv
<1>5. StopInv'
    BY SMTT(30) DEF IndInv, TypeOK, StopInv, PlaceInv
<1>6. DriverNotStranded'
    BY SMTT(30) DEF IndInv, TypeOK, DriverNotStranded, PendingInv, RegisteredInv,
       WatchedWhileSubmitted, PlaceInv
<1> HIDE DEF FdReady
<1> QED
    BY SMTT(30), <1>1, <1>2, <1>3, <1>4, <1>5, <1>6 DEF IndInv

(* A timerfd fires.                                                        *)
LEMMA TimerInd ==
    ASSUME IndInv,
           NEW e \in Execs,
           TimerFires(e)
    PROVE  IndInv'
<1> USE DEF TimerFires
<1>1. TypeOK'
    BY SMTT(30) DEF IndInv, TypeOK, PlaceInv
<1>2. PendingInv'
    BY SMTT(30) DEF IndInv, TypeOK, PendingInv, RegisteredInv, WatchedWhileSubmitted
<1>3. RegisteredInv'
    BY SMTT(30) DEF IndInv, TypeOK, PendingInv, RegisteredInv, WatchedWhileSubmitted
<1>4. PlaceInv'
    BY SMTT(30) DEF IndInv, TypeOK, PlaceInv, PendingInv
<1>5. StopInv'
    BY SMTT(30) DEF IndInv, TypeOK, StopInv, PlaceInv
<1>6. DriverNotStranded'
    BY DEF IndInv, TypeOK, DriverNotStranded, PendingInv, RegisteredInv,
       WatchedWhileSubmitted, PlaceInv
<1> HIDE DEF TimerFires
<1> QED
    BY SMTT(30), <1>1, <1>2, <1>3, <1>4, <1>5, <1>6 DEF IndInv

(* Every step of the driver and of the kernel preserves the invariant.     *)
LEMMA NextInd == IndInv /\ [Next]_vars => IndInv'
<1> SUFFICES ASSUME IndInv, [Next]_vars PROVE IndInv'
    OBVIOUS
<1>1. CASE Turn
    BY <1>1, AwaitInd, YieldInd, FinishInd, StopInd DEF Turn
<1>2. CASE Stage
    BY <1>2, StageCancelledInd, StageFinishedInd, StageSubmittedInd,
       StageThrowsInd DEF Stage
<1>3. CASE handle_event
    BY <1>3, StaleInd, FinishesInd, RearmsInd, ThrowsInd DEF handle_event
<1>4. CASE Poll
    BY <1>4, EpollWaitInd, AfterPollInd DEF Poll, PollEmpty, EndBatch
<1>5. CASE Kernel
    BY <1>5, FdReadyInd, TimerInd DEF Kernel
<1>6. CASE EndRound
    BY <1>6, BeginWaveInd DEF EndRound
<1>7. CASE Top \/ EndWave \/ Check
    BY SMTT(30), <1>7, TopInd, EndWaveInd, CheckInd
<1>8. CASE Ended \/ UNCHANGED vars
    BY SMTT(30), <1>8 DEF Ended, vars, IndInv, TypeOK, PendingInv, RegisteredInv,
       WatchedWhileSubmitted, PlaceInv, StopInv, DriverNotStranded
<1> QED
    BY <1>1, <1>2, <1>3, <1>4, <1>5, <1>6, <1>7, <1>8 DEF Next, Driver

(* The inductive invariant holds in every reachable state of the wand.     *)
THEOREM Invariance == Spec => []IndInv
    BY InitInd, NextInd, PTL DEF Spec

(* What the invariant says of the wand, property by property.              *)
LEMMA IndImplies ==
    IndInv => /\ TypeOK /\ NoDanglingRecord /\ WatchedWhileSubmitted
              /\ TaskInOnePlace /\ DriverNotStranded
<1> SUFFICES ASSUME IndInv
             PROVE  /\ TypeOK /\ NoDanglingRecord /\ WatchedWhileSubmitted
                    /\ TaskInOnePlace /\ DriverNotStranded
    OBVIOUS
<1>1. TypeOK /\ WatchedWhileSubmitted /\ DriverNotStranded
    BY DEF IndInv, RegisteredInv
<1>2. NoDanglingRecord
    BY SMTT(30) DEF IndInv, NoDanglingRecord, PendingInv, RegisteredInv
<1>3. TaskInOnePlace
    BY DEF IndInv, TypeOK, TaskInOnePlace, PlaceInv
<1> QED
    BY <1>1, <1>2, <1>3

(* No event that poll_with_timeout collected, no registration and no       *)
(* pending entry ever names an erased record.                              *)
THEOREM RecordsNeverDangle == Spec => []NoDanglingRecord
    BY Invariance, IndImplies, PTL

(* A submitted wish can always be woken, and no dup or timerfd outlives    *)
(* the wish it was made for.                                               *)
THEOREM SubmittedIsWatched == Spec => []WatchedWhileSubmitted
    BY Invariance, IndImplies, PTL

(* suspend, settle and the inline cancel keep every unfinished task in     *)
(* exactly one place.                                                      *)
THEOREM TasksInOnePlace == Spec => []TaskInOnePlace
    BY Invariance, IndImplies, PTL

(* run_until_done throws its deadlock error, or blocks, only when it may.  *)
THEOREM DriverNeverStranded == Spec => []DriverNotStranded
    BY Invariance, IndImplies, PTL

(* The variables keep their types, and the event array its length.         *)
THEOREM TypeCorrect == Spec => []TypeOK
    BY Invariance, IndImplies, PTL

-----------------------------------------------------------------------------
(* Implementation of WandContract                                          *)

(* What a step changes of a function on Tasks at one task is an EXCEPT.    *)
LEMMA AtOneTask ==
    ASSUME NEW t \in Tasks, NEW v, NEW f, NEW g,
           f = [u \in Tasks |-> f[u]], g = [u \in Tasks |-> g[u]],
           g[t] = v, \A u \in Tasks \ {t} : g[u] = f[u]
    PROVE  g = [f EXCEPT ![t] = v]
    BY SMTT(30)

(* place and outcome_class are functions on Tasks, before and after a step. *)
LEMMA Shapes ==
    /\ place = [u \in Tasks |-> place[u]] /\ place' = [u \in Tasks |-> place'[u]]
    /\ outcome_class = [u \in Tasks |-> outcome_class[u]]
    /\ outcome_class' = [u \in Tasks |-> outcome_class'[u]]
    BY DEF place, outcome_class

(* The step takes record e, and no other, out of the parked phases.        *)
Unparks(e) ==
    /\ Parked(e) /\ status'[e] \notin ParkedPhases
    /\ \A d \in Execs \ {e} :
         /\ status'[d] \in ParkedPhases <=> Parked(d)
         /\ Parked(d) => waiter'[d] = waiter[d]

Classes == {"value", "error", "cancelled"}
class(o) == IF o = "bad_fd" THEN "error" ELSE o

(* What a step that unparks e with outcome o does to the contract's state. *)
LEMMA Unparked ==
    ASSUME IndInv, NEW e \in Execs, NEW o, Unparks(e), finished' = finished,
           result' = [result EXCEPT ![waiter[e]] = o]
    PROVE  /\ waiter[e] \in Tasks /\ place[waiter[e]] = "parked"
           /\ place' = [place EXCEPT ![waiter[e]] = "deck"]
           /\ outcome_class' = [outcome_class EXCEPT ![waiter[e]] = class(o)]
<1> DEFINE t == waiter[e]
<1>1. t \in Tasks /\ t \notin finished /\ place[t] = "parked"
    BY DEF IndInv, PlaceInv, place, Unparks
<1>2. place' = [place EXCEPT ![t] = "deck"]
    <2>1. \A u \in Tasks \ {t} : place'[u] = place[u]
        BY SMTT(30) DEF place, Unparks
    <2>2. place'[t] = "deck"
        BY SMTT(30), <1>1 DEF IndInv, PlaceInv, place, Unparks
    <2> HIDE DEF t
    <2> QED
        BY SMTT(30), <1>1, <2>1, <2>2, Shapes, AtOneTask
<1>3. outcome_class' = [outcome_class EXCEPT ![t] = class(o)]
    <2>1. \A u \in Tasks \ {t} : outcome_class'[u] = outcome_class[u]
        BY SMTT(30), <1>1 DEF outcome_class, IndInv, TypeOK
    <2>2. outcome_class'[t] = class(o)
        BY <1>1 DEF outcome_class, class, IndInv, TypeOK
    <2> HIDE DEF t
    <2> QED
        BY SMTT(30), <1>1, <2>1, <2>2, Shapes, AtOneTask
<1> QED
    BY SMTT(30), <1>1, <1>2, <1>3

(* A step that settles a record is the contract's Settle for its task.     *)
LEMMA SettleStep ==
    ASSUME IndInv, NEW e \in Execs, NEW o \in Classes \cup {"bad_fd"},
           Unparks(e), settle(e, o), o = "cancelled" => waiter[e] \in stopped
    PROVE  Contract!Next
<1>1. finished' = finished /\ stopped' = stopped
          /\ result' = [result EXCEPT ![waiter[e]] = o]
    BY DEF settle
<1>2. /\ waiter[e] \in Tasks /\ place[waiter[e]] = "parked"
      /\ place' = [place EXCEPT ![waiter[e]] = "deck"]
      /\ outcome_class' = [outcome_class EXCEPT ![waiter[e]] = class(o)]
    BY ZenonT(30), <1>1, Unparked
<1>3. class(o) \in Classes /\ (class(o) = "cancelled" => waiter[e] \in stopped)
    BY DEF class, Classes
<1>4. Contract!Settle(waiter[e], class(o))
    BY <1>1, <1>2, <1>3 DEF Contract!Settle
<1> QED
    BY <1>2, <1>3, <1>4 DEF Contract!Next, Contract!Outcomes, Classes

(* The contract does not see the driver's own steps.                       *)
LEMMA DriverSilent ==
    ASSUME IndInv, Top \/ EndRound \/ EndWave \/ Poll \/ Check \/ Ended
                   \/ UNCHANGED vars
    PROVE  UNCHANGED Contract!vars
<1>1. CASE Top
    BY SMTT(30), <1>1 DEF Top, place, outcome_class, Contract!vars
<1>2. ASSUME NEW next, BeginWave(next) PROVE UNCHANGED Contract!vars
    BY SMTT(30), <1>2 DEF BeginWave, erase_retirable, place, outcome_class,
       Contract!vars, IndInv, TypeOK
<1>3. CASE EndWave
    BY SMTT(30), <1>3 DEF EndWave, place, outcome_class, Contract!vars
<1>4. ASSUME NEW events, epoll_wait(events) PROVE UNCHANGED Contract!vars
    BY SMTT(30), <1>4 DEF epoll_wait, place, outcome_class, Contract!vars
<1>5. CASE AfterPoll
    BY SMTT(30), <1>5 DEF AfterPoll, erase_retirable, place, outcome_class,
       Contract!vars, IndInv, TypeOK
<1>6. CASE Ended \/ UNCHANGED vars
    BY SMTT(30), <1>6 DEF Ended, vars, place, outcome_class, Contract!vars
<1>7. CASE Check /\ UNCHANGED <<deckVars, execVars>>
    BY <1>7 DEF place, outcome_class, Contract!vars
<1>8. Check => BeginWave("top") \/ UNCHANGED <<deckVars, execVars>>
    BY SMTT(30) DEF Check
<1> QED
    BY SMTT(30), <1>1, <1>2, <1>3, <1>4, <1>5, <1>6, <1>7, <1>8
       DEF EndRound, Poll, PollEmpty, EndBatch

(* Nor registrations, stale events, retries and the kernel.                *)
LEMMA RecordSilent ==
    ASSUME IndInv, NEW e \in Execs, NEW k \in EventKinds,
           NEW how \in {"fired", "failed"}, NEW first \in BOOLEAN,
           \/ StageSubmitted(e) \/ StageThrows(e, first) \/ StaleEvent(e, k)
           \/ EventRearms(e, k) \/ EventThrows(e, k)
           \/ FdReady(e, how) \/ TimerFires(e)
    PROVE  UNCHANGED Contract!vars
<1> USE DEF place, outcome_class, Contract!vars, IndInv, TypeOK
<1>1. CASE StageSubmitted(e)
    BY SMTT(30), <1>1 DEF StageSubmitted
<1>2. CASE StageThrows(e, first)
    BY SMTT(30), <1>2 DEF StageThrows
<1>3. CASE StaleEvent(e, k)
    BY SMTT(30), <1>3 DEF StaleEvent
<1>4. CASE EventRearms(e, k)
    BY SMTT(30), <1>4 DEF EventRearms
<1>5. CASE EventThrows(e, k)
    BY SMTT(30), <1>5 DEF EventThrows
<1>6. CASE FdReady(e, how)
    BY SMTT(30), <1>6 DEF FdReady
<1>7. CASE TimerFires(e)
    BY <1>7 DEF TimerFires
<1> HIDE DEF place, outcome_class, Contract!vars, IndInv, TypeOK
<1> QED
    BY SMTT(30), <1>1, <1>2, <1>3, <1>4, <1>5, <1>6, <1>7

(* A stop is the contract's RequestStop, or StopAndSettle when cancel      *)
(* settles the submitted wish inline.                                      *)
LEMMA StopStep ==
    ASSUME IndInv, NEW u \in Tasks, RequestStop(u)
    PROVE  Contract!Next
<1> DEFINE armed == {e \in Execs : Parked(e) /\ waiter[e] = u}
           inline == inline_cancelled(armed)
<1>1. CASE inline = {}
    <2>1. place' = place /\ outcome_class' = outcome_class
        BY SMTT(30), <1>1 DEF RequestStop, place, outcome_class, IndInv, TypeOK
    <2>2. Contract!RequestStop(u)
        BY ZenonT(30), <2>1 DEF RequestStop, Contract!RequestStop
    <2> QED
        BY <2>2 DEF Contract!Next
<1>2. CASE inline # {}
    <2>1. PICK e \in Execs : e \in inline
        BY SMTT(30), <1>2 DEF inline_cancelled
    <2>2. armed = {e} /\ inline = {e} /\ waiter[e] = u
        BY SMTT(30), <2>1 DEF inline_cancelled, IndInv, PlaceInv
    <2>3. /\ result' = [result EXCEPT ![waiter[e]] = "cancelled"]
          /\ finished' = finished /\ stopped' = stopped \cup {u}
        BY ZenonT(30), <2>2 DEF RequestStop
    <2>4. Unparks(e)
        BY ZenonT(30), <2>2 DEF RequestStop, Unparks, IndInv, TypeOK, inline_cancelled
    <2>5. /\ place[u] = "parked" /\ place' = [place EXCEPT ![u] = "deck"]
          /\ outcome_class' = [outcome_class EXCEPT ![u] = class("cancelled")]
        BY ZenonT(30), <2>2, <2>3, <2>4, Unparked
    <2>6. Contract!StopAndSettle(u)
        BY SMTT(30), <2>3, <2>5 DEF Contract!StopAndSettle, class
    <2> QED
        BY SMTT(30), <2>6 DEF Contract!Next
<1> QED
    BY SMTT(30), <1>1, <1>2

(* The turns of a task are the contract's Await, Finish and stops.         *)
LEMMA TurnStep ==
    ASSUME IndInv, Turn
    PROVE  [Contract!Next]_(Contract!vars)
<1>1. PICK t \in Tasks : \/ \E e \in Execs, k \in Kinds : AwaitWish(t, e, k)
                        \/ Yield(t) \/ FinishTask(t) \/ RequestStop(t)
    BY DEF Turn
<1>2. ASSUME NEW e \in Execs, NEW k \in Kinds, AwaitWish(t, e, k)
      PROVE  Contract!Await(t)
    <2>1. place[t] = "deck"
        BY SMTT(30), <1>2 DEF AwaitWish, parked_phase, place, IndInv, PlaceInv
    <2>2. \A u \in Tasks \ {t} : /\ place'[u] = place[u]
                                /\ outcome_class'[u] = outcome_class[u]
        BY SMTT(30), <1>2 DEF AwaitWish, parked_phase, IndInv, TypeOK, place, outcome_class
    <2>3. place'[t] = "parked" /\ outcome_class'[t] = "none"
        BY SMTT(30), <1>2 DEF AwaitWish, parked_phase, IndInv, TypeOK, PlaceInv, place, outcome_class
    <2>4. place' = [place EXCEPT ![t] = "parked"]
        BY SMTT(30), <2>2, <2>3, Shapes, AtOneTask
    <2>5. outcome_class' = [outcome_class EXCEPT ![t] = "none"]
        BY SMTT(30), <2>2, <2>3, Shapes, AtOneTask
    <2> QED
        BY SMTT(30), <1>2, <2>1, <2>4, <2>5 DEF AwaitWish, parked_phase, Contract!Await
<1>3. CASE Yield(t)
    BY <1>3 DEF Yield, place, outcome_class, Contract!vars
<1>4. CASE FinishTask(t)
    <2>1. place[t] = "deck" /\ outcome_class' = outcome_class
        BY SMTT(30), <1>4 DEF FinishTask, place, outcome_class, IndInv, PlaceInv
    <2>2. \A u \in Tasks \ {t} : place'[u] = place[u]
        BY <1>4 DEF FinishTask, place
    <2>3. place'[t] = "finished"
        BY <1>4 DEF FinishTask, place
    <2>4. place' = [place EXCEPT ![t] = "finished"]
        BY <2>2, <2>3, Shapes, AtOneTask
    <2>5. Contract!Finish(t)
        BY <1>4, <2>1, <2>4 DEF FinishTask, Contract!Finish
    <2> QED
        BY SMTT(30), <2>5 DEF Contract!Next
<1>5. CASE RequestStop(t)
    BY <1>5, StopStep
<1> QED
    BY <1>1, <1>2, <1>3, <1>4, <1>5 DEF Contract!Next

(* Every step of the wand is a step of the contract or invisible to it.    *)
LEMMA StepRefines ==
    ASSUME IndInv, [Next]_vars
    PROVE  [Contract!Next]_(Contract!vars)
<1>1. ASSUME NEW e \in Execs, StageCancelled(e) PROVE Contract!Next
    <2>1. waiter[e] \in stopped
        BY SMTT(30), <1>1 DEF StageCancelled, IndInv, StopInv
    <2>2. Unparks(e) /\ settle(e, "cancelled")
        BY <1>1 DEF StageCancelled, settle, IndInv, TypeOK, Unparks
    <2> QED
        BY SMTT(30), <2>1, <2>2, SettleStep DEF Classes
<1>2. ASSUME NEW e \in Execs, NEW o \in {"value", "error"}, StageFinished(e, o)
      PROVE  Contract!Next
    <2>1. Unparks(e) /\ settle(e, o)
        BY <1>2 DEF StageFinished, settle, IndInv, TypeOK, Unparks
    <2>2. o \in Classes \cup {"bad_fd"} /\ o # "cancelled"
        BY DEF Classes
    <2> QED
        BY SMTT(30), <2>1, <2>2, SettleStep
<1>3. ASSUME NEW e \in Execs, NEW k \in EventKinds,
             NEW o \in {"value", "error", "bad_fd"}, EventFinishes(e, k, o)
      PROVE  Contract!Next
    <2>1. Unparks(e) /\ settle(e, o)
        BY <1>3 DEF EventFinishes, settle, IndInv, TypeOK, Unparks
    <2>2. o \in Classes \cup {"bad_fd"} /\ o # "cancelled"
        BY DEF Classes
    <2> QED
        BY SMTT(30), <2>1, <2>2, SettleStep
<1>4. CASE Turn
    BY <1>4, TurnStep
<1>5. CASE Stage
    BY ZenonT(30), <1>1, <1>2, <1>5, RecordSilent DEF Stage
<1>6. CASE handle_event
    BY ZenonT(30), <1>3, <1>6, RecordSilent DEF handle_event
<1>7. CASE Kernel
    BY ZenonT(30), <1>7, RecordSilent DEF Kernel
<1>8. CASE \/ Top \/ EndRound \/ EndWave \/ Poll \/ Check \/ Ended
           \/ UNCHANGED vars
    BY <1>8, DriverSilent
<1> QED
    BY SMTT(30), <1>4, <1>5, <1>6, <1>7, <1>8 DEF Next, Driver

(* The epoll wand implements the contract of wand.hpp: one settlement per  *)
(* await, the task requeued exactly then, and operation_cancelled only for *)
(* tasks that were asked to stop.                                          *)
THEOREM ImplementsContract == Spec => ContractSafety
<1>1. Init => Contract!Init
    BY DEF Init, Contract!Init, place, outcome_class
<1>2. IndInv /\ [Next]_vars => [Contract!Next]_(Contract!vars)
    BY StepRefines
<1> QED
    BY <1>1, <1>2, Invariance, PTL DEF Spec, ContractSafety, Contract!SafeSpec
=============================================================================
