-------------------------- MODULE UringWandProofs ---------------------------
(***************************************************************************)
(* The safety properties of UringWand for any tasks, any hub addresses and *)
(* any submission queue depth.  IndInv is inductive: one lemma per action  *)
(* of the driver and of the kernel, one step per conjunct.  The last part  *)
(* shows that every step is a step of WandContract or leaves it unchanged. *)
(***************************************************************************)
EXTENDS UringWand, TLAPS

USE DEF Parked, ParkedPhases, SettledPhases, CancelPhases, Kinds, Completed,
        OpStates, CanStates, Unsent, CancelUnsent, deckVars, execVars,
        pendVars, kernVars, root_done

(* The empty wand on a deck where every task is queued.                    *)
LEMMA InitInd == Init => IndInv
<1> SUFFICES ASSUME Init PROVE IndInv
    OBVIOUS
<1>1. TypeOK
    BY DEF Init, TypeOK
<1>2. PhaseInv
    BY DEF Init, PhaseInv
<1>3. PendingInv
    BY DEF Init, PendingInv
<1>4. PlaceInv
    BY DEF Init, PlaceInv
<1>5. ResultInv
    BY DEF Init, ResultInv, EffectIsDelivered
<1>6. WaitInv
    BY DEF Init, WaitInv, DriverNotStranded
<1> QED
    BY <1>1, <1>2, <1>3, <1>4, <1>5, <1>6 DEF IndInv

(* run_until_done's loop head: a round, or a poll when nothing is ready.   *)
LEMMA TopInd ==
    ASSUME IndInv,
           Top
    PROVE  IndInv'
<1> USE DEF Top
<1>1. TypeOK'
    BY DEF IndInv, TypeOK, PlaceInv
<1>2. PhaseInv'
    BY DEF IndInv, TypeOK, PhaseInv, PendingInv
<1>3. PendingInv'
    BY DEF IndInv, TypeOK, PhaseInv, PendingInv
<1>4. PlaceInv'
    BY DEF IndInv, TypeOK, PlaceInv, PendingInv
<1>5. ResultInv'
    BY DEF IndInv, TypeOK, PhaseInv, PlaceInv, ResultInv, EffectIsDelivered
<1>6. WaitInv'
    BY DEF IndInv, TypeOK, WaitInv, DriverNotStranded, PhaseInv, PendingInv
<1> HIDE DEF Top
<1> QED
    BY <1>1, <1>2, <1>3, <1>4, <1>5, <1>6 DEF IndInv

(* Parking a task takes a free record, which nothing names.                *)
LEMMA AwaitInd ==
    ASSUME IndInv, NEW t \in Tasks, NEW e \in Execs, NEW k \in Kinds,
           AwaitWish(t, e, k)
    PROVE  IndInv'
<1> USE DEF AwaitWish
<1>1. TypeOK'
    BY DEF IndInv, TypeOK, PlaceInv
<1>2. PhaseInv'
    BY DEF IndInv, TypeOK, PhaseInv, PendingInv
<1>3. PendingInv'
    BY DEF IndInv, TypeOK, PhaseInv, PendingInv
<1>4. PlaceInv'
    BY DEF IndInv, TypeOK, PlaceInv, PendingInv
<1>5. ResultInv'
    BY DEF IndInv, TypeOK, PhaseInv, PlaceInv, ResultInv, EffectIsDelivered
<1>6. WaitInv'
    BY DEF IndInv, TypeOK, WaitInv, DriverNotStranded, PhaseInv, PendingInv
<1> HIDE DEF AwaitWish
<1> QED
    BY <1>1, <1>2, <1>3, <1>4, <1>5, <1>6 DEF IndInv

(* A yielding task goes back to the ready queue.                           *)
LEMMA YieldInd ==
    ASSUME IndInv, NEW t \in Tasks,
           Yield(t)
    PROVE  IndInv'
<1> USE DEF Yield
<1>1. TypeOK'
    BY DEF IndInv, TypeOK, PlaceInv
<1>2. PhaseInv'
    BY DEF IndInv, TypeOK, PhaseInv, PendingInv
<1>3. PendingInv'
    BY DEF IndInv, TypeOK, PhaseInv, PendingInv
<1>4. PlaceInv'
    BY DEF IndInv, TypeOK, PlaceInv, PendingInv
<1>5. ResultInv'
    BY DEF IndInv, TypeOK, PhaseInv, PlaceInv, ResultInv, EffectIsDelivered
<1>6. WaitInv'
    BY DEF IndInv, TypeOK, WaitInv, DriverNotStranded, PhaseInv, PendingInv
<1> HIDE DEF Yield
<1> QED
    BY <1>1, <1>2, <1>3, <1>4, <1>5, <1>6 DEF IndInv

(* A finished task leaves the deck.                                        *)
LEMMA FinishInd ==
    ASSUME IndInv, NEW t \in Tasks,
           FinishTask(t)
    PROVE  IndInv'
<1> USE DEF FinishTask
<1>1. TypeOK'
    BY DEF IndInv, TypeOK, PlaceInv
<1>2. PhaseInv'
    BY DEF IndInv, TypeOK, PhaseInv, PendingInv
<1>3. PendingInv'
    BY DEF IndInv, TypeOK, PhaseInv, PendingInv
<1>4. PlaceInv'
    BY DEF IndInv, TypeOK, PlaceInv, PendingInv
<1>5. ResultInv'
    BY DEF IndInv, TypeOK, PhaseInv, PlaceInv, ResultInv, EffectIsDelivered
<1>6. WaitInv'
    BY DEF IndInv, TypeOK, WaitInv, DriverNotStranded, PhaseInv, PendingInv
<1> HIDE DEF FinishTask
<1> QED
    BY <1>1, <1>2, <1>3, <1>4, <1>5, <1>6 DEF IndInv

(* A stop request cancels the record its task is parked on.                *)
LEMMA StopInd ==
    ASSUME IndInv, NEW u \in Tasks,
           RequestStop(u)
    PROVE  IndInv'
<1> USE DEF RequestStop, cancelled_phase, records_needing_cancel
<1>1. TypeOK'
    BY DEF IndInv, TypeOK, PlaceInv
<1>2. PhaseInv'
    BY DEF IndInv, TypeOK, PhaseInv, PendingInv
<1>3. PendingInv'
    BY DEF IndInv, TypeOK, PhaseInv, PendingInv
<1>4. PlaceInv'
    BY DEF IndInv, TypeOK, PlaceInv, PendingInv
<1>5. ResultInv'
    BY DEF IndInv, TypeOK, PhaseInv, PlaceInv, ResultInv, EffectIsDelivered
<1>6. WaitInv'
    BY DEF IndInv, TypeOK, WaitInv, DriverNotStranded, PhaseInv, PendingInv
<1> HIDE DEF RequestStop, cancelled_phase, records_needing_cancel
<1> QED
    BY <1>1, <1>2, <1>3, <1>4, <1>5, <1>6 DEF IndInv

(* The round is over: swap the pending submissions out.                    *)
LEMMA EndRoundInd ==
    ASSUME IndInv,
           EndRound
    PROVE  IndInv'
<1> USE DEF EndRound, BeginWave
<1>1. TypeOK'
    BY DEF IndInv, TypeOK, PlaceInv
<1>2. PhaseInv'
    BY DEF IndInv, TypeOK, PhaseInv, PendingInv
<1>3. PendingInv'
    BY DEF IndInv, TypeOK, PhaseInv, PendingInv
<1>4. PlaceInv'
    BY DEF IndInv, TypeOK, PlaceInv, PendingInv
<1>5. ResultInv'
    BY DEF IndInv, TypeOK, PhaseInv, PlaceInv, ResultInv, EffectIsDelivered
<1>6. WaitInv'
    BY DEF IndInv, TypeOK, WaitInv, DriverNotStranded, PhaseInv, PendingInv
<1> HIDE DEF EndRound, BeginWave
<1> QED
    BY <1>1, <1>2, <1>3, <1>4, <1>5, <1>6 DEF IndInv

(* A wish cancelled before submission settles.                             *)
LEMMA StageCancelledInd ==
    ASSUME IndInv, NEW e \in Execs,
           StageCancelled(e)
    PROVE  IndInv'
<1> USE DEF StageCancelled, fulfill
<1>1. TypeOK'
    BY DEF IndInv, TypeOK, PlaceInv
<1>2. PhaseInv'
    BY DEF IndInv, TypeOK, PhaseInv, PendingInv
<1>3. PendingInv'
    BY DEF IndInv, TypeOK, PhaseInv, PendingInv
<1>4. PlaceInv'
    BY DEF IndInv, TypeOK, PlaceInv, PendingInv
<1>5. ResultInv'
    BY DEF IndInv, TypeOK, PhaseInv, PlaceInv, ResultInv, PendingInv,
           EffectIsDelivered
<1>6. WaitInv'
    BY DEF IndInv, TypeOK, WaitInv, DriverNotStranded, PhaseInv, PendingInv
<1> HIDE DEF StageCancelled, fulfill
<1> QED
    BY <1>1, <1>2, <1>3, <1>4, <1>5, <1>6 DEF IndInv

(* A wish that does not fit waits for a later wave.                        *)
LEMMA StageDeferredInd ==
    ASSUME IndInv, NEW e \in Execs,
           StageDeferred(e)
    PROVE  IndInv'
<1> USE DEF StageDeferred
<1>1. TypeOK'
    BY DEF IndInv, TypeOK, PlaceInv
<1>2. PhaseInv'
    BY DEF IndInv, TypeOK, PhaseInv, PendingInv
<1>3. PendingInv'
    BY DEF IndInv, TypeOK, PhaseInv, PendingInv
<1>4. PlaceInv'
    BY DEF IndInv, TypeOK, PlaceInv, PendingInv
<1>5. ResultInv'
    BY DEF IndInv, TypeOK, PhaseInv, PlaceInv, ResultInv, EffectIsDelivered
<1>6. WaitInv'
    BY DEF IndInv, TypeOK, WaitInv, DriverNotStranded, PhaseInv, PendingInv
<1> HIDE DEF StageDeferred
<1> QED
    BY <1>1, <1>2, <1>3, <1>4, <1>5, <1>6 DEF IndInv

(* A wish completed inside wave settles and is erased.                     *)
LEMMA StageSyncInd ==
    ASSUME IndInv, NEW e \in Execs, NEW o \in {"value", "error"},
           StageSync(e, o)
    PROVE  IndInv'
<1> USE DEF StageSync, fulfill, compact_execs
<1>1. TypeOK'
    BY DEF IndInv, TypeOK, PlaceInv
<1>2. PhaseInv'
    BY DEF IndInv, TypeOK, PhaseInv, PendingInv
<1>3. PendingInv'
    BY DEF IndInv, TypeOK, PhaseInv, PendingInv
<1>4. PlaceInv'
    BY SMTT(30) DEF IndInv, TypeOK, PlaceInv, PendingInv
<1>5. ResultInv'
    BY DEF IndInv, TypeOK, PhaseInv, PlaceInv, ResultInv, EffectIsDelivered
<1>6. WaitInv'
    BY DEF IndInv, TypeOK, WaitInv, DriverNotStranded, PhaseInv, PendingInv
<1> HIDE DEF StageSync, fulfill, compact_execs
<1> QED
    BY <1>1, <1>2, <1>3, <1>4, <1>5, <1>6 DEF IndInv

(* An operation gets its SQE.                                              *)
LEMMA StageSqeInd ==
    ASSUME IndInv, NEW e \in Execs,
           StageSqe(e)
    PROVE  IndInv'
<1> USE DEF StageSqe
<1>1. TypeOK'
    BY DEF IndInv, TypeOK, PlaceInv
<1>2. PhaseInv'
    BY DEF IndInv, TypeOK, PhaseInv, PendingInv
<1>3. PendingInv'
    BY DEF IndInv, TypeOK, PhaseInv, PendingInv
<1>4. PlaceInv'
    BY DEF IndInv, TypeOK, PlaceInv, PendingInv
<1>5. ResultInv'
    BY DEF IndInv, TypeOK, PhaseInv, PlaceInv, ResultInv, EffectIsDelivered
<1>6. WaitInv'
    BY DEF IndInv, TypeOK, WaitInv, DriverNotStranded, PhaseInv, PendingInv
<1> HIDE DEF StageSqe
<1> QED
    BY <1>1, <1>2, <1>3, <1>4, <1>5, <1>6 DEF IndInv

(* From staging submissions to staging cancellations.                      *)
LEMMA EndSubmissionsInd ==
    ASSUME IndInv,
           EndSubmissions
    PROVE  IndInv'
<1> USE DEF EndSubmissions
<1>1. TypeOK'
    BY DEF IndInv, TypeOK, PlaceInv
<1>2. PhaseInv'
    BY DEF IndInv, TypeOK, PhaseInv, PendingInv
<1>3. PendingInv'
    BY DEF IndInv, TypeOK, PhaseInv, PendingInv
<1>4. PlaceInv'
    BY DEF IndInv, TypeOK, PlaceInv, PendingInv
<1>5. ResultInv'
    BY DEF IndInv, TypeOK, PhaseInv, PlaceInv, ResultInv, EffectIsDelivered
<1>6. WaitInv'
    BY DEF IndInv, TypeOK, WaitInv, DriverNotStranded, PhaseInv, PendingInv
<1> HIDE DEF EndSubmissions
<1> QED
    BY <1>1, <1>2, <1>3, <1>4, <1>5, <1>6 DEF IndInv

(* A cancel request gets its SQE.                                          *)
LEMMA StageCancelSqeInd ==
    ASSUME IndInv, NEW e \in Execs,
           StageCancelSqe(e)
    PROVE  IndInv'
<1> USE DEF StageCancelSqe
<1>1. TypeOK'
    BY DEF IndInv, TypeOK, PlaceInv
<1>2. PhaseInv'
    BY DEF IndInv, TypeOK, PhaseInv, PendingInv
<1>3. PendingInv'
    BY DEF IndInv, TypeOK, PhaseInv, PendingInv
<1>4. PlaceInv'
    BY DEF IndInv, TypeOK, PlaceInv, PendingInv
<1>5. ResultInv'
    BY DEF IndInv, TypeOK, PhaseInv, PlaceInv, ResultInv, EffectIsDelivered
<1>6. WaitInv'
    BY DEF IndInv, TypeOK, WaitInv, DriverNotStranded, PhaseInv, PendingInv
<1> HIDE DEF StageCancelSqe
<1> QED
    BY <1>1, <1>2, <1>3, <1>4, <1>5, <1>6 DEF IndInv

(* A cancel request that does not fit waits for a later wave.              *)
LEMMA DeferCancelInd ==
    ASSUME IndInv, NEW e \in Execs,
           DeferCancel(e)
    PROVE  IndInv'
<1> USE DEF DeferCancel
<1>1. TypeOK'
    BY DEF IndInv, TypeOK, PlaceInv
<1>2. PhaseInv'
    BY DEF IndInv, TypeOK, PhaseInv, PendingInv
<1>3. PendingInv'
    BY DEF IndInv, TypeOK, PhaseInv, PendingInv
<1>4. PlaceInv'
    BY DEF IndInv, TypeOK, PlaceInv, PendingInv
<1>5. ResultInv'
    BY DEF IndInv, TypeOK, PhaseInv, PlaceInv, ResultInv, EffectIsDelivered
<1>6. WaitInv'
    BY DEF IndInv, TypeOK, WaitInv, DriverNotStranded, PhaseInv, PendingInv
<1> HIDE DEF DeferCancel
<1> QED
    BY <1>1, <1>2, <1>3, <1>4, <1>5, <1>6 DEF IndInv

(* The wave ends: erase settled records and submit.                        *)
LEMMA EndWaveInd ==
    ASSUME IndInv,
           EndWave
    PROVE  IndInv'
<1> USE DEF EndWave, compact_execs
<1>1. TypeOK'
    BY DEF IndInv, TypeOK, PlaceInv
<1>2. PhaseInv'
    BY DEF IndInv, TypeOK, PhaseInv, PendingInv
<1>3. PendingInv'
    BY DEF IndInv, TypeOK, PhaseInv, PendingInv
<1>4. PlaceInv'
    BY DEF IndInv, TypeOK, PlaceInv, PendingInv
<1>5. ResultInv'
    BY DEF IndInv, TypeOK, PhaseInv, PlaceInv, ResultInv, EffectIsDelivered
<1>6. WaitInv'
    BY DEF IndInv, TypeOK, WaitInv, DriverNotStranded, PhaseInv, PendingInv
<1> HIDE DEF EndWave, compact_execs
<1> QED
    BY <1>1, <1>2, <1>3, <1>4, <1>5, <1>6 DEF IndInv

(* A poll_until whose readiness vanished is queued again.                  *)
LEMMA RepollInd ==
    ASSUME IndInv, NEW e \in Execs,
           RepollProxy(e)
    PROVE  IndInv'
<1> USE DEF RepollProxy, compact_execs, AfterCqe
<1>1. TypeOK'
    BY DEF IndInv, TypeOK, PlaceInv
<1>2. PhaseInv'
    BY DEF IndInv, TypeOK, PhaseInv, PendingInv
<1>3. PendingInv'
    BY DEF IndInv, TypeOK, PhaseInv, PendingInv
<1>4. PlaceInv'
    BY DEF IndInv, TypeOK, PlaceInv, PendingInv
<1>5. ResultInv'
    BY DEF IndInv, TypeOK, PhaseInv, PlaceInv, ResultInv, EffectIsDelivered
<1>6. WaitInv'
    BY SMTT(30) DEF IndInv, TypeOK, WaitInv, DriverNotStranded, PhaseInv, PendingInv
<1> HIDE DEF RepollProxy, compact_execs, AfterCqe
<1> QED
    BY <1>1, <1>2, <1>3, <1>4, <1>5, <1>6 DEF IndInv

(* An operation's CQE settles its record.                                  *)
LEMMA HandleOpInd ==
    ASSUME IndInv, NEW e \in Execs, NEW r \in ProxyReports,
           NEW o \in {"value", "error", "cancelled"},
           handle_op_cqe(e, r, o)
    PROVE  IndInv'
<1> USE DEF handle_op_cqe, fulfill, compact_execs, settled_phase, AfterCqe
<1>1. TypeOK'
    BY DEF IndInv, TypeOK, PlaceInv
<1>2. PhaseInv'
    BY DEF IndInv, TypeOK, PhaseInv, PendingInv
<1>3. PendingInv'
    BY SMTT(30) DEF IndInv, TypeOK, PhaseInv, PendingInv
<1>4. PlaceInv'
    BY SMTT(30) DEF IndInv, TypeOK, PlaceInv, PendingInv
<1>5. ResultInv'
    BY DEF IndInv, TypeOK, PhaseInv, PlaceInv, ResultInv, EffectIsDelivered, op_outcomes, op_result,
           op_cancelled
<1>6. WaitInv'
    BY SMTT(30) DEF IndInv, TypeOK, WaitInv, DriverNotStranded, PhaseInv, PendingInv
<1> HIDE DEF handle_op_cqe, fulfill, compact_execs, settled_phase, AfterCqe
<1> QED
    BY <1>1, <1>2, <1>3, <1>4, <1>5, <1>6 DEF IndInv

(* A cancel's CQE lets its record retire, or leaves it to the operation.   *)
LEMMA HandleCancelInd ==
    ASSUME IndInv, NEW e \in Execs,
           handle_cancel_cqe(e)
    PROVE  IndInv'
<1> USE DEF handle_cancel_cqe, compact_execs, AfterCqe
<1>1. TypeOK'
    BY DEF IndInv, TypeOK, PlaceInv
<1>2. PhaseInv'
    BY SMTT(30) DEF IndInv, TypeOK, PhaseInv, PendingInv
<1>3. PendingInv'
    BY SMTT(30) DEF IndInv, TypeOK, PhaseInv, PendingInv
<1>4. PlaceInv'
    BY SMTT(30) DEF IndInv, TypeOK, PlaceInv, PendingInv
<1>5. ResultInv'
    BY SMTT(30) DEF IndInv, TypeOK, PhaseInv, PlaceInv, ResultInv, EffectIsDelivered
<1>6. WaitInv'
    BY DEF IndInv, TypeOK, WaitInv, DriverNotStranded, PhaseInv, PendingInv
<1> HIDE DEF handle_cancel_cqe, compact_execs, AfterCqe
<1> QED
    BY <1>1, <1>2, <1>3, <1>4, <1>5, <1>6 DEF IndInv

(* poll returns once no CQE is left.                                       *)
LEMMA EndPollInd ==
    ASSUME IndInv,
           EndPoll
    PROVE  IndInv'
<1> USE DEF EndPoll
<1>1. TypeOK'
    BY DEF IndInv, TypeOK, PlaceInv
<1>2. PhaseInv'
    BY DEF IndInv, TypeOK, PhaseInv, PendingInv
<1>3. PendingInv'
    BY DEF IndInv, TypeOK, PhaseInv, PendingInv
<1>4. PlaceInv'
    BY SMTT(30) DEF IndInv, TypeOK, PlaceInv, PendingInv
<1>5. ResultInv'
    BY DEF IndInv, TypeOK, PhaseInv, PlaceInv, ResultInv, EffectIsDelivered
<1>6. WaitInv'
    BY SMTT(30) DEF IndInv, TypeOK, WaitInv, DriverNotStranded, PhaseInv, PendingInv
<1> HIDE DEF EndPoll
<1> QED
    BY <1>1, <1>2, <1>3, <1>4, <1>5, <1>6 DEF IndInv

(* With nothing ready: a wave, a wait, or the deadlock error.              *)
LEMMA CheckInd ==
    ASSUME IndInv,
           Check
    PROVE  IndInv'
<1> USE DEF Check, BeginWave
<1>1. TypeOK'
    BY DEF IndInv, TypeOK, PlaceInv
<1>2. PhaseInv'
    BY DEF IndInv, TypeOK, PhaseInv, PendingInv
<1>3. PendingInv'
    BY SMTT(30) DEF IndInv, TypeOK, PhaseInv, PendingInv
<1>4. PlaceInv'
    BY SMTT(30) DEF IndInv, TypeOK, PlaceInv, PendingInv
<1>5. ResultInv'
    BY DEF IndInv, TypeOK, PhaseInv, PlaceInv, ResultInv, EffectIsDelivered
<1>6. WaitInv'
  <2>1. CASE ready # {} \/ root_done
    BY <2>1 DEF IndInv, WaitInv, DriverNotStranded
  <2>2. CASE ready = {} /\ ~root_done /\ has_pending_work
    BY <2>2 DEF IndInv, WaitInv, DriverNotStranded
  <2>3. CASE ready = {} /\ ~root_done /\ ~has_pending_work
    <3>1. pc' = (IF has_submitted_completions THEN "wait" ELSE "deadlock")
        BY SMTT(30), <2>3
    <3>2. PICK t \in Tasks : t \notin finished
        BY SMTT(30), <2>3 DEF IndInv, TypeOK, root_done
    <3>3. t \notin ready \cup round
        BY SMTT(30), <2>3 DEF IndInv, PlaceInv
    <3>4. PICK e \in Execs : Parked(e)
        BY SMTT(30), <3>2, <3>3 DEF IndInv, PlaceInv
    <3>5. status[e] # "queued"
        BY <2>3, <3>4 DEF IndInv, PendingInv, Unsent, has_pending_work
    <3>6. has_submitted_completions
        BY SMTT(30), <3>4, <3>5 DEF Parked, has_submitted_completions, is_submitted
    <3>7. status[e] # "cancel_queued" \/ op[e] # "none"
        BY SMTT(30), <2>3, <3>4 DEF IndInv, PendingInv, Unsent, has_pending_work
    <3>8. op[e] # "none" \/ can[e] # "none"
        BY SMTT(30), <3>4, <3>5, <3>7 DEF IndInv, PhaseInv, Parked, ParkedPhases
    <3> QED
        BY <2>3, <3>1, <3>6, <3>8 DEF WaitInv, DriverNotStranded, kernVars
  <2> QED
    BY <2>1, <2>2, <2>3
<1> HIDE DEF Check, BeginWave
<1> QED
    BY <1>1, <1>2, <1>3, <1>4, <1>5, <1>6 DEF IndInv

(* After a wave of deferred work: wait, or loop.                           *)
LEMMA Check2Ind ==
    ASSUME IndInv,
           Check2
    PROVE  IndInv'
<1> USE DEF Check2
<1>1. TypeOK'
    BY SMTT(30) DEF IndInv, TypeOK, PlaceInv
<1>2. PhaseInv'
    BY SMTT(30) DEF IndInv, TypeOK, PhaseInv, PendingInv
<1>3. PendingInv'
    BY SMTT(30) DEF IndInv, TypeOK, PhaseInv, PendingInv
<1>4. PlaceInv'
    BY SMTT(30) DEF IndInv, TypeOK, PlaceInv, PendingInv
<1>5. ResultInv'
    BY SMTT(30) DEF IndInv, TypeOK, PhaseInv, PlaceInv, ResultInv, EffectIsDelivered
<1>6. WaitInv'
    BY SMTT(30) DEF IndInv, TypeOK, WaitInv, DriverNotStranded, PhaseInv, PendingInv,
           PlaceInv, has_pending_work, has_submitted_completions, is_submitted
<1> HIDE DEF Check2
<1> QED
    BY <1>1, <1>2, <1>3, <1>4, <1>5, <1>6 DEF IndInv

(* The kernel completes an operation.                                      *)
LEMMA KernelCompleteInd ==
    ASSUME IndInv, NEW e \in Execs, NEW r \in Completed,
           KernelComplete(e, r)
    PROVE  IndInv'
<1> USE DEF KernelComplete
<1>1. TypeOK'
    BY ZenonT(30) DEF IndInv, TypeOK, PlaceInv
<1>2. PhaseInv'
    BY DEF IndInv, TypeOK, PhaseInv, PendingInv
<1>3. PendingInv'
    BY SMTT(30) DEF IndInv, TypeOK, PhaseInv, PendingInv
<1>4. PlaceInv'
    BY SMTT(30) DEF IndInv, TypeOK, PlaceInv, PendingInv
<1>5. ResultInv'
    BY SMTT(30) DEF IndInv, TypeOK, PhaseInv, PlaceInv, ResultInv, EffectIsDelivered
<1>6. WaitInv'
    BY SMTT(30) DEF IndInv, TypeOK, WaitInv, DriverNotStranded, PhaseInv, PendingInv
<1> HIDE DEF KernelComplete
<1> QED
    BY ZenonT(30), <1>1, <1>2, <1>3, <1>4, <1>5, <1>6 DEF IndInv

(* The kernel processes a cancel request.                                  *)
LEMMA KernelCancelInd ==
    ASSUME IndInv, NEW e \in Execs,
           KernelCancel(e)
    PROVE  IndInv'
<1> USE DEF KernelCancel
<1>1. TypeOK'
    BY SMTT(30) DEF IndInv, TypeOK, PlaceInv
<1>2. PhaseInv'
    BY SMTT(30) DEF IndInv, TypeOK, PhaseInv, PendingInv
<1>3. PendingInv'
    BY SMTT(30) DEF IndInv, TypeOK, PhaseInv, PendingInv
<1>4. PlaceInv'
    BY SMTT(30) DEF IndInv, TypeOK, PlaceInv, PendingInv
<1>5. ResultInv'
    BY SMTT(30) DEF IndInv, TypeOK, PhaseInv, PlaceInv, ResultInv, EffectIsDelivered
<1>6. WaitInv'
    BY DEF IndInv, TypeOK, WaitInv, DriverNotStranded, PhaseInv, PendingInv
<1> HIDE DEF KernelCancel
<1> QED
    BY <1>1, <1>2, <1>3, <1>4, <1>5, <1>6 DEF IndInv

(* Every step of the driver and of the kernel preserves the invariant.     *)
LEMMA NextInd == IndInv /\ [Next]_vars => IndInv'
<1> SUFFICES ASSUME IndInv, [Next]_vars PROVE IndInv'
    OBVIOUS
<1>1. CASE Turn
    BY <1>1, AwaitInd, YieldInd, FinishInd, StopInd DEF Turn
<1>2. CASE Stage
    BY <1>2, StageCancelledInd, StageDeferredInd, StageSyncInd, StageSqeInd,
       StageCancelSqeInd, DeferCancelInd DEF Stage
<1>3. CASE Handle
    BY <1>3, RepollInd, HandleOpInd, HandleCancelInd DEF Handle
<1>4. CASE Kernel
    BY SMTT(30), <1>4, KernelCompleteInd, KernelCancelInd DEF Kernel
<1>5. CASE Ended \/ UNCHANGED vars
    BY <1>5 DEF Ended, vars, IndInv, TypeOK, PhaseInv, PendingInv, PlaceInv,
       ResultInv, EffectIsDelivered, WaitInv, DriverNotStranded
<1>6. CASE Top \/ EndRound \/ EndSubmissions \/ EndWave \/ EndPoll \/ Check
             \/ Check2
    BY <1>6, TopInd, EndRoundInd, EndSubmissionsInd, EndWaveInd, EndPollInd,
       CheckInd, Check2Ind
<1> QED
    BY <1>1, <1>2, <1>3, <1>4, <1>5, <1>6 DEF Next, Driver

(* The inductive invariant holds in every reachable state of the wand.     *)
THEOREM Invariance == Spec => []IndInv
    BY InitInd, NextInd, PTL DEF Spec

(* What the invariant says of the wand: its state is well typed, no held   *)
(* pointer names an erased record (compact_execs), no task is lost or in   *)
(* two places, a completed wish is never reported as cancelled             *)
(* (handle_op_cqe), and run_until_done neither reports a false deadlock    *)
(* nor blocks with nothing outstanding.                                    *)
LEMMA IndImplies ==
    IndInv => /\ TypeOK /\ NoDanglingRecord /\ TaskInOnePlace
              /\ EffectIsDelivered /\ DriverNotStranded
<1> SUFFICES ASSUME IndInv
             PROVE  /\ TypeOK /\ NoDanglingRecord /\ TaskInOnePlace
                    /\ EffectIsDelivered /\ DriverNotStranded
    OBVIOUS
<1>1. TypeOK /\ EffectIsDelivered /\ DriverNotStranded
    BY DEF IndInv, ResultInv, WaitInv
<1>2. NoDanglingRecord
    BY SMTT(30) DEF IndInv, NoDanglingRecord, PhaseInv, PendingInv
<1>3. TaskInOnePlace
    BY DEF IndInv, TypeOK, TaskInOnePlace, PlaceInv
<1> QED
    BY <1>1, <1>2, <1>3

(* compact_execs and the paths that settle a record never leave a pointer  *)
(* to an erased one in the wand or in the kernel.                          *)
THEOREM RecordsNeverDangle == Spec => []NoDanglingRecord
    BY Invariance, IndImplies, PTL

(* suspend, settle and need::resume keep every unfinished task in exactly  *)
(* one place.                                                              *)
THEOREM TasksInOnePlace == Spec => []TaskInOnePlace
    BY Invariance, IndImplies, PTL

(* handle_op_cqe never hides an operation's success behind a cancellation. *)
THEOREM EffectsDelivered == Spec => []EffectIsDelivered
    BY Invariance, IndImplies, PTL

(* run_until_done throws its deadlock error, or blocks, only when it may.  *)
THEOREM DriverNeverStranded == Spec => []DriverNotStranded
    BY Invariance, IndImplies, PTL

(* The wand's variables stay within their types.                           *)
THEOREM TypeCorrect == Spec => []TypeOK
    BY Invariance, IndImplies, PTL

-----------------------------------------------------------------------------
(* Implementation of WandContract                                          *)

(* Where the contract sees a task, read off the wand's state.              *)
LEMMA PlaceOf ==
    ASSUME IndInv, NEW t \in Tasks
    PROVE  /\ place[t] = "finished" <=> t \in finished
           /\ place[t] = "deck" <=> t \in ready \cup round
           /\ place[t] = "parked" <=> \E e \in Execs : Parked(e) /\ waiter[e] = t
    BY DEF IndInv, PlaceInv, place

(* `place` is a function on Tasks, before and after a step: what a step    *)
(* changes at one task only is an EXCEPT.                                  *)
LEMMA PlaceFcn ==
    ASSUME NEW t \in Tasks, NEW v, place'[t] = v,
           \A u \in Tasks \ {t} : place'[u] = place[u]
    PROVE  place' = [place EXCEPT ![t] = v]
<1> DEFINE f == place
           g == place'
<1>1. f = [u \in Tasks |-> f[u]] /\ g = [u \in Tasks |-> g[u]]
    BY DEF place
<1> HIDE DEF f, g
<1>2. \A u \in Tasks \ {t} : g[u] = f[u]
    BY DEF f, g
<1>3. g[t] = v
    BY DEF g
<1>4. g = [f EXCEPT ![t] = v]
    BY <1>1, <1>2, <1>3
<1> QED
    BY <1>4 DEF f, g

(* The step takes record e, and no other, out of the parked phases.        *)
Unparks(e) ==
    /\ Parked(e) /\ status'[e] \notin ParkedPhases
    /\ \A d \in Execs \ {e} :
         /\ status'[d] \in ParkedPhases <=> Parked(d)
         /\ Parked(d) => waiter'[d] = waiter[d]

(* A step that settles a record is the contract's Settle for its task.     *)
LEMMA SettleStep ==
    ASSUME IndInv, NEW e \in Execs, NEW o \in {"value", "error", "cancelled"},
           Unparks(e), fulfill(e, o), o = "cancelled" => waiter[e] \in stopped
    PROVE  Contract!Next
<1> USE DEF Unparks
<1> DEFINE t == waiter[e]
<1>1. t \in Tasks /\ t \notin finished /\ place[t] = "parked"
    BY DEF IndInv, PlaceInv, place
<1>2. place' = [place EXCEPT ![t] = "deck"]
    <2>1. \A u \in Tasks \ {t} : place'[u] = place[u]
        BY SMTT(30) DEF place, fulfill
    <2>2. place'[t] = "deck"
        BY SMTT(30), <1>1 DEF IndInv, PlaceInv, place, fulfill
    <2> QED
        BY SMTT(30), <1>1, <2>1, <2>2, PlaceFcn
<1>3. Contract!Settle(t, o)
    BY <1>1, <1>2 DEF Contract!Settle, fulfill
<1> HIDE DEF Unparks
<1> QED
    BY SMTT(30), <1>1, <1>3 DEF Contract!Next, Contract!Outcomes

(* The contract does not see the steps that neither start, end nor settle  *)
(* a turn of a task.                                                       *)
LEMMA DriverSilent ==
    ASSUME IndInv, Top \/ EndRound \/ EndSubmissions \/ EndWave \/ EndPoll
                   \/ Check \/ Check2 \/ Ended \/ UNCHANGED vars
    PROVE  UNCHANGED Contract!vars
<1>1. CASE Top
    BY SMTT(30), <1>1 DEF Top, place, Contract!vars, IndInv, TypeOK
<1>2. CASE EndRound
    BY SMTT(30), <1>2 DEF EndRound, BeginWave, place, Contract!vars, IndInv, TypeOK
<1>3. CASE EndSubmissions
    BY SMTT(30), <1>3 DEF EndSubmissions, place, Contract!vars, IndInv, TypeOK
<1>4. CASE EndWave
    BY SMTT(30), <1>4 DEF EndWave, compact_execs, place, Contract!vars, IndInv, TypeOK
<1>5. CASE EndPoll
    BY SMTT(30), <1>5 DEF EndPoll, place, Contract!vars, IndInv, TypeOK
<1>6. CASE Check
    BY SMTT(30), <1>6 DEF Check, BeginWave, place, Contract!vars, IndInv, TypeOK
<1>7. CASE Check2
    BY SMTT(30), <1>7 DEF Check2, place, Contract!vars, IndInv, TypeOK
<1>8. CASE Ended \/ UNCHANGED vars
    BY <1>8 DEF Ended, vars, place, Contract!vars, IndInv, TypeOK
<1> QED
    BY SMTT(30), <1>1, <1>2, <1>3, <1>4, <1>5, <1>6, <1>7, <1>8

(* Nor the steps that stage, defer or cancel, and those of the kernel.     *)
LEMMA RecordSilent ==
    ASSUME IndInv, NEW e \in Execs, NEW r \in Completed,
           \/ StageDeferred(e) \/ StageSqe(e) \/ StageCancelSqe(e)
           \/ DeferCancel(e) \/ RepollProxy(e) \/ handle_cancel_cqe(e)
           \/ KernelComplete(e, r) \/ KernelCancel(e)
    PROVE  UNCHANGED Contract!vars
<1>1. CASE StageDeferred(e)
    BY SMTT(30), <1>1 DEF StageDeferred, place, Contract!vars,
       IndInv, TypeOK
<1>2. CASE StageSqe(e)
    BY SMTT(30), <1>2 DEF StageSqe, place, Contract!vars,
       IndInv, TypeOK
<1>3. CASE StageCancelSqe(e)
    BY SMTT(30), <1>3 DEF StageCancelSqe, place, Contract!vars,
       IndInv, TypeOK
<1>4. CASE DeferCancel(e)
    BY SMTT(30), <1>4 DEF DeferCancel, place, Contract!vars,
       IndInv, TypeOK
<1>5. CASE RepollProxy(e)
    BY SMTT(30), <1>5 DEF RepollProxy, compact_execs, AfterCqe, place, Contract!vars,
       IndInv, TypeOK
<1>6. CASE handle_cancel_cqe(e)
    BY SMTT(30), <1>6 DEF handle_cancel_cqe, compact_execs, AfterCqe, place, Contract!vars,
       IndInv, TypeOK
<1>7. CASE KernelComplete(e, r)
    BY SMTT(30), <1>7 DEF KernelComplete, place, Contract!vars,
       IndInv, TypeOK
<1>8. CASE KernelCancel(e)
    BY <1>8 DEF KernelCancel, place, Contract!vars,
       IndInv, TypeOK
<1> QED
    BY SMTT(30), <1>1, <1>2, <1>3, <1>4, <1>5, <1>6, <1>7, <1>8

(* The turns of a task are the contract's Await, Finish and RequestStop.   *)
LEMMA TurnStep ==
    ASSUME IndInv, Turn
    PROVE  [Contract!Next]_(Contract!vars)
<1>1. PICK t \in Tasks : \/ \E e \in Execs, k \in Kinds : AwaitWish(t, e, k)
                        \/ Yield(t) \/ FinishTask(t) \/ RequestStop(t)
    BY DEF Turn
<1>2. ASSUME NEW e \in Execs, NEW k \in Kinds, AwaitWish(t, e, k)
      PROVE  Contract!Await(t)
    <2>1. place[t] = "deck"
        BY SMTT(30), <1>2, PlaceOf DEF AwaitWish
    <2>2. \A u \in Tasks \ {t} : place'[u] = place[u]
        BY SMTT(30), <1>2 DEF AwaitWish, IndInv, TypeOK, place
    <2>3. place'[t] = "parked"
        BY <1>2 DEF AwaitWish, IndInv, TypeOK, PlaceInv, place
    <2>4. place' = [place EXCEPT ![t] = "parked"]
        BY SMTT(30), <2>2, <2>3, PlaceFcn
    <2> QED
        BY <1>2, <2>1, <2>4 DEF AwaitWish, Contract!Await
<1>3. CASE Yield(t)
    BY <1>3 DEF Yield, place, Contract!vars
<1>4. CASE FinishTask(t)
    <2>1. place[t] = "deck"
        BY ZenonT(30), <1>4, PlaceOf DEF FinishTask
    <2>2. place' = [place EXCEPT ![t] = "finished"]
        <3>1. \A u \in Tasks \ {t} : place'[u] = place[u]
            BY <1>4 DEF FinishTask, place
        <3>2. place'[t] = "finished"
            BY <1>4 DEF FinishTask, place
        <3> QED
            BY <3>1, <3>2, PlaceFcn
    <2>3. Contract!Finish(t)
        BY <1>4, <2>1, <2>2 DEF FinishTask, Contract!Finish
    <2> QED
        BY SMTT(30), <2>3 DEF Contract!Next
<1>5. CASE RequestStop(t)
    <2>1. place' = place
        BY SMTT(30), <1>5 DEF RequestStop, cancelled_phase, IndInv, TypeOK, place
    <2>2. Contract!RequestStop(t)
        BY ZenonT(30), <1>5, <2>1 DEF RequestStop, Contract!RequestStop
    <2> QED
        BY SMTT(30), <2>2 DEF Contract!Next
<1> QED
    BY <1>1, <1>2, <1>3, <1>4, <1>5 DEF Contract!Next

(* Every step of the wand is a step of the contract or invisible to it.    *)
LEMMA StepRefines ==
    ASSUME IndInv, [Next]_vars
    PROVE  [Contract!Next]_(Contract!vars)
<1>1. ASSUME NEW e \in Execs, StageCancelled(e) PROVE Contract!Next
    <2>1. waiter[e] \in stopped
        BY SMTT(30), <1>1 DEF StageCancelled, IndInv, ResultInv
    <2>2. Unparks(e)
        BY <1>1 DEF StageCancelled, IndInv, TypeOK, Unparks
    <2> QED
        BY SMTT(30), <1>1, <2>1, <2>2, SettleStep DEF StageCancelled
<1>2. ASSUME NEW e \in Execs, NEW o \in {"value", "error"}, StageSync(e, o)
      PROVE  Contract!Next
    <2>1. Unparks(e)
        BY <1>2 DEF StageSync, compact_execs, IndInv, TypeOK, Unparks
    <2>2. fulfill(e, o) /\ o # "cancelled" /\ o \in {"value", "error", "cancelled"}
        BY <1>2 DEF StageSync
    <2> QED
        BY SMTT(30), <2>1, <2>2, SettleStep
<1>3. ASSUME NEW e \in Execs, NEW r \in ProxyReports,
             NEW o \in {"value", "error", "cancelled"}, handle_op_cqe(e, r, o)
      PROVE  Contract!Next
    <2>1. o = "cancelled" => waiter[e] \in stopped
        BY SMTT(30), <1>3 DEF handle_op_cqe, op_outcomes, op_cancelled, IndInv, ResultInv
    <2>2. Unparks(e)
        BY SMTT(30), <1>3 DEF handle_op_cqe, settled_phase, compact_execs, IndInv, TypeOK,
           Unparks
    <2>3. fulfill(e, o)
        BY ZenonT(30), <1>3 DEF handle_op_cqe
    <2> QED
        BY SMTT(30), <1>3, <2>1, <2>2, <2>3, SettleStep
<1>4. CASE Turn
    BY <1>4, TurnStep
<1>5. CASE Stage
    BY <1>1, <1>2, <1>5, RecordSilent DEF Stage, Completed
<1>6. CASE Handle
    BY <1>3, <1>6, RecordSilent DEF Handle, Completed
<1>7. CASE Kernel
    BY <1>7, RecordSilent DEF Kernel, Completed
<1>8. CASE \/ Top \/ EndRound \/ EndSubmissions \/ EndWave \/ EndPoll
           \/ Check \/ Check2 \/ Ended \/ UNCHANGED vars
    BY <1>8, DriverSilent
<1> QED
    BY <1>4, <1>5, <1>6, <1>7, <1>8 DEF Next, Driver

(* The io_uring wand implements the contract of wand.hpp: every awaited    *)
(* wish is settled at most once per await, its task requeued exactly then, *)
(* and operation_cancelled reaches only tasks that were asked to stop.     *)
THEOREM ImplementsContract == Spec => ContractSafety
<1>1. Init => Contract!Init
    BY DEF Init, Contract!Init, place
<1>2. IndInv /\ [Next]_vars => [Contract!Next]_(Contract!vars)
    BY StepRefines
<1> QED
    BY <1>1, <1>2, Invariance, PTL DEF Spec, ContractSafety, Contract!SafeSpec
=============================================================================
