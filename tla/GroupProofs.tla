---------------------------- MODULE GroupProofs -----------------------------
(***************************************************************************)
(* Proofs about Group: the accounting of the countdown, draining before    *)
(* return, and which job's end a caller sees, for any number of jobs.      *)
(***************************************************************************)
EXTENDS Group, FiniteSetTheorems, TLAPS

USE DEF asked, stopping, parent_stopped, setup_failure, Done, Failed, Busy,
        Awaited

(* A subset of the jobs is finite and has at most N members.               *)
LEMMA JobSets ==
    ASSUME NEW S \in SUBSET Jobs
    PROVE  IsFiniteSet(S) /\ Cardinality(S) \in 0..N
<1>1. IsFiniteSet(Jobs) /\ Cardinality(Jobs) = N
  BY JobsAssumption, FS_Interval DEF Jobs
<1>2. IsFiniteSet(S) /\ Cardinality(S) <= N
  BY <1>1, FS_Subset
<1> QED
  BY <1>2, FS_CardinalityType, JobsAssumption

LEMMA InitInd == Init => IndInv
<1> SUFFICES ASSUME Init PROVE IndInv
  OBVIOUS
<1>1. TypeOK
  BY JobsAssumption DEF Init, TypeOK, NoResult, Flags, Modes
<1>2. Started = {}
  BY DEF Init, Started
<1>3. SetupInv /\ TriggerInv /\ StopInv /\ DrainsBeforeReturn
  BY <1>2
     DEF Init, NoResult, SetupInv, TriggerInv, StopInv, DrainsBeforeReturn
<1>4. LastArrivalWakes
  BY <1>2, FS_EmptySet DEF Init, LastArrivalWakes
<1>5. ResultIsTheTriggers /\ StopIsCancellation
  BY DEF Init, ResultIsTheTriggers, StopIsCancellation
<1> QED
  BY <1>1, <1>3, <1>4, <1>5 DEF IndInv

(* What a completion link's callback does, seen by the invariant.          *)
LEMMA CallbackFacts ==
    ASSUME IndInv, NEW i \in Jobs, NEW failed \in BOOLEAN,
           link_callback(i, failed)
    PROVE  /\ flags' \subseteq Flags /\ told' \subseteq Jobs /\ first' \in 0..N
           /\ flags \subseteq flags'
           /\ flags' \subseteq flags \cup {"stopping"}
           /\ told \subseteq told' /\ told' \subseteq told \cup (Started \ {i})
           /\ stopping => UNCHANGED first
           /\ ~stopping' => ~policy(i, failed) /\ UNCHANGED <<told, first>>
           /\ ~stopping /\ stopping' =>
                /\ policy(i, failed)
                /\ mode \in {"when_all", "wait_any"} => first' = i
                /\ mode \notin {"when_all", "wait_any"} => first' = first
<1>1. /\ N \in Nat /\ i \in 1..N /\ flags \subseteq Flags /\ told \subseteq Jobs
      /\ first \in 0..N
  BY JobsAssumption DEF IndInv, TypeOK, Jobs
<1>2. CASE triggers(i, failed)
  <2>1. /\ flags' = flags \cup {"stopping"}
        /\ told' = told \cup (Started \ {i})
        /\ first' = IF mode \in {"when_all", "wait_any"} THEN i ELSE first
        /\ ~stopping /\ policy(i, failed)
    BY <1>2 DEF link_callback, triggers, stoppable
  <2>2. stopping' /\ flags' \subseteq Flags
    BY <1>1, <2>1 DEF Flags
  <2>3. told' \subseteq Jobs
    BY ZenonT(30), <1>1, <2>1 DEF Started
  <2>7. first' \in 0..N
    <3>1. i \in 0..N
      BY <1>1
    <3> QED
      BY <1>1, <2>1, <3>1
  <2>4. flags \subseteq flags' /\ flags' \subseteq flags \cup {"stopping"}
    BY <2>1
  <2>5. told \subseteq told' /\ told' \subseteq told \cup (Started \ {i})
    BY <2>1
  <2>6. /\ mode \in {"when_all", "wait_any"} => first' = i
        /\ mode \notin {"when_all", "wait_any"} => first' = first
    BY <2>1
  <2> QED
    BY <2>1, <2>2, <2>3, <2>4, <2>5, <2>6, <2>7
<1>3. CASE ~triggers(i, failed)
  BY ZenonT(30), <1>1, <1>3 DEF link_callback, triggers
<1> QED
  BY <1>2, <1>3

LEMMA EnterInd == IndInv /\ Enter => IndInv'
<1> SUFFICES ASSUME IndInv, Enter PROVE IndInv'
  OBVIOUS
<1>1. Started' = Started /\ Started = {}
  BY DEF IndInv, SetupInv, Enter, Started
<1>2. TypeOK'
  <2>1. /\ told' \subseteq Jobs /\ flags' \subseteq Flags
        /\ pc' \in {"setup", "ended"}
    BY ZenonT(30), <1>1 DEF IndInv, TypeOK, Enter, stop_all, stoppable, Flags
  <2>2. result' = result \/ result' = [how |-> "setup", of |-> 0]
    BY DEF Enter, SetupError
  <2> QED
    BY <2>1, <2>2, JobsAssumption DEF IndInv, TypeOK, Enter
<1>3. CASE \E i \in Jobs : job[i] = "empty"
  <2>1. /\ pc' = "ended" /\ result' = SetupError /\ result'.how = "setup"
        /\ at' = at /\ job' = job /\ flags' = flags /\ told' = told
        /\ first' = first /\ mode' = mode /\ pending' = pending
    BY <1>3 DEF Enter, SetupError
  <2>2. SetupInv' /\ TriggerInv' /\ StopInv'
    BY <1>1, <2>1 DEF IndInv, SetupInv, TriggerInv, StopInv
  <2> QED
    BY <1>1, <1>2, <2>1, <2>2
       DEF IndInv, LastArrivalWakes, DrainsBeforeReturn,
           ResultIsTheTriggers, StopIsCancellation
<1>4. CASE ~\E i \in Jobs : job[i] = "empty"
  <2>1. at = 1 /\ at' = 1 /\ first' = 0 /\ pc' = "setup" /\ job' = job
    BY <1>4 DEF IndInv, SetupInv, Enter
  <2>2. \A i \in Jobs : ~(i < at')
    BY <2>1, JobsAssumption DEF Jobs
  <2>3. SetupInv'
    BY <1>1, <1>4, <2>1, <2>2 DEF SetupInv
  <2>4. TriggerInv' /\ StopInv'
    BY <1>1, <2>1, <2>2
       DEF IndInv, SetupInv, Enter, stop_all, TriggerInv, StopInv
  <2> QED
    BY <1>1, <1>2, <2>1, <2>3, <2>4
       DEF IndInv, Enter, LastArrivalWakes, DrainsBeforeReturn,
           ResultIsTheTriggers, StopIsCancellation
<1> QED
  BY <1>3, <1>4

LEMMA SkipsInd == IndInv /\ SetupSkips => IndInv'
<1> SUFFICES ASSUME IndInv, SetupSkips PROVE IndInv'
  OBVIOUS
<1>1. Started' = Started /\ at' = at + 1 /\ at \in 1..N
  BY JobsAssumption DEF IndInv, TypeOK, SetupSkips, Started
<1>2. TypeOK'
  BY <1>1, JobsAssumption DEF IndInv, TypeOK, SetupSkips
<1>3. SetupInv'
  BY <1>1, JobsAssumption DEF IndInv, SetupInv, SetupSkips, skips, Jobs
<1>4. TriggerInv' /\ StopInv'
  BY DEF IndInv, TriggerInv, StopInv, SetupSkips, skips
<1> QED
  BY <1>1, <1>2, <1>3, <1>4
     DEF IndInv, SetupSkips, LastArrivalWakes, DrainsBeforeReturn,
         ResultIsTheTriggers, StopIsCancellation

LEMMA FindsDoneInd == IndInv /\ SetupFindsDone => IndInv'
<1> SUFFICES ASSUME IndInv, SetupFindsDone PROVE IndInv'
  OBVIOUS
<1>1. /\ Started' = Started /\ at' = at + 1 /\ at \in Jobs /\ at \notin Started
      /\ pc = "setup" /\ pc' = "setup" /\ job' = job /\ mode' = mode
  BY JobsAssumption DEF IndInv, TypeOK, SetupFindsDone, Started, Jobs, Ends
<1>2. Failed(at) \in BOOLEAN /\ link_callback(at, Failed(at))
  BY DEF SetupFindsDone
<1>3. /\ flags' \subseteq Flags /\ told' \subseteq Jobs /\ first' \in 0..N
      /\ flags \subseteq flags'
      /\ flags' \subseteq flags \cup {"stopping"}
      /\ told' \subseteq told \cup (Started \ {at})
      /\ stopping => UNCHANGED first
      /\ ~stopping' => ~policy(at, Failed(at)) /\ UNCHANGED <<told, first>>
      /\ ~stopping /\ stopping' =>
            /\ policy(at, Failed(at))
            /\ mode \in {"when_all", "wait_any"} => first' = at
            /\ mode \notin {"when_all", "wait_any"} => first' = first
  BY ZenonT(30), <1>1, <1>2, CallbackFacts
<1>4. TypeOK'
  <2>1. at' \in 1..(N + 1)
    BY <1>1, JobsAssumption DEF Jobs
  <2> QED
    BY <1>1, <1>3, <2>1 DEF IndInv, TypeOK, SetupFindsDone
<1>5. SetupInv'
  BY <1>1, <1>3, JobsAssumption DEF IndInv, SetupInv, Jobs, SetupFindsDone, Ends
<1>6. TriggerInv'
  <2> USE DEF TriggerInv
  <2>1. Done(at) /\ at # 0 /\ TriggerInv
    BY <1>1, JobsAssumption DEF IndInv, SetupFindsDone, Jobs
  <2>2. CASE stopping
    BY <1>1, <1>3, <2>1, <2>2 DEF Started, Ends
  <2>3. CASE ~stopping /\ stopping'
    <3>1. first' = first \/ (first' = at /\ policy(at, Failed(at)))
      BY <1>3, <2>3
    <3>2. /\ first' # 0 => Done(first')
          /\ first' # 0 /\ mode = "when_all" => Failed(first')
          /\ first' # 0 /\ mode = "wait_any" => job[first'] = "ok"
      BY <2>1, <3>1 DEF policy, Ends
    <3>3. first' # 0 => first' \notin told'
      BY <1>3, <2>1, <2>3, <3>1
    <3> QED
      BY <1>1, <1>3, <2>1, <2>3, <3>2, <3>3
  <2>4. CASE ~stopping'
    <3>1. ~stopping /\ first' = first /\ ~policy(at, Failed(at))
      BY <1>3, <2>4
    <3>4. told' = {} /\ first' = 0
      BY <1>3, <2>1, <2>4, <3>1
    <3>2. \A i \in Jobs : i < at' => i < at \/ i = at
      BY <1>1, JobsAssumption DEF Jobs
    <3>3. \A i \in Jobs :
            /\ i < at' /\ mode = "when_all" => ~Failed(i)
            /\ i < at' /\ mode = "wait_any" => job[i] # "ok"
      BY <1>1, <2>1, <3>1, <3>2 DEF policy
    <3> QED
      BY <1>1, <2>4, <3>3, <3>4
  <2> QED
    BY <2>2, <2>3, <2>4
<1>7. StopInv'
  BY <1>1, <1>3 DEF IndInv, StopInv, SetupFindsDone
<1> QED
  BY <1>1, <1>4, <1>5, <1>6, <1>7
     DEF IndInv, SetupFindsDone, LastArrivalWakes, DrainsBeforeReturn,
         ResultIsTheTriggers, StopIsCancellation

LEMMA StartsInd == IndInv /\ SetupStarts => IndInv'
<1> SUFFICES ASSUME IndInv, SetupStarts PROVE IndInv'
  OBVIOUS
<1>1. /\ at \in Jobs /\ at \notin Started /\ at' = at + 1 /\ ~stopping
      /\ Started' = Started \cup {at} /\ pc = "setup" /\ pc' = "setup"
      /\ job' = [job EXCEPT ![at] = "started"] /\ job \in [Jobs -> JobStates]
      /\ flags' = flags /\ told' = told /\ first' = first /\ mode' = mode
      /\ result' = result
  BY JobsAssumption
     DEF IndInv, TypeOK, SetupInv, SetupStarts, skips, Started, Jobs, Ends
<1>2. pending' = Cardinality(Started') /\ pending' \in 0..N
  <2>1. IsFiniteSet(Started) /\ Cardinality(Started') \in 0..N
    BY <1>1, JobSets DEF Started
  <2>2. Cardinality(Started') = Cardinality(Started) + 1
    BY ZenonT(30), <1>1, <2>1, FS_AddElement
  <2> QED
    BY <2>1, <2>2 DEF IndInv, LastArrivalWakes, SetupStarts
<1>3. TypeOK'
  <2>1. at' \in 1..(N + 1)
    BY <1>1, JobsAssumption DEF Jobs
  <2>2. job' \in [Jobs -> JobStates]
    BY <1>1 DEF JobStates
  <2> QED
    BY <1>1, <1>2, <2>1, <2>2 DEF IndInv, TypeOK, SetupStarts
<1>4. \A i \in Jobs : i < at' => i < at \/ i = at
  BY <1>1, JobsAssumption DEF Jobs
<1>5. SetupInv'
  <2>1. \A i \in Jobs : i >= at' => i \notin Started'
    BY <1>1, JobsAssumption DEF IndInv, SetupInv, Jobs
  <2>2. \A i \in Jobs : job'[i] # "empty" /\ (i < at' /\ job'[i] = "lazy" => stopping')
    BY <1>1, <1>4 DEF IndInv, SetupInv
  <2> QED
    BY <1>1, <2>1, <2>2 DEF SetupInv
<1>6. TriggerInv'
  BY <1>1, <1>4 DEF IndInv, TriggerInv
<1> QED
  BY SMTT(30), <1>1, <1>2, <1>3, <1>5, <1>6
     DEF IndInv, LastArrivalWakes, DrainsBeforeReturn, StopInv,
         ResultIsTheTriggers, StopIsCancellation

LEMMA ThrowsInd == IndInv /\ SetupThrows => IndInv'
<1> SUFFICES ASSUME IndInv, SetupThrows PROVE IndInv'
  OBVIOUS
<1>1. /\ Started' = Started /\ at' = N + 1 /\ pc = "setup" /\ pc' = "setup"
      /\ flags' = flags \cup {"stopping"} \cup {"setup_failure"}
      /\ told' = told \cup Started /\ job' = job /\ first' = first /\ mode' = mode
      /\ ~stopping
  <2>1. Started' = Started
    BY DEF SetupThrows, Started
  <2>2. told' = told \cup Started
    BY JobsAssumption DEF SetupThrows, stop_all, stoppable, Started, Jobs
  <2> QED
    BY <2>1, <2>2 DEF SetupThrows, stop_all, skips
<1>2. TypeOK'
  <2>1. told' \subseteq Jobs /\ flags' \subseteq Flags
    BY <1>1 DEF IndInv, TypeOK, Started, Flags
  <2>2. at' \in 1..(N + 1)
    BY <1>1, JobsAssumption
  <2> QED
    BY <1>1, <2>1, <2>2 DEF IndInv, TypeOK, SetupThrows
<1>3. SetupInv'
  <2>1. \A i \in Jobs : ~(i >= at')
    BY <1>1, JobsAssumption DEF Jobs
  <2> QED
    BY <1>1, <2>1 DEF IndInv, SetupInv
<1>4. TriggerInv' /\ StopInv'
  BY <1>1 DEF IndInv, TriggerInv, StopInv, SetupThrows
<1> QED
  BY <1>1, <1>2, <1>3, <1>4
     DEF IndInv, SetupThrows, LastArrivalWakes, DrainsBeforeReturn,
         ResultIsTheTriggers, StopIsCancellation

LEMMA EndsInd == IndInv /\ SetupEnds => IndInv'
<1> SUFFICES ASSUME IndInv, SetupEnds PROVE IndInv'
  OBVIOUS
<1>1. /\ Started' = Started /\ pc = "setup" /\ at = N + 1 /\ at' = at
      /\ job' = job
  BY DEF SetupEnds, Started
<1>2. TypeOK'
  BY DEF IndInv, TypeOK, SetupEnds
<1>3. DrainsBeforeReturn'
  <2>1. IsFiniteSet(Started)
    BY JobSets DEF Started
  <2>2. pending = 0 => Started = {}
    BY ZenonT(30), <2>1, FS_EmptySet DEF IndInv, LastArrivalWakes
  <2> QED
    BY <1>1, <2>2 DEF SetupEnds, nothing_to_await, DrainsBeforeReturn
<1>4. LastArrivalWakes'
  BY <1>1 DEF IndInv, LastArrivalWakes, SetupEnds, nothing_to_await
<1>5. SetupInv' /\ TriggerInv' /\ StopInv'
  BY SMTT(30), <1>1 DEF IndInv, SetupInv, TriggerInv, StopInv, SetupEnds
<1> QED
  BY <1>1, <1>2, <1>3, <1>4, <1>5
     DEF IndInv, SetupEnds, ResultIsTheTriggers, StopIsCancellation

LEMMA JobEndsInd ==
    ASSUME NEW k \in Jobs, NEW end \in Ends
    PROVE  IndInv /\ JobEnds(k, end) => IndInv'
<1> SUFFICES ASSUME IndInv, JobEnds(k, end) PROVE IndInv'
  OBVIOUS
<1>1. /\ k \in Started /\ Started' = Started \ {k}
      /\ job' = [job EXCEPT ![k] = end] /\ job \in [Jobs -> JobStates]
      /\ pc = "waiting" /\ pc' = "waiting" /\ at = N + 1 /\ at' = at
      /\ mode' = mode /\ result' = result
  BY DEF IndInv, TypeOK, SetupInv, JobEnds, Started, Ends
<1>2. (end # "ok") \in BOOLEAN /\ link_callback(k, end # "ok")
  BY DEF JobEnds
<1>3. /\ flags' \subseteq Flags /\ told' \subseteq Jobs /\ first' \in 0..N
      /\ flags \subseteq flags'
      /\ flags' \subseteq flags \cup {"stopping"}
      /\ told' \subseteq told \cup (Started \ {k})
      /\ stopping => UNCHANGED first
      /\ ~stopping' => ~policy(k, end # "ok") /\ UNCHANGED <<told, first>>
      /\ ~stopping /\ stopping' =>
            /\ policy(k, end # "ok")
            /\ mode \in {"when_all", "wait_any"} => first' = k
            /\ mode \notin {"when_all", "wait_any"} => first' = first
  BY ZenonT(30), <1>2, CallbackFacts
<1>4. pending' = Cardinality(Started') /\ pending' \in 0..N /\ pending > 0
  <2>1. IsFiniteSet(Started) /\ Cardinality(Started') \in 0..N
    BY <1>1, JobSets DEF Started
  <2>2. Cardinality(Started') = Cardinality(Started) - 1
    BY ZenonT(30), <1>1, <2>1, FS_RemoveElement
  <2>3. pending' = pending - 1 /\ pending = Cardinality(Started)
    BY DEF IndInv, LastArrivalWakes, JobEnds, arrive
  <2>4. Cardinality(Started) \in Nat
    BY <2>1, FS_CardinalityType
  <2> QED
    BY <2>1, <2>2, <2>3, <2>4, JobsAssumption
<1>5. LastArrivalWakes'
  <2>1. waiter = "set" /\ pending \in 0..N /\ pending' = pending - 1
    BY <1>1, <1>4 DEF IndInv, TypeOK, LastArrivalWakes, JobEnds, arrive
  <2>2. (pending = 1) <=> (pending' = 0)
    BY <2>1, JobsAssumption
  <2> QED
    BY SMTT(30), <1>1, <1>4, <2>1, <2>2 DEF LastArrivalWakes, JobEnds, arrive
<1>6. TypeOK'
  <2>1. job' \in [Jobs -> JobStates]
    BY <1>1 DEF JobStates, Ends
  <2>2. waiter' \in {"none", "set", "queued"} /\ observed' = observed
    BY DEF IndInv, TypeOK, JobEnds, arrive
  <2> QED
    BY <1>1, <1>3, <1>4, <2>1, <2>2 DEF IndInv, TypeOK
<1>7. SetupInv'
  <2>1. \A i \in Jobs : job'[i] # "empty" /\ (job'[i] = "lazy" => job[i] = "lazy")
    BY <1>1 DEF IndInv, SetupInv, Ends
  <2> QED
    BY <1>1, <1>3, <2>1 DEF IndInv, SetupInv
<1>8. TriggerInv'
  <2> USE DEF TriggerInv
  <2>1. TriggerInv /\ job'[k] = end /\ k # 0
    BY <1>1, JobsAssumption DEF IndInv, Jobs
  <2>5. \A i \in Jobs : i # k => job'[i] = job[i]
    BY <1>1
  <2>6. first # 0 => first # k /\ first \in Jobs /\ job'[first] = job[first]
    <3>1. first # 0 => first \in Jobs
      BY JobsAssumption DEF IndInv, TypeOK, Jobs
    <3>2. first # 0 => first # k
      BY <1>1, <2>1 DEF Started, Ends
    <3> QED
      BY <2>5, <3>1, <3>2
  <2>2. CASE stopping
    <3>1. first' = first /\ stopping'
      BY <1>3, <2>2
    <3>2. first # 0 => first \notin told'
      BY <1>3, <2>1 DEF Started, Ends
    <3>3. parent_stopped \/ setup_failure => parent_stopped' \/ setup_failure'
      BY <1>3
    <3> QED
      BY <1>1, <2>1, <2>2, <2>6, <3>1, <3>2, <3>3
  <2>3. CASE ~stopping /\ stopping'
    <3>1. first = 0 /\ told = {}
      BY <2>1, <2>3
    <3>2. first' # 0 => first' = k /\ policy(k, end # "ok")
      BY <1>3, <2>3, <3>1
    <3>3. k \notin told'
      BY <1>3, <3>1
    <3>4. mode \in {"when_all", "wait_any"} => first' # 0
      BY <1>3, <2>1, <2>3
    <3>5. /\ mode = "when_all" /\ policy(k, end # "ok") => end # "ok"
          /\ mode = "wait_any" /\ policy(k, end # "ok") => end = "ok"
      BY DEF policy
    <3> QED
      BY <1>1, <2>1, <2>3, <3>2, <3>3, <3>4, <3>5 DEF Ends
  <2>4. CASE ~stopping'
    <3>1. ~stopping /\ ~policy(k, end # "ok")
      BY <1>3, <2>4
    <3>2. told' = {} /\ first' = 0
      BY <1>3, <2>1, <2>4, <3>1
    <3>3. \A i \in Jobs : i < at
      BY <1>1, JobsAssumption DEF Jobs
    <3>4. \A i \in Jobs :
            /\ mode = "when_all" => ~(job'[i] \in {"error", "cancelled"})
            /\ mode = "wait_any" => job'[i] # "ok"
      BY <1>1, <2>1, <2>5, <3>1, <3>3 DEF policy
    <3> QED
      BY <1>1, <2>4, <3>2, <3>4
  <2> QED
    BY <2>2, <2>3, <2>4
<1> QED
  BY SMTT(30), <1>1, <1>3, <1>5, <1>6, <1>7, <1>8
     DEF IndInv, DrainsBeforeReturn, StopInv, ResultIsTheTriggers,
         StopIsCancellation

LEMMA ParentStopInd == IndInv /\ ParentStop => IndInv'
<1> SUFFICES ASSUME IndInv, ParentStop PROVE IndInv'
  OBVIOUS
<1>1. /\ Started' = Started /\ pc = "waiting" /\ pc' = pc /\ at' = at
      /\ flags' = flags \cup {"stopping"} \cup {"asked", "parent_stopped"}
      /\ told' = told \cup Started /\ job' = job /\ first' = first /\ mode' = mode
  <2>1. Started' = Started
    BY DEF ParentStop, Started
  <2>2. told' = told \cup Started
    BY JobsAssumption
       DEF ParentStop, stop_callback, stop_all, stoppable, Started, Jobs
  <2> QED
    BY <2>1, <2>2 DEF ParentStop, stop_callback, stop_all
<1>2. TypeOK'
  <2>1. told' \subseteq Jobs /\ flags' \subseteq Flags
    BY <1>1 DEF IndInv, TypeOK, Started, Flags
  <2> QED
    BY <1>1, <2>1 DEF IndInv, TypeOK, ParentStop
<1>3. SetupInv' /\ StopInv'
  BY <1>1 DEF IndInv, SetupInv, StopInv
<1>4. TriggerInv'
  BY <1>1 DEF IndInv, TriggerInv, Started, Ends
<1> QED
  BY <1>1, <1>2, <1>3, <1>4
     DEF IndInv, ParentStop, LastArrivalWakes, DrainsBeforeReturn,
         ResultIsTheTriggers, StopIsCancellation

LEMMA ResumesInd == IndInv /\ WaiterResumes => IndInv'
<1> SUFFICES ASSUME IndInv, WaiterResumes PROVE IndInv'
  OBVIOUS
<1>1. Started' = Started /\ pc = "waiting" /\ pc' = "drained" /\ job' = job
  BY DEF WaiterResumes, Started
<1>2. Started = {}
  <2>1. IsFiniteSet(Started)
    BY JobSets DEF Started
  <2>2. Cardinality(Started) = 0
    BY DEF IndInv, LastArrivalWakes, WaiterResumes
  <2> QED
    BY <2>1, <2>2, FS_EmptySet
<1>3. TypeOK'
  BY DEF IndInv, TypeOK, WaiterResumes
<1>4. SetupInv' /\ TriggerInv' /\ StopInv'
  BY <1>1 DEF IndInv, SetupInv, TriggerInv, StopInv, WaiterResumes
<1> QED
  BY <1>1, <1>2, <1>3, <1>4
     DEF IndInv, WaiterResumes, LastArrivalWakes, DrainsBeforeReturn,
         ResultIsTheTriggers, StopIsCancellation

(* With nothing to blame for it a group that has ended did not stop, so    *)
(* every job was started and none is a trigger.                            *)
LEMMA QuietGroup ==
    ASSUME IndInv, Awaited, first = 0
    PROVE  /\ mode = "when_all" => \A i \in Jobs : job[i] = "ok"
           /\ mode = "wait_any" => \A i \in Jobs : Failed(i)
<1>1. mode \in {"when_all", "wait_any"} => ~stopping
  BY DEF IndInv, TriggerInv, StopInv
<1>2. \A i \in Jobs : i < at
  BY JobsAssumption DEF IndInv, SetupInv, Jobs
<1>3. \A i \in Jobs : job[i] \in JobStates /\ job[i] # "started"
  BY DEF IndInv, TypeOK, DrainsBeforeReturn, Started
<1>4. \A i \in Jobs :
        job[i] # "empty" /\ (mode \in {"when_all", "wait_any"} => job[i] # "lazy")
  BY <1>1, <1>2 DEF IndInv, SetupInv
<1>5. mode \in {"when_all", "wait_any"} => \A i \in Jobs : job[i] \in Ends
  BY <1>3, <1>4 DEF JobStates, Ends
<1>6. \A i \in Jobs :
        /\ mode = "when_all" => ~Failed(i)
        /\ mode = "wait_any" => job[i] # "ok"
  BY <1>1, <1>2 DEF IndInv, TriggerInv
<1> QED
  BY <1>5, <1>6 DEF Ends

LEMMA RunGroupReturnsInd == IndInv /\ RunGroupReturns => IndInv'
<1> SUFFICES ASSUME IndInv, RunGroupReturns PROVE IndInv'
  OBVIOUS
<1>1. /\ Started' = Started /\ pc = "drained" /\ pc' = "ended" /\ job' = job
      /\ mode' = mode /\ flags' = flags /\ told' = told /\ first' = first
      /\ at' = at /\ pending' = pending /\ waiter' = waiter
      /\ observed' = observed
  BY DEF RunGroupReturns, Started
<1>2. /\ result' \in {NoResult, SetupError, Cancelled}
      /\ result'.how = "none" => ~parent_stopped /\ ~setup_failure
  BY DEF RunGroupReturns, NoResult, SetupError, Cancelled
<1>5. result'.how = "cancelled" => asked
  BY DEF IndInv, StopInv, RunGroupReturns, NoResult, SetupError, Cancelled
<1>3. TypeOK'
  <2>1. result' \in [how : {"none", "setup", "cancelled"}, of : 0..N]
    BY <1>2, JobsAssumption DEF NoResult, SetupError, Cancelled
  <2> QED
    BY <1>1, <2>1 DEF IndInv, TypeOK
<1>4. SetupInv' /\ TriggerInv' /\ StopInv'
  BY <1>1, <1>2, <1>5 DEF IndInv, SetupInv, TriggerInv, StopInv
<1> QED
  BY <1>1, <1>3, <1>4
     DEF IndInv, LastArrivalWakes, DrainsBeforeReturn, ResultIsTheTriggers,
         StopIsCancellation

(* An error under way is a setup error or a cancellation; without one the  *)
(* group's task was not stopped in time.                                   *)
LEMMA UnderWay ==
    ASSUME IndInv, pc \in {"ended", "settled"}
    PROVE  /\ result # NoResult => result.how \in {"setup", "cancelled"}
           /\ result = NoResult => Awaited /\ ~asked
           /\ result.how = "cancelled" => asked
BY DEF IndInv, StopInv, NoResult, SetupError, Cancelled

LEMMA SettleReturnsInd == IndInv /\ SettleReturns => IndInv'
<1> SUFFICES ASSUME IndInv, SettleReturns PROVE IndInv'
  OBVIOUS
<1>1. /\ Started' = Started /\ pc = "ended" /\ job' = job
      /\ mode' = mode /\ flags' = flags /\ told' = told /\ first' = first
      /\ at' = at /\ pending' = pending /\ waiter' = waiter
      /\ observed' = observed
  BY DEF SettleReturns, Started
<1>2. CASE mode \in {"settle", "primary"}
  <2>1. pc' = "returned" /\ result' = IF result = NoResult THEN values ELSE result
    BY <1>2 DEF SettleReturns
  <2>2. TypeOK'
    <3>1. values \in [how : {"values"}, of : 0..N]
      BY JobsAssumption DEF values
    <3> QED
      BY <1>1, <2>1, <3>1 DEF IndInv, TypeOK
  <2>3. StopIsCancellation'
    <3>1. values.how = "values"
      BY DEF values
    <3> QED
      BY <1>1, <2>1, <3>1, UnderWay DEF StopIsCancellation
  <2>4. ResultIsTheTriggers'
    BY <1>1, <1>2 DEF ResultIsTheTriggers
  <2>5. SetupInv' /\ TriggerInv' /\ StopInv'
    BY <1>1, <2>1, <2>3
       DEF IndInv, SetupInv, TriggerInv, StopInv, StopIsCancellation
  <2> QED
    BY <1>1, <2>1, <2>2, <2>3, <2>4, <2>5
       DEF IndInv, LastArrivalWakes, DrainsBeforeReturn
<1>3. CASE mode \notin {"settle", "primary"}
  <2>1. pc' = "settled" /\ result' = result
    BY <1>3 DEF SettleReturns
  <2>2. TypeOK'
    BY <1>1, <2>1 DEF IndInv, TypeOK
  <2>3. mode \in {"when_all", "wait_any", "with_timeout"}
    BY <1>3 DEF IndInv, TypeOK, Modes
  <2>4. SetupInv' /\ TriggerInv' /\ StopInv'
    BY <1>1, <2>1, <2>3 DEF IndInv, SetupInv, TriggerInv, StopInv
  <2> QED
    BY <1>1, <2>1, <2>2, <2>4
       DEF IndInv, LastArrivalWakes, DrainsBeforeReturn, ResultIsTheTriggers,
           StopIsCancellation
<1> QED
  BY <1>2, <1>3

(* The caller's turn ends the call; only what is said of the result is new. *)
LEMMA CallerFrame ==
    ASSUME IndInv, CallerReturns, TypeOK', ResultIsTheTriggers',
           StopIsCancellation'
    PROVE  IndInv'
<1>1. /\ Started' = Started /\ pc = "settled" /\ pc' = "returned" /\ job' = job
      /\ mode' = mode /\ flags' = flags /\ told' = told /\ first' = first
      /\ at' = at /\ pending' = pending
  BY DEF CallerReturns, Started
<1>2. SetupInv' /\ TriggerInv' /\ StopInv'
  BY <1>1 DEF IndInv, SetupInv, TriggerInv, StopInv, StopIsCancellation
<1> QED
  BY <1>1, <1>2 DEF IndInv, LastArrivalWakes, DrainsBeforeReturn

LEMMA CallerReturnsInd == IndInv /\ CallerReturns => IndInv'
<1> SUFFICES ASSUME IndInv, CallerReturns PROVE IndInv'
  OBVIOUS
<1>1. /\ pc = "settled" /\ pc' = "returned" /\ job' = job /\ mode' = mode
      /\ flags' = flags /\ told' = told /\ first' = first
  BY DEF CallerReturns
<1>2. first \in 0..N /\ (first # 0 => first \in Jobs) /\ 0 \in 0..N
  BY JobsAssumption DEF IndInv, TypeOK, Jobs
<1>3. ASSUME result' \in [how : {"setup", "cancelled", "values", "value",
                                "throw", "group"}, of : 0..N]
      PROVE  TypeOK'
  BY <1>3 DEF IndInv, TypeOK, CallerReturns
<1>4. CASE result # NoResult
  <2>1. result' = result /\ result.how \in {"setup", "cancelled"}
    BY <1>1, <1>4, UnderWay DEF CallerReturns
  <2>2. TypeOK'
    BY <1>1, <2>1 DEF IndInv, TypeOK, CallerReturns
  <2>3. ResultIsTheTriggers' /\ StopIsCancellation'
    BY <1>1, <2>1, UnderWay DEF ResultIsTheTriggers, StopIsCancellation
  <2> QED
    BY <2>2, <2>3, CallerFrame
<1>5. CASE result = NoResult
  <2>1. Awaited /\ ~asked
    BY <1>1, <1>5, UnderWay
  <2>2. ASSUME result'.how # "cancelled" PROVE StopIsCancellation'
    BY <1>1, <2>1, <2>2 DEF StopIsCancellation
  <2>3. CASE mode = "when_all" /\ first # 0
    <3>1. result' = [how |-> "throw", of |-> first]
      BY <1>5, <2>3 DEF CallerReturns, when_all, throw
    <3>2. result'.how = "throw" /\ result'.of = first /\ TypeOK'
      BY <1>2, <1>3, <3>1
    <3>3. ResultIsTheTriggers'
      BY <1>1, <2>3, <3>2 DEF IndInv, TriggerInv, ResultIsTheTriggers
    <3> QED
      BY <2>2, <3>2, <3>3, CallerFrame
  <2>4. CASE mode = "when_all" /\ first = 0
    <3>1. \A i \in Jobs : job[i] = "ok"
      BY <2>1, <2>4, QuietGroup
    <3>2. {i \in Jobs : outcome(i) # "ok"} = {}
      BY <3>1 DEF outcome, Ends
    <3>3. result' = [how |-> "values", of |-> 0]
      BY <1>5, <2>4, <3>2 DEF CallerReturns, when_all, take_all, values
    <3>4. result'.how = "values" /\ TypeOK'
      BY <1>2, <1>3, <3>3
    <3>5. ResultIsTheTriggers'
      BY <1>1, <2>4, <3>1, <3>4 DEF ResultIsTheTriggers
    <3> QED
      BY <2>2, <3>4, <3>5, CallerFrame
  <2>5. CASE mode = "wait_any" /\ first # 0
    <3>1. job[first] = "ok" /\ first \notin told
      BY <2>5 DEF IndInv, TriggerInv
    <3>2. result' = [how |-> "value", of |-> first]
      BY <1>5, <2>5, <3>1 DEF CallerReturns, wait_any, outcome, value, Ends
    <3>3. result'.how = "value" /\ result'.of = first /\ TypeOK'
      BY <1>2, <1>3, <3>2
    <3>4. ResultIsTheTriggers'
      BY <1>1, <2>5, <3>1, <3>3 DEF ResultIsTheTriggers
    <3> QED
      BY <2>2, <3>3, <3>4, CallerFrame
  <2>6. CASE mode = "wait_any" /\ first = 0
    <3>1. \A i \in Jobs : Failed(i)
      BY <2>1, <2>6, QuietGroup
    <3>2. result' = [how |-> "group", of |-> 0]
      BY <1>5, <2>6 DEF CallerReturns, wait_any
    <3>3. result'.how = "group" /\ TypeOK'
      BY <1>2, <1>3, <3>2
    <3>4. ResultIsTheTriggers'
      BY <1>1, <2>6, <3>1, <3>3 DEF ResultIsTheTriggers
    <3> QED
      BY <2>2, <3>3, <3>4, CallerFrame
  <2>7. CASE mode = "with_timeout"
    <3>1. 1 \in 0..N /\ Timer \in 0..N
      <4>1. N = 2
        BY <2>7 DEF IndInv, TypeOK, Modes
      <4> QED
        BY <4>1 DEF Timer
    <3>2. result' \in {value(1), throw(1), throw(Timer)}
      BY <1>5, <2>7 DEF CallerReturns, with_timeout
    <3>3. TypeOK'
      BY <1>3, <3>1, <3>2 DEF value, throw
    <3>5. result'.how # "cancelled"
      BY <3>2 DEF value, throw
    <3>4. ResultIsTheTriggers'
      BY <1>1, <2>7 DEF ResultIsTheTriggers
    <3> QED
      BY <2>2, <3>3, <3>4, <3>5, CallerFrame
  <2> QED
    BY <1>1, <2>3, <2>4, <2>5, <2>6, <2>7 DEF IndInv, StopInv
<1> QED
  BY <1>4, <1>5

(* A stop that comes too late changes nothing the invariant speaks of.     *)
LEMMA LateStopInd == IndInv /\ LateStop => IndInv'
<1> SUFFICES ASSUME IndInv, LateStop PROVE IndInv'
  OBVIOUS
<1>1. /\ Started' = Started /\ pc' = pc /\ job' = job /\ mode' = mode
      /\ told' = told /\ first' = first /\ at' = at /\ pending' = pending
      /\ waiter' = waiter /\ observed' = observed /\ result' = result
  BY DEF LateStop, Started
<1>2. /\ flags' \subseteq Flags /\ asked' = asked /\ stopping' = stopping
      /\ parent_stopped' = parent_stopped /\ setup_failure' = setup_failure
  BY DEF IndInv, TypeOK, LateStop, Flags
<1>3. TypeOK'
  BY <1>1, <1>2 DEF IndInv, TypeOK
<1>4. SetupInv'
  BY <1>1, <1>2 DEF IndInv, SetupInv
<1>5. TriggerInv'
  BY <1>1, <1>2 DEF IndInv, TriggerInv
<1>6. StopInv'
  BY <1>1, <1>2 DEF IndInv, StopInv
<1> QED
  BY <1>1, <1>2, <1>3, <1>4, <1>5, <1>6
     DEF IndInv, LastArrivalWakes, DrainsBeforeReturn, ResultIsTheTriggers,
         StopIsCancellation

LEMMA NextInd == IndInv /\ [Next]_vars => IndInv'
<1> SUFFICES ASSUME IndInv, [Next]_vars PROVE IndInv'
  BY SMTT(30)
<1>1. CASE UNCHANGED vars
  <2>1. /\ Started' = Started /\ pc' = pc /\ job' = job /\ mode' = mode
        /\ told' = told /\ first' = first /\ at' = at /\ pending' = pending
        /\ waiter' = waiter /\ observed' = observed /\ result' = result
        /\ flags' = flags
    BY <1>1 DEF vars, Started
  <2>2. TypeOK'
    BY <2>1 DEF IndInv, TypeOK
  <2>3. SetupInv'
    BY <2>1 DEF IndInv, SetupInv
  <2>4. TriggerInv'
    BY <2>1 DEF IndInv, TriggerInv
  <2>5. StopInv'
    BY <2>1 DEF IndInv, StopInv
  <2> QED
    BY <2>1, <2>2, <2>3, <2>4, <2>5
       DEF IndInv, LastArrivalWakes, DrainsBeforeReturn, ResultIsTheTriggers,
           StopIsCancellation
<1>2. CASE GroupTurn
  BY <1>2, EnterInd, SkipsInd, FindsDoneInd, StartsInd, ThrowsInd, EndsInd,
     ResumesInd, RunGroupReturnsInd, SettleReturnsInd, CallerReturnsInd
     DEF GroupTurn
<1>3. CASE \E i \in Jobs, end \in Ends : JobEnds(i, end)
  BY <1>3, JobEndsInd
<1>4. CASE ParentStop \/ LateStop
  BY <1>4, ParentStopInd, LateStopInd
<1> QED
  BY <1>1, <1>2, <1>3, <1>4 DEF Next, Returned

(* The inductive invariant holds throughout every run of a group.          *)
THEOREM Invariance == Spec => []IndInv
BY InitInd, NextInd, PTL DEF Spec

(* Type correctness.                                                       *)
THEOREM TypeCorrect == Spec => []TypeOK
<1>1. IndInv => TypeOK
  BY DEF IndInv
<1> QED
  BY <1>1, Invariance, PTL

(* run_group returns only after every job it started has settled, for any  *)
(* number of jobs, any policy, any stop and any failure during setup.      *)
THEOREM GroupsDrain == Spec => []DrainsBeforeReturn
<1>1. IndInv => DrainsBeforeReturn
  BY DEF IndInv
<1> QED
  BY <1>1, Invariance, PTL

(* The countdown equals the number of running jobs, and a waiting group is *)
(* queued exactly when it has come to zero.                                *)
THEOREM LastArrivalIsNeverMissed == Spec => []LastArrivalWakes
<1>1. IndInv => LastArrivalWakes
  BY DEF IndInv
<1> QED
  BY <1>1, Invariance, PTL

(* when_all throws the failure that stopped it and wait_any returns the    *)
(* success that stopped it, never an end the group itself caused.          *)
THEOREM TriggersDecide == Spec => []ResultIsTheTriggers
<1>1. IndInv => ResultIsTheTriggers
  BY DEF IndInv
<1> QED
  BY <1>1, Invariance, PTL

(* A stop that comes before run_group's last turn ends the call as         *)
(* cancelled (or with its setup error), through the turns of run_group, of *)
(* settle and of the function built on it, for any number of jobs; and no  *)
(* call ends as cancelled for another reason, a later stop included.       *)
THEOREM StopsAreCancellations == Spec => []StopIsCancellation
<1>1. IndInv => StopIsCancellation
  BY DEF IndInv
<1> QED
  BY <1>1, Invariance, PTL
=============================================================================
