------------------------- MODULE CollectionCollectorProofs -------------------------
(*****************************************************************************)
(* The collector manager, the collectors and the samplers keep the inductive invariant. *)
(*****************************************************************************)
EXTENDS CollectionMethodProofs

\* A stop goes on to end the sampler, the others to the collector.
LEMMA LookupStep ==
    ASSUME IInv, NEW c \in Callers, Lookup(c)
    PROVE  IInv'
<1> USE CollectionAssumption, AllowedIn DEF IInv, Lookup, Goto, orchestratorVars,
       collectorVars,
         samplerVars, mutexes, shared, callVars
<1>1. TypeOK'
  BY DEF TypeOK, Labels, Threads, Calls, LifecycleAction, LifecycleState,
         TargetOperations, Control, ControlOf, ConfigureOps
<1>2. Control'
  BY DEF Control, ControlOf, TypeOK, Labels, StartOps, ConfigureOps,
         TargetOperations, BatchOperations, Claims
<1>3. Locks'
  BY DEF Locks, Control, ControlOf, TypeOK, In, Inside, Labels, StartOps,
         ConfigureOps, LockingOps, TargetOperations
<1>4. Known'
  BY DEF Known, KnownBy, Control, ControlOf, Claims, Locks, TypeOK, In, Inside,
         Labels, StartOps, ConfigureOps, RunningOps, LockingOps, TargetOperations,
         CollectorRuns, Running, LifecycleState
<1>5. Batches'
  BY DEF Batches, BatchOf, Control, ControlOf, Claims, Known, KnownBy, TypeOK, In,
         Inside, Labels, StartOps, ConfigureOps, RunningOps, Running,
         TargetOperations
<1>6. ActiveTargetsAreRunning'
  BY DEF ActiveTargetsAreRunning, CollectingIsTracked, Collecting, Known, KnownBy,
         Control, ControlOf, CollectorRuns, TypeOK, In, Inside, Labels, StartOps,
         ConfigureOps, RunningOps, Running, TargetOperations
<1>7. Claims' /\ SamplerIsOwned' /\ CollectingIsTracked' /\ PendingResetIsFresh' /\
      StartingIsTransient'
  BY DEF Claims, SamplerIsOwned, CollectingIsTracked, PendingResetIsFresh,
         StartingIsTransient, Collecting, CollectorRuns
<1> QED BY <1>1, <1>2, <1>3, <1>4, <1>5, <1>6, <1>7

\* The sampler is cancelled and not set again by another caller.
LEMMA CancelSamplerStep ==
    ASSUME IInv, NEW c \in Callers, CancelSampler(c)
    PROVE  IInv'
<1> USE CollectionAssumption, AllowedIn DEF IInv, CancelSampler, Goto,
       orchestratorVars, collectorVars,
         samplerVars, mutexes, shared, callVars
<1>1. TypeOK'
  BY DEF TypeOK, Labels, Threads, Calls, LifecycleAction, LifecycleState,
         TargetOperations, Control, ControlOf, ConfigureOps
<1>2. Control'
  BY DEF Control, ControlOf, TypeOK, Labels, StartOps, ConfigureOps,
         TargetOperations, BatchOperations, Claims
<1>3. Locks'
  BY DEF Locks, Control, ControlOf, TypeOK, In, Inside, Labels, StartOps,
         ConfigureOps, LockingOps, TargetOperations
<1>4. Known'
  BY DEF Known, KnownBy, Control, ControlOf, Claims, Locks, TypeOK, In, Inside,
         Labels, StartOps, ConfigureOps, RunningOps, LockingOps, TargetOperations,
         CollectorRuns, Running, LifecycleState
<1>5. Batches'
  BY DEF Batches, BatchOf, Control, ControlOf, Claims, Known, KnownBy, TypeOK, In,
         Inside, Labels, StartOps, ConfigureOps, RunningOps, Running,
         TargetOperations
<1>6. SamplerIsOwned'
  BY DEF SamplerIsOwned, Known, KnownBy, Control, ControlOf, CollectorRuns, TypeOK,
         In, Inside, Labels, StartOps, ConfigureOps, Running, TargetOperations
<1>7. ActiveTargetsAreRunning'
  BY DEF ActiveTargetsAreRunning, CollectingIsTracked, Collecting, Known, KnownBy,
         Control, ControlOf, CollectorRuns, TypeOK, In, Inside, Labels, StartOps,
         ConfigureOps, RunningOps, Running, TargetOperations
<1>8. Claims' /\ CollectingIsTracked' /\ PendingResetIsFresh' /\
      StartingIsTransient'
  BY DEF Claims, CollectingIsTracked, PendingResetIsFresh, StartingIsTransient,
         Collecting
<1> QED BY <1>1, <1>2, <1>3, <1>4, <1>5, <1>6, <1>7, <1>8

\* The sampler thread is gone.
LEMMA JoinSamplerStep ==
    ASSUME IInv, NEW c \in Callers, JoinSampler(c)
    PROVE  IInv'
<1> USE CollectionAssumption, AllowedIn DEF IInv, JoinSampler, Goto,
       orchestratorVars, collectorVars,
         samplerVars, mutexes, shared, callVars
<1>1. TypeOK'
  BY DEF TypeOK, Labels, Threads, Calls, LifecycleAction, LifecycleState,
         TargetOperations, Control, ControlOf, ConfigureOps
<1>2. Control'
  BY DEF Control, ControlOf, TypeOK, Labels, StartOps, ConfigureOps,
         TargetOperations, BatchOperations, Claims
<1>3. Locks'
  BY DEF Locks, Control, ControlOf, TypeOK, In, Inside, Labels, StartOps,
         ConfigureOps, LockingOps, TargetOperations
<1>4. Known'
  BY DEF Known, KnownBy, Control, ControlOf, Claims, Locks, TypeOK, In, Inside,
         Labels, StartOps, ConfigureOps, RunningOps, LockingOps, TargetOperations,
         CollectorRuns, Running, LifecycleState
<1>5. Batches'
  BY DEF Batches, BatchOf, Control, ControlOf, Claims, Known, KnownBy, TypeOK, In,
         Inside, Labels, StartOps, ConfigureOps, RunningOps, Running,
         TargetOperations
<1>6. ActiveTargetsAreRunning'
  BY DEF ActiveTargetsAreRunning, CollectingIsTracked, Collecting, Known, KnownBy,
         Control, ControlOf, CollectorRuns, TypeOK, In, Inside, Labels, StartOps,
         ConfigureOps, RunningOps, Running, TargetOperations
<1>7. Claims' /\ SamplerIsOwned' /\ CollectingIsTracked' /\ PendingResetIsFresh' /\
      StartingIsTransient'
  BY DEF Claims, SamplerIsOwned, CollectingIsTracked, PendingResetIsFresh,
         StartingIsTransient, Collecting, CollectorRuns
<1> QED BY <1>1, <1>2, <1>3, <1>4, <1>5, <1>6, <1>7

\* The mutex of the collector is taken by a caller whose call the collector admits.
LEMMA CollectorEnterStep ==
    ASSUME IInv, NEW c \in Callers, CollectorEnter(c)
    PROVE  IInv'
<1> USE CollectionAssumption, AllowedIn DEF IInv, CollectorEnter, Goto, Admits,
       Readable, orchestratorVars, collectorVars,
         samplerVars, mutexes, shared, callVars
<1>1. TypeOK'
  BY SMTT(60) DEF TypeOK, Labels, Threads, Calls, LifecycleAction, LifecycleState,
         TargetOperations, Control, ControlOf, ConfigureOps
<1>2. Control'
  BY DEF Control, ControlOf, TypeOK, Labels, StartOps, ConfigureOps,
         TargetOperations, BatchOperations, Claims
<1>3. Locks'
  BY DEF Locks, Control, ControlOf, TypeOK, In, Inside, Labels, StartOps,
         ConfigureOps, LockingOps, TargetOperations
<1>4. Known'
  BY DEF Known, KnownBy, Control, ControlOf, Claims, Locks, TypeOK, In, Inside,
         Labels, StartOps, ConfigureOps, RunningOps, LockingOps, TargetOperations,
         CollectorRuns, Running, LifecycleState
<1>5. Batches'
  BY DEF Batches, BatchOf, Control, ControlOf, Claims, Known, KnownBy, TypeOK, In,
         Inside, Labels, StartOps, ConfigureOps, RunningOps, Running,
         TargetOperations
<1>6. ActiveTargetsAreRunning'
  BY DEF ActiveTargetsAreRunning, CollectingIsTracked, Collecting, Known, KnownBy,
         Control, ControlOf, CollectorRuns, TypeOK, In, Inside, Labels, StartOps,
         ConfigureOps, RunningOps, Running, TargetOperations
<1>7. Claims' /\ SamplerIsOwned' /\ CollectingIsTracked' /\ PendingResetIsFresh' /\
      StartingIsTransient'
  BY DEF Claims, SamplerIsOwned, CollectingIsTracked, PendingResetIsFresh,
         StartingIsTransient, Collecting, CollectorRuns
<1> QED BY <1>1, <1>2, <1>3, <1>4, <1>5, <1>6, <1>7

\* The collector of a STARTING target runs, and its sampler with it.
LEMMA CollectorStartStep ==
    ASSUME IInv, NEW c \in Callers, CollectorStart(c)
    PROVE  IInv'
<1> USE CollectionAssumption, AllowedIn DEF IInv, CollectorStart, SetCollector,
       Acquires, Outcome, Leave, Goto, CanSink, orchestratorVars, collectorVars,
         samplerVars, mutexes, shared, callVars
<1>1. TypeOK'
  <2>1. collectorState' \in [Targets -> LifecycleState \ {"STARTING"}]
    <3>1. CASE UNCHANGED samplerVars
      BY <3>1 DEF TypeOK, Labels, Threads, Calls, LifecycleAction, LifecycleState,
             TargetOperations, Control, ControlOf, ConfigureOps
    <3>2. CASE sampler' = [sampler EXCEPT ![tgt[c]] = TRUE]
      BY SMTT(60), <3>2 DEF TypeOK, Labels, Threads, Calls, LifecycleAction, LifecycleState,
             TargetOperations, Control, ControlOf, ConfigureOps
    <3> QED BY <3>1, <3>2
  <2>2. sampler' \in [Targets -> BOOLEAN]
    <3>1. sampler' = sampler \/ sampler' = [sampler EXCEPT ![tgt[c]] = TRUE]
      OBVIOUS
    <3>2. sampler \in [Targets -> BOOLEAN]
      BY DEF TypeOK
    <3> QED BY ONLY <3>1, <3>2
  <2>3. samplerPaused' \in [Targets -> BOOLEAN]
    <3>1. samplerPaused' = samplerPaused \/ samplerPaused' = [samplerPaused EXCEPT
          ![tgt[c]] = FALSE]
      OBVIOUS
    <3>2. samplerPaused \in [Targets -> BOOLEAN]
      BY DEF TypeOK
    <3> QED BY ONLY <3>1, <3>2
  <2>4. samplerPc' \in [Targets -> {"none", "poll", "lock", "sample"}]
    <3>1. CASE UNCHANGED samplerVars
      BY <3>1 DEF TypeOK, Labels, Threads, Calls, LifecycleAction, LifecycleState,
             TargetOperations, Control, ControlOf, ConfigureOps
    <3>2. CASE sampler' = [sampler EXCEPT ![tgt[c]] = TRUE]
      BY <3>2 DEF TypeOK, Labels, Threads, Calls, LifecycleAction, LifecycleState,
             TargetOperations, Control, ControlOf, ConfigureOps
    <3> QED BY <3>1, <3>2
  <2>5. collectorMutex' \in [Targets -> Threads \cup {None}]
    <3>1. CASE UNCHANGED samplerVars
      BY <3>1 DEF TypeOK, Labels, Threads, Calls, LifecycleAction, LifecycleState,
             TargetOperations, Control, ControlOf, ConfigureOps
    <3>2. CASE sampler' = [sampler EXCEPT ![tgt[c]] = TRUE]
      BY SMTT(60), <3>2 DEF TypeOK, Labels, Threads, Calls, LifecycleAction, LifecycleState,
             TargetOperations, Control, ControlOf, ConfigureOps
    <3> QED BY <3>1, <3>2
  <2>6. pc' \in [Callers -> Labels]
    <3>1. CASE UNCHANGED samplerVars
      BY SMTT(60), <3>1 DEF TypeOK, Labels, Threads, Calls, LifecycleAction, LifecycleState,
             TargetOperations, Control, ControlOf, ConfigureOps
    <3>2. CASE sampler' = [sampler EXCEPT ![tgt[c]] = TRUE]
      BY SMTT(60), <3>2 DEF TypeOK, Labels, Threads, Calls, LifecycleAction, LifecycleState,
             TargetOperations, Control, ControlOf, ConfigureOps
    <3> QED BY <3>1, <3>2
  <2> QED BY <2>1, <2>2, <2>3, <2>4, <2>5, <2>6 DEF TypeOK
<1>2. Control'
  BY DEF Control, ControlOf, TypeOK, Labels, StartOps, ConfigureOps,
         TargetOperations, BatchOperations, Claims
<1>3. Locks'
  BY DEF Locks, Control, ControlOf, TypeOK, In, Inside, Labels, StartOps,
         ConfigureOps, LockingOps, TargetOperations
<1>4. Known'
  BY SMTT(60) DEF Known, KnownBy, Control, ControlOf, Claims, Locks, TypeOK, In, Inside,
         Labels, StartOps, ConfigureOps, RunningOps, LockingOps, TargetOperations,
         CollectorRuns, Running, LifecycleState
<1>5. Batches'
  BY DEF Batches, BatchOf, Control, ControlOf, Claims, Known, KnownBy, TypeOK, In,
         Inside, Labels, StartOps, ConfigureOps, RunningOps, Running,
         TargetOperations
<1>6. SamplerIsOwned'
  BY SMTT(60) DEF SamplerIsOwned, Known, KnownBy, Control, ControlOf, CollectorRuns, TypeOK,
         In, Inside, Labels, StartOps, ConfigureOps, Running, TargetOperations
<1>7. CollectingIsTracked'
  BY SMTT(60) DEF CollectingIsTracked, Collecting, SamplerIsOwned, Known, KnownBy, Control,
         ControlOf, CollectorRuns, TypeOK, In, Inside, Labels, StartOps,
         ConfigureOps, RunningOps, Running, TargetOperations
<1>8. ActiveTargetsAreRunning'
  BY DEF ActiveTargetsAreRunning, CollectingIsTracked, Collecting, Known, KnownBy,
         Control, ControlOf, CollectorRuns, TypeOK, In, Inside, Labels, StartOps,
         ConfigureOps, RunningOps, Running, TargetOperations
<1>9. PendingResetIsFresh'
  BY SMTT(60) DEF PendingResetIsFresh, Known, KnownBy, Control, ControlOf, CollectorRuns,
         TypeOK, In, Inside, Labels, StartOps, ConfigureOps, RunningOps, Running,
         TargetOperations
<1>10. Claims' /\ StartingIsTransient'
  BY DEF Claims, StartingIsTransient
<1> QED BY <1>1, <1>2, <1>3, <1>4, <1>5, <1>6, <1>7, <1>8, <1>9, <1>10

\* A target enters the set of the manager while it is STARTING.
LEMMA InsertActiveStep ==
    ASSUME IInv, NEW c \in Callers, InsertActive(c)
    PROVE  IInv'
<1> USE CollectionAssumption, AllowedIn DEF IInv, InsertActive, Goto,
       orchestratorVars, collectorVars,
         samplerVars, mutexes, shared, callVars
<1>1. TypeOK'
  BY SMTT(60) DEF TypeOK, Labels, Threads, Calls, LifecycleAction, LifecycleState,
         TargetOperations, Control, ControlOf, ConfigureOps
<1>2. Control'
  BY DEF Control, ControlOf, TypeOK, Labels, StartOps, ConfigureOps,
         TargetOperations, BatchOperations, Claims
<1>3. Locks'
  BY DEF Locks, Control, ControlOf, TypeOK, In, Inside, Labels, StartOps,
         ConfigureOps, LockingOps, TargetOperations
<1>4. Known'
  BY DEF Known, KnownBy, Control, ControlOf, Claims, Locks, TypeOK, In, Inside,
         Labels, StartOps, ConfigureOps, RunningOps, LockingOps, TargetOperations,
         CollectorRuns, Running, LifecycleState
<1>5. Batches'
  BY DEF Batches, BatchOf, Control, ControlOf, Claims, Known, KnownBy, TypeOK, In,
         Inside, Labels, StartOps, ConfigureOps, RunningOps, Running,
         TargetOperations
<1>6. ActiveTargetsAreRunning'
  BY SMTT(60) DEF ActiveTargetsAreRunning, CollectingIsTracked, Collecting, Known, KnownBy,
         Control, ControlOf, CollectorRuns, TypeOK, In, Inside, Labels, StartOps,
         ConfigureOps, RunningOps, Running, TargetOperations
<1>7. Claims' /\ SamplerIsOwned' /\ CollectingIsTracked' /\ PendingResetIsFresh' /\
      StartingIsTransient'
  BY DEF Claims, SamplerIsOwned, CollectingIsTracked, PendingResetIsFresh,
         StartingIsTransient, Collecting, CollectorRuns
<1> QED BY <1>1, <1>2, <1>3, <1>4, <1>5, <1>6, <1>7

\* The collector of a running target goes on running.
LEMMA CollectorPauseStep ==
    ASSUME IInv, NEW c \in Callers, CollectorPause(c)
    PROVE  IInv'
<1> USE CollectionAssumption, AllowedIn DEF IInv, CollectorPause, SetCollector,
       Marks, OutcomeOn, Outcome, Leave, Goto, CanSink, orchestratorVars,
       collectorVars,
         samplerVars, mutexes, shared, callVars
<1>1. TypeOK'
  BY SMTT(60) DEF TypeOK, Labels, Threads, Calls, LifecycleAction, LifecycleState,
         TargetOperations, Control, ControlOf, ConfigureOps
<1>2. Control'
  BY DEF Control, ControlOf, TypeOK, Labels, StartOps, ConfigureOps,
         TargetOperations, BatchOperations, Claims
<1>3. Locks'
  BY DEF Locks, Control, ControlOf, TypeOK, In, Inside, Labels, StartOps,
         ConfigureOps, LockingOps, TargetOperations
<1>4. Known'
  BY SMTT(60) DEF Known, KnownBy, Control, ControlOf, Claims, Locks, TypeOK, In, Inside,
         Labels, StartOps, ConfigureOps, RunningOps, LockingOps, TargetOperations,
         CollectorRuns, Running, LifecycleState
<1>5. Batches'
  BY DEF Batches, BatchOf, Control, ControlOf, Claims, Known, KnownBy, TypeOK, In,
         Inside, Labels, StartOps, ConfigureOps, RunningOps, Running,
         TargetOperations
<1>6. SamplerIsOwned'
  BY DEF SamplerIsOwned, Known, KnownBy, Control, ControlOf, CollectorRuns, TypeOK,
         In, Inside, Labels, StartOps, ConfigureOps, Running, TargetOperations
<1>7. CollectingIsTracked'
  BY DEF CollectingIsTracked, Collecting, SamplerIsOwned, Known, KnownBy, Control,
         ControlOf, CollectorRuns, TypeOK, In, Inside, Labels, StartOps,
         ConfigureOps, RunningOps, Running, TargetOperations
<1>8. ActiveTargetsAreRunning'
  <2>1. \A d \in Callers : pc[d] = "insert" => pc'[d] = "insert" /\ tgt'[d] = tgt[d]
    BY DEF TypeOK
  <2>2. \A u \in Targets : CollectorRuns(u)' => CollectorRuns(u)
    BY DEF CollectorRuns, TypeOK, LifecycleState, Known, KnownBy, Control, ControlOf
  <2> QED BY <2>1, <2>2 DEF ActiveTargetsAreRunning, CollectorRuns, TypeOK
<1>9. PendingResetIsFresh'
  BY DEF PendingResetIsFresh, Known, KnownBy, Control, ControlOf, CollectorRuns,
         TypeOK, In, Inside, Labels, StartOps, ConfigureOps, RunningOps, Running,
         TargetOperations
<1>10. Claims' /\ StartingIsTransient'
  BY DEF Claims, StartingIsTransient
<1> QED BY <1>1, <1>2, <1>3, <1>4, <1>5, <1>6, <1>7, <1>8, <1>9, <1>10

\* The collector of a running target goes on running.
LEMMA CollectorResumeStep ==
    ASSUME IInv, NEW c \in Callers, CollectorResume(c)
    PROVE  IInv'
<1> USE CollectionAssumption, AllowedIn DEF IInv, CollectorResume, SetCollector,
       Marks, OutcomeOn, Outcome, Leave, Goto, CanSink, orchestratorVars,
       collectorVars,
         samplerVars, mutexes, shared, callVars
<1>1. TypeOK'
  BY SMTT(60) DEF TypeOK, Labels, Threads, Calls, LifecycleAction, LifecycleState,
         TargetOperations, Control, ControlOf, ConfigureOps
<1>2. Control'
  BY DEF Control, ControlOf, TypeOK, Labels, StartOps, ConfigureOps,
         TargetOperations, BatchOperations, Claims
<1>3. Locks'
  BY DEF Locks, Control, ControlOf, TypeOK, In, Inside, Labels, StartOps,
         ConfigureOps, LockingOps, TargetOperations
<1>4. Known'
  BY DEF Known, KnownBy, Control, ControlOf, Claims, Locks, TypeOK, In, Inside,
         Labels, StartOps, ConfigureOps, RunningOps, LockingOps, TargetOperations,
         CollectorRuns, Running, LifecycleState
<1>5. Batches'
  BY DEF Batches, BatchOf, Control, ControlOf, Claims, Known, KnownBy, TypeOK, In,
         Inside, Labels, StartOps, ConfigureOps, RunningOps, Running,
         TargetOperations
<1>6. SamplerIsOwned'
  BY DEF SamplerIsOwned, Known, KnownBy, Control, ControlOf, CollectorRuns, TypeOK,
         In, Inside, Labels, StartOps, ConfigureOps, Running, TargetOperations
<1>7. CollectingIsTracked'
  BY DEF CollectingIsTracked, Collecting, SamplerIsOwned, Known, KnownBy, Control,
         ControlOf, CollectorRuns, TypeOK, In, Inside, Labels, StartOps,
         ConfigureOps, RunningOps, Running, TargetOperations
<1>8. ActiveTargetsAreRunning'
  <2>1. \A d \in Callers : pc[d] = "insert" => pc'[d] = "insert" /\ tgt'[d] = tgt[d]
    BY DEF TypeOK
  <2>2. \A u \in Targets : CollectorRuns(u)' => CollectorRuns(u)
    BY DEF CollectorRuns, TypeOK, LifecycleState, Known, KnownBy, Control, ControlOf
  <2> QED BY <2>1, <2>2 DEF ActiveTargetsAreRunning, CollectorRuns, TypeOK
<1>9. PendingResetIsFresh'
  BY DEF PendingResetIsFresh, Known, KnownBy, Control, ControlOf, CollectorRuns,
         TypeOK, In, Inside, Labels, StartOps, ConfigureOps, RunningOps, Running,
         TargetOperations
<1>10. Claims' /\ StartingIsTransient'
  BY DEF Claims, StartingIsTransient
<1> QED BY <1>1, <1>2, <1>3, <1>4, <1>5, <1>6, <1>7, <1>8, <1>9, <1>10

\* The collector stops after its sampler thread.
LEMMA CollectorStopStep ==
    ASSUME IInv, NEW c \in Callers, CollectorStop(c)
    PROVE  IInv'
<1> USE CollectionAssumption, AllowedIn DEF IInv, CollectorStop, SetCollector,
       Acquires, Outcome, OutcomeOn, Leave, Goto, CanSink, orchestratorVars,
       collectorVars,
         samplerVars, mutexes, shared, callVars
<1>1. TypeOK'
  BY SMTT(60) DEF TypeOK, Labels, Threads, Calls, LifecycleAction, LifecycleState,
         TargetOperations, Control, ControlOf, ConfigureOps
<1>2. Control'
  BY DEF Control, ControlOf, TypeOK, Labels, StartOps, ConfigureOps,
         TargetOperations, BatchOperations, Claims
<1>3. Locks'
  BY DEF Locks, Control, ControlOf, TypeOK, In, Inside, Labels, StartOps,
         ConfigureOps, LockingOps, TargetOperations
<1>4. Known'
  BY SMTT(60) DEF Known, KnownBy, Control, ControlOf, Claims, Locks, TypeOK, In, Inside,
         Labels, StartOps, ConfigureOps, RunningOps, LockingOps, TargetOperations,
         CollectorRuns, Running, LifecycleState
<1>5. Batches'
  BY DEF Batches, BatchOf, Control, ControlOf, Claims, Known, KnownBy, TypeOK, In,
         Inside, Labels, StartOps, ConfigureOps, RunningOps, Running,
         TargetOperations
<1>6. SamplerIsOwned'
  BY SMTT(60) DEF SamplerIsOwned, Known, KnownBy, Control, ControlOf, CollectorRuns, TypeOK,
         In, Inside, Labels, StartOps, ConfigureOps, Running, TargetOperations
<1>7. CollectingIsTracked'
  BY SMTT(60) DEF CollectingIsTracked, Collecting, SamplerIsOwned, Known, KnownBy, Control,
         ControlOf, CollectorRuns, TypeOK, In, Inside, Labels, StartOps,
         ConfigureOps, RunningOps, Running, TargetOperations
<1>8. ActiveTargetsAreRunning'
  BY DEF ActiveTargetsAreRunning, CollectingIsTracked, Collecting, Known, KnownBy,
         Control, ControlOf, CollectorRuns, TypeOK, In, Inside, Labels, StartOps,
         ConfigureOps, RunningOps, Running, TargetOperations
<1>9. PendingResetIsFresh'
  BY SMTT(60) DEF PendingResetIsFresh, Known, KnownBy, Control, ControlOf, CollectorRuns,
         TypeOK, In, Inside, Labels, StartOps, ConfigureOps, RunningOps, Running,
         TargetOperations
<1>10. Claims' /\ StartingIsTransient'
  BY DEF Claims, StartingIsTransient
<1> QED BY <1>1, <1>2, <1>3, <1>4, <1>5, <1>6, <1>7, <1>8, <1>9, <1>10

\* The target leaves the set of the manager after its collector has stopped.
LEMMA EraseActiveStep ==
    ASSUME IInv, NEW c \in Callers, EraseActive(c)
    PROVE  IInv'
<1> USE CollectionAssumption, AllowedIn DEF IInv, EraseActive, Goto,
       orchestratorVars, collectorVars,
         samplerVars, mutexes, shared, callVars
<1>1. TypeOK'
  BY DEF TypeOK, Labels, Threads, Calls, LifecycleAction, LifecycleState,
         TargetOperations, Control, ControlOf, ConfigureOps
<1>2. Control'
  BY DEF Control, ControlOf, TypeOK, Labels, StartOps, ConfigureOps,
         TargetOperations, BatchOperations, Claims
<1>3. Locks'
  BY SMTT(60) DEF Locks, Control, ControlOf, TypeOK, In, Inside, Labels, StartOps,
         ConfigureOps, LockingOps, TargetOperations
<1>4. Known'
  BY DEF Known, KnownBy, Control, ControlOf, Claims, Locks, TypeOK, In, Inside,
         Labels, StartOps, ConfigureOps, RunningOps, LockingOps, TargetOperations,
         CollectorRuns, Running, LifecycleState
<1>5. Batches'
  BY SMTT(60) DEF Batches, BatchOf, Control, ControlOf, Claims, Known, KnownBy, TypeOK, In,
         Inside, Labels, StartOps, ConfigureOps, RunningOps, Running,
         TargetOperations
<1>6. ActiveTargetsAreRunning'
  BY DEF ActiveTargetsAreRunning, CollectingIsTracked, Collecting, Known, KnownBy,
         Control, ControlOf, CollectorRuns, TypeOK, In, Inside, Labels, StartOps,
         ConfigureOps, RunningOps, Running, TargetOperations
<1>7. Claims' /\ SamplerIsOwned' /\ CollectingIsTracked' /\ PendingResetIsFresh' /\
      StartingIsTransient'
  BY DEF Claims, SamplerIsOwned, CollectingIsTracked, PendingResetIsFresh,
         StartingIsTransient, Collecting, CollectorRuns
<1> QED BY <1>1, <1>2, <1>3, <1>4, <1>5, <1>6, <1>7

\* The mutex of the collector is released.
LEMMA CollectorReadStep ==
    ASSUME IInv, NEW c \in Callers, CollectorRead(c)
    PROVE  IInv'
<1> USE CollectionAssumption, AllowedIn DEF IInv, CollectorRead, Outcome, Leave,
       Goto, CanSink, orchestratorVars, collectorVars,
         samplerVars, mutexes, shared, callVars
<1>1. TypeOK'
  BY SMTT(60) DEF TypeOK, Labels, Threads, Calls, LifecycleAction, LifecycleState,
         TargetOperations, Control, ControlOf, ConfigureOps
<1>2. Control'
  BY DEF Control, ControlOf, TypeOK, Labels, StartOps, ConfigureOps,
         TargetOperations, BatchOperations, Claims
<1>3. Locks'
  BY DEF Locks, Control, ControlOf, TypeOK, In, Inside, Labels, StartOps,
         ConfigureOps, LockingOps, TargetOperations
<1>4. Known'
  BY DEF Known, KnownBy, Control, ControlOf, Claims, Locks, TypeOK, In, Inside,
         Labels, StartOps, ConfigureOps, RunningOps, LockingOps, TargetOperations,
         CollectorRuns, Running, LifecycleState
<1>5. Batches'
  BY DEF Batches, BatchOf, Control, ControlOf, Claims, Known, KnownBy, TypeOK, In,
         Inside, Labels, StartOps, ConfigureOps, RunningOps, Running,
         TargetOperations
<1>6. ActiveTargetsAreRunning'
  BY DEF ActiveTargetsAreRunning, CollectingIsTracked, Collecting, Known, KnownBy,
         Control, ControlOf, CollectorRuns, TypeOK, In, Inside, Labels, StartOps,
         ConfigureOps, RunningOps, Running, TargetOperations
<1>7. Claims' /\ SamplerIsOwned' /\ CollectingIsTracked' /\ PendingResetIsFresh' /\
      StartingIsTransient'
  BY DEF Claims, SamplerIsOwned, CollectingIsTracked, PendingResetIsFresh,
         StartingIsTransient, Collecting, CollectorRuns
<1> QED BY <1>1, <1>2, <1>3, <1>4, <1>5, <1>6, <1>7

\* The sampler thread goes on or ends.
LEMMA SamplerPollStep ==
    ASSUME IInv, NEW t \in Targets, SamplerPoll(t)
    PROVE  IInv'
<1> USE CollectionAssumption, AllowedIn DEF IInv, SamplerPoll, orchestratorVars,
       collectorVars,
         samplerVars, mutexes, shared, callVars
<1>1. TypeOK'
  BY DEF TypeOK, Labels, Threads, Calls, LifecycleAction, LifecycleState,
         TargetOperations, Control, ControlOf, ConfigureOps
<1>2. Locks'
  BY SMTT(60) DEF Locks, Control, ControlOf, TypeOK, In, Inside, Labels, StartOps,
         ConfigureOps, LockingOps, TargetOperations
<1>3. Known'
  BY DEF Known, KnownBy, Control, ControlOf, Claims, Locks, TypeOK, In, Inside,
         Labels, StartOps, ConfigureOps, RunningOps, LockingOps, TargetOperations,
         CollectorRuns, Running, LifecycleState
<1>4. SamplerIsOwned'
  BY DEF SamplerIsOwned, Known, KnownBy, Control, ControlOf, CollectorRuns, TypeOK,
         In, Inside, Labels, StartOps, ConfigureOps, Running, TargetOperations
<1>5. CollectingIsTracked'
  BY DEF CollectingIsTracked, Collecting, SamplerIsOwned, Known, KnownBy, Control,
         ControlOf, CollectorRuns, TypeOK, In, Inside, Labels, StartOps,
         ConfigureOps, RunningOps, Running, TargetOperations
<1>6. Control' /\ Claims' /\ Batches' /\ ActiveTargetsAreRunning' /\
      PendingResetIsFresh' /\ StartingIsTransient'
  BY DEF Control, Claims, Batches, ActiveTargetsAreRunning, PendingResetIsFresh,
         StartingIsTransient, ControlOf, BatchOf
<1> QED BY <1>1, <1>2, <1>3, <1>4, <1>5, <1>6

\* The sampler takes the mutex of its own collector.
LEMMA SamplerLockStep ==
    ASSUME IInv, NEW t \in Targets, SamplerLock(t)
    PROVE  IInv'
<1> USE CollectionAssumption, AllowedIn DEF IInv, SamplerLock, Readable,
       orchestratorVars, collectorVars,
         samplerVars, mutexes, shared, callVars
<1>1. TypeOK'
  BY SMTT(60) DEF TypeOK, Labels, Threads, Calls, LifecycleAction, LifecycleState,
         TargetOperations, Control, ControlOf, ConfigureOps
<1>2. Locks'
  BY DEF Locks, Control, ControlOf, TypeOK, In, Inside, Labels, StartOps,
         ConfigureOps, LockingOps, TargetOperations
<1>3. Known'
  BY DEF Known, KnownBy, Control, ControlOf, Claims, Locks, TypeOK, In, Inside,
         Labels, StartOps, ConfigureOps, RunningOps, LockingOps, TargetOperations,
         CollectorRuns, Running, LifecycleState
<1>4. SamplerIsOwned'
  BY DEF SamplerIsOwned, Known, KnownBy, Control, ControlOf, CollectorRuns, TypeOK,
         In, Inside, Labels, StartOps, ConfigureOps, Running, TargetOperations
<1>5. CollectingIsTracked'
  BY DEF CollectingIsTracked, Collecting, SamplerIsOwned, Known, KnownBy, Control,
         ControlOf, CollectorRuns, TypeOK, In, Inside, Labels, StartOps,
         ConfigureOps, RunningOps, Running, TargetOperations
<1>6. Control' /\ Claims' /\ Batches' /\ ActiveTargetsAreRunning' /\
      PendingResetIsFresh' /\ StartingIsTransient'
  BY DEF Control, Claims, Batches, ActiveTargetsAreRunning, PendingResetIsFresh,
         StartingIsTransient, ControlOf, BatchOf
<1> QED BY SMTT(60), <1>1, <1>2, <1>3, <1>4, <1>5, <1>6

\* The sampler releases the mutex of its own collector.
LEMMA SamplerSampleStep ==
    ASSUME IInv, NEW t \in Targets, SamplerSample(t)
    PROVE  IInv'
<1> USE CollectionAssumption, AllowedIn DEF IInv, SamplerSample, CanSink,
       orchestratorVars, collectorVars,
         samplerVars, mutexes, shared, callVars
<1>1. TypeOK'
  BY DEF TypeOK, Labels, Threads, Calls, LifecycleAction, LifecycleState,
         TargetOperations, Control, ControlOf, ConfigureOps
<1>2. Locks'
  BY SMTT(60) DEF Locks, Control, ControlOf, TypeOK, In, Inside, Labels, StartOps,
         ConfigureOps, LockingOps, TargetOperations
<1>3. Known'
  BY DEF Known, KnownBy, Control, ControlOf, Claims, Locks, TypeOK, In, Inside,
         Labels, StartOps, ConfigureOps, RunningOps, LockingOps, TargetOperations,
         CollectorRuns, Running, LifecycleState
<1>4. SamplerIsOwned'
  BY DEF SamplerIsOwned, Known, KnownBy, Control, ControlOf, CollectorRuns, TypeOK,
         In, Inside, Labels, StartOps, ConfigureOps, Running, TargetOperations
<1>5. CollectingIsTracked'
  BY DEF CollectingIsTracked, Collecting, SamplerIsOwned, Known, KnownBy, Control,
         ControlOf, CollectorRuns, TypeOK, In, Inside, Labels, StartOps,
         ConfigureOps, RunningOps, Running, TargetOperations
<1>6. Control' /\ Claims' /\ Batches' /\ ActiveTargetsAreRunning' /\
      PendingResetIsFresh' /\ StartingIsTransient'
  BY DEF Control, Claims, Batches, ActiveTargetsAreRunning, PendingResetIsFresh,
         StartingIsTransient, ControlOf, BatchOf
<1> QED BY <1>1, <1>2, <1>3, <1>4, <1>5, <1>6
===============================================================================
