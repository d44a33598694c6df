-------------------------- MODULE CollectionProofs --------------------------
(***************************************************************************)
(* The theorems of Collection: its inductive invariant, the safety         *)
(* properties that follow from it, the implementation of TargetLifecycle,  *)
(* and the agreement of each target with its collector when files and data *)
(* events do not fail.                                                     *)
(***************************************************************************)
EXTENDS CollectionCollectorProofs

\* Before any call nothing is configured, nothing runs and no mutex is held.
LEMMA InitIInv == Init => IInv
<1> SUFFICES ASSUME Init  PROVE IInv
  OBVIOUS
<1> USE CollectionAssumption DEF Init
<1>1. TypeOK
  BY DEF TypeOK, LifecycleState, CollectionModes, Threads, Labels, TargetOperations, Calls
<1>2. Control /\ Claims /\ Batches
  BY DEF Control, ControlOf, Claims, Batches, BatchOf, StartOps, ConfigureOps
<1>3. Locks
  BY DEF Locks, In, Inside
<1>4. Known
  BY DEF Known, KnownBy, In, Inside
<1>5. SamplerIsOwned /\ CollectingIsTracked /\ ActiveTargetsAreRunning
  BY DEF SamplerIsOwned, CollectingIsTracked, Collecting, ActiveTargetsAreRunning
<1>6. PendingResetIsFresh /\ StartingIsTransient
  BY DEF PendingResetIsFresh, StartingIsTransient
<1> QED
  BY <1>1, <1>2, <1>3, <1>4, <1>5, <1>6 DEF IInv

\* A step that changes nothing keeps the invariant.
LEMMA StutterIInv == IInv /\ UNCHANGED vars => IInv'
<1> SUFFICES ASSUME IInv, UNCHANGED vars  PROVE IInv'
  OBVIOUS
<1> USE DEF vars, shared, orchestratorVars, collectorVars, samplerVars, mutexes, callVars
<1>1. TypeOK' /\ Control' /\ Claims' /\ Batches'
  BY DEF IInv, TypeOK, Control, ControlOf, Claims, Batches, BatchOf
<1>2. Locks' /\ Known'
  BY DEF IInv, Locks, Known, KnownBy, In, CollectorRuns
<1>3. SamplerIsOwned' /\ CollectingIsTracked' /\ ActiveTargetsAreRunning'
  BY DEF IInv, SamplerIsOwned, CollectorRuns, CollectingIsTracked, Collecting,
         ActiveTargetsAreRunning
<1>4. PendingResetIsFresh' /\ StartingIsTransient'
  BY DEF IInv, PendingResetIsFresh, StartingIsTransient
<1> QED
  BY <1>1, <1>2, <1>3, <1>4 DEF IInv

\* Every step of a caller that has called keeps the invariant.
LEMMA CallerStepIInv ==
    ASSUME IInv, NEW c \in Callers, CallerStep(c)
    PROVE  IInv'
<1>1. CASE \E t \in Targets : StartNext(c, t) \/ RollbackNext(c, t) \/ ClearOne(c, t)
  BY <1>1, StartNextStep, RollbackNextStep, ClearOneStep
<1>2. CASE \/ AbandonBatch(c) \/ Return(c)
           \/ BeginConfigure(c) \/ BeginReset(c) \/ EnterClear(c) \/ LeaveClear(c)
           \/ ResetCollectionState(c) \/ RefuseOperations(c) \/ CollectorConfigure(c)
           \/ ConfigureRefused(c)
           \/ CompleteConfigure(c) \/ EnterDrop(c) \/ DropConfiguration(c)
  BY <1>2, AbandonBatchStep, ReturnStep, BeginConfigureStep, BeginResetStep,
     EnterClearStep, LeaveClearStep, ResetCollectionStateStep, RefuseOperationsStep,
     CollectorConfigureStep, ConfigureRefusedStep, CompleteConfigureStep, EnterDropStep, DropConfigurationStep
<1>3. CASE \/ BeginStart(c) \/ FinishStart(c) \/ ContinueStartPaused(c)
           \/ FinishStartPaused(c) \/ BeginTransition(c) \/ FinishPause(c)
           \/ FinishResume(c) \/ FinishStop(c) \/ FinishRollback(c)
           \/ TransitionRefused(c) \/ BeginRead(c) \/ FinishRead(c)
  BY <1>3, BeginStartStep, FinishStartStep, ContinueStartPausedStep,
     FinishStartPausedStep, BeginTransitionStep, FinishPauseStep, FinishResumeStep,
     FinishStopStep, FinishRollbackStep, TransitionRefusedStep, BeginReadStep,
     FinishReadStep
<1>4. CASE \/ Lookup(c) \/ CancelSampler(c) \/ JoinSampler(c) \/ CollectorEnter(c)
           \/ CollectorStart(c) \/ InsertActive(c) \/ CollectorPause(c)
           \/ CollectorResume(c) \/ CollectorStop(c) \/ EraseActive(c) \/ CollectorRead(c)
  BY <1>4, LookupStep, CancelSamplerStep, JoinSamplerStep, CollectorEnterStep,
     CollectorStartStep, InsertActiveStep, CollectorPauseStep, CollectorResumeStep,
     CollectorStopStep, EraseActiveStep, CollectorReadStep
<1> QED
  BY <1>1, <1>2, <1>3, <1>4 DEF CallerStep

\* The invariant is inductive.
LEMMA NextIInv == IInv /\ [Next]_vars => IInv'
<1> SUFFICES ASSUME IInv, Next  PROVE IInv'
  BY StutterIInv
<1>1. CASE \E c \in Callers, t \in Targets : CallOnTarget(c, t)
  BY <1>1, CallOnTargetStep
<1>2. CASE \E c \in Callers : CallReset(c) \/ CallStartAll(c)
  BY <1>2, CallResetStep, CallStartAllStep
<1>3. CASE \E c \in Callers : CallerStep(c)
  BY <1>3, CallerStepIInv
<1>4. CASE \E t \in Targets : SamplerStep(t)
  BY <1>4, SamplerPollStep, SamplerLockStep, SamplerSampleStep DEF SamplerStep
<1> QED
  BY <1>1, <1>2, <1>3, <1>4 DEF Next

\* Every reachable state of the orchestrator, the collector manager, the collectors
\* and the samplers satisfies the inductive invariant, for any number of targets and
\* threads, any collectors and any faults.
THEOREM Invariance == Spec => []IInv
  BY InitIInv, NextIInv, PTL DEF Spec

\* Every variable keeps its type.
THEOREM TypeCorrect == Spec => []TypeOK
<1>1. IInv => TypeOK
  BY DEF IInv
<1> QED
  BY <1>1, Invariance, PTL

\* A collector that collects, or whose sampler thread exists, is always one of a
\* target the orchestrator counts as running.
THEOREM CollectingTracked == Spec => []CollectingIsTracked
<1>1. IInv => CollectingIsTracked
  BY DEF IInv
<1> QED
  BY <1>1, Invariance, PTL

\* The set of active targets of the collector manager never holds a target that
\* does not run, and lacks a collecting one only while its start inserts it.
THEOREM ActiveTargetsCorrect == Spec => []ActiveTargetsAreRunning
<1>1. IInv => ActiveTargetsAreRunning
  BY DEF IInv
<1> QED
  BY <1>1, Invariance, PTL

\* A configuration that skips the check for running targets because of a pending
\* reset finds nothing configured, let alone running.
THEOREM PendingResetCorrect == Spec => []PendingResetIsFresh
<1>1. IInv => PendingResetIsFresh
  BY DEF IInv
<1> QED
  BY <1>1, Invariance, PTL

\* No target stays STARTING when the call that started it is over.
THEOREM StartingEnds == Spec => []StartingIsTransient
<1>1. IInv => StartingIsTransient
  BY DEF IInv
<1> QED
  BY <1>1, Invariance, PTL

-----------------------------------------------------------------------------
(* Nobody waits in a circle.                                                *)

\* The caller that holds the mutex of the collector manager clears collectors while
\* no target runs: no sampler exists and nobody is inside a collector, so it does
\* not wait.
LEMMA ManagerDoesNotWait ==
    ASSUME IInv, NEW m \in Callers, managerMutex = m
    PROVE  WaitsFor(m) = {}
<1>1. pc[m] \in {"clearing", "clearFailed", "dropping"}
  BY DEF IInv, Locks
<1>2. In(m, ConfigureOps) /\ configureMutex = m
  BY <1>1 DEF IInv, Locks, In, Inside, Labels, LockingOps, ConfigureOps, Control, ControlOf
<1>3. \A t \in Targets : targetState[t] \notin Running
  BY <1>2 DEF IInv, Known, KnownBy
<1>4. \A t \in Targets : samplerPc[t] = "none"
  BY <1>3 DEF IInv, CollectingIsTracked, Collecting
<1>5. \A c \in Callers : pc[c] # "work"
  <2> SUFFICES ASSUME NEW c \in Callers, pc[c] = "work"  PROVE FALSE
    OBVIOUS
  <2>1. c # m /\ configureMutex # c
    BY <1>1, <1>2, CollectionAssumption
  <2>2. op[c] \in RunningOps
    BY SMTT(60), <2>1 DEF IInv, Locks, In, Inside, Labels, LockingOps, ConfigureOps, StartOps,
                RunningOps, Control, ControlOf, TypeOK, TargetOperations
  <2>3. tgt[c] \in Targets
    BY <2>2 DEF IInv, Control, ControlOf, TypeOK, RunningOps
  <2> QED
    BY <1>3, <2>2, <2>3 DEF IInv, Known, KnownBy, In, Inside, Labels, RunningOps, Running
<1>6. \A t \in Targets : collectorMutex[t] = None
  BY <1>4, <1>5 DEF IInv, Locks
<1>7. queue[m] \subseteq Targets
  BY DEF IInv, TypeOK
<1>8. pc[m] = "dropping" => tgt[m] \in Targets
  BY SMTT(60) DEF IInv, Control, ControlOf, TypeOK
<1> QED
  BY <1>1, <1>4, <1>6, <1>7, <1>8 DEF WaitsFor, Holders

\* What a thread inside a method, or a sampler, can wait for when the mutex of the
\* manager is free or held outside of S and nobody of S holds that of a collector.
LEMMA InsideDoesNotWait ==
    ASSUME IInv, NEW S \in SUBSET Callers, managerMutex \notin S,
           \A t \in Targets : collectorMutex[t] \notin S,
           NEW c \in S, pc[c] # "begin"
    PROVE  WaitsFor(c) \cap S = {}
<1>1. c \in Callers /\ S \cap Targets = {} /\ pc[c] \in Labels
  BY CollectionAssumption DEF IInv, TypeOK
<1>2. pc[c] \notin {"clearing", "clearFailed", "dropping"}
  BY DEF IInv, Locks
<1>3. pc[c] \in {"join", "enter"} \/ (pc[c] = "succeeded" /\ op[c] = "configure")
        => tgt[c] \in Targets
  BY DEF IInv, Control, ControlOf, TypeOK
<1> QED
  BY <1>1, <1>2, <1>3 DEF WaitsFor, Holders, Labels

\* No set of threads is stuck: who waits for the mutex of the manager waits for a
\* caller that does not wait; who holds the mutex of a collector waits for that of
\* the manager only; a sampler waits for its own collector only; and who holds
\* _configure_mutex waits for one of these.
LEMMA NobodyWaitsInACircle == IInv => NoCircularWait
<1> SUFFICES ASSUME IInv, NEW S \in (SUBSET Threads) \ {{}}
             PROVE  \E x \in S : WaitsFor(x) \cap S = {}
  BY DEF NoCircularWait
<1>1. CASE managerMutex \in S
  <2>1. managerMutex \in Callers
    BY <1>1, CollectionAssumption DEF IInv, TypeOK, Threads
  <2> QED
    BY <1>1, <2>1, ManagerDoesNotWait
<1>2. CASE managerMutex \notin S
  <2>1. ASSUME NEW t \in Targets, collectorMutex[t] \in S
        PROVE  WaitsFor(collectorMutex[t]) \cap S = {}
    <3>1. CASE collectorMutex[t] \in Callers
      <4>1. pc[collectorMutex[t]] = "work"
        BY <3>1 DEF IInv, Locks
      <4> QED
        BY <1>2, <3>1, <4>1 DEF WaitsFor, Holders
    <3>2. CASE collectorMutex[t] = t
      <4>1. samplerPc[t] = "sample" /\ t \notin Callers
        BY <3>2, CollectionAssumption DEF IInv, Locks
      <4> QED
        BY <1>2, <3>2, <4>1 DEF WaitsFor, Holders
    <3> QED
      BY <2>1, <3>1, <3>2, CollectionAssumption DEF IInv, Locks, Threads
  <2>2. CASE \E t \in Targets : collectorMutex[t] \in S
    BY <2>1, <2>2
  <2>3. CASE \A t \in Targets : collectorMutex[t] \notin S
    <3>1. CASE \E t \in Targets : t \in S
      <4>1. PICK t \in Targets : t \in S
        BY <3>1
      <4>2. WaitsFor(t) \cap S = {}
        BY <1>2, <2>3, CollectionAssumption DEF WaitsFor, Holders
      <4> QED
        BY <4>1, <4>2
    <3>2. CASE \A t \in Targets : t \notin S
      <4>1. S \in SUBSET Callers
        BY <3>2 DEF Threads
      <4>2. CASE configureMutex \in S
        <5>1. pc[configureMutex] # "begin"
          BY <4>1, <4>2 DEF IInv, Locks, In, Inside
        <5> QED
          BY <1>2, <2>3, <4>1, <4>2, <5>1, InsideDoesNotWait
      <4>3. CASE configureMutex \notin S
        <5>1. PICK c : c \in S
          BY S # {}
        <5>2. CASE pc[c] = "begin"
          BY <4>1, <4>3, <5>1, <5>2, CollectionAssumption DEF WaitsFor, Holders
        <5>3. CASE pc[c] # "begin"
          BY <1>2, <2>3, <4>1, <5>1, <5>3, InsideDoesNotWait
        <5> QED
          BY <5>2, <5>3
      <4> QED
        BY <4>2, <4>3
    <3> QED
      BY <3>1, <3>2
  <2> QED
    BY <2>2, <2>3
<1> QED
  BY <1>1, <1>2

\* Callers and samplers never wait for each other in a circle, however many there are.
THEOREM DeadlockFree == Spec => []NoCircularWait
  BY Invariance, NobodyWaitsInACircle, PTL

-----------------------------------------------------------------------------
(* Collection implements TargetLifecycle: step simulation under the         *)
(* inductive invariant.                                                      *)

\* What does not change the state of a target, its collector or its sampler thread
\* does not change the abstract state.
LEMMA SameLifecycle ==
    UNCHANGED <<targetState, collectorState, samplerPc>> => UNCHANGED Lifecycle!vars
  BY DEF Lifecycle!vars, Collecting

\* In the abstract state a target collects when its collector runs.
LEMMA CollectingIsRunning ==
    ASSUME IInv  PROVE \A t \in Targets : Collecting(t) <=> CollectorRuns(t)
  BY DEF IInv, SamplerIsOwned, Collecting, CollectorRuns

\* A step that leaves alone which collectors run, and gives the target of a call the
\* state s, is a step of the abstract target if that one allows s.
LEMMA MoveTarget ==
    ASSUME IInv, IInv', NEW c \in Callers, NEW s \in LifecycleState,
           tgt[c] \in Targets, SetTarget(c, s), UNCHANGED <<collectorState, samplerPc>>,
           \/ s = targetState[tgt[c]]
           \/ targetState[tgt[c]] \notin Running /\ s \in {"CONFIGURED", "UNCONFIGURED"}
           \/ targetState[tgt[c]] = "CONFIGURED" /\ s = "STARTING"
           \/ ~CollectorRuns(tgt[c]) /\ targetState[tgt[c]] \in Running /\ s = "CONFIGURED"
           \/ targetState[tgt[c]] = "STARTING" /\ s = "STARTED"
           \/ CollectorRuns(tgt[c]) /\ targetState[tgt[c]] \in {"STARTING", "STARTED"} /\ s = "PAUSED"
           \/ CollectorRuns(tgt[c]) /\ targetState[tgt[c]] = "PAUSED" /\ s = "STARTED"
           \/ ~CollectorRuns(tgt[c]) /\ targetState[tgt[c]] \in {"STARTED", "PAUSED"} /\ s = "STOPPED"
    PROVE  [Lifecycle!Next]_(Lifecycle!vars)
<1> DEFINE t == tgt[c]
<1>1. /\ targetState' = [targetState EXCEPT ![t] = s]
      /\ {u \in Targets : Collecting(u)}' = {u \in Targets : Collecting(u)}
      /\ t \in {u \in Targets : Collecting(u)} <=> CollectorRuns(t)
  BY CollectingIsRunning DEF SetTarget, Collecting
<1>2. targetState \in [Targets -> LifecycleState]
  BY DEF IInv, TypeOK
<1>3. CASE s = targetState[t]
  BY <1>1, <1>2, <1>3 DEF Lifecycle!vars
<1>4. CASE targetState[t] \notin Running /\ s \in {"CONFIGURED", "UNCONFIGURED"}
  BY <1>1, <1>2, <1>4 DEF Lifecycle!Next, Lifecycle!Configure, Lifecycle!Move,
     Lifecycle!LifecycleState, Lifecycle!Running, LifecycleState, Running
<1>5. CASE targetState[t] = "CONFIGURED" /\ s = "STARTING"
  BY <1>1, <1>5 DEF Lifecycle!Next, Lifecycle!BeginStart, Lifecycle!Move
<1>6. CASE ~CollectorRuns(t) /\ targetState[t] \in Running /\ s = "CONFIGURED"
  BY <1>1, <1>6 DEF Lifecycle!Next, Lifecycle!AbandonStart, Lifecycle!Rollback,
     Lifecycle!Move, Running
<1>7. CASE targetState[t] = "STARTING" /\ s = "STARTED"
  BY <1>1, <1>7 DEF Lifecycle!Next, Lifecycle!EnterStarted, Lifecycle!Move
<1>8. CASE CollectorRuns(t) /\ targetState[t] \in {"STARTING", "STARTED"} /\ s = "PAUSED"
  BY <1>1, <1>8 DEF Lifecycle!Next, Lifecycle!EnterPaused, Lifecycle!Move
<1>9. CASE CollectorRuns(t) /\ targetState[t] = "PAUSED" /\ s = "STARTED"
  BY <1>1, <1>9 DEF Lifecycle!Next, Lifecycle!Resume, Lifecycle!Move
<1>10. CASE ~CollectorRuns(t) /\ targetState[t] \in {"STARTED", "PAUSED"} /\ s = "STOPPED"
  BY <1>1, <1>10 DEF Lifecycle!Next, Lifecycle!Stop, Lifecycle!Move
<1> QED
  BY <1>3, <1>4, <1>5, <1>6, <1>7, <1>8, <1>9, <1>10

\* A step that moves no target and leaves alone which collectors run.
LEMMA SameRunning ==
    ASSUME IInv, IInv', UNCHANGED targetState,
           \A t \in Targets : CollectorRuns(t)' <=> CollectorRuns(t)
    PROVE  UNCHANGED Lifecycle!vars
<1>1. \A t \in Targets : Collecting(t) <=> CollectorRuns(t)
  BY CollectingIsRunning
<1>2. \A t \in Targets : Collecting(t)' <=> CollectorRuns(t)'
  BY DEF IInv, SamplerIsOwned, Collecting, CollectorRuns
<1> QED
  BY <1>1, <1>2 DEF Lifecycle!vars

\* The calls, and the steps of a call that touch neither its target nor its collector.
LEMMA QuietSteps ==
    ASSUME NEW c \in Callers,
           \/ \E t \in Targets : CallOnTarget(c, t) \/ StartNext(c, t) \/ RollbackNext(c, t)
           \/ CallReset(c) \/ CallStartAll(c) \/ AbandonBatch(c) \/ Return(c)
           \/ BeginConfigure(c) \/ BeginReset(c) \/ EnterClear(c) \/ LeaveClear(c)
           \/ RefuseOperations(c) \/ ConfigureRefused(c) \/ EnterDrop(c) \/ ContinueStartPaused(c)
           \/ BeginTransition(c) \/ TransitionRefused(c) \/ BeginRead(c) \/ FinishRead(c)
           \/ Lookup(c) \/ CancelSampler(c) \/ JoinSampler(c) \/ CollectorEnter(c)
           \/ InsertActive(c) \/ EraseActive(c) \/ CollectorRead(c)
    PROVE  UNCHANGED <<targetState, collectorState, samplerPc>>
<1> USE DEF orchestratorVars, collectorVars, samplerVars, shared
<1>1. CASE \/ \E t \in Targets : CallOnTarget(c, t) \/ StartNext(c, t) \/ RollbackNext(c, t)
           \/ CallReset(c) \/ CallStartAll(c) \/ AbandonBatch(c) \/ Return(c)
  BY <1>1 DEF CallOnTarget, CallReset, CallStartAll, StartNext, RollbackNext,
     AbandonBatch, Return
<1>2. CASE \/ BeginConfigure(c) \/ BeginReset(c) \/ EnterClear(c) \/ LeaveClear(c)
           \/ RefuseOperations(c) \/ ConfigureRefused(c) \/ EnterDrop(c)
  BY <1>2 DEF BeginConfigure, BeginReset, EnterClear, LeaveClear, RefuseOperations, ConfigureRefused, EnterDrop
<1>3. CASE \/ ContinueStartPaused(c) \/ BeginTransition(c) \/ TransitionRefused(c)
           \/ BeginRead(c) \/ FinishRead(c)
  BY <1>3 DEF ContinueStartPaused, BeginTransition, TransitionRefused, BeginRead, FinishRead
<1>4. CASE \/ Lookup(c) \/ CancelSampler(c) \/ JoinSampler(c) \/ CollectorEnter(c)
           \/ InsertActive(c) \/ EraseActive(c) \/ CollectorRead(c)
  BY <1>4 DEF Lookup, CancelSampler, JoinSampler, CollectorEnter, InsertActive,
     EraseActive, CollectorRead
<1> QED
  BY <1>1, <1>2, <1>3, <1>4

\* A sampler that goes on or ends changes nothing of the abstract state: its collector
\* runs before and after.
LEMMA SamplerSteps ==
    ASSUME IInv, IInv', NEW t \in Targets, SamplerStep(t)
    PROVE  UNCHANGED Lifecycle!vars
  BY SameRunning DEF SamplerStep, SamplerPoll, SamplerLock, SamplerSample,
     CollectorRuns, orchestratorVars, collectorVars

\* Neither does a collector that is cleared, configured, paused or resumed.
LEMMA CollectorSteps ==
    ASSUME IInv, IInv', NEW c \in Callers,
           \/ \E t \in Targets : ClearOne(c, t)
           \/ CollectorConfigure(c) \/ DropConfiguration(c)
           \/ CollectorPause(c) \/ CollectorResume(c)
    PROVE  UNCHANGED Lifecycle!vars
<1> USE DEF orchestratorVars, collectorVars, samplerVars, IInv, TypeOK, LifecycleState
<1>1. CASE \E t \in Targets : ClearOne(c, t)
  BY <1>1, SameRunning DEF ClearOne, ClearCollectionState, SetCollector, CollectorRuns
<1>2. CASE CollectorConfigure(c)
  <2>1. UNCHANGED targetState /\ \A u \in Targets : CollectorRuns(u)' <=> CollectorRuns(u)
    <3>1. CASE UNCHANGED collectorState
      BY <1>2, <3>1 DEF CollectorConfigure, CollectorRuns
    <3>2. CASE /\ ~CollectorRuns(tgt[c])
               /\ \E s \in {"CONFIGURED", "UNCONFIGURED"} : SetCollector(tgt[c], s)
      BY <1>2, <3>2 DEF CollectorConfigure, CollectorRuns, SetCollector
    <3> QED
      BY <1>2, <3>1, <3>2 DEF CollectorConfigure, CollectorRuns, SetCollector
  <2> QED
    BY <2>1, SameRunning
<1>3. CASE DropConfiguration(c)
  BY SMTT(60), <1>3, SameRunning DEF DropConfiguration, ClearCollectionState, SetCollector, CollectorRuns
<1>4. CASE CollectorPause(c)
  BY SMTT(60), <1>4, SameRunning DEF CollectorPause, SetCollector, CollectorRuns, Known, KnownBy
<1>5. CASE CollectorResume(c)
  BY <1>5, SameRunning DEF CollectorResume, SetCollector, CollectorRuns, Known, KnownBy
<1> QED
  BY <1>1, <1>2, <1>3, <1>4, <1>5

\* Marking all targets unconfigured is the abstract reset: none runs.
LEMMA ResetStep ==
    ASSUME IInv, NEW c \in Callers, ResetCollectionState(c)
    PROVE  Lifecycle!Reset
<1>1. \A t \in Targets : targetState[t] \notin Running
  BY DEF ResetCollectionState, IInv, Known, KnownBy, In, Inside, Labels, Control,
         ControlOf, ConfigureOps
<1>2. UNCHANGED {t \in Targets : Collecting(t)}
  BY DEF ResetCollectionState, collectorVars, samplerVars, Collecting
<1> QED
  BY <1>1, <1>2 DEF ResetCollectionState, Lifecycle!Reset, Lifecycle!Running, Running

\* What the end of a configuration, a start, a transition or a rollback makes of its
\* target is one of the transitions of the abstract lifecycle.
LEMMA TargetSteps ==
    ASSUME IInv, IInv', NEW c \in Callers,
           \/ CompleteConfigure(c) \/ BeginStart(c) \/ FinishStart(c)
           \/ FinishStartPaused(c) \/ FinishPause(c) \/ FinishResume(c)
           \/ FinishStop(c) \/ FinishRollback(c)
    PROVE  [Lifecycle!Next]_(Lifecycle!vars)
<1> DEFINE t == tgt[c]
<1>1. UNCHANGED <<collectorState, samplerPc>>
  BY DEF CompleteConfigure, BeginStart, FinishStart, FinishStartPaused, FinishPause,
     FinishResume, FinishStop, FinishRollback, collectorVars, samplerVars
<1>2. t \in Targets /\ op[c] # "reset" /\ pc[c] \in {"begin", "succeeded", "refused"}
  BY DEF CompleteConfigure, BeginStart, FinishStart, FinishStartPaused, FinishPause,
     FinishResume, FinishStop, FinishRollback, IInv, TypeOK, Control, ControlOf
<1>3. CASE UNCHANGED targetState
  BY <1>1, <1>3, SameLifecycle
<1>4. CASE CompleteConfigure(c)
  <2>1. targetState[t] \notin Running
    BY <1>2, <1>4 DEF CompleteConfigure, IInv, Known, KnownBy, In, Inside, Labels,
       ConfigureOps
  <2>2. SetTarget(c, "CONFIGURED") \/ SetTarget(c, "UNCONFIGURED")
    BY <1>4 DEF CompleteConfigure
  <2> QED
    BY <1>1, <1>2, <2>1, <2>2, MoveTarget DEF LifecycleState
<1>5. CASE BeginStart(c)
  <2>1. \/ targetState[t] = "CONFIGURED" /\ SetTarget(c, "STARTING")
        \/ UNCHANGED targetState
    BY <1>2, <1>5, AllowedIn DEF BeginStart, IInv, TypeOK
  <2> QED
    BY <1>1, <1>2, <1>3, <2>1, MoveTarget DEF LifecycleState
<1>6. CASE FinishStart(c)
  <2>1. \/ SetTarget(c, "STARTED")
        \/ pc[c] = "refused" /\ SetTarget(c, "CONFIGURED")
        \/ UNCHANGED targetState
    BY <1>6 DEF FinishStart, EndStart
  <2>2. targetState[t] = "STARTING" /\ (pc[c] = "refused" => ~CollectorRuns(t))
    BY <1>6 DEF FinishStart, IInv, Known, KnownBy, In, Inside, Labels, StartOps
  <2> QED
    BY <1>1, <1>2, <1>3, <2>1, <2>2, MoveTarget DEF LifecycleState, Running
<1>7. CASE FinishStartPaused(c)
  <2>1. \/ pc[c] = "succeeded" /\ call[c] = "PAUSE" /\ SetTarget(c, "PAUSED")
        \/ pc[c] = "succeeded" /\ call[c] = "STOP" /\ SetTarget(c, "CONFIGURED")
        \/ SetTarget(c, "STARTED")
        \/ UNCHANGED targetState
    BY <1>7 DEF FinishStartPaused, EndStart, AfterFailedPause
  <2>2. /\ targetState[t] = "STARTING"
        /\ pc[c] = "succeeded" /\ call[c] = "PAUSE" => CollectorRuns(t)
        /\ pc[c] = "succeeded" /\ call[c] = "STOP" => ~CollectorRuns(t)
    BY <1>7 DEF FinishStartPaused, IInv, Known, KnownBy, In, Inside, Labels, StartOps
  <2> QED
    BY <1>1, <1>2, <1>3, <2>1, <2>2, MoveTarget DEF LifecycleState, Running
<1>8. CASE FinishPause(c) \/ FinishResume(c)
  <2>1. SetTarget(c, "PAUSED") \/ SetTarget(c, "STARTED")
    BY SMTT(60), <1>8 DEF FinishPause, FinishResume
  <2>2. targetState[t] \in {"STARTED", "PAUSED"} /\ CollectorRuns(t)
    BY <1>8 DEF FinishPause, FinishResume, IInv, Known, KnownBy, In, Inside, Labels,
       RunningOps, Control, ControlOf
  <2> QED
    BY <1>1, <1>2, <2>1, <2>2, MoveTarget DEF LifecycleState
<1>9. CASE FinishStop(c) \/ FinishRollback(c)
  <2>1. \/ SetTarget(c, "STOPPED") \/ SetTarget(c, "CONFIGURED") \/ UNCHANGED targetState
    BY SMTT(60), <1>9 DEF FinishStop, FinishRollback
  <2>2. targetState[t] \in {"STARTED", "PAUSED"} /\ ~CollectorRuns(t)
    BY <1>9 DEF FinishStop, FinishRollback, IInv, Known, KnownBy, In, Inside, Labels,
       RunningOps, Control, ControlOf
  <2> QED
    BY <1>1, <1>2, <1>3, <2>1, <2>2, MoveTarget DEF LifecycleState, Running
<1> QED
  BY <1>4, <1>5, <1>6, <1>7, <1>8, <1>9

\* A start begins to collect, on a target that is STARTING; a stop ends it, while the
\* target still counts as running.
LEMMA CollectSteps ==
    ASSUME IInv, IInv', NEW c \in Callers, CollectorStart(c) \/ CollectorStop(c)
    PROVE  [Lifecycle!Next]_(Lifecycle!vars)
<1> DEFINE t == tgt[c]
           collecting == {u \in Targets : Collecting(u)}
<1>1. /\ UNCHANGED targetState
      /\ pc[c] = "work" /\ op[c] # "reset" /\ t \in Targets
  BY DEF CollectorStart, CollectorStop, orchestratorVars, IInv, Control, ControlOf, TypeOK
<1>2. collecting = {u \in Targets : CollectorRuns(u)}
  BY CollectingIsRunning
<1>3. collecting' = {u \in Targets : CollectorRuns(u)'}
  BY DEF IInv, SamplerIsOwned, Collecting, CollectorRuns
<1>4. targetState[t] \in Running
  <2>1. op[c] \in StartOps \cup RunningOps
    BY <1>1 DEF CollectorStart, CollectorStop, IInv, Control, ControlOf, TypeOK,
       TargetOperations, StartOps, RunningOps
  <2> QED
    BY <1>1, <2>1 DEF IInv, Known, KnownBy, In, Inside, Labels, Running
<1>5. CASE UNCHANGED collectorState
  BY <1>1, <1>2, <1>3, <1>5 DEF Lifecycle!vars, CollectorRuns
<1>6. CASE CollectorStart(c) /\ SetCollector(t, "STARTED")
  <2>1. op[c] \in StartOps
    BY <1>1, <1>6 DEF CollectorStart, IInv, Control, ControlOf, TypeOK, TargetOperations,
       StartOps
  <2>2. targetState[t] = "STARTING"
    BY <1>1, <2>1 DEF IInv, Known, KnownBy, In, Inside, Labels
  <2>3. collecting' = collecting \cup {t}
    BY <1>1, <1>2, <1>3, <1>6 DEF SetCollector, CollectorRuns, IInv, TypeOK
  <2> QED
    BY <1>1, <2>2, <2>3 DEF Lifecycle!Next, Lifecycle!BeginCollecting
<1>7. CASE CollectorStop(c) /\ SetCollector(t, "STOPPED")
  <2>1. collecting' = collecting \ {t}
    BY <1>1, <1>2, <1>3, <1>7 DEF SetCollector, CollectorRuns, IInv, TypeOK
  <2> QED
    BY <1>1, <1>4, <2>1 DEF Lifecycle!Next, Lifecycle!EndCollecting, Lifecycle!Running, Running
<1> QED
  BY <1>5, <1>6, <1>7 DEF CollectorStart, CollectorStop

\* Every step is a step of the abstract lifecycle, or leaves it alone.
LEMMA StepSimulation == IInv /\ IInv' /\ [Next]_vars => [Lifecycle!Next]_(Lifecycle!vars)
<1> SUFFICES ASSUME IInv, IInv', [Next]_vars  PROVE [Lifecycle!Next]_(Lifecycle!vars)
  OBVIOUS
<1>1. CASE UNCHANGED vars
  BY <1>1, SameLifecycle DEF vars, shared, orchestratorVars, collectorVars, samplerVars
<1>2. CASE \E t \in Targets : SamplerStep(t)
  BY <1>2, SamplerSteps
<1>3. ASSUME NEW c \in Callers,
             (\E t \in Targets : CallOnTarget(c, t)) \/ CallReset(c) \/ CallStartAll(c)
      PROVE  UNCHANGED Lifecycle!vars
  BY <1>3, SameLifecycle, QuietSteps
<1>4. ASSUME NEW c \in Callers, CallerStep(c)
      PROVE  [Lifecycle!Next]_(Lifecycle!vars)
  <2>1. CASE \/ \E t \in Targets : StartNext(c, t) \/ RollbackNext(c, t)
             \/ AbandonBatch(c) \/ Return(c)
             \/ BeginConfigure(c) \/ BeginReset(c) \/ EnterClear(c) \/ LeaveClear(c)
             \/ RefuseOperations(c) \/ ConfigureRefused(c) \/ EnterDrop(c) \/ ContinueStartPaused(c)
             \/ BeginTransition(c) \/ TransitionRefused(c) \/ BeginRead(c) \/ FinishRead(c)
             \/ Lookup(c) \/ CancelSampler(c) \/ JoinSampler(c) \/ CollectorEnter(c)
             \/ InsertActive(c) \/ EraseActive(c) \/ CollectorRead(c)
    BY <2>1, SameLifecycle, QuietSteps
  <2>2. CASE \/ \E t \in Targets : ClearOne(c, t)
             \/ CollectorConfigure(c) \/ DropConfiguration(c)
             \/ CollectorPause(c) \/ CollectorResume(c)
    BY <2>2, CollectorSteps
  <2>3. CASE ResetCollectionState(c)
    BY <2>3, ResetStep DEF Lifecycle!Next
  <2>4. CASE \/ CompleteConfigure(c) \/ BeginStart(c) \/ FinishStart(c)
             \/ FinishStartPaused(c) \/ FinishPause(c) \/ FinishResume(c)
             \/ FinishStop(c) \/ FinishRollback(c)
    BY <2>4, TargetSteps
  <2>5. CASE CollectorStart(c) \/ CollectorStop(c)
    BY <2>5, CollectSteps
  <2> QED
    BY <1>4, <2>1, <2>2, <2>3, <2>4, <2>5 DEF CallerStep
<1> QED
  BY <1>1, <1>2, <1>3, <1>4 DEF Next

\* The orchestrator with its collectors and samplers implements the abstract lifecycle
\* of every target: each state change a caller can observe is one of the documented
\* transitions, taken atomically, and what collects is what the state says.
THEOREM Implementation == Spec => ImplementsLifecycle
<1>1. Init => Lifecycle!Init
  BY DEF Init, Lifecycle!Init, Collecting
<1>2. IInv /\ IInv' /\ [Next]_vars => [Lifecycle!Next]_(Lifecycle!vars)
  BY StepSimulation
<1> QED
  BY <1>1, <1>2, Invariance, PTL DEF Spec, ImplementsLifecycle, Lifecycle!Spec

-----------------------------------------------------------------------------
(* A target and its collector agree, unless a call is between the two.  A   *)
(* step that changes a state of a target is one of the caller that claims   *)
(* it (OnTarget); one that clears all of them is done with _configure_mutex *)
(* held and no target running, so that no other caller is in between        *)
(* (ConfigureIsAlone); every other step changes no state (Quiet).           *)

\* The step of c leaves the other callers where they are.
OthersStay(c) ==
    \A d \in Callers \ {c} :
        pc'[d] = pc[d] /\ op'[d] = op[d] /\ call'[d] = call[d] /\ tgt'[d] = tgt[d]

\* Between the stop of its collector and what it says of the target.
Stopped(c) == call[c] = "STOP" /\ pc[c] \in {"erase", "succeeded"}

\* A caller that is unsettled, or has stopped a collector, works on a target it claims.
LEMMA UnsettledClaims ==
    ASSUME IInv, NEW c \in Callers, Unsettled(c) \/ Stopped(c)
    PROVE  tgt[c] \in Targets /\ tgt[c] \in claim[c]
<1>1. pc[c] \notin {"idle", "begin", "done", "failed"} /\ op[c] # "reset"
  BY DEF IInv, Control, ControlOf, Unsettled, Stopped, In, Inside, StartOps
<1>2. tgt[c] \in claim[c] /\ claim[c] \subseteq Targets
  BY <1>1 DEF IInv, Control, ControlOf, TypeOK
<1> QED
  BY <1>2

\* Which mutex, or which state of its target, an unsettled caller has.
LEMMA UnsettledHolds ==
    ASSUME IInv, NEW c \in Callers, Unsettled(c) \/ Stopped(c)
    PROVE  configureMutex = c \/ targetState[tgt[c]] \in {"STARTED", "PAUSED"}
<1>1. Stopped(c) => op[c] \in {"stop", "rollback", "startPaused"}
  BY SMTT(60) DEF IInv, Control, ControlOf, Stopped, TypeOK, TargetOperations
<1>2. CASE In(c, StartOps) \/ (op[c] = "startPaused" /\ Stopped(c))
  BY <1>2 DEF IInv, Locks, In, Inside, Labels, StartOps, LockingOps, Stopped
<1>3. CASE op[c] = "configure" /\ pc[c] \in {"succeeded", "drop", "dropping"}
  BY <1>3 DEF IInv, Locks, In, Inside, Labels, ConfigureOps, LockingOps
<1>4. CASE op[c] \in {"stop", "rollback"} /\ pc[c] \in {"erase", "succeeded"}
  BY <1>4 DEF IInv, Known, KnownBy, In, Inside, Labels, RunningOps
<1>5. CASE Unsettled(c)
  BY <1>2, <1>3, <1>4, <1>5 DEF Unsettled
<1>6. CASE Stopped(c)
  <2>1. pc[c] \in {"erase", "succeeded"}
    BY <1>6 DEF Stopped
  <2> QED
    BY <1>1, <1>2, <1>4, <1>6, <2>1
<1> QED
  BY <1>5, <1>6

\* A call that is neither unsettled nor stopping has reached nothing.
LEMMA SettledReached ==
    ASSUME NEW c, ~Unsettled(c), ~Stopped(c)
    PROVE  ReachedOf(c)
BY DEF ReachedOf, Unsettled, Stopped

\* A step of c that changes the states of its target at most.
OnTarget(c) ==
    /\ OthersStay(c) /\ tgt[c] \in claim[c] /\ tgt'[c] = tgt[c]
    /\ \A u \in Targets \ {tgt[c]} : /\ targetState'[u] = targetState[u]
                                     /\ collectorState'[u] = collectorState[u]
    /\ ReachedOf(c)'
    /\ Agree(tgt[c])' \/ Unsettled(c)'

LEMMA TargetStep ==
    ASSUME IInv, AgreeInv, NEW c \in Callers, OnTarget(c)
    PROVE  AgreeInv'
<1> USE DEF OnTarget
<1>1. ASSUME NEW d \in Callers, d # c, Unsettled(d) \/ Stopped(d)
      PROVE  /\ tgt[d] \in Targets /\ tgt[d] # tgt[c]
             /\ targetState'[tgt[d]] = targetState[tgt[d]]
             /\ collectorState'[tgt[d]] = collectorState[tgt[d]]
  BY <1>1, UnsettledClaims DEF IInv, Claims
<1>2. ASSUME NEW d \in Callers, d # c
      PROVE  /\ Unsettled(d)' = Unsettled(d) /\ Stopped(d)' = Stopped(d)
             /\ tgt'[d] = tgt[d]
  BY <1>2 DEF OthersStay, Unsettled, Stopped, In
<1>3. ASSUME NEW d \in Callers PROVE ReachedOf(d)'
  <2>1. CASE d = c
    BY <2>1
  <2>2. CASE d # c /\ ~Unsettled(d) /\ ~Stopped(d)
    <3>1. ~Unsettled(d)' /\ ~Stopped(d)'
      BY <1>2, <1>3, <2>2
    <3> QED
      BY <3>1 DEF ReachedOf, Unsettled, Stopped
  <2>3. CASE d # c /\ (Unsettled(d) \/ Stopped(d))
    BY <1>1, <1>3, <2>3 DEF AgreeInv, Reached, ReachedOf, OthersStay, In, CollectorRuns
  <2> QED
    BY <2>1, <2>2, <2>3
<1>4. ASSUME NEW t \in Targets PROVE Agree(t)' \/ \E d \in Callers : tgt'[d] = t /\ Unsettled(d)'
  <2>1. CASE t = tgt[c]
    BY <2>1
  <2>2. CASE t # tgt[c]
    <3>1. Agree(t)' = Agree(t)
      BY <1>4, <2>2 DEF Agree
    <3>2. Agree(t) \/ \E d \in Callers \ {c} : tgt[d] = t /\ Unsettled(d)
      BY <1>4, <2>2 DEF AgreeInv, Settled
    <3> QED
      BY <1>2, <3>1, <3>2
  <2> QED
    BY <2>1, <2>2
<1> QED
  BY <1>3, <1>4 DEF AgreeInv, Reached, Settled

\* A step of c that changes no state, and leaves no target apart that was not.
Quiet(c) ==
    /\ OthersStay(c) /\ UNCHANGED <<targetState, collectorState>>
    /\ ReachedOf(c)'
    /\ Unsettled(c) => Agree(tgt[c]) \/ (Unsettled(c)' /\ tgt'[c] = tgt[c])

LEMMA QuietStep ==
    ASSUME IInv, AgreeInv, NEW c \in Callers, Quiet(c)
    PROVE  AgreeInv'
<1> USE DEF Quiet
<1>1. ASSUME NEW d \in Callers, d # c
      PROVE  /\ Unsettled(d)' = Unsettled(d) /\ tgt'[d] = tgt[d]
             /\ ReachedOf(d)' = ReachedOf(d)
  BY <1>1 DEF OthersStay, Unsettled, ReachedOf, In, CollectorRuns
<1>2. \A d \in Callers : ReachedOf(d)'
  BY <1>1 DEF AgreeInv, Reached
<1>3. ASSUME NEW t \in Targets PROVE Agree(t)' \/ \E d \in Callers : tgt'[d] = t /\ Unsettled(d)'
  <2>1. Agree(t)' = Agree(t)
    BY DEF Agree
  <2>2. CASE Agree(t)
    BY <2>1, <2>2
  <2>3. CASE ~Agree(t)
    <3>1. PICK d \in Callers : tgt[d] = t /\ Unsettled(d)
      BY <1>3, <2>3 DEF AgreeInv, Settled
    <3>2. CASE d = c
      BY <2>3, <3>1, <3>2
    <3>3. CASE d # c
      BY <1>1, <3>1, <3>3
    <3> QED
      BY <3>2, <3>3
  <2> QED
    BY <2>2, <2>3
<1> QED
  BY <1>2, <1>3 DEF AgreeInv, Reached, Settled

\* While a configuration or a reset is inside, nobody else is unsettled.
LEMMA ConfigureIsAlone ==
    ASSUME IInv, NEW c \in Callers, In(c, ConfigureOps), NEW d \in Callers, d # c
    PROVE  ~Unsettled(d) /\ ~Stopped(d)
<1>1. configureMutex = c /\ \A t \in Targets : targetState[t] \notin Running
  BY DEF IInv, Locks, Known, KnownBy, In, LockingOps
<1> QED
  BY <1>1, UnsettledClaims, UnsettledHolds DEF Running

\* A step of a caller that clears, after which every target and its collector agree.
LEMMA ClearStep ==
    ASSUME IInv, AgreeInv, NEW c \in Callers, OthersStay(c), In(c, ConfigureOps),
           ~Unsettled(c)', ~Stopped(c)', \A t \in Targets : Agree(t)'
    PROVE  AgreeInv'
<1>1. ASSUME NEW d \in Callers PROVE ~Unsettled(d)' /\ ~Stopped(d)'
  <2>1. CASE d = c
    BY <2>1
  <2>2. CASE d # c
    BY <1>1, <2>2, ConfigureIsAlone DEF OthersStay, Unsettled, Stopped, In
  <2> QED
    BY <2>1, <2>2
<1>2. \A d \in Callers : ReachedOf(d)'
  BY SMTT(60), <1>1 DEF ReachedOf, Unsettled, Stopped
<1> QED
  BY <1>2 DEF AgreeInv, Reached, Settled

\* Calls that begin, go on to the next target and return.
LEMMA CallAgrees ==
    ASSUME IInv, AgreeInv, NEW c \in Callers,
           \/ CallReset(c) \/ CallStartAll(c) \/ AbandonBatch(c) \/ Return(c)
           \/ (\E t \in Targets : CallOnTarget(c, t))
           \/ (\E t \in Targets : StartNext(c, t))
           \/ (\E t \in Targets : RollbackNext(c, t))
    PROVE  AgreeInv'
<1> USE DEF orchestratorVars, collectorVars, samplerVars, mutexes, shared, callVars, Goto, Leave,
       OthersStay, IInv, TypeOK, TargetOperations, ReachedOf, ControlOf, Unsettled, In,
       Inside, Labels, StartOps, ConfigureOps, CollectorRuns
<1>1. ReachedOf(c) /\ ControlOf(c)
  BY DEF AgreeInv, Reached, Control
<1> SUFFICES Quiet(c)
  BY QuietStep
<1> USE DEF Quiet
<1>2. CASE CallReset(c)
  BY <1>1, <1>2 DEF CallReset
<1>3. CASE CallStartAll(c)
  BY <1>1, <1>3 DEF CallStartAll
<1>4. CASE AbandonBatch(c)
  BY <1>1, <1>4 DEF AbandonBatch
<1>5. CASE Return(c)
  BY <1>1, <1>5 DEF Return
<1>6. CASE \E t \in Targets : CallOnTarget(c, t)
  BY <1>1, <1>6 DEF CallOnTarget
<1>7. CASE \E t \in Targets : StartNext(c, t)
  BY <1>1, <1>7 DEF StartNext
<1>8. CASE \E t \in Targets : RollbackNext(c, t)
  BY SMTT(60), <1>1, <1>8 DEF RollbackNext
<1> QED
  BY <1>2, <1>3, <1>4, <1>5, <1>6, <1>7, <1>8

\* The steps of the orchestrator that write no state.
LEMMA MethodAgrees ==
    ASSUME IInv, AgreeInv, NEW c \in Callers,
           \/ BeginConfigure(c) \/ BeginReset(c) \/ EnterClear(c) \/ LeaveClear(c)
           \/ RefuseOperations(c) \/ ConfigureRefused(c) \/ EnterDrop(c)
           \/ ContinueStartPaused(c) \/ BeginTransition(c) \/ TransitionRefused(c)
           \/ BeginRead(c) \/ FinishRead(c)
    PROVE  AgreeInv'
<1> USE DEF orchestratorVars, collectorVars, samplerVars, mutexes, shared, callVars, Goto, Leave,
       OthersStay, IInv, TypeOK, TargetOperations, ReachedOf, ControlOf, Unsettled, In,
       Inside, Labels, StartOps, ConfigureOps, CollectorRuns
<1>1. ReachedOf(c) /\ ControlOf(c)
  BY DEF AgreeInv, Reached, Control
<1> SUFFICES Quiet(c)
  BY QuietStep
<1> USE DEF Quiet
<1>2. CASE BeginConfigure(c)
  BY <1>1, <1>2 DEF BeginConfigure
<1>3. CASE BeginReset(c)
  BY <1>1, <1>3 DEF BeginReset
<1>4. CASE EnterClear(c)
  BY <1>1, <1>4 DEF EnterClear
<1>5. CASE LeaveClear(c)
  BY <1>1, <1>5 DEF LeaveClear
<1>6. CASE RefuseOperations(c)
  BY <1>1, <1>6 DEF RefuseOperations
<1>7. CASE ConfigureRefused(c)
  BY <1>1, <1>7 DEF ConfigureRefused
<1>8. CASE EnterDrop(c)
  <2>1. tgt[c] \notin activeTargets
    BY SMTT(60), <1>1, <1>8 DEF EnterDrop, Known, KnownBy, ActiveTargetsAreRunning
  <2> QED
    BY <1>1, <1>8, <2>1 DEF EnterDrop
<1>9. CASE ContinueStartPaused(c)
  BY <1>1, <1>9 DEF ContinueStartPaused
<1>10. CASE BeginTransition(c)
  BY <1>1, <1>10 DEF BeginTransition
<1>11. CASE TransitionRefused(c)
  BY <1>1, <1>11 DEF TransitionRefused
<1>12. CASE BeginRead(c)
  BY <1>1, <1>12 DEF BeginRead
<1>13. CASE FinishRead(c)
  BY SMTT(60), <1>1, <1>13 DEF FinishRead
<1> QED
  BY <1>2, <1>3, <1>4, <1>5, <1>6, <1>7, <1>8, <1>9, <1>10, <1>11, <1>12, <1>13

\* The steps of the collector manager, and those of the collector that write no state.
LEMMA ManagerAgrees ==
    ASSUME IInv, AgreeInv, NEW c \in Callers,
           \/ Lookup(c) \/ CancelSampler(c) \/ JoinSampler(c) \/ CollectorEnter(c)
           \/ InsertActive(c) \/ EraseActive(c) \/ CollectorRead(c)
    PROVE  AgreeInv'
<1> USE DEF orchestratorVars, collectorVars, samplerVars, mutexes, shared, callVars, Goto, Leave,
       OthersStay, IInv, TypeOK, TargetOperations, ReachedOf, ControlOf, Unsettled, In,
       Inside, Labels, StartOps, ConfigureOps, CollectorRuns
<1>1. ReachedOf(c) /\ ControlOf(c)
  BY DEF AgreeInv, Reached, Control
<1> SUFFICES Quiet(c)
  BY QuietStep
<1> USE DEF Quiet
<1>2. CASE Lookup(c)
  BY <1>1, <1>2 DEF Lookup
<1>3. CASE CancelSampler(c)
  BY <1>1, <1>3 DEF CancelSampler
<1>4. CASE JoinSampler(c)
  BY <1>1, <1>4 DEF JoinSampler
<1>5. CASE CollectorEnter(c)
  BY <1>1, <1>5 DEF CollectorEnter
<1>6. CASE InsertActive(c)
  BY <1>1, <1>6 DEF InsertActive
<1>7. CASE EraseActive(c)
  BY <1>1, <1>7 DEF EraseActive
<1>8. CASE CollectorRead(c)
  BY <1>1, <1>8 DEF CollectorRead
<1> QED
  BY <1>2, <1>3, <1>4, <1>5, <1>6, <1>7, <1>8

\* What pairs of states agree.
LEMMA AgreePairs ==
    ASSUME IInv, NEW t \in Targets
    PROVE  Agree(t) <=>
             \/ targetState[t] \in {"STARTED", "PAUSED"} /\ CollectorRuns(t)
             \/ targetState[t] = "CONFIGURED" /\ collectorState[t] \in Resting
             \/ targetState[t] = "STOPPED" /\ collectorState[t] \in {"STOPPED", "UNCONFIGURED"}
             \/ targetState[t] = "UNCONFIGURED" /\ collectorState[t] = "UNCONFIGURED"
BY DEF Agree, Disagreements, CollectorRuns, Resting, IInv, TypeOK, LifecycleState

\* A target without an unsettled call agrees with its collector.
LEMMA SettledTarget ==
    ASSUME IInv, AgreeInv, NEW c \in Callers, tgt[c] \in claim[c], ~Unsettled(c)
    PROVE  tgt[c] \in Targets /\ Agree(tgt[c])
<1>1. tgt[c] \in Targets
  BY DEF IInv, TypeOK
<1>2. ASSUME NEW d \in Callers, tgt[d] = tgt[c], Unsettled(d) PROVE FALSE
  BY <1>2, UnsettledClaims DEF IInv, Claims
<1> QED
  BY <1>1, <1>2 DEF AgreeInv, Settled

LEMMA StateAgrees ==
    ASSUME NoLoss, IInv, IInv', AgreeInv, NEW c \in Callers,
           \/ BeginStart(c) \/ FinishStart(c) \/ FinishStartPaused(c)
           \/ FinishPause(c) \/ FinishResume(c) \/ FinishStop(c) \/ FinishRollback(c)
           \/ CompleteConfigure(c)
    PROVE  AgreeInv'
<1> USE DEF orchestratorVars, collectorVars, samplerVars, mutexes, shared, callVars, Goto, SetTarget,
       OthersStay, TargetOperations, ReachedOf, ControlOf, KnownBy, Unsettled, In,
       Inside, Labels, StartOps, ConfigureOps, RunningOps, Resting
<1>1. ReachedOf(c) /\ ControlOf(c) /\ KnownBy(c)
  BY DEF AgreeInv, Reached, Control, Known, IInv
<1> SUFFICES OnTarget(c)
  BY TargetStep
<1> DEFINE t == tgt[c]
<1>2. pc[c] \notin {"idle", "done", "failed"} /\ op[c] # "reset"
  BY DEF BeginStart, FinishStart, FinishStartPaused, FinishPause, FinishResume, FinishStop, FinishRollback, CompleteConfigure
<1>3. t \in claim[c] /\ t \in Targets
  BY <1>1, <1>2 DEF IInv, TypeOK
<1>4. targetState \in [Targets -> LifecycleState] /\ pc \in [Callers -> Labels]
  BY DEF IInv, TypeOK
<1>5. tgt' = tgt /\ call' = call /\ op' = op /\ collectorState' = collectorState
      /\ OthersStay(c) /\ \A u \in Targets \ {t} : targetState'[u] = targetState[u]
  BY <1>4 DEF BeginStart, FinishStart, FinishStartPaused, FinishPause, FinishResume, FinishStop, FinishRollback, CompleteConfigure, EndStart
<1>6. Agree(t)' <=>
             \/ targetState'[t] \in {"STARTED", "PAUSED"} /\ CollectorRuns(t)
             \/ targetState'[t] = "CONFIGURED" /\ collectorState[t] \in Resting
             \/ targetState'[t] = "STOPPED" /\ collectorState[t] \in {"STOPPED", "UNCONFIGURED"}
             \/ targetState'[t] = "UNCONFIGURED" /\ collectorState[t] = "UNCONFIGURED"
  BY <1>3, <1>5, AgreePairs DEF Agree, Disagreements, CollectorRuns, IInv, TypeOK, LifecycleState
<1> SUFFICES ReachedOf(c)' /\ (Agree(t)' \/ Unsettled(c)')
  BY <1>3, <1>5 DEF OnTarget
<1>7. CASE BeginStart(c)
  <2>1. Agree(t)
    BY <1>3, <1>7, SettledTarget DEF BeginStart
  <2>2. CASE targetState[t] = "CONFIGURED"
    <3>1. collectorState[t] \in Resting
      BY <1>3, <2>1, <2>2, AgreePairs
    <3>2. "CONFIGURED" \in LifecycleState /\ call[c] \in {"START"} /\ op[c] \in StartOps
      BY <1>1, <1>7 DEF BeginStart, LifecycleState
    <3>3. Allowed(targetState[t], "START")
      BY <2>2, <3>2, AllowedIn
    <3>4. pc' = [pc EXCEPT ![c] = "lookup"]
      BY <1>7, <3>3 DEF BeginStart
    <3> QED
      BY <1>4, <1>5, <3>1, <3>2, <3>4
  <2>3. CASE targetState[t] # "CONFIGURED"
    BY <1>3, <1>4, <1>5, <1>7, <2>1, <2>3, AllowedIn DEF BeginStart, Agree
  <2> QED
    BY <2>2, <2>3
<1>8. CASE FinishStart(c)
  BY <1>1, <1>3, <1>4, <1>5, <1>6, <1>8 DEF FinishStart, EndStart
<1>9. CASE FinishStartPaused(c)
  BY <1>1, <1>3, <1>4, <1>5, <1>6, <1>9 DEF FinishStartPaused, EndStart, AfterFailedPause
<1>10. CASE FinishPause(c)
  BY <1>1, <1>3, <1>4, <1>5, <1>6, <1>10 DEF FinishPause
<1>11. CASE FinishResume(c)
  BY <1>1, <1>3, <1>4, <1>5, <1>6, <1>11 DEF FinishResume
<1>12. CASE FinishStop(c)
  <2>1. SetTarget(c, "STOPPED") /\ pc' = [pc EXCEPT ![c] = "done"]
    BY <1>12 DEF FinishStop, Outcome, NoLoss
  <2> QED
    BY <1>1, <1>3, <1>4, <1>5, <1>6, <1>12, <2>1 DEF FinishStop
<1>13. CASE FinishRollback(c)
  <2>1. SetTarget(c, "CONFIGURED") /\ pc' = [pc EXCEPT ![c] = "done"]
    BY <1>13 DEF FinishRollback, Outcome, NoLoss
  <2> QED
    BY <1>1, <1>3, <1>4, <1>5, <1>6, <1>13, <2>1 DEF FinishRollback
<1>14. CASE CompleteConfigure(c)
  BY <1>1, <1>3, <1>4, <1>5, <1>6, <1>14 DEF CompleteConfigure
<1> QED
  BY SMTT(60), <1>7, <1>8, <1>9, <1>10, <1>11, <1>12, <1>13, <1>14

\* The steps of the collector that write its state.
LEMMA CollectorAgrees ==
    ASSUME NoLoss, IInv, IInv', AgreeInv, NEW c \in Callers,
           \/ CollectorConfigure(c) \/ CollectorStart(c) \/ CollectorPause(c)
           \/ CollectorResume(c) \/ CollectorStop(c)
    PROVE  AgreeInv'
<1> USE DEF orchestratorVars, collectorVars, samplerVars, mutexes, shared, callVars, Goto, Leave,
       SetCollector, OthersStay, TargetOperations, ReachedOf, ControlOf, KnownBy, Unsettled, In,
       Inside, Labels, StartOps, ConfigureOps, RunningOps, Resting, CollectorRuns
<1>1. ReachedOf(c) /\ ControlOf(c) /\ KnownBy(c)
  BY DEF AgreeInv, Reached, Control, Known, IInv
<1> SUFFICES OnTarget(c)
  BY TargetStep
<1> DEFINE t == tgt[c]
<1>2. pc[c] \in {"enter", "work"} /\ op[c] # "reset"
  BY <1>1 DEF CollectorConfigure, CollectorStart, CollectorPause, CollectorResume, CollectorStop
<1>3. t \in claim[c] /\ t \in Targets
  BY <1>1, <1>2 DEF IInv, TypeOK
<1>4. /\ collectorState \in [Targets -> LifecycleState \ {"STARTING"}]
      /\ pc \in [Callers -> Labels]
      /\ op[c] \in TargetOperations \cup {"reset", "rollback"}
      /\ targetState[t] \in LifecycleState
  BY <1>3 DEF IInv, TypeOK
<1>5. tgt' = tgt /\ call' = call /\ op' = op /\ targetState' = targetState
      /\ OthersStay(c) /\ \A u \in Targets \ {t} : collectorState'[u] = collectorState[u]
  BY <1>4 DEF CollectorConfigure, CollectorStart, CollectorPause, CollectorResume, CollectorStop
<1> SUFFICES ReachedOf(c)' /\ (Agree(t)' \/ Unsettled(c)')
  BY <1>3, <1>5 DEF OnTarget
<1>6. CASE CollectorConfigure(c)
  <2>1. op[c] = "configure" /\ pc[c] = "enter"
    BY <1>1, <1>2, <1>4, <1>6 DEF CollectorConfigure
  <2>2. Agree(t) /\ targetState[t] \notin Running
    BY <1>1, <1>3, <2>1, SettledTarget
  <2>3. CASE collectorState'[t] = collectorState[t] /\ pc'[c] = "refused"
    <3>1. Agree(t)'
      BY <1>5, <2>2, <2>3 DEF Agree
    <3> QED
      BY <1>5, <2>1, <2>3, <3>1
  <2>4. CASE collectorState'[t] = "UNCONFIGURED" /\ pc'[c] = "refused"
    <3>1. Agree(t)'
      BY <1>4, <1>5, <2>2, <2>4 DEF Agree, Running, LifecycleState, Disagreements
    <3> QED
      BY <1>5, <2>1, <2>4, <3>1
  <2>5. CASE collectorState'[t] = "CONFIGURED" /\ pc'[c] = "succeeded"
    BY <1>1, <1>5, <2>1, <2>5
  <2> QED
    BY <1>3, <1>4, <1>6, <2>3, <2>4, <2>5 DEF CollectorConfigure
<1>7. CASE CollectorStart(c)
  BY <1>1, <1>2, <1>3, <1>4, <1>5, <1>7 DEF CollectorStart
<1>8. CASE CollectorPause(c)
  <2>1. collectorState'[t] = "PAUSED" /\ pc'[c] \in {"succeeded", "refused"} /\ call[c] = "PAUSE"
    BY <1>3, <1>4, <1>8 DEF CollectorPause
  <2>2. op[c] = "pause" => Agree(t)'
    BY <1>1, <1>2, <1>5, <2>1 DEF Agree, Disagreements
  <2> QED
    BY <1>1, <1>2, <1>4, <1>5, <2>1, <2>2
<1>9. CASE CollectorResume(c)
  <2>1. collectorState'[t] = "STARTED" /\ pc'[c] \in {"succeeded", "refused"} /\ call[c] = "RESUME"
    BY <1>3, <1>4, <1>9 DEF CollectorResume
  <2>2. op[c] = "resume" => Agree(t)'
    BY <1>1, <1>2, <1>5, <2>1 DEF Agree, Disagreements
  <2> QED
    BY <1>1, <1>2, <1>4, <1>5, <2>1, <2>2
<1>10. CASE CollectorStop(c)
  <2>1. call[c] = "STOP" /\ pc[c] = "work"
    BY <1>10 DEF CollectorStop
  <2>2. \/ collectorState'[t] = "STOPPED" /\ pc'[c] = "erase"
        \/ collectorState'[t] = collectorState[t] /\ pc'[c] = "refused"
    BY <1>3, <1>4, <1>10 DEF CollectorStop, NoLoss, OutcomeOn, Outcome
  <2>3. CASE collectorState'[t] = "STOPPED" /\ pc'[c] = "erase"
    BY <1>1, <1>2, <1>4, <1>5, <2>1, <2>3
  <2>4. CASE collectorState'[t] = collectorState[t] /\ pc'[c] = "refused" /\ ~Unsettled(c)
    <3>1. Agree(t)
      BY <1>3, <2>4, SettledTarget
    <3>2. Agree(t)'
      BY <1>5, <2>4, <3>1 DEF Agree
    <3> QED
      BY <1>1, <1>2, <1>4, <1>5, <2>1, <2>4, <3>2
  <2>5. CASE collectorState'[t] = collectorState[t] /\ pc'[c] = "refused" /\ Unsettled(c)
    BY <1>1, <1>2, <1>4, <1>5, <2>1, <2>5
  <2> QED
    BY <2>2, <2>3, <2>4, <2>5
<1> QED
  BY <1>6, <1>7, <1>8, <1>9, <1>10

\* A configuration or a reset that clears finds every target agreeing with its collector.
LEMMA AllAgree ==
    ASSUME IInv, AgreeInv, NEW c \in Callers, In(c, ConfigureOps)
    PROVE  \A t \in Targets : Agree(t) \/ (Unsettled(c) /\ tgt[c] = t)
BY ConfigureIsAlone DEF AgreeInv, Settled

\* Clearing the collections of all targets, and dropping the configuration of one.
LEMMA ClearAgrees ==
    ASSUME IInv, IInv', AgreeInv, NEW c \in Callers,
           \/ ResetCollectionState(c) \/ DropConfiguration(c)
           \/ \E t \in Targets : ClearOne(c, t)
    PROVE  AgreeInv'
<1> USE DEF orchestratorVars, collectorVars, samplerVars, mutexes, shared, callVars, Goto,
       SetCollector, OthersStay, TargetOperations, ControlOf, KnownBy, Unsettled, Stopped, In,
       Inside, Labels, StartOps, ConfigureOps, RunningOps
<1>1. ReachedOf(c) /\ ControlOf(c) /\ KnownBy(c)
  BY DEF AgreeInv, Reached, Control, Known, IInv
<1>2. /\ collectorState \in [Targets -> LifecycleState \ {"STARTING"}]
      /\ pc \in [Callers -> Labels]
      /\ targetState \in [Targets -> LifecycleState]
  BY DEF IInv, TypeOK
<1>3. In(c, ConfigureOps) /\ \A t \in Targets : targetState[t] \notin Running
  BY <1>1 DEF ResetCollectionState, DropConfiguration, ClearOne
<1>4. \A t \in Targets : Agree(t) \/ (Unsettled(c) /\ tgt[c] = t)
  BY <1>3, AllAgree
<1>5. OthersStay(c) /\ ~Unsettled(c)' /\ ~Stopped(c)'
  BY <1>1, <1>2 DEF ResetCollectionState, DropConfiguration, ClearOne
<1> SUFFICES ASSUME NEW u \in Targets PROVE Agree(u)'
  BY <1>3, <1>5, ClearStep
<1>6. CASE ResetCollectionState(c)
  BY <1>1, <1>6 DEF ResetCollectionState, Agree
<1>7. CASE DropConfiguration(c)
  <2>1. targetState' = targetState /\ tgt[c] \in Targets /\ targetState[tgt[c]] = "UNCONFIGURED"
    BY <1>1, <1>7 DEF DropConfiguration, ReachedOf, IInv, TypeOK
  <2>2. ~CollectorRuns(tgt[c])
    BY <2>1 DEF IInv, CollectingIsTracked, Collecting, CollectorRuns, Running
  <2>3. collectorState' = [collectorState EXCEPT ![tgt[c]] = "UNCONFIGURED"]
    BY <1>7, <2>2 DEF DropConfiguration, ClearCollectionState, CollectorRuns
  <2> QED
    BY <1>2, <1>4, <2>1, <2>3 DEF Agree
<1>8. CASE \E t \in Targets : ClearOne(c, t)
  <2>1. PICK t \in Targets : ClearOne(c, t)
    BY <1>8
  <2>2. ~Unsettled(c) /\ targetState' = targetState
    BY <1>1, <2>1 DEF ClearOne
  <2>3. Agree(u) /\ targetState[u] \notin Running
    BY <1>3, <1>4, <2>2
  <2>4. collectorState'[u] \in {collectorState[u], "UNCONFIGURED"}
    BY <1>2, <2>1 DEF ClearOne, ClearCollectionState
  <2> QED
    BY <1>2, <2>2, <2>3, <2>4 DEF Agree, Disagreements, Running, LifecycleState
<1> QED
  BY SMTT(60), <1>6, <1>7, <1>8

\* The samplers write no state.
LEMMA SamplerAgrees ==
    ASSUME AgreeInv,
           \/ UNCHANGED vars
           \/ \E t \in Targets : SamplerStep(t)
    PROVE  AgreeInv'
<1>1. UNCHANGED <<targetState, collectorState, pc, op, call, tgt>>
  BY DEF vars, SamplerStep, SamplerPoll, SamplerLock, SamplerSample, orchestratorVars,
         collectorVars, samplerVars, mutexes, shared, callVars
<1> QED
  BY <1>1 DEF AgreeInv, Reached, ReachedOf, Settled, Agree, Unsettled, In, CollectorRuns

\* Initially every target agrees with its collector and nobody is inside.
LEMMA InitAgree == Init => AgreeInv
BY DEF Init, AgreeInv, Reached, ReachedOf, Settled, Agree, In, Inside, CollectorRuns

\* No step of a caller or a sampler leaves the invariant.
LEMMA NextAgree == NoLoss /\ IInv /\ IInv' /\ AgreeInv /\ [Next]_vars => AgreeInv'
<1> SUFFICES ASSUME NoLoss, IInv, IInv', AgreeInv, [Next]_vars
             PROVE  AgreeInv'
  OBVIOUS
<1>1. CASE UNCHANGED vars \/ \E t \in Targets : SamplerStep(t)
  BY <1>1, SamplerAgrees
<1>2. ASSUME NEW c \in Callers,
             (\E t \in Targets : CallOnTarget(c, t)) \/ CallReset(c) \/ CallStartAll(c)
      PROVE  AgreeInv'
  BY <1>2, CallAgrees
<1>3. ASSUME NEW c \in Callers, CallerStep(c)
      PROVE  AgreeInv'
  <2>1. CASE \/ AbandonBatch(c) \/ Return(c)
             \/ \E t \in Targets : StartNext(c, t) \/ RollbackNext(c, t)
    BY <2>1, CallAgrees
  <2>2. CASE \/ ResetCollectionState(c) \/ DropConfiguration(c)
             \/ \E t \in Targets : ClearOne(c, t)
    BY <2>2, ClearAgrees
  <2>3. CASE \/ BeginConfigure(c) \/ BeginReset(c) \/ EnterClear(c) \/ LeaveClear(c)
             \/ RefuseOperations(c) \/ ConfigureRefused(c) \/ EnterDrop(c)
             \/ ContinueStartPaused(c) \/ BeginTransition(c) \/ TransitionRefused(c)
             \/ BeginRead(c) \/ FinishRead(c)
    BY <2>3, MethodAgrees
  <2>4. CASE \/ BeginStart(c) \/ FinishStart(c) \/ FinishStartPaused(c)
             \/ FinishPause(c) \/ FinishResume(c) \/ FinishStop(c) \/ FinishRollback(c)
             \/ CompleteConfigure(c)
    BY <2>4, StateAgrees
  <2>5. CASE \/ Lookup(c) \/ CancelSampler(c) \/ JoinSampler(c) \/ CollectorEnter(c)
             \/ InsertActive(c) \/ EraseActive(c) \/ CollectorRead(c)
    BY <2>5, ManagerAgrees
  <2>6. CASE \/ CollectorConfigure(c) \/ CollectorStart(c) \/ CollectorPause(c)
             \/ CollectorResume(c) \/ CollectorStop(c)
    BY <2>6, CollectorAgrees
  <2> QED
    BY <1>3, <2>1, <2>2, <2>3, <2>4, <2>5, <2>6 DEF CallerStep
<1> QED
  BY <1>1, <1>2, <1>3 DEF Next

\* The invariant of the states: a caller in between knows how far it is, and
\* every other target agrees with its collector.
THEOREM AgreeInvariance == ASSUME NoLoss PROVE Spec => []AgreeInv
<1>1. NoLoss
  OBVIOUS
<1> QED
  BY <1>1, Invariance, InitAgree, NextAgree, PTL DEF Spec

\* Between two calls, a target and its collector are in the same state, or apart in
\* one of the five ways a later call ends.
THEOREM StatesAreInAgreement == ASSUME NoLoss PROVE Spec => []StatesAgree
<1>1. IInv /\ AgreeInv => StatesAgree
  <2> SUFFICES ASSUME IInv, AgreeInv, NEW t \in Targets,
                      \A c \in Callers : t \notin claim[c]
               PROVE  Agree(t)
    BY DEF StatesAgree, Agree
  <2>1. \A c \in Callers : tgt[c] = t => ~Unsettled(c)
    BY UnsettledClaims
  <2> QED
    BY <2>1 DEF AgreeInv, Settled
<1> QED
  BY <1>1, Invariance, AgreeInvariance, PTL

\* A target that runs, and that nobody works on, can be stopped.
THEOREM RunningStoppable == ASSUME NoLoss PROVE Spec => []RunningCanBeStopped
<1>1. IInv /\ AgreeInv => RunningCanBeStopped
  <2> SUFFICES ASSUME IInv, AgreeInv, NEW t \in Targets, targetState[t] \in {"STARTED", "PAUSED"},
                      \A c \in Callers : t \notin claim[c]
               PROVE  Allowed(collectorState[t], "STOP")
    BY DEF RunningCanBeStopped
  <2>1. \A c \in Callers : tgt[c] = t => ~Unsettled(c)
    BY UnsettledClaims
  <2>2. CollectorRuns(t)
    BY <2>1, AgreePairs DEF AgreeInv, Settled
  <2>3. collectorState[t] \in LifecycleState
    BY DEF IInv, TypeOK
  <2> QED
    BY <2>2, <2>3, AllowedIn DEF CollectorRuns
<1> QED
  BY <1>1, Invariance, AgreeInvariance, PTL
=============================================================================
