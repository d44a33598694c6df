-------------------------- MODULE CollectionMethodProofs ---------------------------
(*****************************************************************************)
(* The lifecycle methods of the orchestrator keep the inductive invariant.   *)
(*****************************************************************************)
EXTENDS CollectionCallProofs

\* The target becomes STARTING; its collector does not run, for it would be tracked.
LEMMA BeginStartStep ==
    ASSUME IInv, NEW c \in Callers, BeginStart(c)
    PROVE  IInv'
<1> USE CollectionAssumption, AllowedIn DEF IInv, BeginStart, Goto, SetTarget,
       orchestratorVars, collectorVars,
         samplerVars, mutexes, shared, callVars
<1>1. TypeOK'
  BY SMTT(60) DEF TypeOK, Labels, Threads, Calls, LifecycleAction, LifecycleState,
         TargetOperations, Control, ControlOf, ConfigureOps
<1>2. Control'
  BY DEF Control, ControlOf, TypeOK, Labels, StartOps, ConfigureOps,
         TargetOperations, BatchOperations, Claims
<1>3. Locks'
  BY DEF Locks, Control, ControlOf, TypeOK, In, Inside, Labels, StartOps,
         ConfigureOps, LockingOps, TargetOperations
<1>4. Known'
  <2> SUFFICES ASSUME NEW d \in Callers  PROVE KnownBy(d)'
    BY DEF Known
  <2>1. CASE d = c
    <3>1. CASE targetState[tgt[c]] = "CONFIGURED"
      BY SMTT(60), <2>1, <3>1 DEF Known, KnownBy, Control, ControlOf, Claims, Locks,
             TypeOK, In, Inside, Labels, StartOps, ConfigureOps, RunningOps,
             LockingOps, TargetOperations, CollectorRuns, Running, LifecycleState,
             CollectingIsTracked, Collecting, ActiveTargetsAreRunning
    <3>2. CASE targetState[tgt[c]] # "CONFIGURED"
      <4>1. pc'[c] = "failed"
        BY SMTT(60), <3>2 DEF Control, ControlOf, TypeOK, LockingOps
      <4> QED BY <2>1, <4>1 DEF KnownBy, In, Inside
    <3> QED BY <3>1, <3>2
  <2>2. CASE d # c
    BY SMTT(60), <2>2 DEF Known, KnownBy, Control, ControlOf, Claims, Locks, TypeOK,
           In, Inside, Labels, StartOps, ConfigureOps, RunningOps, LockingOps,
           TargetOperations, CollectorRuns, Running, LifecycleState,
           CollectingIsTracked, Collecting, ActiveTargetsAreRunning
  <2> QED BY <2>1, <2>2
<1>5. Batches'
  <2> SUFFICES ASSUME NEW d \in Callers  PROVE BatchOf(d)'
    BY DEF Batches
  <2>1. CASE d = c
    <3>1. CASE targetState[tgt[c]] = "CONFIGURED"
      BY SMTT(60), <2>1, <3>1 DEF Batches, BatchOf, Control, ControlOf, Claims,
             Known, KnownBy, TypeOK, In, Inside, Labels, StartOps, ConfigureOps,
             RunningOps, Running, TargetOperations
    <3>2. CASE targetState[tgt[c]] # "CONFIGURED"
      BY SMTT(60), <2>1, <3>2 DEF Batches, BatchOf, Control, ControlOf, Claims,
             Known, KnownBy, TypeOK, In, Inside, Labels, StartOps, ConfigureOps,
             RunningOps, Running, TargetOperations
    <3> QED BY <3>1, <3>2
  <2>2. CASE d # c
    BY SMTT(60), <2>2 DEF Batches, BatchOf, Control, ControlOf, Claims, Known,
           KnownBy, TypeOK, In, Inside, Labels, StartOps, ConfigureOps, RunningOps,
           Running, TargetOperations
  <2> QED BY <2>1, <2>2
<1>6. CollectingIsTracked'
  BY DEF CollectingIsTracked, Collecting, SamplerIsOwned, Known, KnownBy, Control,
         ControlOf, CollectorRuns, TypeOK, In, Inside, Labels, StartOps,
         ConfigureOps, RunningOps, Running, TargetOperations
<1>7. ActiveTargetsAreRunning'
  BY DEF ActiveTargetsAreRunning, CollectingIsTracked, Collecting, Known, KnownBy,
         Control, ControlOf, CollectorRuns, TypeOK, In, Inside, Labels, StartOps,
         ConfigureOps, RunningOps, Running, TargetOperations
<1>8. PendingResetIsFresh'
  BY DEF PendingResetIsFresh, Known, KnownBy, Control, ControlOf, CollectorRuns,
         TypeOK, In, Inside, Labels, StartOps, ConfigureOps, RunningOps, Running,
         TargetOperations
<1>9. StartingIsTransient'
  BY DEF StartingIsTransient, Known, KnownBy, Control, ControlOf, Locks, TypeOK, In,
         Inside, Labels, StartOps, ConfigureOps, RunningOps, LockingOps, Running,
         TargetOperations
<1>10. Claims' /\ SamplerIsOwned'
  BY DEF Claims, SamplerIsOwned, CollectorRuns
<1> QED BY <1>1, <1>2, <1>3, <1>4, <1>5, <1>6, <1>7, <1>8, <1>9, <1>10

\* The target leaves STARTING with the call.
LEMMA FinishStartStep ==
    ASSUME IInv, NEW c \in Callers, FinishStart(c)
    PROVE  IInv'
<1> USE CollectionAssumption, AllowedIn DEF IInv, FinishStart, Goto, EndStart,
       SetTarget, orchestratorVars, collectorVars,
         samplerVars, mutexes, shared, callVars
<1>1. TypeOK'
  BY SMTT(60) DEF TypeOK, Labels, Threads, Calls, LifecycleAction, LifecycleState,
         TargetOperations, Control, ControlOf, ConfigureOps
<1>2. Control'
  BY DEF Control, ControlOf, TypeOK, Labels, StartOps, ConfigureOps,
         TargetOperations, BatchOperations, Claims
<1>3. Locks'
  <2>1. CASE pc[c] = "succeeded"
    BY <2>1 DEF Locks, Control, ControlOf, TypeOK, In, Inside, Labels, StartOps,
           ConfigureOps, LockingOps, TargetOperations
  <2>2. CASE pc[c] = "refused"
    BY <2>2 DEF Locks, Control, ControlOf, TypeOK, In, Inside, Labels, StartOps,
           ConfigureOps, LockingOps, TargetOperations
  <2> QED BY <2>1, <2>2
<1>4. Known'
  BY SMTT(60) DEF Known, KnownBy, Control, ControlOf, Claims, Locks, TypeOK, In, Inside,
         Labels, StartOps, ConfigureOps, RunningOps, LockingOps, TargetOperations,
         CollectorRuns, Running, LifecycleState
<1>5. Batches'
  <2> SUFFICES ASSUME NEW d \in Callers  PROVE BatchOf(d)'
    BY DEF Batches
  <2>1. CASE d = c
    <3>1. targetState' = [targetState EXCEPT ![tgt[c]] = IF pc[c] = "succeeded" THEN
          "STARTED" ELSE "CONFIGURED"]
      BY DEF Known, KnownBy, In, Inside, Labels, StartOps
    <3>2. UNCHANGED <<op, tgt, claim, queue, batch>> /\ tgt[c] \in Targets /\
          claim[c] \subseteq Targets /\ queue[c] \subseteq Targets
      BY SMTT(60) DEF TypeOK, Control, ControlOf, StartOps
    <3>3. pc'[c] = IF pc[c] = "succeeded" THEN "done" ELSE "failed"
      BY DEF TypeOK
    <3>4. BatchOf(c) /\ targetState[tgt[c]] = "STARTING" /\ pc[c] # "done"
      BY DEF Batches, Known, KnownBy, In, Inside, Labels, StartOps
    <3> QED BY ONLY <2>1, <3>1, <3>2, <3>3, <3>4, TypeOK DEF BatchOf, TypeOK
  <2>2. CASE d # c
    <3>1. tgt[c] \notin claim[d]
      BY SMTT(60), <2>2 DEF Claims, Control, ControlOf, StartOps
    <3>2. \A t \in Targets \ {tgt[c]} : targetState'[t] = targetState[t]
      BY DEF TypeOK
    <3>3. BatchOf(d) /\ claim[d] \subseteq Targets /\ (batch[d] # "none" => queue[d]
          \subseteq claim[d])
      BY DEF Batches, Claims, TypeOK
    <3>4. pc'[d] = pc[d] /\ UNCHANGED <<tgt, claim, queue, batch>>
      BY SMTT(60), <2>2 DEF TypeOK
    <3> QED BY ONLY <3>1, <3>2, <3>3, <3>4 DEF BatchOf
  <2> QED BY <2>1, <2>2
<1>6. CollectingIsTracked'
  BY SMTT(60) DEF CollectingIsTracked, Collecting, SamplerIsOwned, Known, KnownBy, Control,
         ControlOf, CollectorRuns, TypeOK, In, Inside, Labels, StartOps,
         ConfigureOps, RunningOps, Running, TargetOperations
<1>7. ActiveTargetsAreRunning'
  BY SMTT(60) DEF ActiveTargetsAreRunning, CollectingIsTracked, Collecting, Known, KnownBy,
         Control, ControlOf, CollectorRuns, TypeOK, In, Inside, Labels, StartOps,
         ConfigureOps, RunningOps, Running, TargetOperations
<1>8. PendingResetIsFresh'
  BY DEF PendingResetIsFresh, Known, KnownBy, Control, ControlOf, CollectorRuns,
         TypeOK, In, Inside, Labels, StartOps, ConfigureOps, RunningOps, Running,
         TargetOperations
<1>9. StartingIsTransient'
  BY SMTT(60) DEF StartingIsTransient, Known, KnownBy, Control, ControlOf, Locks, TypeOK, In,
         Inside, Labels, StartOps, ConfigureOps, RunningOps, LockingOps, Running,
         TargetOperations
<1>10. Claims' /\ SamplerIsOwned'
  BY DEF Claims, SamplerIsOwned, CollectorRuns
<1> QED BY <1>1, <1>2, <1>3, <1>4, <1>5, <1>6, <1>7, <1>8, <1>9, <1>10

\* The target stays STARTING until the paused start is over.
LEMMA ContinueStartPausedStep ==
    ASSUME IInv, NEW c \in Callers, ContinueStartPaused(c)
    PROVE  IInv'
<1> USE CollectionAssumption, AllowedIn DEF IInv, ContinueStartPaused, Goto,
       orchestratorVars, collectorVars,
         samplerVars, mutexes, shared, callVars
<1>1. TypeOK'
  BY SMTT(60) DEF TypeOK, Labels, Threads, Calls, LifecycleAction, LifecycleState,
         TargetOperations, Control, ControlOf, ConfigureOps
<1>2. Control'
  BY DEF Control, ControlOf, TypeOK, Labels, StartOps, ConfigureOps,
         TargetOperations, BatchOperations, Claims
<1>3. Locks'
  BY DEF Locks, Control, ControlOf, TypeOK, In, Inside, Labels, StartOps,
         ConfigureOps, LockingOps, TargetOperations
<1>4. Known'
  BY DEF Known, KnownBy, Control, ControlOf, Claims, Locks, TypeOK, In, Inside,
         Labels, StartOps, ConfigureOps, RunningOps, LockingOps, TargetOperations,
         CollectorRuns, Running, LifecycleState
<1>5. Batches'
  BY DEF Batches, BatchOf, Control, ControlOf, Claims, Known, KnownBy, TypeOK, In,
         Inside, Labels, StartOps, ConfigureOps, RunningOps, Running,
         TargetOperations
<1>6. ActiveTargetsAreRunning'
  BY DEF ActiveTargetsAreRunning, CollectingIsTracked, Collecting, Known, KnownBy,
         Control, ControlOf, CollectorRuns, TypeOK, In, Inside, Labels, StartOps,
         ConfigureOps, RunningOps, Running, TargetOperations
<1>7. Claims' /\ SamplerIsOwned' /\ CollectingIsTracked' /\ PendingResetIsFresh' /\
      StartingIsTransient'
  BY DEF Claims, SamplerIsOwned, CollectingIsTracked, PendingResetIsFresh,
         StartingIsTransient, Collecting, CollectorRuns
<1> QED BY <1>1, <1>2, <1>3, <1>4, <1>5, <1>6, <1>7

\* The target leaves STARTING with the call, CONFIGURED only if its collector stopped.
LEMMA FinishStartPausedStep ==
    ASSUME IInv, NEW c \in Callers, FinishStartPaused(c)
    PROVE  IInv'
<1> USE CollectionAssumption, AllowedIn DEF IInv, FinishStartPaused, Goto, EndStart,
       SetTarget, AfterFailedPause, orchestratorVars, collectorVars,
         samplerVars, mutexes, shared, callVars
<1>1. TypeOK'
  BY SMTT(60) DEF TypeOK, Labels, Threads, Calls, LifecycleAction, LifecycleState,
         TargetOperations, Control, ControlOf, ConfigureOps
<1>2. Control'
  BY DEF Control, ControlOf, TypeOK, Labels, StartOps, ConfigureOps,
         TargetOperations, BatchOperations, Claims
<1>3. Locks'
  BY SMTT(60) DEF Locks, Control, ControlOf, TypeOK, In, Inside, Labels, StartOps,
         ConfigureOps, LockingOps, TargetOperations
<1>4. Known'
  BY SMTT(60) DEF Known, KnownBy, Control, ControlOf, Claims, Locks, TypeOK, In, Inside,
         Labels, StartOps, ConfigureOps, RunningOps, LockingOps, TargetOperations,
         CollectorRuns, Running, LifecycleState
<1>5. Batches'
  <2> SUFFICES ASSUME NEW d \in Callers  PROVE BatchOf(d)'
    BY DEF Batches
  <2>1. CASE d = c
    BY SMTT(60), <2>1 DEF Batches, BatchOf, Control, ControlOf, Claims, Known, KnownBy,
           TypeOK, In, Inside, Labels, StartOps, ConfigureOps, RunningOps, Running,
           TargetOperations
  <2>2. CASE d # c
    <3>1. tgt[c] \notin claim[d]
      BY <2>2 DEF Claims, Control, ControlOf, StartOps
    <3>2. \A t \in Targets \ {tgt[c]} : targetState'[t] = targetState[t]
      BY DEF TypeOK
    <3>3. BatchOf(d) /\ claim[d] \subseteq Targets /\ (batch[d] # "none" => queue[d]
          \subseteq claim[d])
      BY DEF Batches, Claims, TypeOK
    <3>4. pc'[d] = pc[d] /\ UNCHANGED <<tgt, claim, queue, batch>>
      BY <2>2 DEF TypeOK
    <3> QED BY ONLY <3>1, <3>2, <3>3, <3>4 DEF BatchOf
  <2> QED BY <2>1, <2>2
<1>6. CollectingIsTracked'
  BY SMTT(60) DEF CollectingIsTracked, Collecting, SamplerIsOwned, Known, KnownBy, Control,
         ControlOf, CollectorRuns, TypeOK, In, Inside, Labels, StartOps,
         ConfigureOps, RunningOps, Running, TargetOperations
<1>7. ActiveTargetsAreRunning'
  BY SMTT(60) DEF ActiveTargetsAreRunning, CollectingIsTracked, Collecting, Known, KnownBy,
         Control, ControlOf, CollectorRuns, TypeOK, In, Inside, Labels, StartOps,
         ConfigureOps, RunningOps, Running, TargetOperations
<1>8. PendingResetIsFresh'
  BY DEF PendingResetIsFresh, Known, KnownBy, Control, ControlOf, CollectorRuns,
         TypeOK, In, Inside, Labels, StartOps, ConfigureOps, RunningOps, Running,
         TargetOperations
<1>9. StartingIsTransient'
  BY SMTT(60) DEF StartingIsTransient, Known, KnownBy, Control, ControlOf, Locks, TypeOK, In,
         Inside, Labels, StartOps, ConfigureOps, RunningOps, LockingOps, Running,
         TargetOperations
<1>10. Claims' /\ SamplerIsOwned'
  BY DEF Claims, SamplerIsOwned, CollectorRuns
<1> QED BY <1>1, <1>2, <1>3, <1>4, <1>5, <1>6, <1>7, <1>8, <1>9, <1>10

\* Only a STARTED or PAUSED target goes on to its collector.
LEMMA BeginTransitionStep ==
    ASSUME IInv, NEW c \in Callers, BeginTransition(c)
    PROVE  IInv'
<1> USE CollectionAssumption, AllowedIn DEF IInv, BeginTransition, Goto,
       orchestratorVars, collectorVars,
         samplerVars, mutexes, shared, callVars
<1>1. TypeOK'
  BY DEF TypeOK, Labels, Threads, Calls, LifecycleAction, LifecycleState,
         TargetOperations, Control, ControlOf, ConfigureOps
<1>2. Control'
  BY DEF Control, ControlOf, TypeOK, Labels, StartOps, ConfigureOps,
         TargetOperations, BatchOperations, Claims
<1>3. Locks'
  BY DEF Locks, Control, ControlOf, TypeOK, In, Inside, Labels, StartOps,
         ConfigureOps, LockingOps, TargetOperations
<1>4. Known'
  <2> SUFFICES ASSUME NEW d \in Callers  PROVE KnownBy(d)'
    BY DEF Known
  <2>1. CASE d = c
    <3>1. CASE op[c] = "pause"
      BY SMTT(60), <2>1, <3>1 DEF Known, KnownBy, Control, ControlOf, Claims, Locks, TypeOK,
             In, Inside, Labels, StartOps, ConfigureOps, RunningOps, LockingOps,
             TargetOperations, CollectorRuns, Running, LifecycleState
    <3>2. CASE op[c] = "resume"
      BY SMTT(60), <2>1, <3>2 DEF Known, KnownBy, Control, ControlOf, Claims, Locks, TypeOK,
             In, Inside, Labels, StartOps, ConfigureOps, RunningOps, LockingOps,
             TargetOperations, CollectorRuns, Running, LifecycleState
    <3>3. CASE op[c] = "stop"
      BY SMTT(60), <2>1, <3>3 DEF Known, KnownBy, Control, ControlOf, Claims, Locks, TypeOK,
             In, Inside, Labels, StartOps, ConfigureOps, RunningOps, LockingOps,
             TargetOperations, CollectorRuns, Running, LifecycleState
    <3> QED BY <3>1, <3>2, <3>3
  <2>2. CASE d # c
    BY <2>2 DEF Known, KnownBy, Control, ControlOf, Claims, Locks, TypeOK, In,
           Inside, Labels, StartOps, ConfigureOps, RunningOps, LockingOps,
           TargetOperations, CollectorRuns, Running, LifecycleState
  <2> QED BY <2>1, <2>2
<1>5. Batches'
  BY DEF Batches, BatchOf, Control, ControlOf, Claims, Known, KnownBy, TypeOK, In,
         Inside, Labels, StartOps, ConfigureOps, RunningOps, Running,
         TargetOperations
<1>6. ActiveTargetsAreRunning'
  BY DEF ActiveTargetsAreRunning, CollectingIsTracked, Collecting, Known, KnownBy,
         Control, ControlOf, CollectorRuns, TypeOK, In, Inside, Labels, StartOps,
         ConfigureOps, RunningOps, Running, TargetOperations
<1>7. Claims' /\ SamplerIsOwned' /\ CollectingIsTracked' /\ PendingResetIsFresh' /\
      StartingIsTransient'
  BY DEF Claims, SamplerIsOwned, CollectingIsTracked, PendingResetIsFresh,
         StartingIsTransient, Collecting, CollectorRuns
<1> QED BY <1>1, <1>2, <1>3, <1>4, <1>5, <1>6, <1>7

\* A running target goes on running.
LEMMA FinishPauseStep ==
    ASSUME IInv, NEW c \in Callers, FinishPause(c)
    PROVE  IInv'
<1> USE CollectionAssumption, AllowedIn DEF IInv, FinishPause, Goto, SetTarget,
       orchestratorVars, collectorVars,
         samplerVars, mutexes, shared, callVars
<1>1. TypeOK'
  BY SMTT(60) DEF TypeOK, Labels, Threads, Calls, LifecycleAction, LifecycleState,
         TargetOperations, Control, ControlOf, ConfigureOps
<1>2. Control'
  BY DEF Control, ControlOf, TypeOK, Labels, StartOps, ConfigureOps,
         TargetOperations, BatchOperations, Claims
<1>3. Locks'
  BY DEF Locks, Control, ControlOf, TypeOK, In, Inside, Labels, StartOps,
         ConfigureOps, LockingOps, TargetOperations
<1>4. Known'
  BY SMTT(60) DEF Known, KnownBy, Control, ControlOf, Claims, Locks, TypeOK, In, Inside,
         Labels, StartOps, ConfigureOps, RunningOps, LockingOps, TargetOperations,
         CollectorRuns, Running, LifecycleState
<1>5. Batches'
  BY DEF Batches, BatchOf, Control, ControlOf, Claims, Known, KnownBy, TypeOK, In,
         Inside, Labels, StartOps, ConfigureOps, RunningOps, Running,
         TargetOperations
<1>6. CollectingIsTracked'
  BY DEF CollectingIsTracked, Collecting, SamplerIsOwned, Known, KnownBy, Control,
         ControlOf, CollectorRuns, TypeOK, In, Inside, Labels, StartOps,
         ConfigureOps, RunningOps, Running, TargetOperations
<1>7. ActiveTargetsAreRunning'
  BY DEF ActiveTargetsAreRunning, CollectingIsTracked, Collecting, Known, KnownBy,
         Control, ControlOf, CollectorRuns, TypeOK, In, Inside, Labels, StartOps,
         ConfigureOps, RunningOps, Running, TargetOperations
<1>8. PendingResetIsFresh'
  BY SMTT(60) DEF PendingResetIsFresh, Known, KnownBy, Control, ControlOf, CollectorRuns,
         TypeOK, In, Inside, Labels, StartOps, ConfigureOps, RunningOps, Running,
         TargetOperations
<1>9. StartingIsTransient'
  BY DEF StartingIsTransient, Known, KnownBy, Control, ControlOf, Locks, TypeOK, In,
         Inside, Labels, StartOps, ConfigureOps, RunningOps, LockingOps, Running,
         TargetOperations
<1>10. Claims' /\ SamplerIsOwned'
  BY DEF Claims, SamplerIsOwned, CollectorRuns
<1> QED BY <1>1, <1>2, <1>3, <1>4, <1>5, <1>6, <1>7, <1>8, <1>9, <1>10

\* A running target goes on running.
LEMMA FinishResumeStep ==
    ASSUME IInv, NEW c \in Callers, FinishResume(c)
    PROVE  IInv'
<1> USE CollectionAssumption, AllowedIn DEF IInv, FinishResume, Goto, SetTarget,
       orchestratorVars, collectorVars,
         samplerVars, mutexes, shared, callVars
<1>1. TypeOK'
  BY SMTT(60) DEF TypeOK, Labels, Threads, Calls, LifecycleAction, LifecycleState,
         TargetOperations, Control, ControlOf, ConfigureOps
<1>2. Control'
  BY DEF Control, ControlOf, TypeOK, Labels, StartOps, ConfigureOps,
         TargetOperations, BatchOperations, Claims
<1>3. Locks'
  BY DEF Locks, Control, ControlOf, TypeOK, In, Inside, Labels, StartOps,
         ConfigureOps, LockingOps, TargetOperations
<1>4. Known'
  BY SMTT(60) DEF Known, KnownBy, Control, ControlOf, Claims, Locks, TypeOK, In, Inside,
         Labels, StartOps, ConfigureOps, RunningOps, LockingOps, TargetOperations,
         CollectorRuns, Running, LifecycleState
<1>5. Batches'
  BY DEF Batches, BatchOf, Control, ControlOf, Claims, Known, KnownBy, TypeOK, In,
         Inside, Labels, StartOps, ConfigureOps, RunningOps, Running,
         TargetOperations
<1>6. CollectingIsTracked'
  BY DEF CollectingIsTracked, Collecting, SamplerIsOwned, Known, KnownBy, Control,
         ControlOf, CollectorRuns, TypeOK, In, Inside, Labels, StartOps,
         ConfigureOps, RunningOps, Running, TargetOperations
<1>7. ActiveTargetsAreRunning'
  BY DEF ActiveTargetsAreRunning, CollectingIsTracked, Collecting, Known, KnownBy,
         Control, ControlOf, CollectorRuns, TypeOK, In, Inside, Labels, StartOps,
         ConfigureOps, RunningOps, Running, TargetOperations
<1>8. PendingResetIsFresh'
  BY SMTT(60) DEF PendingResetIsFresh, Known, KnownBy, Control, ControlOf, CollectorRuns,
         TypeOK, In, Inside, Labels, StartOps, ConfigureOps, RunningOps, Running,
         TargetOperations
<1>9. StartingIsTransient'
  BY DEF StartingIsTransient, Known, KnownBy, Control, ControlOf, Locks, TypeOK, In,
         Inside, Labels, StartOps, ConfigureOps, RunningOps, LockingOps, Running,
         TargetOperations
<1>10. Claims' /\ SamplerIsOwned'
  BY DEF Claims, SamplerIsOwned, CollectorRuns
<1> QED BY <1>1, <1>2, <1>3, <1>4, <1>5, <1>6, <1>7, <1>8, <1>9, <1>10

\* The target stops running: its collector and sampler have, and the set is without it.
LEMMA FinishStopStep ==
    ASSUME IInv, NEW c \in Callers, FinishStop(c)
    PROVE  IInv'
<1> USE CollectionAssumption, AllowedIn DEF IInv, FinishStop, Goto, SetTarget,
       Outcome, orchestratorVars, collectorVars,
         samplerVars, mutexes, shared, callVars
<1>1. TypeOK'
  <2>1. targetState' \in [Targets -> LifecycleState]
    BY SMTT(60) DEF TypeOK, Labels, Threads, Calls, LifecycleAction, LifecycleState,
           TargetOperations, Control, ControlOf, ConfigureOps
  <2>2. pc' \in [Callers -> Labels]
    BY SMTT(60) DEF TypeOK, Labels, Threads, Calls, LifecycleAction, LifecycleState,
           TargetOperations, Control, ControlOf, ConfigureOps
  <2> QED BY <2>1, <2>2 DEF TypeOK
<1>2. Control'
  BY DEF Control, ControlOf, TypeOK, Labels, StartOps, ConfigureOps,
         TargetOperations, BatchOperations, Claims
<1>3. Locks'
  BY SMTT(60) DEF Locks, Control, ControlOf, TypeOK, In, Inside, Labels, StartOps,
         ConfigureOps, LockingOps, TargetOperations
<1>4. Known'
  <2> SUFFICES ASSUME NEW d \in Callers  PROVE KnownBy(d)'
    BY DEF Known
  <2>1. CASE d = c
    BY SMTT(60), <2>1 DEF Known, KnownBy, Control, ControlOf, Claims, Locks, TypeOK,
           In, Inside, Labels, StartOps, ConfigureOps, RunningOps, LockingOps,
           TargetOperations, CollectorRuns, Running, LifecycleState
  <2>2. CASE d # c
    BY SMTT(60), <2>2 DEF Known, KnownBy, Control, ControlOf, Claims, Locks, TypeOK,
           In, Inside, Labels, StartOps, ConfigureOps, RunningOps, LockingOps,
           TargetOperations, CollectorRuns, Running, LifecycleState
  <2> QED BY <2>1, <2>2
<1>5. Batches'
  <2> SUFFICES ASSUME NEW d \in Callers  PROVE BatchOf(d)'
    BY DEF Batches
  <2>1. CASE d = c
    BY <2>1 DEF Batches, BatchOf, Control, ControlOf, Claims, Known, KnownBy,
           TypeOK, In, Inside, Labels, StartOps, ConfigureOps, RunningOps, Running,
           TargetOperations
  <2>2. CASE d # c
    <3>1. tgt[c] \notin claim[d]
      BY <2>2 DEF Claims, Control, ControlOf, StartOps
    <3>2. \A t \in Targets \ {tgt[c]} : targetState'[t] = targetState[t]
      BY DEF TypeOK
    <3>3. BatchOf(d) /\ claim[d] \subseteq Targets /\ (batch[d] # "none" => queue[d]
          \subseteq claim[d])
      BY DEF Batches, Claims, TypeOK
    <3>4. pc'[d] = pc[d] /\ UNCHANGED <<tgt, claim, queue, batch>>
      BY <2>2 DEF TypeOK
    <3> QED BY ONLY <3>1, <3>2, <3>3, <3>4 DEF BatchOf
  <2> QED BY <2>1, <2>2
<1>6. CollectingIsTracked'
  BY SMTT(60) DEF CollectingIsTracked, Collecting, SamplerIsOwned, Known, KnownBy, Control,
         ControlOf, CollectorRuns, TypeOK, In, Inside, Labels, StartOps,
         ConfigureOps, RunningOps, Running, TargetOperations
<1>7. ActiveTargetsAreRunning'
  BY SMTT(60) DEF ActiveTargetsAreRunning, CollectingIsTracked, Collecting, Known, KnownBy,
         Control, ControlOf, CollectorRuns, TypeOK, In, Inside, Labels, StartOps,
         ConfigureOps, RunningOps, Running, TargetOperations
<1>8. PendingResetIsFresh'
  BY DEF PendingResetIsFresh, Known, KnownBy, Control, ControlOf, CollectorRuns,
         TypeOK, In, Inside, Labels, StartOps, ConfigureOps, RunningOps, Running,
         TargetOperations
<1>9. StartingIsTransient'
  BY DEF StartingIsTransient, Known, KnownBy, Control, ControlOf, Locks, TypeOK, In,
         Inside, Labels, StartOps, ConfigureOps, RunningOps, LockingOps, Running,
         TargetOperations
<1>10. Claims' /\ SamplerIsOwned'
  BY DEF Claims, SamplerIsOwned, CollectorRuns
<1> QED BY <1>1, <1>2, <1>3, <1>4, <1>5, <1>6, <1>7, <1>8, <1>9, <1>10

\* The target is CONFIGURED: its collector and sampler have stopped.
LEMMA FinishRollbackStep ==
    ASSUME IInv, NEW c \in Callers, FinishRollback(c)
    PROVE  IInv'
<1> USE CollectionAssumption, AllowedIn DEF IInv, FinishRollback, Goto, SetTarget,
       Outcome, orchestratorVars, collectorVars,
         samplerVars, mutexes, shared, callVars
<1>1. TypeOK'
  BY SMTT(60) DEF TypeOK, Labels, Threads, Calls, LifecycleAction, LifecycleState,
         TargetOperations, Control, ControlOf, ConfigureOps
<1>2. Control'
  BY DEF Control, ControlOf, TypeOK, Labels, StartOps, ConfigureOps,
         TargetOperations, BatchOperations, Claims
<1>3. Locks'
  BY DEF Locks, Control, ControlOf, TypeOK, In, Inside, Labels, StartOps,
         ConfigureOps, LockingOps, TargetOperations
<1>4. Known'
  <2> SUFFICES ASSUME NEW d \in Callers  PROVE KnownBy(d)'
    BY DEF Known
  <2>1. CASE d = c
    BY SMTT(60), <2>1 DEF Known, KnownBy, Control, ControlOf, Claims, Locks, TypeOK,
           In, Inside, Labels, StartOps, ConfigureOps, RunningOps, LockingOps,
           TargetOperations, CollectorRuns, Running, LifecycleState
  <2>2. CASE d # c
    BY SMTT(60), <2>2 DEF Known, KnownBy, Control, ControlOf, Claims, Locks, TypeOK,
           In, Inside, Labels, StartOps, ConfigureOps, RunningOps, LockingOps,
           TargetOperations, CollectorRuns, Running, LifecycleState
  <2> QED BY <2>1, <2>2
<1>5. Batches'
  <2> SUFFICES ASSUME NEW d \in Callers  PROVE BatchOf(d)'
    BY DEF Batches
  <2>1. CASE d = c
    <3>1. CASE SetTarget(c, "CONFIGURED")
      BY <2>1, <3>1 DEF Batches, BatchOf, Control, ControlOf, Claims, Known,
             KnownBy, TypeOK, In, Inside, Labels, StartOps, ConfigureOps,
             RunningOps, Running, TargetOperations
    <3>2. CASE UNCHANGED targetState
      BY <2>1, <3>2 DEF Batches, BatchOf, Control, ControlOf, Claims, Known,
             KnownBy, TypeOK, In, Inside, Labels, StartOps, ConfigureOps,
             RunningOps, Running, TargetOperations
    <3> QED BY <3>1, <3>2
  <2>2. CASE d # c
    <3>1. tgt[c] \notin claim[d]
      BY <2>2 DEF Claims, Control, ControlOf, StartOps
    <3>2. \A t \in Targets \ {tgt[c]} : targetState'[t] = targetState[t]
      BY DEF TypeOK
    <3>3. BatchOf(d) /\ claim[d] \subseteq Targets /\ (batch[d] # "none" => queue[d]
          \subseteq claim[d])
      BY DEF Batches, Claims, TypeOK
    <3>4. pc'[d] = pc[d] /\ UNCHANGED <<tgt, claim, queue, batch>>
      BY <2>2 DEF TypeOK
    <3> QED BY ONLY <3>1, <3>2, <3>3, <3>4 DEF BatchOf
  <2> QED BY <2>1, <2>2
<1>6. CollectingIsTracked'
  BY SMTT(60) DEF CollectingIsTracked, Collecting, SamplerIsOwned, Known, KnownBy, Control,
         ControlOf, CollectorRuns, TypeOK, In, Inside, Labels, StartOps,
         ConfigureOps, RunningOps, Running, TargetOperations
<1>7. ActiveTargetsAreRunning'
  BY SMTT(60) DEF ActiveTargetsAreRunning, CollectingIsTracked, Collecting, Known, KnownBy,
         Control, ControlOf, CollectorRuns, TypeOK, In, Inside, Labels, StartOps,
         ConfigureOps, RunningOps, Running, TargetOperations
<1>8. PendingResetIsFresh'
  BY SMTT(60) DEF PendingResetIsFresh, Known, KnownBy, Control, ControlOf, CollectorRuns,
         TypeOK, In, Inside, Labels, StartOps, ConfigureOps, RunningOps, Running,
         TargetOperations
<1>9. StartingIsTransient'
  BY DEF StartingIsTransient, Known, KnownBy, Control, ControlOf, Locks, TypeOK, In,
         Inside, Labels, StartOps, ConfigureOps, RunningOps, LockingOps, Running,
         TargetOperations
<1>10. Claims' /\ SamplerIsOwned'
  BY DEF Claims, SamplerIsOwned, CollectorRuns
<1> QED BY <1>1, <1>2, <1>3, <1>4, <1>5, <1>6, <1>7, <1>8, <1>9, <1>10

\* The call leaves the method.
LEMMA TransitionRefusedStep ==
    ASSUME IInv, NEW c \in Callers, TransitionRefused(c)
    PROVE  IInv'
<1> USE CollectionAssumption, AllowedIn DEF IInv, TransitionRefused, Goto,
       orchestratorVars, collectorVars,
         samplerVars, mutexes, shared, callVars
<1>1. TypeOK'
  BY DEF TypeOK, Labels, Threads, Calls, LifecycleAction, LifecycleState,
         TargetOperations, Control, ControlOf, ConfigureOps
<1>2. Control'
  BY DEF Control, ControlOf, TypeOK, Labels, StartOps, ConfigureOps,
         TargetOperations, BatchOperations, Claims
<1>3. Locks'
  BY DEF Locks, Control, ControlOf, TypeOK, In, Inside, Labels, StartOps,
         ConfigureOps, LockingOps, TargetOperations
<1>4. Known'
  BY DEF Known, KnownBy, Control, ControlOf, Claims, Locks, TypeOK, In, Inside,
         Labels, StartOps, ConfigureOps, RunningOps, LockingOps, TargetOperations,
         CollectorRuns, Running, LifecycleState
<1>5. Batches'
  BY DEF Batches, BatchOf, Control, ControlOf, Claims, Known, KnownBy, TypeOK, In,
         Inside, Labels, StartOps, ConfigureOps, RunningOps, Running,
         TargetOperations
<1>6. ActiveTargetsAreRunning'
  BY DEF ActiveTargetsAreRunning, CollectingIsTracked, Collecting, Known, KnownBy,
         Control, ControlOf, CollectorRuns, TypeOK, In, Inside, Labels, StartOps,
         ConfigureOps, RunningOps, Running, TargetOperations
<1>7. Claims' /\ SamplerIsOwned' /\ CollectingIsTracked' /\ PendingResetIsFresh' /\
      StartingIsTransient'
  BY DEF Claims, SamplerIsOwned, CollectingIsTracked, PendingResetIsFresh,
         StartingIsTransient, Collecting, CollectorRuns
<1> QED BY <1>1, <1>2, <1>3, <1>4, <1>5, <1>6, <1>7

\* _configure_mutex is taken.
LEMMA BeginReadStep ==
    ASSUME IInv, NEW c \in Callers, BeginRead(c)
    PROVE  IInv'
<1> USE CollectionAssumption, AllowedIn DEF IInv, BeginRead, Goto, orchestratorVars,
       collectorVars,
         samplerVars, mutexes, shared, callVars
<1>1. TypeOK'
  BY SMTT(60) DEF TypeOK, Labels, Threads, Calls, LifecycleAction, LifecycleState,
         TargetOperations, Control, ControlOf, ConfigureOps
<1>2. Control'
  BY DEF Control, ControlOf, TypeOK, Labels, StartOps, ConfigureOps,
         TargetOperations, BatchOperations, Claims
<1>3. Locks'
  BY SMTT(60) DEF Locks, Control, ControlOf, TypeOK, In, Inside, Labels, StartOps,
         ConfigureOps, LockingOps, TargetOperations
<1>4. Known'
  BY DEF Known, KnownBy, Control, ControlOf, Claims, Locks, TypeOK, In, Inside,
         Labels, StartOps, ConfigureOps, RunningOps, LockingOps, TargetOperations,
         CollectorRuns, Running, LifecycleState
<1>5. Batches'
  BY DEF Batches, BatchOf, Control, ControlOf, Claims, Known, KnownBy, TypeOK, In,
         Inside, Labels, StartOps, ConfigureOps, RunningOps, Running,
         TargetOperations
<1>6. ActiveTargetsAreRunning'
  BY DEF ActiveTargetsAreRunning, CollectingIsTracked, Collecting, Known, KnownBy,
         Control, ControlOf, CollectorRuns, TypeOK, In, Inside, Labels, StartOps,
         ConfigureOps, RunningOps, Running, TargetOperations
<1>7. StartingIsTransient'
  BY DEF StartingIsTransient, Known, KnownBy, Control, ControlOf, Locks, TypeOK, In,
         Inside, Labels, StartOps, ConfigureOps, RunningOps, LockingOps, Running,
         TargetOperations
<1>8. Claims' /\ SamplerIsOwned' /\ CollectingIsTracked' /\ PendingResetIsFresh'
  BY DEF Claims, SamplerIsOwned, CollectingIsTracked, PendingResetIsFresh,
         Collecting, CollectorRuns
<1> QED BY <1>1, <1>2, <1>3, <1>4, <1>5, <1>6, <1>7, <1>8

\* The call leaves the method and its mutex.
LEMMA FinishReadStep ==
    ASSUME IInv, NEW c \in Callers, FinishRead(c)
    PROVE  IInv'
<1> USE CollectionAssumption, AllowedIn DEF IInv, FinishRead, Goto,
       orchestratorVars, collectorVars,
         samplerVars, mutexes, shared, callVars
<1>1. TypeOK'
  BY DEF TypeOK, Labels, Threads, Calls, LifecycleAction, LifecycleState,
         TargetOperations, Control, ControlOf, ConfigureOps
<1>2. Control'
  BY DEF Control, ControlOf, TypeOK, Labels, StartOps, ConfigureOps,
         TargetOperations, BatchOperations, Claims
<1>3. Locks'
  BY SMTT(60) DEF Locks, Control, ControlOf, TypeOK, In, Inside, Labels, StartOps,
         ConfigureOps, LockingOps, TargetOperations
<1>4. Known'
  BY DEF Known, KnownBy, Control, ControlOf, Claims, Locks, TypeOK, In, Inside,
         Labels, StartOps, ConfigureOps, RunningOps, LockingOps, TargetOperations,
         CollectorRuns, Running, LifecycleState
<1>5. Batches'
  BY DEF Batches, BatchOf, Control, ControlOf, Claims, Known, KnownBy, TypeOK, In,
         Inside, Labels, StartOps, ConfigureOps, RunningOps, Running,
         TargetOperations
<1>6. ActiveTargetsAreRunning'
  BY DEF ActiveTargetsAreRunning, CollectingIsTracked, Collecting, Known, KnownBy,
         Control, ControlOf, CollectorRuns, TypeOK, In, Inside, Labels, StartOps,
         ConfigureOps, RunningOps, Running, TargetOperations
<1>7. StartingIsTransient'
  BY SMTT(60) DEF StartingIsTransient, Known, KnownBy, Control, ControlOf, Locks, TypeOK, In,
         Inside, Labels, StartOps, ConfigureOps, RunningOps, LockingOps, Running,
         TargetOperations
<1>8. Claims' /\ SamplerIsOwned' /\ CollectingIsTracked' /\ PendingResetIsFresh'
  BY DEF Claims, SamplerIsOwned, CollectingIsTracked, PendingResetIsFresh,
         Collecting, CollectorRuns
<1> QED BY <1>1, <1>2, <1>3, <1>4, <1>5, <1>6, <1>7, <1>8
===============================================================================
