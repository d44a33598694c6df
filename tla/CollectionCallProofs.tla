--------------------------- MODULE CollectionCallProofs ----------------------------
(*****************************************************************************)
(* The calls, the aggregate start and the configuration keep the inductive invariant. *)
(* One lemma per action; in it one step per part of the invariant that the   *)
(* action can disturb, and one for the others.                               *)
(*****************************************************************************)
EXTENDS CollectionInv, TLAPS

\* The table of collection_lifecycle.cpp: the states from which each call is legal.
LEMMA AllowedIn ==
    \A s \in LifecycleState :
        /\ Allowed(s, "START") <=> s = "CONFIGURED"
        /\ Allowed(s, "PAUSE") <=> s = "STARTED"
        /\ Allowed(s, "RESUME") <=> s = "PAUSED"
        /\ Allowed(s, "STOP") <=> s \in {"STARTED", "PAUSED"}
  BY DEF LifecycleState, Allowed, LifecycleStatuses

\* A call claims a target nobody works on.
LEMMA CallOnTargetStep ==
    ASSUME IInv, NEW c \in Callers, NEW t \in Targets, CallOnTarget(c, t)
    PROVE  IInv'
<1> USE CollectionAssumption, AllowedIn DEF IInv, CallOnTarget, Goto, CallOf,
       orchestratorVars, collectorVars,
         samplerVars, mutexes, shared, callVars
<1>1. TypeOK'
  BY DEF TypeOK, Labels, Threads, Calls, LifecycleAction, LifecycleState,
         TargetOperations, Control, ControlOf, ConfigureOps
<1>2. Control'
  BY DEF Control, ControlOf, TypeOK, Labels, StartOps, ConfigureOps,
         TargetOperations, BatchOperations, Claims
<1>3. Claims'
  BY DEF Claims, Control, ControlOf, TypeOK, StartOps, ConfigureOps
<1>4. Locks'
  BY DEF Locks, Control, ControlOf, TypeOK, In, Inside, Labels, StartOps,
         ConfigureOps, LockingOps, TargetOperations
<1>5. Known'
  BY DEF Known, KnownBy, Control, ControlOf, Claims, Locks, TypeOK, In, Inside,
         Labels, StartOps, ConfigureOps, RunningOps, LockingOps, TargetOperations,
         CollectorRuns, Running, LifecycleState
<1>6. Batches'
  BY DEF Batches, BatchOf, Control, ControlOf, Claims, Known, KnownBy, TypeOK, In,
         Inside, Labels, StartOps, ConfigureOps, RunningOps, Running,
         TargetOperations
<1>7. ActiveTargetsAreRunning'
  BY DEF ActiveTargetsAreRunning, CollectingIsTracked, Collecting, Known, KnownBy,
         Control, ControlOf, CollectorRuns, TypeOK, In, Inside, Labels, StartOps,
         ConfigureOps, RunningOps, Running, TargetOperations
<1>8. StartingIsTransient'
  BY DEF StartingIsTransient, Known, KnownBy, Control, ControlOf, Locks, TypeOK, In,
         Inside, Labels, StartOps, ConfigureOps, RunningOps, LockingOps, Running,
         TargetOperations
<1>9. SamplerIsOwned' /\ CollectingIsTracked' /\ PendingResetIsFresh'
  BY DEF SamplerIsOwned, CollectingIsTracked, PendingResetIsFresh, Collecting,
         CollectorRuns
<1> QED BY <1>1, <1>2, <1>3, <1>4, <1>5, <1>6, <1>7, <1>8, <1>9

\* A reset claims no target.
LEMMA CallResetStep ==
    ASSUME IInv, NEW c \in Callers, CallReset(c)
    PROVE  IInv'
<1> USE CollectionAssumption, AllowedIn DEF IInv, CallReset, Goto, orchestratorVars,
       collectorVars,
         samplerVars, mutexes, shared, callVars
<1>1. TypeOK'
  BY DEF TypeOK, Labels, Threads, Calls, LifecycleAction, LifecycleState,
         TargetOperations, Control, ControlOf, ConfigureOps
<1>2. Control'
  BY DEF Control, ControlOf, TypeOK, Labels, StartOps, ConfigureOps,
         TargetOperations, BatchOperations, Claims
<1>3. Locks'
  BY DEF Locks, Control, ControlOf, TypeOK, In, Inside, Labels, StartOps,
         ConfigureOps, LockingOps, TargetOperations
<1>4. Known'
  BY DEF Known, KnownBy, Control, ControlOf, Claims, Locks, TypeOK, In, Inside,
         Labels, StartOps, ConfigureOps, RunningOps, LockingOps, TargetOperations,
         CollectorRuns, Running, LifecycleState
<1>5. Batches'
  BY DEF Batches, BatchOf, Control, ControlOf, Claims, Known, KnownBy, TypeOK, In,
         Inside, Labels, StartOps, ConfigureOps, RunningOps, Running,
         TargetOperations
<1>6. ActiveTargetsAreRunning'
  BY DEF ActiveTargetsAreRunning, CollectingIsTracked, Collecting, Known, KnownBy,
         Control, ControlOf, CollectorRuns, TypeOK, In, Inside, Labels, StartOps,
         ConfigureOps, RunningOps, Running, TargetOperations
<1>7. StartingIsTransient'
  BY DEF StartingIsTransient, Known, KnownBy, Control, ControlOf, Locks, TypeOK, In,
         Inside, Labels, StartOps, ConfigureOps, RunningOps, LockingOps, Running,
         TargetOperations
<1>8. Claims' /\ SamplerIsOwned' /\ CollectingIsTracked' /\ PendingResetIsFresh'
  BY DEF Claims, SamplerIsOwned, CollectingIsTracked, PendingResetIsFresh,
         Collecting, CollectorRuns
<1> QED BY <1>1, <1>2, <1>3, <1>4, <1>5, <1>6, <1>7, <1>8

\* An aggregate start claims the configured targets, all of them to be visited.
LEMMA CallStartAllStep ==
    ASSUME IInv, NEW c \in Callers, CallStartAll(c)
    PROVE  IInv'
<1> USE CollectionAssumption, AllowedIn DEF IInv, CallStartAll, Goto,
       orchestratorVars, collectorVars,
         samplerVars, mutexes, shared, callVars
<1>1. TypeOK'
  BY DEF TypeOK, Labels, Threads, Calls, LifecycleAction, LifecycleState,
         TargetOperations, Control, ControlOf, ConfigureOps
<1>2. Control'
  BY DEF Control, ControlOf, TypeOK, Labels, StartOps, ConfigureOps,
         TargetOperations, BatchOperations, Claims
<1>3. Claims'
  BY DEF Claims, Control, ControlOf, TypeOK, StartOps, ConfigureOps
<1>4. Locks'
  BY DEF Locks, Control, ControlOf, TypeOK, In, Inside, Labels, StartOps,
         ConfigureOps, LockingOps, TargetOperations
<1>5. Known'
  BY DEF Known, KnownBy, Control, ControlOf, Claims, Locks, TypeOK, In, Inside,
         Labels, StartOps, ConfigureOps, RunningOps, LockingOps, TargetOperations,
         CollectorRuns, Running, LifecycleState
<1>6. Batches'
  BY DEF Batches, BatchOf, Control, ControlOf, Claims, Known, KnownBy, TypeOK, In,
         Inside, Labels, StartOps, ConfigureOps, RunningOps, Running,
         TargetOperations
<1>7. ActiveTargetsAreRunning'
  BY DEF ActiveTargetsAreRunning, CollectingIsTracked, Collecting, Known, KnownBy,
         Control, ControlOf, CollectorRuns, TypeOK, In, Inside, Labels, StartOps,
         ConfigureOps, RunningOps, Running, TargetOperations
<1>8. StartingIsTransient'
  BY DEF StartingIsTransient, Known, KnownBy, Control, ControlOf, Locks, TypeOK, In,
         Inside, Labels, StartOps, ConfigureOps, RunningOps, LockingOps, Running,
         TargetOperations
<1>9. SamplerIsOwned' /\ CollectingIsTracked' /\ PendingResetIsFresh'
  BY DEF SamplerIsOwned, CollectingIsTracked, PendingResetIsFresh, Collecting,
         CollectorRuns
<1> QED BY <1>1, <1>2, <1>3, <1>4, <1>5, <1>6, <1>7, <1>8, <1>9

\* The next target of an aggregate start leaves the queue and stays claimed.
LEMMA StartNextStep ==
    ASSUME IInv, NEW c \in Callers, NEW t \in Targets, StartNext(c, t)
    PROVE  IInv'
<1> USE CollectionAssumption, AllowedIn DEF IInv, StartNext, Goto, orchestratorVars,
       collectorVars,
         samplerVars, mutexes, shared, callVars
<1>1. TypeOK'
  BY DEF TypeOK, Labels, Threads, Calls, LifecycleAction, LifecycleState,
         TargetOperations, Control, ControlOf, ConfigureOps
<1>2. Control'
  <2> SUFFICES ASSUME NEW d \in Callers  PROVE ControlOf(d)'
    BY DEF Control
  <2>1. CASE d = c
    BY <2>1 DEF Control, ControlOf, TypeOK, Labels, StartOps, ConfigureOps,
           TargetOperations, BatchOperations, Claims
  <2>2. CASE d # c
    BY <2>2 DEF Control, ControlOf, TypeOK, Labels, StartOps, ConfigureOps,
           TargetOperations, BatchOperations, Claims
  <2> QED BY <2>1, <2>2
<1>3. Claims'
  BY DEF Claims, Control, ControlOf, TypeOK, StartOps, ConfigureOps
<1>4. Locks'
  BY DEF Locks, Control, ControlOf, TypeOK, In, Inside, Labels, StartOps,
         ConfigureOps, LockingOps, TargetOperations
<1>5. Known'
  BY DEF Known, KnownBy, Control, ControlOf, Claims, Locks, TypeOK, In, Inside,
         Labels, StartOps, ConfigureOps, RunningOps, LockingOps, TargetOperations,
         CollectorRuns, Running, LifecycleState
<1>6. Batches'
  BY DEF Batches, BatchOf, Control, ControlOf, Claims, Known, KnownBy, TypeOK, In,
         Inside, Labels, StartOps, ConfigureOps, RunningOps, Running,
         TargetOperations
<1>7. ActiveTargetsAreRunning'
  BY DEF ActiveTargetsAreRunning, CollectingIsTracked, Collecting, Known, KnownBy,
         Control, ControlOf, CollectorRuns, TypeOK, In, Inside, Labels, StartOps,
         ConfigureOps, RunningOps, Running, TargetOperations
<1>8. StartingIsTransient'
  BY DEF StartingIsTransient, Known, KnownBy, Control, ControlOf, Locks, TypeOK, In,
         Inside, Labels, StartOps, ConfigureOps, RunningOps, LockingOps, Running,
         TargetOperations
<1>9. SamplerIsOwned' /\ CollectingIsTracked' /\ PendingResetIsFresh'
  BY DEF SamplerIsOwned, CollectingIsTracked, PendingResetIsFresh, Collecting,
         CollectorRuns
<1> QED BY <1>1, <1>2, <1>3, <1>4, <1>5, <1>6, <1>7, <1>8, <1>9

\* What is to be rolled back are the visited targets, all running, without the last.
LEMMA AbandonBatchStep ==
    ASSUME IInv, NEW c \in Callers, AbandonBatch(c)
    PROVE  IInv'
<1> USE CollectionAssumption, AllowedIn DEF IInv, AbandonBatch, orchestratorVars,
       collectorVars,
         samplerVars, mutexes, shared, callVars
<1>1. TypeOK'
  BY DEF TypeOK, Labels, Threads, Calls, LifecycleAction, LifecycleState,
         TargetOperations, Control, ControlOf, ConfigureOps
<1>2. Control'
  BY DEF Control, ControlOf, TypeOK, Labels, StartOps, ConfigureOps,
         TargetOperations, BatchOperations, Claims
<1>3. Claims'
  BY DEF Claims, Control, ControlOf, TypeOK, StartOps, ConfigureOps
<1>4. Known'
  BY DEF Known, KnownBy, Control, ControlOf, Claims, Locks, TypeOK, In, Inside,
         Labels, StartOps, ConfigureOps, RunningOps, LockingOps, TargetOperations,
         CollectorRuns, Running, LifecycleState
<1>5. Batches'
  BY DEF Batches, BatchOf, Control, ControlOf, Claims, Known, KnownBy, TypeOK, In,
         Inside, Labels, StartOps, ConfigureOps, RunningOps, Running,
         TargetOperations
<1>6. Locks' /\ SamplerIsOwned' /\ CollectingIsTracked' /\ ActiveTargetsAreRunning'
      /\ PendingResetIsFresh' /\ StartingIsTransient'
  BY DEF Locks, SamplerIsOwned, CollectingIsTracked, ActiveTargetsAreRunning,
         PendingResetIsFresh, StartingIsTransient, Collecting, In, CollectorRuns
<1> QED BY <1>1, <1>2, <1>3, <1>4, <1>5, <1>6

\* The next target to roll back runs.
LEMMA RollbackNextStep ==
    ASSUME IInv, NEW c \in Callers, NEW t \in Targets, RollbackNext(c, t)
    PROVE  IInv'
<1> USE CollectionAssumption, AllowedIn DEF IInv, RollbackNext, Goto,
       orchestratorVars, collectorVars,
         samplerVars, mutexes, shared, callVars
<1>1. TypeOK'
  BY DEF TypeOK, Labels, Threads, Calls, LifecycleAction, LifecycleState,
         TargetOperations, Control, ControlOf, ConfigureOps
<1>2. Control'
  <2> SUFFICES ASSUME NEW d \in Callers  PROVE ControlOf(d)'
    BY DEF Control
  <2>1. CASE d = c
    BY SMTT(60), <2>1 DEF Control, ControlOf, TypeOK, Labels, StartOps, ConfigureOps,
           TargetOperations, BatchOperations, Claims
  <2>2. CASE d # c
    BY <2>2 DEF Control, ControlOf, TypeOK, Labels, StartOps, ConfigureOps,
           TargetOperations, BatchOperations, Claims
  <2> QED BY <2>1, <2>2
<1>3. Claims'
  BY DEF Claims, Control, ControlOf, TypeOK, StartOps, ConfigureOps
<1>4. Locks'
  BY DEF Locks, Control, ControlOf, TypeOK, In, Inside, Labels, StartOps,
         ConfigureOps, LockingOps, TargetOperations
<1>5. Known'
  <2> SUFFICES ASSUME NEW d \in Callers  PROVE KnownBy(d)'
    BY DEF Known
  <2>1. CASE d = c
    BY <2>1 DEF Known, KnownBy, Control, ControlOf, Claims, Locks, TypeOK, In,
           Inside, Labels, StartOps, ConfigureOps, RunningOps, LockingOps,
           TargetOperations, CollectorRuns, Running, LifecycleState, Batches,
           BatchOf
  <2>2. CASE d # c
    BY <2>2 DEF Known, KnownBy, Control, ControlOf, Claims, Locks, TypeOK, In,
           Inside, Labels, StartOps, ConfigureOps, RunningOps, LockingOps,
           TargetOperations, CollectorRuns, Running, LifecycleState, Batches,
           BatchOf
  <2> QED BY <2>1, <2>2
<1>6. Batches'
  BY DEF Batches, BatchOf, Control, ControlOf, Claims, Known, KnownBy, TypeOK, In,
         Inside, Labels, StartOps, ConfigureOps, RunningOps, Running,
         TargetOperations
<1>7. ActiveTargetsAreRunning'
  BY DEF ActiveTargetsAreRunning, CollectingIsTracked, Collecting, Known, KnownBy,
         Control, ControlOf, CollectorRuns, TypeOK, In, Inside, Labels, StartOps,
         ConfigureOps, RunningOps, Running, TargetOperations
<1>8. StartingIsTransient'
  BY DEF StartingIsTransient, Known, KnownBy, Control, ControlOf, Locks, TypeOK, In,
         Inside, Labels, StartOps, ConfigureOps, RunningOps, LockingOps, Running,
         TargetOperations
<1>9. SamplerIsOwned' /\ CollectingIsTracked' /\ PendingResetIsFresh'
  BY DEF SamplerIsOwned, CollectingIsTracked, PendingResetIsFresh, Collecting,
         CollectorRuns
<1> QED BY <1>1, <1>2, <1>3, <1>4, <1>5, <1>6, <1>7, <1>8, <1>9

\* A call returns outside of every method, with no mutex and no target to visit.
LEMMA ReturnStep ==
    ASSUME IInv, NEW c \in Callers, Return(c)
    PROVE  IInv'
<1> USE CollectionAssumption, AllowedIn DEF IInv, Return, Goto, orchestratorVars,
       collectorVars,
         samplerVars, mutexes, shared, callVars
<1>1. TypeOK'
  BY DEF TypeOK, Labels, Threads, Calls, LifecycleAction, LifecycleState,
         TargetOperations, Control, ControlOf, ConfigureOps
<1>2. Control'
  BY DEF Control, ControlOf, TypeOK, Labels, StartOps, ConfigureOps,
         TargetOperations, BatchOperations, Claims
<1>3. Claims'
  BY DEF Claims, Control, ControlOf, TypeOK, StartOps, ConfigureOps
<1>4. Locks'
  BY DEF Locks, Control, ControlOf, TypeOK, In, Inside, Labels, StartOps,
         ConfigureOps, LockingOps, TargetOperations
<1>5. Known'
  BY DEF Known, KnownBy, Control, ControlOf, Claims, Locks, TypeOK, In, Inside,
         Labels, StartOps, ConfigureOps, RunningOps, LockingOps, TargetOperations,
         CollectorRuns, Running, LifecycleState
<1>6. Batches'
  BY DEF Batches, BatchOf, Control, ControlOf, Claims, Known, KnownBy, TypeOK, In,
         Inside, Labels, StartOps, ConfigureOps, RunningOps, Running,
         TargetOperations
<1>7. ActiveTargetsAreRunning'
  BY DEF ActiveTargetsAreRunning, CollectingIsTracked, Collecting, Known, KnownBy,
         Control, ControlOf, CollectorRuns, TypeOK, In, Inside, Labels, StartOps,
         ConfigureOps, RunningOps, Running, TargetOperations
<1>8. StartingIsTransient'
  BY DEF StartingIsTransient, Known, KnownBy, Control, ControlOf, Locks, TypeOK, In,
         Inside, Labels, StartOps, ConfigureOps, RunningOps, LockingOps, Running,
         TargetOperations
<1>9. SamplerIsOwned' /\ CollectingIsTracked' /\ PendingResetIsFresh'
  BY DEF SamplerIsOwned, CollectingIsTracked, PendingResetIsFresh, Collecting,
         CollectorRuns
<1> QED BY <1>1, <1>2, <1>3, <1>4, <1>5, <1>6, <1>7, <1>8, <1>9

\* _configure_mutex is taken with no target running; a pending reset says so by itself.
LEMMA BeginConfigureStep ==
    ASSUME IInv, NEW c \in Callers, BeginConfigure(c)
    PROVE  IInv'
<1> USE CollectionAssumption, AllowedIn DEF IInv, BeginConfigure, Goto, SomeRunning,
       OtherConfigured, ConsumeReset, orchestratorVars, collectorVars,
         samplerVars, mutexes, shared, callVars
<1>1. TypeOK'
  <2>1. resetPending' \in BOOLEAN
    BY DEF TypeOK, Labels, Threads, Calls, LifecycleAction, LifecycleState,
           TargetOperations, Control, ControlOf, ConfigureOps
  <2>2. configureMutex' \in Callers \cup {None}
    BY DEF TypeOK, Labels, Threads, Calls, LifecycleAction, LifecycleState,
           TargetOperations, Control, ControlOf, ConfigureOps
  <2>3. pc' \in [Callers -> Labels]
    BY SMTT(60) DEF TypeOK, Labels, Threads, Calls, LifecycleAction, LifecycleState,
           TargetOperations, Control, ControlOf, ConfigureOps
  <2> QED BY <2>1, <2>2, <2>3 DEF TypeOK
<1>2. Control'
  BY DEF Control, ControlOf, TypeOK, Labels, StartOps, ConfigureOps,
         TargetOperations, BatchOperations, Claims
<1>3. Locks'
  BY DEF Locks, Control, ControlOf, TypeOK, In, Inside, Labels, StartOps,
         ConfigureOps, LockingOps, TargetOperations
<1>4. Known'
  <2> SUFFICES ASSUME NEW d \in Callers  PROVE KnownBy(d)'
    BY DEF Known
  <2>1. CASE d = c
    <3>1. CASE resetPending
      BY <2>1, <3>1 DEF Known, KnownBy, Control, ControlOf, Claims, Locks, TypeOK,
             In, Inside, Labels, StartOps, ConfigureOps, RunningOps, LockingOps,
             TargetOperations, CollectorRuns, Running, LifecycleState,
             PendingResetIsFresh
    <3>2. CASE ~resetPending /\ SomeRunning
      BY <2>1, <3>2 DEF Known, KnownBy, Control, ControlOf, Claims, Locks, TypeOK,
             In, Inside, Labels, StartOps, ConfigureOps, RunningOps, LockingOps,
             TargetOperations, CollectorRuns, Running, LifecycleState,
             PendingResetIsFresh
    <3>3. CASE ~resetPending /\ ~SomeRunning
      BY <2>1, <3>3 DEF Known, KnownBy, Control, ControlOf, Claims, Locks, TypeOK,
             In, Inside, Labels, StartOps, ConfigureOps, RunningOps, LockingOps,
             TargetOperations, CollectorRuns, Running, LifecycleState,
             PendingResetIsFresh
    <3> QED BY <3>1, <3>2, <3>3
  <2>2. CASE d # c
    BY <2>2 DEF Known, KnownBy, Control, ControlOf, Claims, Locks, TypeOK, In,
           Inside, Labels, StartOps, ConfigureOps, RunningOps, LockingOps,
           TargetOperations, CollectorRuns, Running, LifecycleState,
           PendingResetIsFresh
  <2> QED BY <2>1, <2>2
<1>5. Batches'
  BY DEF Batches, BatchOf, Control, ControlOf, Claims, Known, KnownBy, TypeOK, In,
         Inside, Labels, StartOps, ConfigureOps, RunningOps, Running,
         TargetOperations
<1>6. ActiveTargetsAreRunning'
  BY DEF ActiveTargetsAreRunning, CollectingIsTracked, Collecting, Known, KnownBy,
         Control, ControlOf, CollectorRuns, TypeOK, In, Inside, Labels, StartOps,
         ConfigureOps, RunningOps, Running, TargetOperations
<1>7. PendingResetIsFresh'
  BY DEF PendingResetIsFresh, Known, KnownBy, Control, ControlOf, CollectorRuns,
         TypeOK, In, Inside, Labels, StartOps, ConfigureOps, RunningOps, Running,
         TargetOperations
<1>8. StartingIsTransient'
  BY DEF StartingIsTransient, Known, KnownBy, Control, ControlOf, Locks, TypeOK, In,
         Inside, Labels, StartOps, ConfigureOps, RunningOps, LockingOps, Running,
         TargetOperations
<1>9. Claims' /\ SamplerIsOwned' /\ CollectingIsTracked'
  BY DEF Claims, SamplerIsOwned, CollectingIsTracked, Collecting, CollectorRuns
<1> QED BY <1>1, <1>2, <1>3, <1>4, <1>5, <1>6, <1>7, <1>8, <1>9

\* _configure_mutex is taken with no target running.
LEMMA BeginResetStep ==
    ASSUME IInv, NEW c \in Callers, BeginReset(c)
    PROVE  IInv'
<1> USE CollectionAssumption, AllowedIn DEF IInv, BeginReset, Goto, SomeRunning,
       orchestratorVars, collectorVars,
         samplerVars, mutexes, shared, callVars
<1>1. TypeOK'
  BY SMTT(60) DEF TypeOK, Labels, Threads, Calls, LifecycleAction, LifecycleState,
         TargetOperations, Control, ControlOf, ConfigureOps
<1>2. Control'
  BY DEF Control, ControlOf, TypeOK, Labels, StartOps, ConfigureOps,
         TargetOperations, BatchOperations, Claims
<1>3. Locks'
  BY DEF Locks, Control, ControlOf, TypeOK, In, Inside, Labels, StartOps,
         ConfigureOps, LockingOps, TargetOperations
<1>4. Known'
  BY DEF Known, KnownBy, Control, ControlOf, Claims, Locks, TypeOK, In, Inside,
         Labels, StartOps, ConfigureOps, RunningOps, LockingOps, TargetOperations,
         CollectorRuns, Running, LifecycleState
<1>5. Batches'
  BY DEF Batches, BatchOf, Control, ControlOf, Claims, Known, KnownBy, TypeOK, In,
         Inside, Labels, StartOps, ConfigureOps, RunningOps, Running,
         TargetOperations
<1>6. ActiveTargetsAreRunning'
  BY DEF ActiveTargetsAreRunning, CollectingIsTracked, Collecting, Known, KnownBy,
         Control, ControlOf, CollectorRuns, TypeOK, In, Inside, Labels, StartOps,
         ConfigureOps, RunningOps, Running, TargetOperations
<1>7. StartingIsTransient'
  BY DEF StartingIsTransient, Known, KnownBy, Control, ControlOf, Locks, TypeOK, In,
         Inside, Labels, StartOps, ConfigureOps, RunningOps, LockingOps, Running,
         TargetOperations
<1>8. Claims' /\ SamplerIsOwned' /\ CollectingIsTracked' /\ PendingResetIsFresh'
  BY DEF Claims, SamplerIsOwned, CollectingIsTracked, PendingResetIsFresh,
         Collecting, CollectorRuns
<1> QED BY <1>1, <1>2, <1>3, <1>4, <1>5, <1>6, <1>7, <1>8

\* The manager clears with no target in its set.
LEMMA EnterClearStep ==
    ASSUME IInv, NEW c \in Callers, EnterClear(c)
    PROVE  IInv'
<1> USE CollectionAssumption, AllowedIn DEF IInv, EnterClear, Goto,
       orchestratorVars, collectorVars,
         samplerVars, mutexes, shared, callVars
<1>1. TypeOK'
  <2>1. resetPending' \in BOOLEAN
    BY DEF TypeOK, Labels, Threads, Calls, LifecycleAction, LifecycleState,
           TargetOperations, Control, ControlOf, ConfigureOps
  <2>2. configureMutex' \in Callers \cup {None}
    BY DEF TypeOK, Labels, Threads, Calls, LifecycleAction, LifecycleState,
           TargetOperations, Control, ControlOf, ConfigureOps
  <2>3. managerMutex' \in Callers \cup {None}
    BY DEF TypeOK, Labels, Threads, Calls, LifecycleAction, LifecycleState,
           TargetOperations, Control, ControlOf, ConfigureOps
  <2>4. pc' \in [Callers -> Labels]
    BY SMTT(60) DEF TypeOK, Labels, Threads, Calls, LifecycleAction, LifecycleState,
           TargetOperations, Control, ControlOf, ConfigureOps
  <2>5. queue' \in [Callers -> SUBSET Targets]
    BY SMTT(60) DEF TypeOK, Labels, Threads, Calls, LifecycleAction, LifecycleState,
           TargetOperations, Control, ControlOf, ConfigureOps
  <2> QED BY <2>1, <2>2, <2>3, <2>4, <2>5 DEF TypeOK
<1>2. Control'
  BY DEF Control, ControlOf, TypeOK, Labels, StartOps, ConfigureOps,
         TargetOperations, BatchOperations, Claims
<1>3. Claims'
  <2>1. CASE activeTargets # {}
    BY <2>1 DEF Claims, Control, ControlOf, TypeOK, StartOps, ConfigureOps
  <2>2. CASE activeTargets = {}
    BY SMTT(60), <2>2 DEF Claims, Control, ControlOf, TypeOK, StartOps, ConfigureOps
  <2> QED BY <2>1, <2>2
<1>4. Locks'
  BY SMTT(60) DEF Locks, Control, ControlOf, TypeOK, In, Inside, Labels, StartOps,
         ConfigureOps, LockingOps, TargetOperations
<1>5. Known'
  BY DEF Known, KnownBy, Control, ControlOf, Claims, Locks, TypeOK, In, Inside,
         Labels, StartOps, ConfigureOps, RunningOps, LockingOps, TargetOperations,
         CollectorRuns, Running, LifecycleState
<1>6. Batches'
  BY SMTT(60) DEF Batches, BatchOf, Control, ControlOf, Claims, Known, KnownBy, TypeOK, In,
         Inside, Labels, StartOps, ConfigureOps, RunningOps, Running,
         TargetOperations
<1>7. ActiveTargetsAreRunning'
  BY DEF ActiveTargetsAreRunning, CollectingIsTracked, Collecting, Known, KnownBy,
         Control, ControlOf, CollectorRuns, TypeOK, In, Inside, Labels, StartOps,
         ConfigureOps, RunningOps, Running, TargetOperations
<1>8. PendingResetIsFresh'
  BY DEF PendingResetIsFresh, Known, KnownBy, Control, ControlOf, CollectorRuns,
         TypeOK, In, Inside, Labels, StartOps, ConfigureOps, RunningOps, Running,
         TargetOperations
<1>9. StartingIsTransient'
  BY SMTT(60) DEF StartingIsTransient, Known, KnownBy, Control, ControlOf, Locks, TypeOK, In,
         Inside, Labels, StartOps, ConfigureOps, RunningOps, LockingOps, Running,
         TargetOperations
<1>10. SamplerIsOwned' /\ CollectingIsTracked'
  BY DEF SamplerIsOwned, CollectingIsTracked, Collecting, CollectorRuns
<1> QED BY <1>1, <1>2, <1>3, <1>4, <1>5, <1>6, <1>7, <1>8, <1>9, <1>10

\* No collector collects while the manager clears: none is tracked as running.
LEMMA ClearOneStep ==
    ASSUME IInv, NEW c \in Callers, NEW t \in Targets, ClearOne(c, t)
    PROVE  IInv'
<1> USE CollectionAssumption, AllowedIn DEF IInv, ClearOne, Goto,
       ClearCollectionState, SetCollector, orchestratorVars, collectorVars,
         samplerVars, mutexes, shared, callVars
<1>1. TypeOK'
  <2>1. collectorState' \in [Targets -> LifecycleState \ {"STARTING"}]
    <3>1. CASE collectorState[t] \in {"STARTED", "PAUSED"}
      BY <3>1 DEF TypeOK, Labels, Threads, Calls, LifecycleAction, LifecycleState,
             TargetOperations, Control, ControlOf, ConfigureOps
    <3>2. CASE ~(collectorState[t] \in {"STARTED", "PAUSED"})
      BY SMTT(60), <3>2 DEF TypeOK, Labels, Threads, Calls, LifecycleAction, LifecycleState,
             TargetOperations, Control, ControlOf, ConfigureOps
    <3> QED BY <3>1, <3>2
  <2>2. sampler' \in [Targets -> BOOLEAN]
    <3>1. sampler' = sampler \/ sampler' = [sampler EXCEPT ![t] = FALSE]
      OBVIOUS
    <3>2. sampler \in [Targets -> BOOLEAN]
      BY DEF TypeOK
    <3> QED BY ONLY <3>1, <3>2
  <2>3. pc' \in [Callers -> Labels]
    <3>1. CASE collectorState[t] \in {"STARTED", "PAUSED"}
      BY <3>1 DEF TypeOK, Labels, Threads, Calls, LifecycleAction, LifecycleState,
             TargetOperations, Control, ControlOf, ConfigureOps
    <3>2. CASE ~(collectorState[t] \in {"STARTED", "PAUSED"})
      BY <3>2 DEF TypeOK, Labels, Threads, Calls, LifecycleAction, LifecycleState,
             TargetOperations, Control, ControlOf, ConfigureOps
    <3> QED BY <3>1, <3>2
  <2>4. queue' \in [Callers -> SUBSET Targets]
    <3>1. CASE collectorState[t] \in {"STARTED", "PAUSED"}
      BY <3>1 DEF TypeOK, Labels, Threads, Calls, LifecycleAction, LifecycleState,
             TargetOperations, Control, ControlOf, ConfigureOps
    <3>2. CASE ~(collectorState[t] \in {"STARTED", "PAUSED"})
      BY <3>2 DEF TypeOK, Labels, Threads, Calls, LifecycleAction, LifecycleState,
             TargetOperations, Control, ControlOf, ConfigureOps
    <3> QED BY <3>1, <3>2
  <2> QED BY <2>1, <2>2, <2>3, <2>4 DEF TypeOK
<1>2. Control'
  BY DEF Control, ControlOf, TypeOK, Labels, StartOps, ConfigureOps,
         TargetOperations, BatchOperations, Claims
<1>3. Claims'
  BY DEF Claims, Control, ControlOf, TypeOK, StartOps, ConfigureOps
<1>4. Locks'
  BY DEF Locks, Control, ControlOf, TypeOK, In, Inside, Labels, StartOps,
         ConfigureOps, LockingOps, TargetOperations
<1>5. Known'
  BY DEF Known, KnownBy, Control, ControlOf, Claims, Locks, TypeOK, In, Inside,
         Labels, StartOps, ConfigureOps, RunningOps, LockingOps, TargetOperations,
         CollectorRuns, Running, LifecycleState
<1>6. Batches'
  BY SMTT(60) DEF Batches, BatchOf, Control, ControlOf, Claims, Known, KnownBy, TypeOK, In,
         Inside, Labels, StartOps, ConfigureOps, RunningOps, Running,
         TargetOperations
<1>7. SamplerIsOwned'
  BY DEF SamplerIsOwned, Known, KnownBy, Control, ControlOf, CollectorRuns, TypeOK,
         In, Inside, Labels, StartOps, ConfigureOps, Running, TargetOperations
<1>8. CollectingIsTracked'
  BY DEF CollectingIsTracked, Collecting, SamplerIsOwned, Known, KnownBy, Control,
         ControlOf, CollectorRuns, TypeOK, In, Inside, Labels, StartOps,
         ConfigureOps, RunningOps, Running, TargetOperations
<1>9. ActiveTargetsAreRunning'
  BY DEF ActiveTargetsAreRunning, CollectingIsTracked, Collecting, Known, KnownBy,
         Control, ControlOf, CollectorRuns, TypeOK, In, Inside, Labels, StartOps,
         ConfigureOps, RunningOps, Running, TargetOperations
<1>10. PendingResetIsFresh'
  BY DEF PendingResetIsFresh, Known, KnownBy, Control, ControlOf, CollectorRuns,
         TypeOK, In, Inside, Labels, StartOps, ConfigureOps, RunningOps, Running,
         TargetOperations
<1>11. StartingIsTransient'
  BY DEF StartingIsTransient
<1> QED BY <1>1, <1>2, <1>3, <1>4, <1>5, <1>6, <1>7, <1>8, <1>9, <1>10, <1>11

\* All collectors are UNCONFIGURED once the queue is empty.
LEMMA LeaveClearStep ==
    ASSUME IInv, NEW c \in Callers, LeaveClear(c)
    PROVE  IInv'
<1> USE CollectionAssumption, AllowedIn DEF IInv, LeaveClear, Goto,
       orchestratorVars, collectorVars,
         samplerVars, mutexes, shared, callVars
<1>1. TypeOK'
  <2>1. resetPending' \in BOOLEAN
    BY DEF TypeOK, Labels, Threads, Calls, LifecycleAction, LifecycleState,
           TargetOperations, Control, ControlOf, ConfigureOps
  <2>2. configureMutex' \in Callers \cup {None}
    BY DEF TypeOK, Labels, Threads, Calls, LifecycleAction, LifecycleState,
           TargetOperations, Control, ControlOf, ConfigureOps
  <2>3. managerMutex' \in Callers \cup {None}
    BY DEF TypeOK, Labels, Threads, Calls, LifecycleAction, LifecycleState,
           TargetOperations, Control, ControlOf, ConfigureOps
  <2>4. pc' \in [Callers -> Labels]
    BY SMTT(60) DEF TypeOK, Labels, Threads, Calls, LifecycleAction, LifecycleState,
           TargetOperations, Control, ControlOf, ConfigureOps
  <2> QED BY <2>1, <2>2, <2>3, <2>4 DEF TypeOK
<1>2. Control'
  BY DEF Control, ControlOf, TypeOK, Labels, StartOps, ConfigureOps,
         TargetOperations, BatchOperations, Claims
<1>3. Locks'
  BY DEF Locks, Control, ControlOf, TypeOK, In, Inside, Labels, StartOps,
         ConfigureOps, LockingOps, TargetOperations
<1>4. Known'
  BY DEF Known, KnownBy, Control, ControlOf, Claims, Locks, TypeOK, In, Inside,
         Labels, StartOps, ConfigureOps, RunningOps, LockingOps, TargetOperations,
         CollectorRuns, Running, LifecycleState
<1>5. Batches'
  BY DEF Batches, BatchOf, Control, ControlOf, Claims, Known, KnownBy, TypeOK, In,
         Inside, Labels, StartOps, ConfigureOps, RunningOps, Running,
         TargetOperations
<1>6. ActiveTargetsAreRunning'
  BY DEF ActiveTargetsAreRunning, CollectingIsTracked, Collecting, Known, KnownBy,
         Control, ControlOf, CollectorRuns, TypeOK, In, Inside, Labels, StartOps,
         ConfigureOps, RunningOps, Running, TargetOperations
<1>7. PendingResetIsFresh'
  BY DEF PendingResetIsFresh, Known, KnownBy, Control, ControlOf, CollectorRuns,
         TypeOK, In, Inside, Labels, StartOps, ConfigureOps, RunningOps, Running,
         TargetOperations
<1>8. StartingIsTransient'
  BY SMTT(60) DEF StartingIsTransient, Known, KnownBy, Control, ControlOf, Locks, TypeOK, In,
         Inside, Labels, StartOps, ConfigureOps, RunningOps, LockingOps, Running,
         TargetOperations
<1>9. Claims' /\ SamplerIsOwned' /\ CollectingIsTracked'
  BY DEF Claims, SamplerIsOwned, CollectingIsTracked, Collecting, CollectorRuns
<1> QED BY <1>1, <1>2, <1>3, <1>4, <1>5, <1>6, <1>7, <1>8, <1>9

\* The targets follow the collectors, and a pending reset finds both UNCONFIGURED.
LEMMA ResetCollectionStateStep ==
    ASSUME IInv, NEW c \in Callers, ResetCollectionState(c)
    PROVE  IInv'
<1> USE CollectionAssumption, AllowedIn DEF IInv, ResetCollectionState, Goto,
       Outcome, orchestratorVars, collectorVars,
         samplerVars, mutexes, shared, callVars
<1>1. TypeOK'
  BY SMTT(60) DEF TypeOK, Labels, Threads, Calls, LifecycleAction, LifecycleState,
         TargetOperations, Control, ControlOf, ConfigureOps
<1>2. Control'
  BY DEF Control, ControlOf, TypeOK, Labels, StartOps, ConfigureOps,
         TargetOperations, BatchOperations, Claims
<1>3. Locks'
  BY DEF Locks, Control, ControlOf, TypeOK, In, Inside, Labels, StartOps,
         ConfigureOps, LockingOps, TargetOperations
<1>4. Known'
  BY SMTT(60) DEF Known, KnownBy, Control, ControlOf, Claims, Locks, TypeOK, In, Inside,
         Labels, StartOps, ConfigureOps, RunningOps, LockingOps, TargetOperations,
         CollectorRuns, Running, LifecycleState
<1>5. Batches'
  BY SMTT(60) DEF Batches, BatchOf, Control, ControlOf, Claims, Known, KnownBy, TypeOK, In,
         Inside, Labels, StartOps, ConfigureOps, RunningOps, Running,
         TargetOperations
<1>6. CollectingIsTracked'
  BY DEF CollectingIsTracked, Collecting, SamplerIsOwned, Known, KnownBy, Control,
         ControlOf, CollectorRuns, TypeOK, In, Inside, Labels, StartOps,
         ConfigureOps, RunningOps, Running, TargetOperations
<1>7. ActiveTargetsAreRunning'
  BY SMTT(60) DEF ActiveTargetsAreRunning, CollectingIsTracked, Collecting, Known, KnownBy,
         Control, ControlOf, CollectorRuns, TypeOK, In, Inside, Labels, StartOps,
         ConfigureOps, RunningOps, Running, TargetOperations
<1>8. PendingResetIsFresh'
  BY DEF PendingResetIsFresh, Known, KnownBy, Control, ControlOf, CollectorRuns,
         TypeOK, In, Inside, Labels, StartOps, ConfigureOps, RunningOps, Running,
         TargetOperations
<1>9. StartingIsTransient'
  BY DEF StartingIsTransient, Known, KnownBy, Control, ControlOf, Locks, TypeOK, In,
         Inside, Labels, StartOps, ConfigureOps, RunningOps, LockingOps, Running,
         TargetOperations
<1>10. Claims' /\ SamplerIsOwned'
  BY DEF Claims, SamplerIsOwned, CollectorRuns
<1> QED BY <1>1, <1>2, <1>3, <1>4, <1>5, <1>6, <1>7, <1>8, <1>9, <1>10

\* The call leaves the method and its mutex.
LEMMA RefuseOperationsStep ==
    ASSUME IInv, NEW c \in Callers, RefuseOperations(c)
    PROVE  IInv'
<1> USE CollectionAssumption, AllowedIn DEF IInv, RefuseOperations, Goto,
       orchestratorVars, collectorVars,
         samplerVars, mutexes, shared, callVars
<1>1. TypeOK'
  BY DEF TypeOK, Labels, Threads, Calls, LifecycleAction, LifecycleState,
         TargetOperations, Control, ControlOf, ConfigureOps
<1>2. Control'
  BY DEF Control, ControlOf, TypeOK, Labels, StartOps, ConfigureOps,
         TargetOperations, BatchOperations, Claims
<1>3. Locks'
  BY SMTT(60) DEF Locks, Control, ControlOf, TypeOK, In, Inside, Labels, StartOps,
         ConfigureOps, LockingOps, TargetOperations
<1>4. Known'
  BY DEF Known, KnownBy, Control, ControlOf, Claims, Locks, TypeOK, In, Inside,
         Labels, StartOps, ConfigureOps, RunningOps, LockingOps, TargetOperations,
         CollectorRuns, Running, LifecycleState
<1>5. Batches'
  BY DEF Batches, BatchOf, Control, ControlOf, Claims, Known, KnownBy, TypeOK, In,
         Inside, Labels, StartOps, ConfigureOps, RunningOps, Running,
         TargetOperations
<1>6. ActiveTargetsAreRunning'
  BY DEF ActiveTargetsAreRunning, CollectingIsTracked, Collecting, Known, KnownBy,
         Control, ControlOf, CollectorRuns, TypeOK, In, Inside, Labels, StartOps,
         ConfigureOps, RunningOps, Running, TargetOperations
<1>7. StartingIsTransient'
  BY SMTT(60) DEF StartingIsTransient, Known, KnownBy, Control, ControlOf, Locks, TypeOK, In,
         Inside, Labels, StartOps, ConfigureOps, RunningOps, LockingOps, Running,
         TargetOperations
<1>8. Claims' /\ SamplerIsOwned' /\ CollectingIsTracked' /\ PendingResetIsFresh'
  BY DEF Claims, SamplerIsOwned, CollectingIsTracked, PendingResetIsFresh,
         Collecting, CollectorRuns
<1> QED BY <1>1, <1>2, <1>3, <1>4, <1>5, <1>6, <1>7, <1>8

\* The collector is configured while no target runs.
LEMMA CollectorConfigureStep ==
    ASSUME IInv, NEW c \in Callers, CollectorConfigure(c)
    PROVE  IInv'
<1> USE CollectionAssumption DEF IInv
<1>1. /\ pc[c] = "enter" /\ call[c] = "CONFIGURE"
      /\ UNCHANGED <<targetState, resetPending, activeTargets, sampler,
            samplerPaused,
                     samplerPc, configureMutex, managerMutex, collectorMutex, op,
                           call,
                     tgt, claim, queue, batch>>
  BY DEF CollectorConfigure, orchestratorVars, samplerVars, mutexes, callVars
<1>2. PICK label \in {"succeeded", "refused"} : pc' = [pc EXCEPT ![c] = label]
  <2>1. CASE Goto(c, "succeeded")
    BY <2>1 DEF Goto
  <2>2. CASE Goto(c, "refused")
    BY <2>2 DEF Goto
  <2> QED
    BY <2>1, <2>2 DEF CollectorConfigure
<1>3. op[c] = "configure"
  BY SMTT(60), <1>1 DEF Control, ControlOf, TypeOK, TargetOperations
<1>4. tgt[c] \in Targets
  BY <1>1, <1>3 DEF Control, ControlOf, TypeOK
<1>5. PICK s \in LifecycleState \ {"STARTING"} :
        /\ collectorState' = [collectorState EXCEPT ![tgt[c]] = s]
        /\ IF CollectorRuns(tgt[c]) THEN s = collectorState[tgt[c]] ELSE s \notin
              {"STARTED", "PAUSED"}
  <2>1. CASE UNCHANGED collectorState
    BY <1>4, <2>1 DEF TypeOK, CollectorRuns
  <2>2. CASE ~CollectorRuns(tgt[c]) /\ SetCollector(tgt[c], "CONFIGURED")
    <3>1. "CONFIGURED" \in LifecycleState \ {"STARTING"} /\ "CONFIGURED" \notin
          {"STARTED", "PAUSED"}
      BY DEF LifecycleState
    <3> QED
      BY ONLY <2>2, <3>1 DEF SetCollector
  <2>3. CASE ~CollectorRuns(tgt[c]) /\ SetCollector(tgt[c], "UNCONFIGURED")
    <3>1. "UNCONFIGURED" \in LifecycleState \ {"STARTING"} /\ "UNCONFIGURED" \notin
          {"STARTED", "PAUSED"}
      BY DEF LifecycleState
    <3> QED
      BY ONLY <2>3, <3>1 DEF SetCollector
  <2>4. CASE ~CollectorRuns(tgt[c]) /\ SetCollector(tgt[c], collectorState[tgt[c]])
    BY <1>4, <2>4 DEF SetCollector, TypeOK, CollectorRuns
  <2> QED
    BY <2>1, <2>2, <2>3, <2>4 DEF CollectorConfigure, CollectorRuns
<1>6. mode' \in [Targets -> CollectionModes]
  <2>1. CASE \E m \in Modes : mode' = [mode EXCEPT ![tgt[c]] = m]
    <3>1. PICK m \in Modes : mode' = [mode EXCEPT ![tgt[c]] = m]
      BY <2>1
    <3>2. m \in CollectionModes /\ mode \in [Targets -> CollectionModes]
      BY DEF TypeOK
    <3> QED
      BY ONLY <3>1, <3>2
  <2>2. CASE mode' = mode
    BY <2>2 DEF TypeOK
  <2> QED
    BY <2>1, <2>2 DEF CollectorConfigure
<1>7. TypeOK' /\ Control' /\ Claims'
  <2>1. collectorState' \in [Targets -> LifecycleState \ {"STARTING"}] /\ pc' \in
        [Callers -> Labels]
    BY <1>2, <1>5 DEF TypeOK, Labels
  <2>2. TypeOK'
    BY <1>1, <1>6, <2>1 DEF TypeOK
  <2>3. Control' /\ Claims'
    BY <1>1, <1>2, <1>3 DEF TypeOK, Control, ControlOf, Claims, ConfigureOps
  <2> QED
    BY <2>2, <2>3
<1>8. Locks' /\ Batches'
  BY <1>1, <1>2, <1>3 DEF Locks, Batches, BatchOf, TypeOK, In, Inside, Labels,
     ConfigureOps, LockingOps, StartOps, Control, ControlOf
<1>9. \A t \in Targets : CollectorRuns(t)' <=> CollectorRuns(t)
  BY <1>5 DEF CollectorRuns, TypeOK
<1>10. ~resetPending
  BY <1>1, <1>3 DEF Known, KnownBy, In, Inside, Labels
<1>11. Known'
  <2> SUFFICES ASSUME NEW d \in Callers  PROVE KnownBy(d)'
    BY DEF Known
  <2>1. CASE d = c
    BY <1>1, <1>2, <1>3, <2>1 DEF Known, KnownBy, TypeOK, In, Inside, Labels,
           ConfigureOps,
       StartOps, RunningOps
  <2>2. CASE d # c
    <3>1. pc'[d] = pc[d] /\ (pc[d] \notin {"clearing", "cleared"})
      BY SMTT(60), <1>1, <1>2, <1>3, <2>2 DEF TypeOK, Locks, In, Inside, Labels, LockingOps,
         ConfigureOps, Control, ControlOf
    <3>2. tgt[d] \in Targets \/ pc[d] \in {"idle", "done", "failed"} \/ op[d] =
          "reset"
      BY DEF Control, ControlOf, TypeOK
    <3> QED
      BY <1>1, <1>9, <3>1, <3>2 DEF Known, KnownBy, In, StartOps, Control, ControlOf
  <2> QED
    BY <2>1, <2>2
<1>12. SamplerIsOwned' /\ CollectingIsTracked' /\ StartingIsTransient'
  BY <1>1, <1>9 DEF SamplerIsOwned, CollectingIsTracked, Collecting, CollectorRuns,
     StartingIsTransient
<1>13. ActiveTargetsAreRunning' /\ PendingResetIsFresh'
  <2>1. \A d \in Callers : pc[d] = "insert" => pc'[d] = "insert"
    BY <1>1, <1>2 DEF TypeOK
  <2> QED
    BY <1>1, <1>9, <1>10, <2>1 DEF ActiveTargetsAreRunning, PendingResetIsFresh,
           CollectorRuns
<1> QED
  BY <1>7, <1>8, <1>11, <1>12, <1>13

\* The call leaves the method and its mutex.
LEMMA ConfigureRefusedStep ==
    ASSUME IInv, NEW c \in Callers, ConfigureRefused(c)
    PROVE  IInv'
<1> USE CollectionAssumption, AllowedIn DEF IInv, ConfigureRefused, Goto,
       orchestratorVars, collectorVars,
         samplerVars, mutexes, shared, callVars
<1>1. TypeOK'
  BY DEF TypeOK, Labels, Threads, Calls, LifecycleAction, LifecycleState,
         TargetOperations, Control, ControlOf, ConfigureOps
<1>2. Control'
  BY DEF Control, ControlOf, TypeOK, Labels, StartOps, ConfigureOps,
         TargetOperations, BatchOperations, Claims
<1>3. Locks'
  BY SMTT(60) DEF Locks, Control, ControlOf, TypeOK, In, Inside, Labels, StartOps,
         ConfigureOps, LockingOps, TargetOperations
<1>4. Known'
  BY DEF Known, KnownBy, Control, ControlOf, Claims, Locks, TypeOK, In, Inside,
         Labels, StartOps, ConfigureOps, RunningOps, LockingOps, TargetOperations,
         CollectorRuns, Running, LifecycleState
<1>5. Batches'
  BY DEF Batches, BatchOf, Control, ControlOf, Claims, Known, KnownBy, TypeOK, In,
         Inside, Labels, StartOps, ConfigureOps, RunningOps, Running,
         TargetOperations
<1>6. ActiveTargetsAreRunning'
  BY DEF ActiveTargetsAreRunning, CollectingIsTracked, Collecting, Known, KnownBy,
         Control, ControlOf, CollectorRuns, TypeOK, In, Inside, Labels, StartOps,
         ConfigureOps, RunningOps, Running, TargetOperations
<1>7. StartingIsTransient'
  BY SMTT(60) DEF StartingIsTransient, Known, KnownBy, Control, ControlOf, Locks, TypeOK, In,
         Inside, Labels, StartOps, ConfigureOps, RunningOps, LockingOps, Running,
         TargetOperations
<1>8. Claims' /\ SamplerIsOwned' /\ CollectingIsTracked' /\ PendingResetIsFresh'
  BY DEF Claims, SamplerIsOwned, CollectingIsTracked, PendingResetIsFresh,
         Collecting, CollectorRuns
<1> QED BY <1>1, <1>2, <1>3, <1>4, <1>5, <1>6, <1>7, <1>8

\* The target changes among the states that do not run.
LEMMA CompleteConfigureStep ==
    ASSUME IInv, NEW c \in Callers, CompleteConfigure(c)
    PROVE  IInv'
<1> USE CollectionAssumption, AllowedIn DEF IInv, CompleteConfigure, Goto,
       SetTarget, Outcome, OutcomeOn, orchestratorVars, collectorVars,
         samplerVars, mutexes, shared, callVars
<1>1. TypeOK'
  BY SMTT(60) DEF TypeOK, Labels, Threads, Calls, LifecycleAction, LifecycleState,
         TargetOperations, Control, ControlOf, ConfigureOps
<1>2. Control'
  BY DEF Control, ControlOf, TypeOK, Labels, StartOps, ConfigureOps,
         TargetOperations, BatchOperations, Claims
<1>3. Locks'
  BY SMTT(60) DEF Locks, Control, ControlOf, TypeOK, In, Inside, Labels, StartOps,
         ConfigureOps, LockingOps, TargetOperations
<1>4. Known'
  <2> SUFFICES ASSUME NEW d \in Callers  PROVE KnownBy(d)'
    BY DEF Known
  <2>1. CASE d = c
    BY SMTT(60), <2>1 DEF Known, KnownBy, Control, ControlOf, Claims, Locks, TypeOK,
           In, Inside, Labels, StartOps, ConfigureOps, RunningOps, LockingOps,
           TargetOperations, CollectorRuns, Running, LifecycleState
  <2>2. CASE d # c
    BY SMTT(60), <2>2 DEF Known, KnownBy, Control, ControlOf, Claims, Locks, TypeOK,
           In, Inside, Labels, StartOps, ConfigureOps, RunningOps, LockingOps,
           TargetOperations, CollectorRuns, Running, LifecycleState
  <2> QED BY <2>1, <2>2
<1>5. Batches'
  BY SMTT(60) DEF Batches, BatchOf, Control, ControlOf, Claims, Known, KnownBy, TypeOK, In,
         Inside, Labels, StartOps, ConfigureOps, RunningOps, Running,
         TargetOperations
<1>6. CollectingIsTracked'
  BY SMTT(60) DEF CollectingIsTracked, Collecting, SamplerIsOwned, Known, KnownBy, Control,
         ControlOf, CollectorRuns, TypeOK, In, Inside, Labels, StartOps,
         ConfigureOps, RunningOps, Running, TargetOperations
<1>7. ActiveTargetsAreRunning'
  BY SMTT(60) DEF ActiveTargetsAreRunning, CollectingIsTracked, Collecting, Known, KnownBy,
         Control, ControlOf, CollectorRuns, TypeOK, In, Inside, Labels, StartOps,
         ConfigureOps, RunningOps, Running, TargetOperations
<1>8. PendingResetIsFresh'
  BY SMTT(60) DEF PendingResetIsFresh, Known, KnownBy, Control, ControlOf, CollectorRuns,
         TypeOK, In, Inside, Labels, StartOps, ConfigureOps, RunningOps, Running,
         TargetOperations
<1>9. StartingIsTransient'
  BY SMTT(60) DEF StartingIsTransient, Known, KnownBy, Control, ControlOf, Locks, TypeOK, In,
         Inside, Labels, StartOps, ConfigureOps, RunningOps, LockingOps, Running,
         TargetOperations
<1>10. Claims' /\ SamplerIsOwned'
  BY DEF Claims, SamplerIsOwned, CollectorRuns
<1> QED BY <1>1, <1>2, <1>3, <1>4, <1>5, <1>6, <1>7, <1>8, <1>9, <1>10

\* The manager is locked by the caller that holds _configure_mutex.
LEMMA EnterDropStep ==
    ASSUME IInv, NEW c \in Callers, EnterDrop(c)
    PROVE  IInv'
<1> USE CollectionAssumption, AllowedIn DEF IInv, EnterDrop, Goto, orchestratorVars,
       collectorVars,
         samplerVars, mutexes, shared, callVars
<1>1. TypeOK'
  BY SMTT(60) DEF TypeOK, Labels, Threads, Calls, LifecycleAction, LifecycleState,
         TargetOperations, Control, ControlOf, ConfigureOps
<1>2. Control'
  BY DEF Control, ControlOf, TypeOK, Labels, StartOps, ConfigureOps,
         TargetOperations, BatchOperations, Claims
<1>3. Locks'
  BY SMTT(60) DEF Locks, Control, ControlOf, TypeOK, In, Inside, Labels, StartOps,
         ConfigureOps, LockingOps, TargetOperations
<1>4. Known'
  BY DEF Known, KnownBy, Control, ControlOf, Claims, Locks, TypeOK, In, Inside,
         Labels, StartOps, ConfigureOps, RunningOps, LockingOps, TargetOperations,
         CollectorRuns, Running, LifecycleState
<1>5. Batches'
  BY DEF Batches, BatchOf, Control, ControlOf, Claims, Known, KnownBy, TypeOK, In,
         Inside, Labels, StartOps, ConfigureOps, RunningOps, Running,
         TargetOperations
<1>6. ActiveTargetsAreRunning'
  BY DEF ActiveTargetsAreRunning, CollectingIsTracked, Collecting, Known, KnownBy,
         Control, ControlOf, CollectorRuns, TypeOK, In, Inside, Labels, StartOps,
         ConfigureOps, RunningOps, Running, TargetOperations
<1>7. StartingIsTransient'
  BY SMTT(60) DEF StartingIsTransient, Known, KnownBy, Control, ControlOf, Locks, TypeOK, In,
         Inside, Labels, StartOps, ConfigureOps, RunningOps, LockingOps, Running,
         TargetOperations
<1>8. Claims' /\ SamplerIsOwned' /\ CollectingIsTracked' /\ PendingResetIsFresh'
  BY DEF Claims, SamplerIsOwned, CollectingIsTracked, PendingResetIsFresh,
         Collecting, CollectorRuns
<1> QED BY <1>1, <1>2, <1>3, <1>4, <1>5, <1>6, <1>7, <1>8

\* The collector of a target that does not run is cleared.
LEMMA DropConfigurationStep ==
    ASSUME IInv, NEW c \in Callers, DropConfiguration(c)
    PROVE  IInv'
<1> USE CollectionAssumption, AllowedIn DEF IInv, DropConfiguration, Goto,
       ClearCollectionState, SetCollector, orchestratorVars, collectorVars,
         samplerVars, mutexes, shared, callVars
<1>1. TypeOK'
  <2>1. collectorState' \in [Targets -> LifecycleState \ {"STARTING"}]
    <3>1. CASE collectorState[tgt[c]] \in {"STARTED", "PAUSED"}
      BY <3>1 DEF TypeOK, Labels, Threads, Calls, LifecycleAction, LifecycleState,
             TargetOperations, Control, ControlOf, ConfigureOps
    <3>2. CASE ~(collectorState[tgt[c]] \in {"STARTED", "PAUSED"})
      BY SMTT(60), <3>2 DEF TypeOK, Labels, Threads, Calls, LifecycleAction, LifecycleState,
             TargetOperations, Control, ControlOf, ConfigureOps
    <3> QED BY <3>1, <3>2
  <2>2. sampler' \in [Targets -> BOOLEAN]
    <3>1. sampler' = sampler \/ sampler' = [sampler EXCEPT ![tgt[c]] = FALSE]
      OBVIOUS
    <3>2. sampler \in [Targets -> BOOLEAN]
      BY DEF TypeOK
    <3> QED BY ONLY <3>1, <3>2
  <2>3. configureMutex' \in Callers \cup {None}
    <3>1. CASE collectorState[tgt[c]] \in {"STARTED", "PAUSED"}
      BY <3>1 DEF TypeOK, Labels, Threads, Calls, LifecycleAction, LifecycleState,
             TargetOperations, Control, ControlOf, ConfigureOps
    <3>2. CASE ~(collectorState[tgt[c]] \in {"STARTED", "PAUSED"})
      BY <3>2 DEF TypeOK, Labels, Threads, Calls, LifecycleAction, LifecycleState,
             TargetOperations, Control, ControlOf, ConfigureOps
    <3> QED BY <3>1, <3>2
  <2>4. managerMutex' \in Callers \cup {None}
    <3>1. CASE collectorState[tgt[c]] \in {"STARTED", "PAUSED"}
      BY <3>1 DEF TypeOK, Labels, Threads, Calls, LifecycleAction, LifecycleState,
             TargetOperations, Control, ControlOf, ConfigureOps
    <3>2. CASE ~(collectorState[tgt[c]] \in {"STARTED", "PAUSED"})
      BY <3>2 DEF TypeOK, Labels, Threads, Calls, LifecycleAction, LifecycleState,
             TargetOperations, Control, ControlOf, ConfigureOps
    <3> QED BY <3>1, <3>2
  <2>5. pc' \in [Callers -> Labels]
    <3>1. CASE collectorState[tgt[c]] \in {"STARTED", "PAUSED"}
      BY <3>1 DEF TypeOK, Labels, Threads, Calls, LifecycleAction, LifecycleState,
             TargetOperations, Control, ControlOf, ConfigureOps
    <3>2. CASE ~(collectorState[tgt[c]] \in {"STARTED", "PAUSED"})
      BY <3>2 DEF TypeOK, Labels, Threads, Calls, LifecycleAction, LifecycleState,
             TargetOperations, Control, ControlOf, ConfigureOps
    <3> QED BY <3>1, <3>2
  <2> QED BY <2>1, <2>2, <2>3, <2>4, <2>5 DEF TypeOK
<1>2. Control'
  BY DEF Control, ControlOf, TypeOK, Labels, StartOps, ConfigureOps,
         TargetOperations, BatchOperations, Claims
<1>3. Locks'
  BY SMTT(60) DEF Locks, Control, ControlOf, TypeOK, In, Inside, Labels, StartOps,
         ConfigureOps, LockingOps, TargetOperations
<1>4. Known'
  BY SMTT(60) DEF Known, KnownBy, Control, ControlOf, Claims, Locks, TypeOK, In, Inside,
         Labels, StartOps, ConfigureOps, RunningOps, LockingOps, TargetOperations,
         CollectorRuns, Running, LifecycleState
<1>5. Batches'
  BY DEF Batches, BatchOf, Control, ControlOf, Claims, Known, KnownBy, TypeOK, In,
         Inside, Labels, StartOps, ConfigureOps, RunningOps, Running,
         TargetOperations
<1>6. SamplerIsOwned'
  BY SMTT(60) DEF SamplerIsOwned, Known, KnownBy, Control, ControlOf, CollectorRuns, TypeOK,
         In, Inside, Labels, StartOps, ConfigureOps, Running, TargetOperations
<1>7. CollectingIsTracked'
  BY DEF CollectingIsTracked, Collecting, SamplerIsOwned, Known, KnownBy, Control,
         ControlOf, CollectorRuns, TypeOK, In, Inside, Labels, StartOps,
         ConfigureOps, RunningOps, Running, TargetOperations
<1>8. ActiveTargetsAreRunning'
  BY DEF ActiveTargetsAreRunning, CollectingIsTracked, Collecting, Known, KnownBy,
         Control, ControlOf, CollectorRuns, TypeOK, In, Inside, Labels, StartOps,
         ConfigureOps, RunningOps, Running, TargetOperations
<1>9. PendingResetIsFresh'
  BY DEF PendingResetIsFresh, Known, KnownBy, Control, ControlOf, CollectorRuns,
         TypeOK, In, Inside, Labels, StartOps, ConfigureOps, RunningOps, Running,
         TargetOperations
<1>10. StartingIsTransient'
  BY SMTT(60) DEF StartingIsTransient, Known, KnownBy, Control, ControlOf, Locks, TypeOK, In,
         Inside, Labels, StartOps, ConfigureOps, RunningOps, LockingOps, Running,
         TargetOperations
<1>11. Claims'
  BY DEF Claims
<1> QED BY <1>1, <1>2, <1>3, <1>4, <1>5, <1>6, <1>7, <1>8, <1>9, <1>10, <1>11
===============================================================================
