----------------------------- MODULE Collection -----------------------------
(***************************************************************************)
(* The orchestrator (orchestrator/orchestrator.cpp), the collector manager *)
(* (collector/collector_manager.cpp), the collectors of the targets        *)
(* (scmi, libsensors, procfs, numa) and the periodic sampler thread each   *)
(* starts (collector/periodic_sampler.hpp), at the grain of the mutexes    *)
(* they share: _configure_mutex of the orchestrator, _mutex of the         *)
(* collector manager and _collection_mutex of every collector.             *)
(*                                                                         *)
(* _collection_state_mutex and the mutexes of the sample containers are    *)
(* leaves: what is done under one of them is part of one step.             *)
(*                                                                         *)
(* With one caller this is the C interface, where GetCApiMutex admits one  *)
(* call at a time; with several it is the Orchestrator class used by       *)
(* several threads.  Two threads of the class never work on one target at  *)
(* the same time: _periodic_sampler of a collector has no lock of its own. *)
(***************************************************************************)
EXTENDS CollectionLifecycle

CONSTANTS
    Targets,     \* the monitored targets, one collector each
    Callers,     \* the threads that call the orchestrator
    None,        \* a mutex nobody holds, a call on no target
    Backend,     \* the collector of each target
    Modes,       \* the collection modes callers configure
    Faults,      \* the steps that may fail
    Operations   \* the operations callers ask for

Backends == {"SCMI", "LIBSENSORS", "PROCFS", "NUMA"}
CollectionModes == {"IMMEDIATE", "SNAPSHOT", "SAMPLING"}
TargetOperations ==
    {"configure", "start", "startPaused", "pause", "resume", "stop", "read"}
BatchOperations == {"startAll", "startAllPaused"}

\* configure: the collector refuses a configuration; operations: an acquisition
\* or its sink fails; marker: the sink refuses a pause or resume marker; restore:
\* the data events cannot be restored; files: the raw sample cache cannot be
\* written or removed; clock: no native clock snapshot.
FaultKinds == {"configure", "operations", "marker", "restore", "files", "clock"}

ASSUME CollectionAssumption ==
    /\ Callers \cap Targets = {}
    /\ None \notin Callers \cup Targets
    /\ Backend \in [Targets -> Backends]
    /\ Modes \subseteq CollectionModes
    /\ Faults \subseteq FaultKinds
    /\ Operations \subseteq TargetOperations \cup BatchOperations \cup {"reset"}

VARIABLES
    targetState,      \* Orchestrator::_target_collection_states
    resetPending,     \* Orchestrator::_clean_configure_reset_pending
    activeTargets,    \* CollectorManager::_targets_with_active_collection
    collectorState,   \* _collection_state of each collector; it has a
                      \* configuration unless UNCONFIGURED
    mode,             \* the collection mode of that configuration
    sampler,          \* _periodic_sampler is set: its thread is not cancelled
    samplerPaused,    \* PeriodicSampler::_paused
    samplerPc,        \* where the sampler thread of the target is
    configureMutex, managerMutex, collectorMutex,   \* who holds each mutex
    pc,               \* where each caller is
    op,               \* the orchestrator method it runs
    call,             \* the collector method that one needs next
    tgt,              \* the target of the two
    claim,            \* the targets it works on until its call returns
    queue,            \* the targets its loop has not visited yet
    batch             \* where it is in an aggregate start

orchestratorVars == <<targetState, resetPending>>
collectorVars == <<activeTargets, collectorState, mode>>
samplerVars == <<sampler, samplerPaused, samplerPc>>
mutexes == <<configureMutex, managerMutex, collectorMutex>>
shared == <<orchestratorVars, collectorVars, samplerVars, mutexes>>
callVars == <<op, call, tgt, claim, queue, batch>>
vars == <<shared, pc, callVars>>

Threads == Callers \cup Targets   \* the sampler thread of a target is named as it

Labels ==
    {"idle", "begin", "clearAll", "clearing", "clearFailed", "cleared", "lookup",
     "cancel", "join", "enter", "work", "insert", "erase", "succeeded", "refused",
     "drop", "dropping", "done", "failed"}
Calls == LifecycleAction \cup {"CONFIGURE", "READ"}

CallOf == [configure |-> "CONFIGURE", start |-> "START", startPaused |-> "START",
           pause |-> "PAUSE", resume |-> "RESUME", stop |-> "STOP", read |-> "READ"]

Outcome(fault) == IF fault \in Faults THEN BOOLEAN ELSE {TRUE}
OutcomeOn(t, fault, backends) ==
    IF Backend[t] \in backends THEN Outcome(fault) ELSE {TRUE}

Goto(c, label) == pc' = [pc EXCEPT ![c] = label]
SetTarget(c, s) == targetState' = [targetState EXCEPT ![tgt[c]] = s]
SetCollectorInFlight(t, s) ==   \* mutant: shows a start in flight
    collectorState' = [collectorState EXCEPT ![t] = IF s = "STARTED" THEN "STARTING" ELSE s]
SetCollector(t, s) == collectorState' = [collectorState EXCEPT ![t] = s]
Acquires(t) == mode[t] = "SNAPSHOT"   \* Start and Stop take a sample themselves
Marks(t) == Backend[t] \in {"SCMI", "LIBSENSORS"}   \* Pause and Resume leave a marker

Init ==
    /\ targetState = [t \in Targets |-> "UNCONFIGURED"]
    /\ resetPending = FALSE
    /\ activeTargets = {}
    /\ collectorState = [t \in Targets |-> "UNCONFIGURED"]
    /\ mode = [t \in Targets |-> "IMMEDIATE"]
    /\ sampler = [t \in Targets |-> FALSE]
    /\ samplerPaused = [t \in Targets |-> FALSE]
    /\ samplerPc = [t \in Targets |-> "none"]
    /\ configureMutex = None /\ managerMutex = None
    /\ collectorMutex = [t \in Targets |-> None]
    /\ pc = [c \in Callers |-> "idle"]
    /\ op = [c \in Callers |-> "reset"]
    /\ call = [c \in Callers |-> "READ"]
    /\ tgt = [c \in Callers |-> None]
    /\ claim = [c \in Callers |-> {}]
    /\ queue = [c \in Callers |-> {}]
    /\ batch = [c \in Callers |-> "none"]

-----------------------------------------------------------------------------
(* Calls of the orchestrator, and the aggregate start of the C interface.   *)

CallOnTarget(c, t) ==
    /\ pc[c] = "idle"
    /\ \A d \in Callers : t \notin claim[d]
    /\ \E o \in Operations \cap TargetOperations :
          /\ op' = [op EXCEPT ![c] = o]
          /\ call' = [call EXCEPT ![c] = CallOf[o]]
    /\ tgt' = [tgt EXCEPT ![c] = t]
    /\ claim' = [claim EXCEPT ![c] = {t}]
    /\ Goto(c, "begin")
    /\ UNCHANGED <<shared, queue, batch>>

\* The reset that precedes a configuration of all targets.
CallReset(c) ==
    /\ pc[c] = "idle"
    /\ "reset" \in Operations
    /\ op' = [op EXCEPT ![c] = "reset"]
    /\ Goto(c, "begin")
    /\ UNCHANGED <<shared, call, tgt, claim, queue, batch>>

\* StartConfiguredTargets: start every configured target, one after the other.
CallStartAll(c) ==
    LET configured == {t \in Targets : targetState[t] = "CONFIGURED"} IN
    /\ pc[c] = "idle"
    /\ configured # {}
    /\ \A d \in Callers : configured \cap claim[d] = {}
    /\ \E o \in Operations \cap BatchOperations :
          op' = [op EXCEPT ![c] = IF o = "startAll" THEN "start" ELSE "startPaused"]
    /\ claim' = [claim EXCEPT ![c] = configured]
    /\ queue' = [queue EXCEPT ![c] = configured]
    /\ batch' = [batch EXCEPT ![c] = "starting"]
    /\ Goto(c, "done")
    /\ UNCHANGED <<shared, call, tgt>>

StartNext(c, t) ==
    /\ batch[c] = "starting" /\ pc[c] = "done"
    /\ t \in queue[c]
    /\ queue' = [queue EXCEPT ![c] = @ \ {t}]
    /\ tgt' = [tgt EXCEPT ![c] = t]
    /\ call' = [call EXCEPT ![c] = "START"]
    /\ Goto(c, "begin")
    /\ UNCHANGED <<shared, op, claim, batch>>

\* One target did not start: those started before it are to be rolled back.
AbandonBatch(c) ==
    /\ batch[c] = "starting" /\ pc[c] = "failed"
    /\ batch' = [batch EXCEPT ![c] = "undoing"]
    /\ queue' = [queue EXCEPT ![c] = (claim[c] \ @) \ {tgt[c]}]
    /\ UNCHANGED <<shared, pc, op, call, tgt, claim>>

RollbackNext(c, t) ==
    /\ batch[c] = "undoing" /\ pc[c] \in {"done", "failed"}
    /\ t \in queue[c]
    /\ queue' = [queue EXCEPT ![c] = @ \ {t}]
    /\ tgt' = [tgt EXCEPT ![c] = t]
    /\ op' = [op EXCEPT ![c] = "rollback"]
    /\ call' = [call EXCEPT ![c] = "STOP"]
    /\ Goto(c, "lookup")
    /\ UNCHANGED <<shared, claim, batch>>

Return(c) ==
    /\ pc[c] \in {"done", "failed"}
    /\ queue[c] = {}
    /\ batch[c] = "starting" => pc[c] = "done"
    /\ Goto(c, "idle")
    /\ op' = [op EXCEPT ![c] = "reset"]
    /\ call' = [call EXCEPT ![c] = "READ"]
    /\ tgt' = [tgt EXCEPT ![c] = None]
    /\ claim' = [claim EXCEPT ![c] = {}]
    /\ batch' = [batch EXCEPT ![c] = "none"]
    /\ UNCHANGED <<shared, queue>>

-----------------------------------------------------------------------------
(* Configuration.  _configure_mutex is held from here to the return.        *)

SomeStarted == \E t \in Targets : targetState[t] = "STARTED"   \* mutant: not the paused
SomeRunning == \E t \in Targets : targetState[t] \in Running
OtherConfigured(c) == \E t \in Targets \ {tgt[c]} : targetState[t] = "CONFIGURED"

\* std::exchange(_clean_configure_reset_pending, false)
KeepReset == UNCHANGED resetPending   \* mutant
ConsumeReset == resetPending' = FALSE

BeginConfigure(c) ==
    /\ pc[c] = "begin" /\ op[c] = "configure"
    /\ configureMutex = None
    /\ ConsumeReset
    /\ IF SomeRunning /\ ~resetPending
         THEN Goto(c, "failed") /\ UNCHANGED configureMutex
         ELSE /\ configureMutex' = c
              /\ Goto(c, IF resetPending \/ OtherConfigured(c) THEN "lookup" ELSE "clearAll")
    /\ UNCHANGED <<targetState, collectorVars, samplerVars, managerMutex,
                   collectorMutex, callVars>>

BeginReset(c) ==
    /\ pc[c] = "begin" /\ op[c] = "reset"
    /\ configureMutex = None
    /\ IF SomeRunning
         THEN Goto(c, "failed") /\ UNCHANGED configureMutex
         ELSE Goto(c, "clearAll") /\ configureMutex' = c
    /\ UNCHANGED <<orchestratorVars, collectorVars, samplerVars, managerMutex,
                   collectorMutex, callVars>>

\* CollectorManager::ClearConfiguredCollections keeps _mutex while it takes the
\* mutex of one collector after the other.
EnterClear(c) ==
    /\ pc[c] = "clearAll"
    /\ managerMutex = None
    /\ IF activeTargets # {}
         THEN /\ Goto(c, "failed") /\ configureMutex' = None
              /\ resetPending' = FALSE
              /\ UNCHANGED <<managerMutex, queue>>
         ELSE /\ Goto(c, "clearing") /\ managerMutex' = c
              /\ queue' = [queue EXCEPT ![c] = Targets]
              /\ UNCHANGED <<configureMutex, resetPending>>
    /\ UNCHANGED <<targetState, collectorVars, samplerVars, collectorMutex, op, call,
                   tgt, claim, batch>>

\* ClearCollectionState of the collector of t; it refuses while it collects, and
\* waits for its sampler thread under its own mutex.
ClearSamplerOnly(t) ==   \* mutant: the lifecycle state is kept
    samplerPc[t] = "none" /\ sampler' = [sampler EXCEPT ![t] = FALSE] /\ UNCHANGED collectorState
ClearCollectionState(t) ==
    IF collectorState[t] \in {"STARTED", "PAUSED"}
      THEN UNCHANGED <<collectorState, sampler>>
      ELSE /\ samplerPc[t] = "none"
           /\ sampler' = [sampler EXCEPT ![t] = FALSE]
           /\ SetCollector(t, "UNCONFIGURED")

ClearOne(c, t) ==
    /\ pc[c] \in {"clearing", "clearFailed"}
    /\ t \in queue[c]
    /\ collectorMutex[t] = None
    /\ ClearCollectionState(t)
    /\ IF collectorState[t] \in {"STARTED", "PAUSED"}
         THEN Goto(c, "clearFailed") ELSE UNCHANGED pc
    /\ queue' = [queue EXCEPT ![c] = @ \ {t}]
    /\ UNCHANGED <<orchestratorVars, activeTargets, mode, samplerPaused, samplerPc,
                   mutexes, op, call, tgt, claim, batch>>

LeaveClear(c) ==
    /\ pc[c] \in {"clearing", "clearFailed"}
    /\ queue[c] = {}
    /\ managerMutex' = None
    /\ IF pc[c] = "clearing"
         THEN Goto(c, "cleared") /\ UNCHANGED <<configureMutex, resetPending>>
         ELSE /\ Goto(c, "failed") /\ configureMutex' = None
              /\ resetPending' = FALSE
    /\ UNCHANGED <<targetState, collectorVars, samplerVars, collectorMutex, callVars>>

\* MarkAllTargetsUnconfigured, then the artifacts of all targets are removed.
ResetCollectionState(c) ==
    /\ pc[c] = "cleared"
    /\ targetState' = [t \in Targets |-> "UNCONFIGURED"]
    /\ \E ok \in Outcome("files") :
          /\ resetPending' = (ok /\ op[c] = "reset")
          /\ IF ok /\ op[c] = "configure"
               THEN Goto(c, "lookup") /\ UNCHANGED configureMutex
               ELSE /\ Goto(c, IF ok THEN "done" ELSE "failed")
                    /\ configureMutex' = None
    /\ UNCHANGED <<collectorVars, samplerVars, managerMutex, collectorMutex, callVars>>

\* The metric manager cannot build the operations of what is asked for; what was
\* cleared before stays cleared.
RefuseOperations(c) ==
    /\ pc[c] = "lookup" /\ op[c] = "configure"
    /\ "configure" \in Faults
    /\ Goto(c, "failed")
    /\ configureMutex' = None
    /\ UNCHANGED <<orchestratorVars, collectorVars, samplerVars, managerMutex,
                   collectorMutex, callVars>>

\* ConfigureCollection of the collector.  SCMI may fail to enable its data events
\* and drops its configuration; NUMA may refuse an operation and keeps the old one.
CollectorConfigure(c) ==
    LET t == tgt[c] IN
    /\ pc[c] = "enter" /\ call[c] = "CONFIGURE"
    /\ collectorMutex[t] = None
    /\ IF collectorState[t] \in {"STARTED", "PAUSED"}
         THEN Goto(c, "refused") /\ UNCHANGED <<collectorState, mode>>
         ELSE \E ok \in OutcomeOn(t, "configure", {"SCMI", "NUMA"}), m \in Modes :
                /\ Goto(c, IF ok THEN "succeeded" ELSE "refused")
                /\ mode' = IF ok THEN [mode EXCEPT ![t] = m] ELSE mode
                /\ SetCollector(t, IF ok THEN "CONFIGURED"
                                   ELSE IF Backend[t] = "SCMI" THEN "UNCONFIGURED"
                                   ELSE collectorState[t])
    /\ UNCHANGED <<orchestratorVars, activeTargets, samplerVars, mutexes, callVars>>

ConfigureRefused(c) ==
    /\ pc[c] = "refused" /\ op[c] = "configure"
    /\ Goto(c, "failed")
    /\ configureMutex' = None
    /\ UNCHANGED <<orchestratorVars, collectorVars, samplerVars, managerMutex,
                   collectorMutex, callVars>>

\* CompleteCollectionConfiguration: the old artifacts go, the clock correlations
\* come, and only then is the target CONFIGURED.
CompleteConfigure(c) ==
    /\ pc[c] = "succeeded" /\ op[c] = "configure"
    /\ managerMutex = None
    /\ collectorMutex[tgt[c]] = None
    /\ \E removed \in Outcome("files"), correlated \in OutcomeOn(tgt[c], "clock", {"SCMI"}) :
         IF removed /\ correlated
           THEN /\ SetTarget(c, "CONFIGURED")
                /\ Goto(c, "done") /\ configureMutex' = None
           ELSE /\ SetTarget(c, "UNCONFIGURED")
                /\ Goto(c, "drop") /\ UNCHANGED configureMutex
    /\ UNCHANGED <<resetPending, collectorVars, samplerVars, managerMutex,
                   collectorMutex, callVars>>

\* ClearFailedCollectionConfiguration, its errors ignored.
EnterDrop(c) ==
    /\ pc[c] = "drop"
    /\ managerMutex = None
    /\ IF tgt[c] \in activeTargets
         THEN Goto(c, "failed") /\ configureMutex' = None /\ UNCHANGED managerMutex
         ELSE Goto(c, "dropping") /\ managerMutex' = c /\ UNCHANGED configureMutex
    /\ UNCHANGED <<orchestratorVars, collectorVars, samplerVars, collectorMutex,
                   callVars>>

DropConfiguration(c) ==
    /\ pc[c] = "dropping"
    /\ collectorMutex[tgt[c]] = None
    /\ ClearCollectionState(tgt[c])
    /\ managerMutex' = None /\ configureMutex' = None
    /\ Goto(c, "failed")
    /\ UNCHANGED <<orchestratorVars, activeTargets, mode, samplerPaused, samplerPc,
                   collectorMutex, callVars>>

-----------------------------------------------------------------------------
(* The lifecycle methods of the orchestrator, up to the call of the         *)
(* collector (pc = "lookup") and from its return (succeeded, refused).      *)

\* StartCollectionImpl holds _configure_mutex to its return.
BeginStart(c) ==
    /\ pc[c] = "begin" /\ op[c] \in {"start", "startPaused"}
    /\ configureMutex = None
    /\ IF Allowed(targetState[tgt[c]], "START")
         THEN /\ SetTarget(c, "STARTING")
              /\ Goto(c, "lookup") /\ configureMutex' = c
         ELSE Goto(c, "failed") /\ UNCHANGED <<targetState, configureMutex>>
    /\ UNCHANGED <<resetPending, collectorVars, samplerVars, managerMutex,
                   collectorMutex, callVars>>

\* The state is written only while it is still STARTING.
EndStartIfStarted(c, s) ==   \* mutant: a failed start leaves STARTING behind
    /\ IF s # "CONFIGURED" THEN SetTarget(c, s) ELSE UNCHANGED targetState
    /\ configureMutex' = None
EndStart(c, s) ==
    /\ IF targetState[tgt[c]] = "STARTING" THEN SetTarget(c, s) ELSE UNCHANGED targetState
    /\ configureMutex' = None

FinishStart(c) ==
    /\ call[c] = "START"
    /\ \/ /\ pc[c] = "succeeded" /\ op[c] = "start"
          /\ EndStart(c, "STARTED")
          /\ Goto(c, "done")
       \/ /\ pc[c] = "refused" /\ op[c] \in {"start", "startPaused"}
          /\ EndStart(c, "CONFIGURED")
          /\ Goto(c, "failed")
    /\ UNCHANGED <<resetPending, collectorVars, samplerVars, managerMutex,
                   collectorMutex, callVars>>

\* A paused start pauses the started collector, and stops it if it cannot.
ContinueStartPaused(c) ==
    /\ op[c] = "startPaused"
    /\ \/ /\ pc[c] = "succeeded" /\ call[c] = "START"
          /\ call' = [call EXCEPT ![c] = "PAUSE"]
       \/ /\ pc[c] = "refused" /\ call[c] = "PAUSE"
          /\ call' = [call EXCEPT ![c] = "STOP"]
    /\ Goto(c, "lookup")
    /\ UNCHANGED <<shared, op, tgt, claim, queue, batch>>

AlwaysConfigured(c) == "CONFIGURED"   \* mutant: whether it stopped or not
AlwaysStarted(c) == "STARTED"         \* mutant: whether it stopped or not
AfterFailedPause(c) == IF pc[c] = "succeeded" THEN "CONFIGURED" ELSE "STARTED"

FinishStartPaused(c) ==
    /\ op[c] = "startPaused"
    /\ \/ /\ pc[c] = "succeeded" /\ call[c] = "PAUSE"
          /\ EndStart(c, "PAUSED")
          /\ Goto(c, "done")
       \/ /\ pc[c] \in {"succeeded", "refused"} /\ call[c] = "STOP"
          /\ EndStart(c, AfterFailedPause(c))
          /\ Goto(c, "failed")
    /\ UNCHANGED <<resetPending, collectorVars, samplerVars, managerMutex,
                   collectorMutex, callVars>>

\* PauseCollection, ResumeCollection and StopCollection check the state under the
\* state mutex and let go of it; they take no other mutex of the orchestrator.
BeginTransition(c) ==
    /\ pc[c] = "begin" /\ op[c] \in {"pause", "resume", "stop"}
    /\ Goto(c, IF Allowed(targetState[tgt[c]], call[c]) THEN "lookup" ELSE "failed")
    /\ UNCHANGED <<shared, callVars>>

FinishPause(c) ==
    /\ pc[c] = "succeeded" /\ op[c] = "pause"
    /\ SetTarget(c, "PAUSED")
    /\ Goto(c, "done")
    /\ UNCHANGED <<resetPending, collectorVars, samplerVars, mutexes, callVars>>

FinishResume(c) ==
    /\ pc[c] = "succeeded" /\ op[c] = "resume"
    /\ SetTarget(c, "STARTED")
    /\ Goto(c, "done")
    /\ UNCHANGED <<resetPending, collectorVars, samplerVars, mutexes, callVars>>

\* FlushPendingRawSamples may fail; then IsAnyTargetBeingCollected is asked, for
\* the final output, and the target is STOPPED.
FinishStop(c) ==
    /\ pc[c] = "succeeded" /\ op[c] = "stop"
    /\ managerMutex = None
    /\ \E ok \in Outcome("files") :
         IF ok THEN SetTarget(c, "STOPPED") /\ Goto(c, "done")
               ELSE UNCHANGED targetState /\ Goto(c, "failed")
    /\ UNCHANGED <<resetPending, collectorVars, samplerVars, mutexes, callVars>>

\* RollbackStartedCollectionToConfigured, after the collector has stopped.
FinishRollback(c) ==
    /\ pc[c] = "succeeded" /\ op[c] = "rollback"
    /\ \E ok \in Outcome("files") :
         IF ok THEN SetTarget(c, "CONFIGURED") /\ Goto(c, "done")
               ELSE UNCHANGED targetState /\ Goto(c, "failed")
    /\ UNCHANGED <<resetPending, collectorVars, samplerVars, mutexes, callVars>>

TransitionRefused(c) ==
    /\ pc[c] = "refused" /\ op[c] \in {"pause", "resume", "stop", "rollback"}
    /\ Goto(c, "failed")
    /\ UNCHANGED <<shared, callVars>>

BeginRead(c) ==
    /\ pc[c] = "begin" /\ op[c] = "read"
    /\ configureMutex = None
    /\ IF targetState[tgt[c]] = "UNCONFIGURED"
         THEN Goto(c, "failed") /\ UNCHANGED configureMutex
         ELSE Goto(c, "lookup") /\ configureMutex' = c
    /\ UNCHANGED <<orchestratorVars, collectorVars, samplerVars, managerMutex,
                   collectorMutex, callVars>>

FinishRead(c) ==
    /\ pc[c] \in {"succeeded", "refused"} /\ op[c] = "read"
    /\ Goto(c, IF pc[c] = "succeeded" THEN "done" ELSE "failed")
    /\ configureMutex' = None
    /\ UNCHANGED <<orchestratorVars, collectorVars, samplerVars, managerMutex,
                   collectorMutex, callVars>>

-----------------------------------------------------------------------------
(* The collector manager and the collector of tgt[c].                       *)

\* Every method of the collector manager finds the collector under its mutex and
\* calls it without.  StopCollection ends the sampler before it locks.
LookupHeld(c) ==   \* mutant: the collector is called under the manager's mutex
    /\ pc[c] = "lookup"
    /\ managerMutex = None /\ managerMutex' = c
    /\ Goto(c, IF call[c] = "STOP" THEN "cancel" ELSE "enter")
    /\ UNCHANGED <<orchestratorVars, collectorVars, samplerVars, configureMutex,
                   collectorMutex, callVars>>
Lookup(c) ==
    /\ pc[c] = "lookup"
    /\ managerMutex = None
    /\ Goto(c, IF call[c] = "STOP" THEN "cancel" ELSE "enter")
    /\ UNCHANGED <<shared, callVars>>

\* StopIntervalSampling: _periodic_sampler is emptied, its destructor cancels the
\* thread and waits for it.
JoinOnly(c) ==   \* mutant: the thread is waited for, not cancelled
    pc[c] = "cancel" /\ Goto(c, "join") /\ UNCHANGED <<shared, callVars>>
CancelSampler(c) ==
    /\ pc[c] = "cancel"
    /\ sampler' = [sampler EXCEPT ![tgt[c]] = FALSE]
    /\ Goto(c, "join")
    /\ UNCHANGED <<orchestratorVars, collectorVars, samplerPaused, samplerPc, mutexes,
                   callVars>>

Detach(c) ==   \* mutant: the thread is not waited for
    pc[c] = "join" /\ Goto(c, "enter") /\ UNCHANGED <<shared, callVars>>
JoinSampler(c) ==
    /\ pc[c] = "join"
    /\ samplerPc[tgt[c]] = "none"
    /\ Goto(c, "enter")
    /\ UNCHANGED <<shared, callVars>>

Readable == {"CONFIGURED", "STARTED", "PAUSED"}
Admits(state, action) ==
    IF action = "READ" THEN state \in Readable ELSE Allowed(state, action)

\* The collector method locks _collection_mutex and checks the lifecycle.
CollectorEnter(c) ==
    LET t == tgt[c] IN
    /\ pc[c] = "enter" /\ call[c] # "CONFIGURE"
    /\ collectorMutex[t] = None
    /\ IF Admits(collectorState[t], call[c])
         THEN Goto(c, "work") /\ collectorMutex' = [collectorMutex EXCEPT ![t] = c]
         ELSE Goto(c, "refused") /\ UNCHANGED collectorMutex
    /\ UNCHANGED <<orchestratorVars, collectorVars, samplerVars, configureMutex,
                   managerMutex, callVars>>

\* Leave the collector.  What it sends on the way goes through the collector
\* manager, CollectorManager::SinkRawSamples, and needs the mutex of that.
Leave(c, label) ==
    /\ Goto(c, label)
    /\ collectorMutex' = [collectorMutex EXCEPT ![tgt[c]] = None]
CanSink == managerMutex = None

CollectorStart(c) ==
    LET t == tgt[c] IN
    /\ pc[c] = "work" /\ call[c] = "START"
    /\ Acquires(t) => CanSink
    /\ \E ok \in IF Acquires(t) THEN Outcome("operations") ELSE {TRUE} :
         IF ok
           THEN /\ Leave(c, "insert")
                /\ SetCollector(t, "STARTED")
                /\ IF mode[t] = "SAMPLING"
                     THEN /\ sampler' = [sampler EXCEPT ![t] = TRUE]
                          /\ samplerPaused' = [samplerPaused EXCEPT ![t] = FALSE]
                          /\ samplerPc' = [samplerPc EXCEPT ![t] = "poll"]
                     ELSE UNCHANGED samplerVars
           ELSE Leave(c, "refused") /\ UNCHANGED <<collectorState, samplerVars>>
    /\ UNCHANGED <<orchestratorVars, activeTargets, mode, configureMutex, managerMutex,
                   callVars>>

InsertActive(c) ==
    /\ pc[c] = "insert"
    /\ managerMutex = None
    /\ activeTargets' = activeTargets \cup {tgt[c]}
    /\ Goto(c, "succeeded")
    /\ UNCHANGED <<orchestratorVars, collectorState, mode, samplerVars, mutexes,
                   callVars>>

\* PauseCollectionLifecycle: the sampler is paused and the state set before the
\* marker is sent, and a sink that fails does not undo it.
CollectorPause(c) ==
    LET t == tgt[c] IN
    /\ pc[c] = "work" /\ call[c] = "PAUSE"
    /\ Marks(t) => CanSink
    /\ samplerPaused' = [samplerPaused EXCEPT ![t] = sampler[t]]
    /\ SetCollector(t, "PAUSED")
    /\ \E ok \in OutcomeOn(t, "marker", {"SCMI", "LIBSENSORS"}) :
          Leave(c, IF ok THEN "succeeded" ELSE "refused")
    /\ UNCHANGED <<orchestratorVars, activeTargets, mode, sampler, samplerPc,
                   configureMutex, managerMutex, callVars>>

CollectorResume(c) ==
    LET t == tgt[c] IN
    /\ pc[c] = "work" /\ call[c] = "RESUME"
    /\ Marks(t) => CanSink
    /\ samplerPaused' = [samplerPaused EXCEPT ![t] = FALSE]
    /\ SetCollector(t, "STARTED")
    /\ \E ok \in OutcomeOn(t, "marker", {"SCMI", "LIBSENSORS"}) :
          Leave(c, IF ok THEN "succeeded" ELSE "refused")
    /\ UNCHANGED <<orchestratorVars, activeTargets, mode, sampler, samplerPc,
                   configureMutex, managerMutex, callVars>>

\* A failed last sample leaves the collector as it was.  SCMI is STOPPED even if
\* its data events cannot be restored, but reports the failure.
CollectorStop(c) ==
    LET t == tgt[c] IN
    /\ pc[c] = "work" /\ call[c] = "STOP"
    /\ Acquires(t) => CanSink
    /\ \E acquired \in IF Acquires(t) THEN Outcome("operations") ELSE {TRUE},
          restored \in OutcomeOn(t, "restore", {"SCMI"}) :
         /\ Leave(c, IF acquired /\ restored THEN "erase" ELSE "refused")
         /\ IF acquired THEN SetCollector(t, "STOPPED") ELSE UNCHANGED collectorState
    /\ UNCHANGED <<orchestratorVars, activeTargets, mode, samplerVars, configureMutex,
                   managerMutex, callVars>>

KeepActive(c) ==   \* mutant: a stopped target stays in the set
    pc[c] = "erase" /\ managerMutex = None /\ Goto(c, "succeeded") /\ UNCHANGED <<shared, callVars>>
EraseActive(c) ==
    /\ pc[c] = "erase"
    /\ managerMutex = None
    /\ activeTargets' = activeTargets \ {tgt[c]}
    /\ Goto(c, "succeeded")
    /\ UNCHANGED <<orchestratorVars, collectorState, mode, samplerVars, mutexes,
                   callVars>>

CollectorRead(c) ==
    /\ pc[c] = "work" /\ call[c] = "READ"
    /\ CanSink
    /\ \E ok \in Outcome("operations") : Leave(c, IF ok THEN "succeeded" ELSE "refused")
    /\ UNCHANGED <<orchestratorVars, collectorVars, samplerVars, configureMutex,
                   managerMutex, callVars>>

-----------------------------------------------------------------------------
(* PeriodicSampler::Loop of the target.                                     *)

\* Leave the loop if cancelled, go and sample unless paused, else sleep on.
SamplerPoll(t) ==
    /\ samplerPc[t] = "poll"
    /\ sampler[t] => ~samplerPaused[t]
    /\ samplerPc' = [samplerPc EXCEPT ![t] = IF sampler[t] THEN "lock" ELSE "none"]
    /\ UNCHANGED <<orchestratorVars, collectorVars, sampler, samplerPaused, mutexes,
                   pc, callVars>>

\* ReadImmediate of the collector, called by the sampler.
SamplerLock(t) ==
    /\ samplerPc[t] = "lock"
    /\ collectorMutex[t] = None
    /\ IF collectorState[t] \in Readable
         THEN /\ samplerPc' = [samplerPc EXCEPT ![t] = "sample"]
              /\ collectorMutex' = [collectorMutex EXCEPT ![t] = t]
         ELSE /\ samplerPc' = [samplerPc EXCEPT ![t] = "poll"]
              /\ UNCHANGED collectorMutex
    /\ UNCHANGED <<orchestratorVars, collectorVars, sampler, samplerPaused,
                   configureMutex, managerMutex, pc, callVars>>

\* Its errors are ignored: with one it comes back without having sent anything.
SamplerSample(t) ==
    /\ samplerPc[t] = "sample"
    /\ CanSink
    /\ samplerPc' = [samplerPc EXCEPT ![t] = "poll"]
    /\ collectorMutex' = [collectorMutex EXCEPT ![t] = None]
    /\ UNCHANGED <<orchestratorVars, collectorVars, sampler, samplerPaused,
                   configureMutex, managerMutex, pc, callVars>>

-----------------------------------------------------------------------------
CallerStep(c) ==
    \/ \E t \in Targets : StartNext(c, t) \/ RollbackNext(c, t) \/ ClearOne(c, t)
    \/ AbandonBatch(c) \/ Return(c)
    \/ BeginConfigure(c) \/ BeginReset(c) \/ EnterClear(c) \/ LeaveClear(c)
    \/ ResetCollectionState(c) \/ RefuseOperations(c) \/ CollectorConfigure(c)
    \/ ConfigureRefused(c)
    \/ CompleteConfigure(c) \/ EnterDrop(c) \/ DropConfiguration(c)
    \/ BeginStart(c) \/ FinishStart(c) \/ ContinueStartPaused(c) \/ FinishStartPaused(c)
    \/ BeginTransition(c) \/ FinishPause(c) \/ FinishResume(c) \/ FinishStop(c)
    \/ FinishRollback(c) \/ TransitionRefused(c) \/ BeginRead(c) \/ FinishRead(c)
    \/ Lookup(c) \/ CancelSampler(c) \/ JoinSampler(c) \/ CollectorEnter(c)
    \/ CollectorStart(c) \/ InsertActive(c) \/ CollectorPause(c) \/ CollectorResume(c)
    \/ CollectorStop(c) \/ EraseActive(c) \/ CollectorRead(c)

SamplerStep(t) == SamplerPoll(t) \/ SamplerLock(t) \/ SamplerSample(t)

Next ==
    \/ \E c \in Callers :
          \/ \E t \in Targets : CallOnTarget(c, t)
          \/ CallReset(c) \/ CallStartAll(c)
          \/ CallerStep(c)
    \/ \E t \in Targets : SamplerStep(t)

Spec == Init /\ [][Next]_vars

\* A caller and a sampler always go on.  A caller that waits for a mutex gets it
\* if it is free again and again: a sampler sleeps between two samples.
Fairness ==
    /\ \A c \in Callers : SF_vars(CallerStep(c))
    /\ \A t \in Targets : WF_vars(SamplerStep(t))

FairSpec == Spec /\ Fairness

-----------------------------------------------------------------------------
(* Properties.                                                              *)

\* Every variable keeps its type.
TypeOK ==
    /\ targetState \in [Targets -> LifecycleState]
    /\ resetPending \in BOOLEAN
    /\ activeTargets \subseteq Targets
    /\ collectorState \in [Targets -> LifecycleState \ {"STARTING"}]
    /\ mode \in [Targets -> CollectionModes]
    /\ sampler \in [Targets -> BOOLEAN]
    /\ samplerPaused \in [Targets -> BOOLEAN]
    /\ samplerPc \in [Targets -> {"none", "poll", "lock", "sample"}]
    /\ configureMutex \in Callers \cup {None}
    /\ managerMutex \in Callers \cup {None}
    /\ collectorMutex \in [Targets -> Threads \cup {None}]
    /\ pc \in [Callers -> Labels]
    /\ op \in [Callers -> TargetOperations \cup {"reset", "rollback"}]
    /\ call \in [Callers -> Calls]
    /\ tgt \in [Callers -> Targets \cup {None}]
    /\ claim \in [Callers -> SUBSET Targets]
    /\ queue \in [Callers -> SUBSET Targets]
    /\ batch \in [Callers -> {"none", "starting", "undoing"}]

\* The threads x cannot go on without: who holds the mutex it needs, or the
\* sampler thread it joins.
Holders(owners) == owners \ {None}
WaitsFor(x) ==
    IF x \in Callers
      THEN CASE pc[x] = "begin" /\ op[x] \in {"configure", "reset", "start", "startPaused", "read"} ->
                  Holders({configureMutex})
             [] pc[x] \in {"clearAll", "drop", "lookup", "insert", "erase"} ->
                  Holders({managerMutex})
             [] pc[x] \in {"clearing", "clearFailed"} ->
                  IF \E t \in queue[x] : collectorMutex[t] = None /\ samplerPc[t] = "none"
                    THEN {}
                    ELSE Holders({collectorMutex[t] : t \in queue[x]})
                         \cup {t \in queue[x] : samplerPc[t] # "none"}
             [] pc[x] = "enter" -> Holders({collectorMutex[tgt[x]]})
             [] pc[x] = "dropping" ->
                  Holders({collectorMutex[tgt[x]]})
                  \cup IF samplerPc[tgt[x]] # "none" THEN {tgt[x]} ELSE {}
             [] pc[x] = "join" -> IF samplerPc[tgt[x]] # "none" THEN {tgt[x]} ELSE {}
             [] pc[x] = "work" -> Holders({managerMutex})
             [] pc[x] = "succeeded" /\ op[x] = "stop" -> Holders({managerMutex})
             [] pc[x] = "succeeded" /\ op[x] = "configure" ->
                  Holders({managerMutex, collectorMutex[tgt[x]]})
             [] OTHER -> {}
      ELSE CASE samplerPc[x] = "lock" -> Holders({collectorMutex[x]})
             [] samplerPc[x] = "sample" -> Holders({managerMutex})
             [] OTHER -> {}

\* No deadlock: no set of threads in which each waits for another one of the set.
\* A sampler holds the mutex of its collector while it needs that of the manager
\* for its samples; a clearing caller holds that of the manager while it needs
\* those of the collectors; a stop waits for the sampler.
NoCircularWait ==
    \A S \in (SUBSET Threads) \ {{}} : \E x \in S : WaitsFor(x) \cap S = {}

Collecting(t) == collectorState[t] \in {"STARTED", "PAUSED"} \/ samplerPc[t] # "none"

\* While a collector is started or its sampler thread exists, the orchestrator
\* counts the target as running: nothing is reset or reconfigured under it.
CollectingIsTracked ==
    \A t \in Targets : Collecting(t) => targetState[t] \in Running

\* The set the collector manager keeps agrees with what runs: every collecting
\* target is in it, but for the moments of a start and a stop, and only running
\* targets are, so that a clean reconfiguration is never refused for a target
\* that is not running.
ActiveTargetsAreRunning ==
    \A t \in Targets :
        /\ t \in activeTargets => targetState[t] \in Running
        /\ collectorState[t] \in {"STARTED", "PAUSED"} /\ t \notin activeTargets =>
              \E c \in Callers : tgt[c] = t /\ pc[c] = "insert"

\* The flag that lets the next configuration skip the check for running targets
\* and the cleaning is only up while no target has been configured since.
PendingResetIsFresh ==
    resetPending => \A t \in Targets : /\ targetState[t] = "UNCONFIGURED"
                                       /\ collectorState[t] = "UNCONFIGURED"

\* STARTING ends with the call that began it: no path of a start, a paused start
\* or their undoing leaves a target STARTING, from where nothing is allowed.
StartingIsTransient ==
    \A t \in Targets : targetState[t] = "STARTING" =>
        \E c \in Callers : /\ op[c] \in {"start", "startPaused"} /\ tgt[c] = t
                           /\ configureMutex = c

\* When no call works on it, a target and its collector are in the same state, or apart
\* in a way that a later call ends: a failed marker leaves a pause or a resume to the
\* collector alone, a failed reconfiguration has unconfigured the collector, and the
\* rollback of an aggregate start has stopped it.  (A stop that cannot write or restore
\* is not among these: it strands the target.)
Disagreements ==
    {<<"STARTED", "PAUSED">>, <<"PAUSED", "STARTED">>, <<"CONFIGURED", "UNCONFIGURED">>,
     <<"STOPPED", "UNCONFIGURED">>, <<"CONFIGURED", "STOPPED">>}
StatesAgree ==
    \A t \in Targets : (\A c \in Callers : t \notin claim[c]) /\ configureMutex = None
        => \/ targetState[t] = collectorState[t]
           \/ <<targetState[t], collectorState[t]>> \in Disagreements

\* A running target can be stopped: whatever else failed before, its collector is not
\* in a state from which it refuses to stop, for then the target could neither be
\* stopped nor started nor configured again.  (As long as the files can be written
\* and the data events restored: a stop that fails on these has stopped the collector.)
RunningCanBeStopped ==
    \A t \in Targets :
        targetState[t] \in {"STARTED", "PAUSED"} /\ (\A c \in Callers : t \notin claim[c])
            => Allowed(collectorState[t], "STOP")

\* A call of the orchestrator returns.
CallsReturn == \A c \in Callers : pc[c] # "idle" ~> pc[c] = "idle"

\* The abstract lifecycle, with what the collectors do as its collecting.
Lifecycle == INSTANCE TargetLifecycle
                WITH state <- targetState, collecting <- {t \in Targets : Collecting(t)}
ImplementsLifecycle == Lifecycle!Spec

-----------------------------------------------------------------------------
(* What the comments of the code say and the code does not do.              *)

\* No call works on the target, and its next start passes the lifecycle table of the
\* orchestrator and that of its collector.
AtRest(t) == \A c \in Callers : t \notin claim[c]
ReadyToStart(t) ==
    Allowed(targetState[t], "START") /\ Allowed(collectorState[t], "START")

\* orchestrator.hpp:47 - CONFIGURED: Configure*Collection succeeded; ready to start.
ConfiguredIsReadyToStart ==
    \A t \in Targets : AtRest(t) /\ targetState[t] = "CONFIGURED" => ReadyToStart(t)

\* orchestrator.hpp:322 - to re-enable a collection that StopCollection has stopped,
\* StartCollection should be sufficient.
StoppedIsReadyToStart ==
    \A t \in Targets : AtRest(t) /\ targetState[t] = "STOPPED" => ReadyToStart(t)

\* At least one of the two promises about StartCollection is kept.  A state that
\* violates this one refutes both: it has a target for each.
StartSuffices == ConfiguredIsReadyToStart \/ StoppedIsReadyToStart
=============================================================================
