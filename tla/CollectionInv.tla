--------------------------- MODULE CollectionInv ---------------------------
(***************************************************************************)
(* The inductive invariant of Collection.  The safety properties of that   *)
(* module say what holds of the targets; to keep them, a step relies on    *)
(* where the callers are: who holds which mutex, and what the caller that  *)
(* is inside a method has already established about its target.            *)
(***************************************************************************)
EXTENDS Collection

\* The labels at which a call is inside an orchestrator method.
Inside == Labels \ {"idle", "begin", "done", "failed"}
In(c, ops) == op[c] \in ops /\ pc[c] \in Inside

StartOps == {"start", "startPaused"}
ConfigureOps == {"configure", "reset"}
RunningOps == {"pause", "resume", "stop", "rollback"}
LockingOps == StartOps \cup ConfigureOps \cup {"read"}

CollectorRuns(t) == collectorState[t] \in {"STARTED", "PAUSED"}

\* Where a call of each kind can be, and what it asks of its collector.
ControlOf(c) ==
    /\ pc[c] = "idle" =>
         tgt[c] = None /\ claim[c] = {} /\ queue[c] = {} /\ batch[c] = "none"
    /\ op[c] = "reset" =>
         pc[c] \in {"idle", "begin", "clearAll", "clearing", "clearFailed",
                    "cleared", "done", "failed"}
    /\ pc[c] \in {"clearAll", "clearing", "clearFailed", "cleared"} =>
         op[c] \in ConfigureOps
    /\ pc[c] \in {"drop", "dropping"} => op[c] = "configure"
    /\ pc[c] \notin {"idle", "done", "failed"} /\ op[c] # "reset" => tgt[c] \in claim[c]
    /\ pc[c] \in {"cancel", "join", "erase"} => call[c] = "STOP"
    /\ pc[c] = "insert" => call[c] = "START"
    /\ pc[c] \notin {"idle", "done", "failed"} =>
         /\ op[c] = "configure" =>
              call[c] = "CONFIGURE" /\ pc[c] \notin {"work", "insert", "erase"}
         /\ op[c] = "start" => call[c] = "START"
         /\ op[c] = "startPaused" =>
              call[c] \in {"START", "PAUSE", "STOP"} /\ (pc[c] = "begin" => call[c] = "START")
         /\ op[c] = "pause" => call[c] = "PAUSE"
         /\ op[c] = "resume" => call[c] = "RESUME"
         /\ op[c] \in {"stop", "rollback"} => call[c] = "STOP"
         /\ op[c] = "read" => call[c] = "READ"
    /\ batch[c] = "none" => op[c] # "rollback" /\ (op[c] \in StartOps => queue[c] = {})
    /\ batch[c] # "none" => op[c] \in StartOps \cup {"rollback"}
    /\ batch[c] = "starting" => op[c] # "rollback"

Control == \A c \in Callers : ControlOf(c)

\* Two callers never work on one target.
Claims ==
    /\ \A c, d \in Callers : c # d => claim[c] \cap claim[d] = {}
    /\ \A c \in Callers : batch[c] # "none" => queue[c] \subseteq claim[c]

\* Who holds each mutex.
Locks ==
    /\ \A c \in Callers :
        /\ configureMutex = c <=> In(c, LockingOps)
        /\ managerMutex = c <=> pc[c] \in {"clearing", "clearFailed", "dropping"}
    /\ \A t \in Targets :
        /\ \A c \in Callers : collectorMutex[t] = c <=> pc[c] = "work" /\ tgt[c] = t
        /\ collectorMutex[t] = t <=> samplerPc[t] = "sample"
        /\ collectorMutex[t] \in Callers \cup {t, None}

\* What a call inside a method knows of its target, or of all of them.
KnownBy(c) ==
    /\ In(c, StartOps) => targetState[tgt[c]] = "STARTING"
    /\ In(c, RunningOps) => targetState[tgt[c]] \in {"STARTED", "PAUSED"}
    /\ In(c, ConfigureOps) => \A t \in Targets : targetState[t] \notin Running
    /\ In(c, {"configure"}) => ~resetPending
    /\ In(c, StartOps) /\ call[c] = "START" /\ pc[c] \in {"lookup", "enter", "work", "refused"}
         => ~CollectorRuns(tgt[c]) /\ tgt[c] \notin activeTargets
    /\ pc[c] \in {"work", "succeeded"} /\ call[c] \in {"PAUSE", "RESUME"} => CollectorRuns(tgt[c])
    /\ pc[c] = "work" /\ call[c] = "STOP" => CollectorRuns(tgt[c])
    /\ pc[c] \in {"erase", "succeeded"} /\ call[c] = "STOP" => ~CollectorRuns(tgt[c])
    /\ pc[c] = "succeeded" /\ call[c] = "STOP" => tgt[c] \notin activeTargets
    /\ pc[c] \in {"join", "enter", "work"} /\ call[c] = "STOP" => ~sampler[tgt[c]]
    /\ pc[c] \in {"enter", "work"} /\ call[c] = "STOP" => samplerPc[tgt[c]] = "none"
    /\ pc[c] = "clearing" => \A t \in Targets \ queue[c] : collectorState[t] = "UNCONFIGURED"
    /\ pc[c] = "cleared" => \A t \in Targets : collectorState[t] = "UNCONFIGURED"

Known == \A c \in Callers : KnownBy(c)

\* The targets an aggregate start has started, and those it still has to stop.
BatchOf(c) ==
    /\ batch[c] # "none" => tgt[c] \notin queue[c]
    /\ batch[c] = "starting" =>
         \A t \in claim[c] \ queue[c] :
            t # tgt[c] \/ pc[c] = "done" => targetState[t] \in {"STARTED", "PAUSED"}
    /\ batch[c] = "undoing" =>
         \A t \in queue[c] : targetState[t] \in {"STARTED", "PAUSED"}

Batches == \A c \in Callers : BatchOf(c)

\* A sampler only belongs to a collector that runs.
SamplerIsOwned ==
    \A t \in Targets : sampler[t] \/ samplerPc[t] # "none" => CollectorRuns(t)

IInv ==
    /\ TypeOK /\ Control /\ Claims /\ Locks /\ Known /\ Batches /\ SamplerIsOwned
    /\ CollectingIsTracked /\ ActiveTargetsAreRunning /\ PendingResetIsFresh
    /\ StartingIsTransient

-----------------------------------------------------------------------------
(* How far the states of a target and its collector are apart, as long as   *)
(* files can be written and data events restored.                           *)

\* Files can be written, and data events restored.
NoLoss == Faults \cap {"restore", "files"} = {}

Resting == {"CONFIGURED", "UNCONFIGURED", "STOPPED"}
Agree(t) ==
    \/ targetState[t] = collectorState[t]
    \/ <<targetState[t], collectorState[t]>> \in Disagreements

\* Between what a call does to the collector and what it says of the target.
Unsettled(c) ==
    \/ In(c, StartOps)
    \/ op[c] \in {"stop", "rollback"} /\ pc[c] \in {"erase", "succeeded"}
    \/ op[c] = "configure" /\ pc[c] \in {"succeeded", "drop", "dropping"}

\* Where the collector of an unsettled call is.
ReachedOf(c) ==
    LET t == tgt[c]
        started == call[c] # "START" \/ pc[c] \in {"insert", "succeeded"}
        stopped == call[c] = "STOP" /\ pc[c] \in {"erase", "succeeded"}
    IN  /\ In(c, StartOps) =>
             /\ ~started => collectorState[t] \in Resting
             /\ started /\ ~stopped => CollectorRuns(t)
        /\ stopped => collectorState[t] = "STOPPED"
        /\ op[c] = "configure" /\ pc[c] = "succeeded" => collectorState[t] = "CONFIGURED"
        /\ op[c] = "configure" /\ pc[c] \in {"drop", "dropping"} => targetState[t] = "UNCONFIGURED"

Reached == \A c \in Callers : ReachedOf(c)
Settled == \A t \in Targets : Agree(t) \/ \E c \in Callers : tgt[c] = t /\ Unsettled(c)
AgreeInv == Reached /\ Settled
=============================================================================
