-------------------------- MODULE TargetLifecycle --------------------------
(***************************************************************************)
(* The lifecycle the orchestrator gives each target it manages: every      *)
(* change of state is one atomic step, and a target is never outside the   *)
(* running states while its collector still collects.                      *)
(*                                                                         *)
(* The documented part is the list of valid transitions of                 *)
(* TargetCollectionState                                                   *)
(* (src/src/impl/orchestrator/orchestrator.hpp:52-57): BeginStart,         *)
(* EnterStarted, AbandonStart, EnterPaused from STARTED, Resume and Stop.  *)
(* The list is not all the code does.  Outside of it are                   *)
(*   - the configuration of a target that does not run and the reset of    *)
(*     all targets (Configure, Reset);                                     *)
(*   - the paused start, STARTING -> PAUSED (EnterPaused from STARTING);   *)
(*   - the rollback of an aggregate start, STARTED | PAUSED -> CONFIGURED  *)
(*     (Rollback, orchestrator.hpp:258).                                   *)
(*                                                                         *)
(* One transition that a comment promises is missing, here as in the code: *)
(* there is none from STOPPED to STARTING.  The note on StopCollection at  *)
(* orchestrator.hpp:322 says that StartCollection should be sufficient to  *)
(* re-enable a collection; orchestrator.hpp:51 calls STOPPED terminal for  *)
(* the current configuration, and                                          *)
(* src/src/impl/common/collection_lifecycle.cpp:26 refuses the start.      *)
(* StoppedIsReadyToStart of Collection states the promise, and the run     *)
(* RollbackReady shows it broken.                                          *)
(***************************************************************************)
EXTENDS CollectionLifecycle

CONSTANT Targets

VARIABLES state,       \* the lifecycle state a caller can ask for, per target
          collecting   \* the targets whose collector is collecting

vars == <<state, collecting>>

Init ==
    /\ state = [t \in Targets |-> "UNCONFIGURED"]
    /\ collecting = {}

Move(t, from, to) ==
    /\ state[t] \in from
    /\ state' = [state EXCEPT ![t] = to]
    /\ UNCHANGED collecting

Configure(t) ==
    \E to \in {"CONFIGURED", "UNCONFIGURED"} :
        Move(t, LifecycleState \ Running, to)

\* A clean reconfiguration forgets every target, and only when none runs.
Reset ==
    /\ \A t \in Targets : state[t] \notin Running
    /\ state' = [t \in Targets |-> "UNCONFIGURED"]
    /\ UNCHANGED collecting

\* A start leaves CONFIGURED only: a stopped target has to be configured again.
BeginStart(t) == Move(t, {"CONFIGURED"}, "STARTING")

\* A start that fails leaves nothing collecting behind.
AbandonStart(t) ==
    /\ t \notin collecting
    /\ Move(t, {"STARTING"}, "CONFIGURED")

\* Nor does the rollback of a target that an aggregate start had started already.
Rollback(t) ==
    /\ t \notin collecting
    /\ Move(t, {"STARTED", "PAUSED"}, "CONFIGURED")

EnterStarted(t) == Move(t, {"STARTING"}, "STARTED")

EnterPaused(t) ==
    /\ t \in collecting
    /\ Move(t, {"STARTING", "STARTED"}, "PAUSED")

Resume(t) ==
    /\ t \in collecting
    /\ Move(t, {"PAUSED"}, "STARTED")

Stop(t) ==
    /\ t \notin collecting
    /\ Move(t, {"STARTED", "PAUSED"}, "STOPPED")

BeginCollecting(t) ==
    /\ state[t] = "STARTING"
    /\ collecting' = collecting \cup {t}
    /\ UNCHANGED state

EndCollecting(t) ==
    /\ state[t] \in Running
    /\ collecting' = collecting \ {t}
    /\ UNCHANGED state

Next ==
    \/ Reset
    \/ \E t \in Targets :
          \/ Configure(t) \/ BeginStart(t) \/ AbandonStart(t) \/ Rollback(t)
          \/ EnterStarted(t) \/ EnterPaused(t) \/ Resume(t) \/ Stop(t)
          \/ BeginCollecting(t) \/ EndCollecting(t)

Spec == Init /\ [][Next]_vars
=============================================================================
