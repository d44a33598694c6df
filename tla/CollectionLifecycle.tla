------------------------ MODULE CollectionLifecycle ------------------------
(***************************************************************************)
(* The lifecycle table of src/src/impl/common/collection_lifecycle.cpp:    *)
(* which lifecycle call is legal in which state, and the status the others *)
(* get.  The orchestrator consults it with the state it keeps per target,  *)
(* every collector with its own.                                           *)
(***************************************************************************)

LifecycleState ==
    {"UNCONFIGURED", "CONFIGURED", "STARTING", "STARTED", "PAUSED", "STOPPED"}

\* The states in which samples may be flowing.
Running == {"STARTING", "STARTED", "PAUSED"}

LifecycleAction == {"START", "PAUSE", "RESUME", "STOP"}

LifecycleStatuses ==
    [START  |-> [UNCONFIGURED |-> "COLLECTION_NOT_CONFIGURED",
                 CONFIGURED   |-> "SUCCESS",
                 STARTING     |-> "COLLECTION_ALREADY_RUNNING",
                 STARTED      |-> "COLLECTION_ALREADY_RUNNING",
                 PAUSED       |-> "INVALID_STATE_TRANSITION",
                 STOPPED      |-> "INVALID_STATE_TRANSITION"],
     PAUSE  |-> [UNCONFIGURED |-> "COLLECTION_NOT_CONFIGURED",
                 CONFIGURED   |-> "COLLECTION_NOT_RUNNING",
                 STARTING     |-> "COLLECTION_NOT_RUNNING",
                 STARTED      |-> "SUCCESS",
                 PAUSED       |-> "COLLECTION_ALREADY_PAUSED",
                 STOPPED      |-> "COLLECTION_ALREADY_STOPPED"],
     RESUME |-> [UNCONFIGURED |-> "COLLECTION_NOT_CONFIGURED",
                 CONFIGURED   |-> "COLLECTION_NOT_PAUSED",
                 STARTING     |-> "COLLECTION_ALREADY_RUNNING",
                 STARTED      |-> "COLLECTION_ALREADY_RUNNING",
                 PAUSED       |-> "SUCCESS",
                 STOPPED      |-> "COLLECTION_ALREADY_STOPPED"],
     STOP   |-> [UNCONFIGURED |-> "COLLECTION_NOT_CONFIGURED",
                 CONFIGURED   |-> "COLLECTION_NOT_RUNNING",
                 STARTING     |-> "INVALID_STATE_TRANSITION",
                 STARTED      |-> "SUCCESS",
                 PAUSED       |-> "SUCCESS",
                 STOPPED      |-> "COLLECTION_ALREADY_STOPPED"]]

\* CheckCollectionLifecycleAction returns SUCCESS.
Allowed(state, action) == LifecycleStatuses[action][state] = "SUCCESS"
=============================================================================
