--------------------------- MODULE ScmiDataEvents ---------------------------
(***************************************************************************)
(* How SCMI collectors of one or more processes enable the data events of  *)
(* a collection and give them back: src/src/impl/scmi/scmi_sysfs_collector *)
(* .hpp with the process lock of src/utils/filesystem_process_lock.hpp,    *)
(* and the ioctl collector beside it.  One step is one access to a kernel  *)
(* file, so steps of different processes interleave between them.          *)
(*                                                                         *)
(* A file is <<"enable", e>> or <<"stamp", e>> (enable and tstamp_enable   *)
(* of data event e) or <<"telemetry", s>> (tlm_enable of socket s).  What  *)
(* a collector reads from enabled events, and its pauses, are in the       *)
(* modules MetricPipeline and Collection.                                  *)
(***************************************************************************)
EXTENDS Naturals, Sequences, FiniteSets

CONSTANTS
    Processes, Sockets, Events,
    Collectors,          \* one per process and socket in use
    ProcessOf, SocketOf, \* of a collector
    Ioctl,               \* the collectors that use the ioctl backend
    Wanted,              \* per collector, the events its operations may read
    Parties,             \* the sets of collectors that may exist together
    Stamped,             \* events with a tstamp_enable file
    ReadOnly,            \* files this user may not write
    InitiallyOn,         \* event files that are on before any collection
    SoftwareClock,       \* possible values of the environment variable
    Faults,              \* the kinds of failure that may happen ...
    MaxFaults,           \* ... and how often in all
    None

Settings == {"enable", "stamp"} \X Events
Files == Settings \cup ({"telemetry"} \X Sockets)
EventFiles(e) == {<<"enable", e>>, <<"stamp", e>>}

ASSUME CollectorAssumption ==
    /\ ProcessOf \in [Collectors -> Processes]
    /\ SocketOf \in [Collectors -> Sockets]
    /\ Wanted \in [Collectors -> SUBSET Events]
    /\ IsFiniteSet(Collectors)
    /\ Ioctl \subseteq Collectors /\ Parties \subseteq SUBSET Collectors
    /\ InitiallyOn \subseteq Settings
    /\ None \notin Processes \cup Events
    /\ SoftwareClock \subseteq BOOLEAN /\ MaxFaults \in Nat
\* A process builds one collector per target, so no two share a socket.  The
\* ioctl backend has no lock between processes: its events are left to one.
ASSUME SharingAssumption ==
    \A c, d \in Collectors :
        /\ c # d /\ ProcessOf[c] = ProcessOf[d] => Wanted[c] \cap Wanted[d] = {}
        /\ c # d /\ c \in Ioctl => Wanted[c] \cap Wanted[d] = {}

Kinds == {"read", "lock", "write", "rate", "operation", "crash"}
ASSUME FaultsAssumption == Faults \subseteq Kinds

VARIABLES
    party,     \* the collectors of this run
    on,        \* the files whose content is "1"
    flock,     \* the process that holds the lock file, or None
    refcount,  \* SharedProcessLockState::refcount, per process
    holdsRef,  \* _holds_process_lock_ref
    state,     \* _collection_state
    touched,   \* _data_events: what to restore, with the original settings
    software,  \* _use_software_clock_timestamps
    pc, todo, event, checked,  \* where a call is: its events still to enable, the
                               \* one in hand, and whether ScmiWrite must write
    leaving,   \* what the restoring in progress belongs to
    mine,      \* history: event files a collector switched on and still owes
    spoiled,   \* history: events whose restoring an outside failure prevented
    faults     \* history: how many failures have happened

shared == <<on, flock, refcount, holdsRef>>
local == <<state, touched, software, pc, todo, event, checked, leaving>>
history == <<mine, spoiled, faults>>
vars == <<party, shared, local, history>>

\* A record of _data_events; stamp is "absent" where timestamp_enabled is empty.
DataEvent == [event : Events, enabled : BOOLEAN, stamp : {"absent", "on", "off"}]
Owed(r) == (IF r.stamp = "off" THEN {<<"stamp", r.event>>} ELSE {})
           \cup (IF r.enabled THEN {} ELSE {<<"enable", r.event>>})

Kept(r) == (IF r.stamp = "on" THEN {<<"stamp", r.event>>} ELSE {})
           \cup (IF r.enabled THEN {<<"enable", r.event>>} ELSE {})

States == {"UNCONFIGURED", "CONFIGURED", "STARTED", "STOPPED"}
Labels == {"idle", "telemetry", "next", "enable", "stamp?", "stamp", "undo"}
Reasons == {"none", "replace", "failed", "clear", "stop"}

LockType ==
    /\ flock \in Processes \cup {None}
    /\ refcount \in [Processes -> Nat] /\ holdsRef \in [Collectors -> BOOLEAN]
CallType ==
    /\ state \in [Collectors -> States] /\ software \in [Collectors -> BOOLEAN]
    /\ pc \in [Collectors -> Labels] /\ leaving \in [Collectors -> Reasons]
    /\ todo \in [Collectors -> SUBSET Events]
    /\ event \in [Collectors -> Events \cup {None}]
    /\ checked \in [Collectors -> BOOLEAN]
RecordsType == touched \in [Collectors -> Seq(DataEvent)]
HistoryType ==
    /\ mine \in [Collectors -> SUBSET Settings]
    /\ spoiled \subseteq Events /\ faults \in 0 .. MaxFaults
TypeOK == /\ party \in Parties /\ on \subseteq Files
          /\ LockType /\ CallType /\ RecordsType /\ HistoryType

Init ==
    /\ party \in Parties /\ on = InitiallyOn
    /\ flock = None /\ refcount = [p \in Processes |-> 0]
    /\ holdsRef = [c \in Collectors |-> FALSE]
    /\ state = [c \in Collectors |-> "UNCONFIGURED"]
    /\ touched = [c \in Collectors |-> <<>>]
    /\ software = [c \in Collectors |-> FALSE]
    /\ pc = [c \in Collectors |-> "idle"]
    /\ todo = [c \in Collectors |-> {}] /\ event = [c \in Collectors |-> None]
    /\ checked = [c \in Collectors |-> FALSE]
    /\ leaving = [c \in Collectors |-> "none"]
    /\ mine = [c \in Collectors |-> {}] /\ spoiled = {} /\ faults = 0

-----------------------------------------------------------------------------
(* Helpers *)

Fault(kind) == kind \in Faults /\ faults < MaxFaults /\ faults' = faults + 1
NoFault == UNCHANGED faults

SetStamp(list, k, how) == [list EXCEPT ![k].stamp = how]
EventsOf(list) == {list[i].event : i \in DOMAIN list}
Front(c) == Head(touched[c])

\* What ScmiWrite is asked to write where the call stands: to restore, first the
\* timestamp and then the event.
FileOf(c) ==
    CASE pc[c] = "telemetry" -> <<"telemetry", SocketOf[c]>>
      [] pc[c] = "enable"    -> <<"enable", event[c]>>
      [] pc[c] = "stamp"     -> <<"stamp", event[c]>>
      [] pc[c] = "undo"      -> <<IF Front(c).stamp = "off" THEN "stamp" ELSE "enable",
                                  Front(c).event>>
Writing(c) == \/ pc[c] \in {"telemetry", "enable", "stamp"}
              \/ pc[c] = "undo" /\ touched[c] # <<>> /\ Owed(Front(c)) # {}
SwitchingOn(c) == pc[c] # "undo"

Goto(c, label) == pc' = [pc EXCEPT ![c] = label]

\* RestoreDataEventEnabledState begins, on behalf of `why`.
StartUndo(c, why) ==
    /\ Goto(c, "undo") /\ leaving' = [leaving EXCEPT ![c] = why]
    /\ event' = [event EXCEPT ![c] = None] /\ todo' = [todo EXCEPT ![c] = {}]

\* Mutants: the original setting forgotten, and the event itself.
RecordAsOn(c, e, enabled, stamp) ==
    touched' = [touched EXCEPT ![c] =
                    Append(@, [event |-> e, enabled |-> TRUE, stamp |-> stamp])]
RecordUnnamed(c, e, enabled, stamp) ==
    touched' = [touched EXCEPT ![c] =
                    Append(@, [event |-> None, enabled |-> enabled, stamp |-> stamp])]

Record(c, e, enabled, stamp) ==
    touched' = [touched EXCEPT ![c] =
                    Append(@, [event |-> e, enabled |-> enabled, stamp |-> stamp])]

\* The last record gets its timestamp_enabled, then ReadTimestampRate: without a
\* usable rate all timestamps fall back to the software clock.
Stamp(c, how) ==
    /\ touched' = [touched EXCEPT ![c] = SetStamp(@, Len(@), how)]
    /\ Goto(c, "next") /\ event' = [event EXCEPT ![c] = None]
    /\ \/ UNCHANGED software
       \/ "rate" \in Faults /\ software' = [software EXCEPT ![c] = TRUE]

\* Mutant: write without asking for the lock.
MayAlways(c) == TRUE

\* AcquireProcessLock: a collector of the process may hold the lock already.
MayLock(c) == holdsRef[c] \/ flock \in {None, ProcessOf[c]}
AcquireProcessLock(c) ==
    IF holdsRef[c] THEN UNCHANGED <<flock, refcount, holdsRef>>
    ELSE /\ flock' = ProcessOf[c]
         /\ refcount' = [refcount EXCEPT ![ProcessOf[c]] =
                             IF flock = ProcessOf[c] THEN @ + 1 ELSE 1]
         /\ holdsRef' = [holdsRef EXCEPT ![c] = TRUE]

\* Mutant: the first release drops the lock of the whole process.
ReleaseForAll(c) ==
    /\ holdsRef' = [holdsRef EXCEPT ![c] = FALSE]
    /\ refcount' = [refcount EXCEPT ![ProcessOf[c]] = IF @ > 0 THEN @ - 1 ELSE 0]
    /\ flock' = IF flock = ProcessOf[c] THEN None ELSE flock

ReleaseProcessLock(c) ==
    IF ~ holdsRef[c] THEN UNCHANGED <<flock, refcount, holdsRef>>
    ELSE LET p == ProcessOf[c]
             left == IF refcount[p] > 0 THEN refcount[p] - 1 ELSE 0
         IN  /\ holdsRef' = [holdsRef EXCEPT ![c] = FALSE]
             /\ refcount' = [refcount EXCEPT ![p] = left]
             /\ flock' = IF left = 0 THEN None ELSE flock

-----------------------------------------------------------------------------
(* ScmiWrite *)

\* What the caller does with its status.
Returned(c, ok) ==
    \/ /\ pc[c] = "telemetry" /\ ok
       /\ state' = [state EXCEPT ![c] = "CONFIGURED"] /\ Goto(c, "next")
       /\ UNCHANGED <<touched, software, todo, event, leaving>>
    \/ /\ pc[c] = "enable" /\ ok
       /\ Record(c, event[c], FALSE, "absent") /\ Goto(c, "stamp?")
       /\ UNCHANGED <<state, software, todo, event, leaving>>
    \/ /\ pc[c] = "stamp" /\ ok
       /\ Stamp(c, "off") /\ UNCHANGED <<state, todo, leaving>>
    \/ /\ pc[c] # "undo" /\ ~ ok
       /\ StartUndo(c, "failed") /\ UNCHANGED <<state, touched, software>>
    \/ /\ pc[c] = "undo"   \* the first failure ends the restoring
       /\ touched' = [touched EXCEPT ![c] =
              IF ~ ok THEN <<>>
              ELSE IF Front(c).stamp = "off"
                   THEN SetStamp(@, 1, "absent") ELSE Tail(@)]
       /\ UNCHANGED <<state, software, pc, todo, event, leaving>>

\* A failed restoring gives up what the collector still owed.
Lost(c) == IF pc[c] = "undo" THEN EventsOf(touched[c]) ELSE {}
Fails(c) ==
    /\ Returned(c, FALSE)
    /\ spoiled' = spoiled \cup Lost(c)
    /\ mine' = [mine EXCEPT ![c] = IF pc[c] = "undo" THEN {} ELSE @]

\* Read the file; nothing more to do if it holds the value or is not writable.
ScmiWriteCheck(c) ==
    LET f == FileOf(c)
        differs == (f \in on) # SwitchingOn(c)
    IN  /\ c \notin Ioctl /\ Writing(c) /\ ~ checked[c]
        /\ UNCHANGED <<party, shared>>
        /\ \/ Fault("read") /\ Fails(c) /\ UNCHANGED checked
           \/ /\ NoFault /\ UNCHANGED spoiled
              /\ IF differs /\ f \notin ReadOnly
                 THEN checked' = [checked EXCEPT ![c] = TRUE] /\ UNCHANGED <<mine,
                          state, touched, software, pc, todo, event, leaving>>
                 ELSE /\ Returned(c, TRUE) /\ UNCHANGED checked
                      /\ mine' = [mine EXCEPT ![c] =
                                     IF SwitchingOn(c) THEN @ ELSE @ \ {f}]

\* Acquire the process lock and write.
ScmiWriteFile(c) ==
    LET f == FileOf(c)
    IN  /\ checked[c] /\ checked' = [checked EXCEPT ![c] = FALSE]
        /\ UNCHANGED party
        /\ \/ /\ ~ MayLock(c) /\ NoFault   \* COLLECTION_ALREADY_RUNNING
              /\ Returned(c, FALSE) /\ UNCHANGED <<shared, spoiled, mine>>
           \/ /\ ~ holdsRef[c] /\ flock = None /\ Fault("lock")
              /\ Fails(c) /\ UNCHANGED shared
           \/ /\ MayLock(c) /\ AcquireProcessLock(c)
              /\ \/ Fault("write") /\ Fails(c) /\ UNCHANGED on
                 \/ /\ NoFault /\ Returned(c, TRUE) /\ UNCHANGED spoiled
                    /\ on' = IF SwitchingOn(c) THEN on \cup {f} ELSE on \ {f}
                    /\ mine' = [mine EXCEPT ![c] =
                          IF pc[c] \in {"enable", "stamp"} THEN @ \cup {f} ELSE @ \ {f}]

-----------------------------------------------------------------------------
(* The calls *)

Idle(c) == pc[c] = "idle"

\* A configuration that is replaced is rolled back first.
ConfigureCollection(c) ==
    /\ Idle(c) /\ state[c] # "STARTED"
    /\ \E w \in SUBSET Wanted[c] \ {{}} : todo' = [todo EXCEPT ![c] = w]
    /\ \E s \in SoftwareClock : software' = [software EXCEPT ![c] = s]
    /\ IF state[c] = "CONFIGURED"
       THEN Goto(c, "undo") /\ leaving' = [leaving EXCEPT ![c] = "replace"]
       ELSE Goto(c, "telemetry") /\ UNCHANGED leaving
    /\ UNCHANGED <<party, shared, state, touched, event, checked, history>>

\* EnableDataEvent reads whether the event is on already.
ReadEnable(c, e) ==
    /\ c \notin Ioctl /\ pc[c] = "next" /\ e \in todo[c]
    /\ UNCHANGED <<party, shared, state, software, checked, mine, spoiled>>
    /\ \/ Fault("read") /\ StartUndo(c, "failed") /\ UNCHANGED touched
       \/ /\ NoFault /\ todo' = [todo EXCEPT ![c] = @ \ {e}]
          /\ event' = [event EXCEPT ![c] = e] /\ UNCHANGED leaving
          /\ IF <<"enable", e>> \in on
             THEN Record(c, e, TRUE, "absent") /\ Goto(c, "stamp?")
             ELSE Goto(c, "enable") /\ UNCHANGED touched

\* EnableTimestamp; with the software clock tstamp_enable is not touched.
ReadStamp(c) ==
    LET f == <<"stamp", event[c]>>
    IN  /\ pc[c] = "stamp?"
        /\ UNCHANGED <<party, shared, state, checked, mine, spoiled>>
        /\ \/ /\ software[c] /\ NoFault /\ Goto(c, "next")
              /\ event' = [event EXCEPT ![c] = None]
              /\ UNCHANGED <<touched, software, todo, leaving>>
           \/ /\ ~ software[c] /\ event[c] \in Stamped
              /\ Fault("read") /\ StartUndo(c, "failed")
              /\ UNCHANGED <<touched, software>>
           \/ /\ ~ software[c] /\ event[c] \in Stamped /\ f \notin on /\ NoFault
              /\ Goto(c, "stamp") /\ UNCHANGED <<touched, software, todo, event, leaving>>
           \/ /\ ~ software[c] /\ (event[c] \in Stamped => f \in on) /\ NoFault
              /\ Stamp(c, IF event[c] \in Stamped THEN "on" ELSE "absent")
              /\ UNCHANGED <<todo, leaving>>

\* ConfigureCollection ends with the operations before the start.
FinishConfigure(c) ==
    /\ pc[c] = "next" /\ todo[c] = {}
    /\ UNCHANGED <<party, shared, state, touched, software, checked, mine, spoiled>>
    /\ \/ Fault("operation") /\ StartUndo(c, "failed")
       \/ NoFault /\ Goto(c, "idle") /\ UNCHANGED <<todo, event, leaving>>

StartCollection(c) ==
    /\ Idle(c) /\ state[c] = "CONFIGURED"
    /\ \/ Fault("operation") /\ UNCHANGED state
       \/ NoFault /\ state' = [state EXCEPT ![c] = "STARTED"]
    /\ UNCHANGED <<party, shared, touched, software, pc, todo, event, checked,
                   leaving, mine, spoiled>>

\* A failing stop operation leaves the collection running.
StopCollection(c) ==
    /\ Idle(c) /\ state[c] = "STARTED"
    /\ \/ Fault("operation") /\ UNCHANGED <<pc, leaving, event, todo>>
       \/ NoFault /\ StartUndo(c, "stop")
    /\ UNCHANGED <<party, shared, state, touched, software, checked, mine, spoiled>>

\* Rolls back; so does the destructor, which stops a running collection first.
Discard(c) == StartUndo(c, "clear")
              /\ UNCHANGED <<party, shared, state, touched, software, checked, history>>
ClearCollectionState(c) == Idle(c) /\ state[c] # "STARTED" /\ Discard(c)
Destroy(c) == Idle(c) /\ Discard(c)

\* A record with nothing to restore is passed over.
SkipRecord(c) ==
    /\ c \notin Ioctl /\ pc[c] = "undo" /\ touched[c] # <<>> /\ Owed(Front(c)) = {}
    /\ touched' = [touched EXCEPT ![c] = Tail(@)]
    /\ UNCHANGED <<party, shared, state, software, pc, todo, event, checked,
                   leaving, history>>

\* Mutant: a stop that forgets the lock.
LeaveLocked(c) ==
    /\ pc[c] = "undo" /\ touched[c] = <<>>
    /\ state' = [state EXCEPT ![c] =
           IF leaving[c] = "stop" THEN "STOPPED" ELSE "UNCONFIGURED"]
    /\ IF leaving[c] = "stop" THEN UNCHANGED <<flock, refcount, holdsRef>>
       ELSE ReleaseProcessLock(c)
    /\ Goto(c, IF leaving[c] = "replace" THEN "telemetry" ELSE "idle")
    /\ leaving' = [leaving EXCEPT ![c] = "none"]
    /\ UNCHANGED <<party, on, touched, software, todo, event, checked, history>>

\* RollbackConfigurationState or StopCollection after the restoring.
Leave(c) ==
    /\ pc[c] = "undo" /\ touched[c] = <<>>
    /\ state' = [state EXCEPT ![c] =
           IF leaving[c] = "stop" THEN "STOPPED" ELSE "UNCONFIGURED"]
    /\ ReleaseProcessLock(c)
    /\ Goto(c, IF leaving[c] = "replace" THEN "telemetry" ELSE "idle")
    /\ leaving' = [leaving EXCEPT ![c] = "none"]
    /\ UNCHANGED <<party, on, touched, software, todo, event, checked, history>>

-----------------------------------------------------------------------------
(* The ioctl backend: no lock, and one ioctl for both settings of an event *)

\* ProbeCapabilities and EnableTelemetry.
IoctlTelemetry(c) ==
    /\ c \in Ioctl /\ pc[c] = "telemetry"
    /\ UNCHANGED <<party, flock, refcount, holdsRef, checked, mine, spoiled>>
    /\ \/ Fault("read") /\ Returned(c, FALSE) /\ UNCHANGED on
       \/ /\ NoFault /\ Returned(c, TRUE)
          /\ on' = on \cup {<<"telemetry", SocketOf[c]>>}

\* Read the original configuration and set the new one.
IoctlEnable(c, e) ==
    LET stamp == <<"stamp", e>>
        new == {<<"enable", e>>} \cup (IF software[c] THEN {} ELSE {stamp})
    IN  /\ c \in Ioctl /\ pc[c] = "next" /\ e \in todo[c]
        /\ UNCHANGED <<party, flock, refcount, holdsRef, state, software, checked, spoiled>>
        /\ \/ /\ Fault("write") /\ StartUndo(c, "failed")
              /\ UNCHANGED <<on, touched, mine>>
           \/ /\ NoFault /\ todo' = [todo EXCEPT ![c] = @ \ {e}]
              /\ Record(c, e, <<"enable", e>> \in on,
                        IF software[c] THEN "absent"
                        ELSE IF stamp \in on THEN "on" ELSE "off")
              /\ on' = on \cup new /\ mine' = [mine EXCEPT ![c] = @ \cup (new \ on)]
              /\ UNCHANGED <<pc, event, leaving>>

\* Write the original configuration of one event.
IoctlRestore(c) ==
    /\ c \in Ioctl /\ pc[c] = "undo" /\ touched[c] # <<>>
    /\ UNCHANGED <<party, flock, refcount, holdsRef, checked>>
    /\ \/ Fault("write") /\ Fails(c) /\ UNCHANGED on
       \/ /\ NoFault /\ touched' = [touched EXCEPT ![c] = Tail(@)]
          /\ on' = (on \ Owed(Front(c))) \cup Kept(Front(c))
          /\ mine' = [mine EXCEPT ![c] = @ \ Owed(Front(c))]
          /\ UNCHANGED <<state, software, pc, todo, event, leaving, spoiled>>

-----------------------------------------------------------------------------
\* A process dies: the kernel drops its lock, the files stay as they are.
Crash(p) ==
    LET dead == {c \in Collectors : ProcessOf[c] = p}
        Reset(f, v) == [c \in Collectors |-> IF c \in dead THEN v ELSE f[c]]
    IN  /\ Fault("crash") /\ \E c \in dead : pc[c] # "idle" \/ state[c] # "UNCONFIGURED"
        /\ flock' = IF flock = p THEN None ELSE flock
        /\ refcount' = [refcount EXCEPT ![p] = 0]
        /\ holdsRef' = Reset(holdsRef, FALSE) /\ state' = Reset(state, "UNCONFIGURED")
        /\ touched' = Reset(touched, <<>>) /\ software' = Reset(software, FALSE)
        /\ pc' = Reset(pc, "idle") /\ todo' = Reset(todo, {})
        /\ event' = Reset(event, None) /\ checked' = Reset(checked, FALSE)
        /\ leaving' = Reset(leaving, "none") /\ mine' = Reset(mine, {})
        /\ spoiled' = spoiled \cup UNION {EventsOf(touched[c]) : c \in dead}
        /\ UNCHANGED <<party, on>>

Step(c) ==
    \/ ConfigureCollection(c) \/ StartCollection(c) \/ StopCollection(c)
    \/ ClearCollectionState(c) \/ Destroy(c)
    \/ ScmiWriteCheck(c) \/ ScmiWriteFile(c)
    \/ \E e \in Events : ReadEnable(c, e)
    \/ ReadStamp(c) \/ FinishConfigure(c) \/ SkipRecord(c) \/ Leave(c)
    \/ IoctlTelemetry(c) \/ IoctlRestore(c)
    \/ \E e \in Events : IoctlEnable(c, e)

Next == (\E c \in party : Step(c)) \/ (\E p \in Processes : Crash(p))

Spec == Init /\ [][Next]_vars

-----------------------------------------------------------------------------
(* Properties *)

HoldersOf(p) == {c \in Collectors : ProcessOf[c] = p /\ holdsRef[c]}

\* The reference count of a process is the number of its collectors that count
\* on the lock, and the process has the lock exactly while there are any:
\* whatever fails, the lock is neither dropped under a collector nor kept for none.
LockFollowsReferences ==
    \A p \in Processes : /\ refcount[p] = Cardinality(HoldersOf(p))
                         /\ flock = p <=> HoldersOf(p) # {}

\* A file that a collector switched on for its collection stays on until the
\* same collector restores it: no other process, collector or rollback switches
\* it off in between (ScmiWrite under the process lock).
OwnChangesStayOn == \A c \in Collectors : mine[c] \subseteq on

\* When no collector has an event in its list, its files are as they were before
\* any collection, whatever calls were interleaved, replaced, refused or rolled
\* back; a crash, or an I/O failure while restoring, excuses the events it hit.
EventsAreRestored ==
    \A e \in Events \ spoiled :
        (\A c \in Collectors : e \notin EventsOf(touched[c]))
            => \A f \in EventFiles(e) : f \in on <=> f \in InitiallyOn

\* A collector that nobody is calling and that is not collecting owes nothing
\* and holds no reference to the lock, also after failures.
IdleOwesNothing ==
    \A c \in Collectors :
        Idle(c) /\ state[c] \in {"UNCONFIGURED", "STOPPED"}
            => touched[c] = <<>> /\ mine[c] = {} /\ ~ holdsRef[c]
=============================================================================
