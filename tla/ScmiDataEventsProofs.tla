------------------------ MODULE ScmiDataEventsProofs ------------------------
(***************************************************************************)
(* Theorems about ScmiDataEvents, for any processes, collectors, events    *)
(* and failures.  What makes the two promises hold together is that the    *)
(* list of records of a collector covers every file it has switched on     *)
(* (Covered), and that a collector with such a file holds a reference to   *)
(* the lock (Backed): so it cannot give the lock up while it owes          *)
(* anything, and nobody else can write meanwhile.                          *)
(***************************************************************************)
EXTENDS ScmiDataEvents, FiniteSetTheorems, TLAPS

Configuring == {"next", "enable", "stamp?", "stamp"}
LastOf(c) == touched[c][Len(touched[c])]
OwedIn(list) == UNION {Owed(list[i]) : i \in DOMAIN list}

\* Where a call stands determines what its variables hold.
ControlOf(c) ==
    /\ pc[c] \in Configuring => state[c] = "CONFIGURED"
    /\ pc[c] \in {"enable", "stamp?", "stamp"} => event[c] # None /\ c \notin Ioctl
    /\ pc[c] \in {"stamp?", "stamp"} =>
          /\ touched[c] # <<>>
          /\ LastOf(c).event = event[c] /\ LastOf(c).stamp = "absent"
    /\ checked[c] => c \notin Ioctl /\ Writing(c) /\ FileOf(c) \notin ReadOnly
    /\ pc[c] = "telemetry" => touched[c] = <<>>

\* A collector deals only with the events it wants.
OwnOf(c) ==
    /\ EventsOf(touched[c]) \subseteq Wanted[c] /\ todo[c] \subseteq Wanted[c]
    /\ event[c] # None => event[c] \in Wanted[c]

CoveredOf(c) == mine[c] \subseteq OwedIn(touched[c])
BackedOf(c) == c \notin Ioctl /\ mine[c] # {} => holdsRef[c]
WritableOf(c) == c \notin Ioctl => mine[c] \cap ReadOnly = {}

\* What was on before any collection is never switched off, nor believed off.
OriginalsOf(c) ==
    /\ OwedIn(touched[c]) \cap InitiallyOn = {}
    /\ pc[c] \in {"enable", "stamp"} => FileOf(c) \notin InitiallyOn
OriginalsStayOn == InitiallyOn \subseteq on

IdleOf(c) ==
    Idle(c) /\ state[c] \in {"UNCONFIGURED", "STOPPED"}
        => touched[c] = <<>> /\ mine[c] = {} /\ ~ holdsRef[c]

\* What is on besides was switched on by a collector that still owes it.
Attributed ==
    \A e \in Events \ spoiled : \A f \in EventFiles(e) :
        f \in on \ InitiallyOn => \E c \in Collectors : f \in mine[c]

\* An ioctl restores both settings at once: it switches on only what was on before.
KeptIn(list) == UNION {Kept(list[i]) : i \in DOMAIN list}
KeepsOf(c) ==
    c \in Ioctl =>
        /\ pc[c] = "next" => todo[c] \cap EventsOf(touched[c]) = {}
        /\ \A f \in KeptIn(touched[c]) : f[2] \notin spoiled => f \in InitiallyOn

LocalOf(c) == /\ ControlOf(c) /\ OwnOf(c) /\ CoveredOf(c) /\ BackedOf(c)
              /\ WritableOf(c) /\ OriginalsOf(c) /\ IdleOf(c)

IInv == /\ TypeOK /\ LockFollowsReferences /\ \A c \in Collectors : LocalOf(c)
        /\ \A c \in Collectors : KeepsOf(c)
        /\ OwnChangesStayOn /\ OriginalsStayOn /\ Attributed

-----------------------------------------------------------------------------
(* Types *)

\* ScmiWrite changes the call as Returned says, or remembers that it must write.
LEMMA ScmiWriteEffect ==
    ASSUME NEW c \in Collectors, ScmiWriteCheck(c) \/ ScmiWriteFile(c)
    PROVE  /\ \/ Returned(c, TRUE) \/ Returned(c, FALSE)
              \/ UNCHANGED <<state, touched, software, pc, todo, event, leaving>>
           /\ \/ UNCHANGED checked \/ checked' = [checked EXCEPT ![c] = TRUE]
              \/ checked' = [checked EXCEPT ![c] = FALSE]
           /\ party' = party
BY DEF ScmiWriteCheck, ScmiWriteFile, Fails

LEMMA ReturnedTypes ==
    ASSUME NEW c \in Collectors, NEW ok \in BOOLEAN, CallType, Returned(c, ok)
    PROVE  /\ state' \in [Collectors -> States] /\ software' \in [Collectors -> BOOLEAN]
           /\ pc' \in [Collectors -> Labels] /\ leaving' \in [Collectors -> Reasons]
           /\ todo' \in [Collectors -> SUBSET Events]
           /\ event' \in [Collectors -> Events \cup {None}]
<1>1. state' \in [Collectors -> States]
  BY DEF Returned, CallType, States
<1>5. software' \in [Collectors -> BOOLEAN]
  BY DEF Returned, CallType, Stamp
<1>2. pc' \in [Collectors -> Labels] /\ leaving' \in [Collectors -> Reasons]
  BY DEF Returned, CallType, Labels, Reasons, Stamp, StartUndo, Goto
<1>3. todo' \in [Collectors -> SUBSET Events]
  BY DEF Returned, CallType, StartUndo
<1>4. event' \in [Collectors -> Events \cup {None}]
  BY DEF Returned, CallType, Stamp, StartUndo
<1> QED BY <1>1, <1>2, <1>3, <1>4, <1>5

LEMMA CallTypeStep ==
    ASSUME CollectorAssumption, TypeOK, [Next]_vars PROVE CallType'
<1> USE DEF TypeOK, shared, local, history
<1>1. ASSUME NEW c \in Collectors, ConfigureCollection(c) PROVE CallType'
  <2>1. state' = state /\ checked' = checked
    BY <1>1 DEF ConfigureCollection
  <2>2. pc' \in [Collectors -> Labels] /\ leaving' \in [Collectors -> Reasons]
    BY <1>1 DEF ConfigureCollection, CallType, Goto, Labels, Reasons
  <2>3. todo' \in [Collectors -> SUBSET Events]
    BY <1>1, CollectorAssumption DEF ConfigureCollection, CallType, CollectorAssumption
  <2>4. software' \in [Collectors -> BOOLEAN] /\ event' = event
    BY <1>1, CollectorAssumption DEF ConfigureCollection, CallType, CollectorAssumption
  <2> QED BY <2>1, <2>2, <2>3, <2>4 DEF CallType
<1>2. ASSUME NEW c \in Collectors, StartCollection(c) PROVE CallType'
  BY <1>2 DEF StartCollection, CallType, States
<1>3. ASSUME NEW c \in Collectors, NEW why \in {"failed", "clear", "stop"}, StartUndo(c, why),
             UNCHANGED <<state, software, checked>>
      PROVE  CallType'
  BY <1>3 DEF StartUndo, CallType, Goto, Labels, Reasons
<1>4. ASSUME NEW c \in Collectors, StopCollection(c) PROVE CallType'
  BY <1>3, <1>4 DEF StopCollection, CallType
<1>5. ASSUME NEW c \in Collectors, ClearCollectionState(c) \/ Destroy(c) PROVE CallType'
  BY <1>3, <1>5 DEF ClearCollectionState, Destroy, Discard
<1>6. ASSUME NEW c \in Collectors, ScmiWriteCheck(c) \/ ScmiWriteFile(c) PROVE CallType'
  <2>1. checked' \in [Collectors -> BOOLEAN]
    BY <1>6, ScmiWriteEffect DEF CallType
  <2>2. CASE UNCHANGED <<state, touched, software, pc, todo, event, leaving>>
    BY <2>1, <2>2 DEF CallType
  <2>3. CASE Returned(c, TRUE) \/ Returned(c, FALSE)
    BY <2>1, <2>3, ReturnedTypes DEF CallType
  <2> QED BY <1>6, <2>2, <2>3, ScmiWriteEffect
<1>7. ASSUME NEW c \in Collectors, NEW e \in Events, ReadEnable(c, e) PROVE CallType'
  <2>1. CASE StartUndo(c, "failed") /\ UNCHANGED touched
    BY <1>3, <1>7, <2>1 DEF ReadEnable
  <2>2. CASE ~ (StartUndo(c, "failed") /\ UNCHANGED touched)
    <3>1. /\ UNCHANGED <<state, software, checked, leaving>>
          /\ todo' = [todo EXCEPT ![c] = @ \ {e}]
          /\ event' = [event EXCEPT ![c] = e]
          /\ Goto(c, "stamp?") \/ Goto(c, "enable")
      BY <1>7, <2>2 DEF ReadEnable
    <3>2. pc' \in [Collectors -> Labels]
      BY <3>1 DEF CallType, Goto, Labels
    <3>3. todo' \in [Collectors -> SUBSET Events] /\ event' \in [Collectors -> Events \cup {None}]
      BY <3>1 DEF CallType
    <3> QED BY <3>1, <3>2, <3>3 DEF CallType
  <2> QED BY <2>1, <2>2
<1>8. ASSUME NEW c \in Collectors, ReadStamp(c) PROVE CallType'
  <2>1. CASE StartUndo(c, "failed") /\ UNCHANGED <<touched, software>>
    BY <1>3, <1>8, <2>1 DEF ReadStamp
  <2>2. CASE ~ (StartUndo(c, "failed") /\ UNCHANGED <<touched, software>>)
    <3>1. pc' \in [Collectors -> Labels]
      BY <1>8, <2>2 DEF ReadStamp, Stamp, CallType, Goto, Labels
    <3>2. event' \in [Collectors -> Events \cup {None}]
      BY <1>8, <2>2 DEF ReadStamp, Stamp, CallType
    <3>3. software' \in [Collectors -> BOOLEAN]
      BY ZenonT(60), <1>8, <2>2 DEF ReadStamp, Stamp, CallType
    <3> QED BY <1>8, <2>2, <3>1, <3>2, <3>3 DEF ReadStamp, CallType
  <2> QED BY <2>1, <2>2
<1>9. ASSUME NEW c \in Collectors, FinishConfigure(c) PROVE CallType'
  BY <1>3, <1>9 DEF FinishConfigure, CallType, Goto, Labels
<1>10. ASSUME NEW c \in Collectors, SkipRecord(c) PROVE CallType'
  BY <1>10 DEF SkipRecord, CallType
<1>11. ASSUME NEW c \in Collectors, Leave(c) PROVE CallType'
  BY <1>11 DEF Leave, CallType, Goto, Labels, States, Reasons
<1>12. ASSUME NEW c \in Collectors, IoctlTelemetry(c) PROVE CallType'
  BY <1>12, ReturnedTypes DEF IoctlTelemetry, CallType
<1>13. ASSUME NEW c \in Collectors, IoctlRestore(c) PROVE CallType'
  BY <1>13, ReturnedTypes DEF IoctlRestore, Fails, CallType
<1>14. ASSUME NEW c \in Collectors, NEW e \in Events, IoctlEnable(c, e) PROVE CallType'
  <2>1. CASE StartUndo(c, "failed")
    BY <1>3, <1>14, <2>1 DEF IoctlEnable
  <2>2. CASE ~ StartUndo(c, "failed")
    <3>1. todo' = [todo EXCEPT ![c] = @ \ {e}]
      BY <1>14, <2>2 DEF IoctlEnable
    <3> QED BY <1>14, <2>2, <3>1 DEF IoctlEnable, CallType
  <2> QED BY <2>1, <2>2
<1>15. ASSUME NEW p \in Processes, Crash(p) PROVE CallType'
  BY <1>15 DEF Crash, CallType, States, Labels, Reasons
<1>16. CASE UNCHANGED vars
  BY <1>16 DEF vars, CallType
<1> QED
  BY <1>1, <1>2, <1>4, <1>5, <1>6, <1>7, <1>8, <1>9, <1>10, <1>11, <1>12, <1>13,
     <1>14, <1>15, <1>16, CollectorAssumption DEF Next, Step, CollectorAssumption

-----------------------------------------------------------------------------
(* The lock *)

LEMMA LockUnchanged ==
    ASSUME LockType, LockFollowsReferences, UNCHANGED <<flock, refcount, holdsRef>>
    PROVE  LockType' /\ LockFollowsReferences'
<1>1. \A p : HoldersOf(p)' = HoldersOf(p)
  BY DEF HoldersOf
<1>2. LockType'
  BY DEF LockType
<1> QED BY <1>1, <1>2 DEF LockFollowsReferences

LEMMA AcquireKeepsCount ==
    ASSUME NEW c \in Collectors, LockType, LockFollowsReferences,
           MayLock(c), AcquireProcessLock(c)
    PROVE  /\ LockType' /\ LockFollowsReferences'
           /\ holdsRef' = [holdsRef EXCEPT ![c] = TRUE]
<1> DEFINE p == ProcessOf[c]
<1> USE CollectorAssumption
<1>1. CASE holdsRef[c]
  <2>1. UNCHANGED <<flock, refcount, holdsRef>>
    BY <1>1 DEF AcquireProcessLock
  <2>2. holdsRef' = [holdsRef EXCEPT ![c] = TRUE]
    BY <1>1, <2>1, Zenon DEF LockType
  <2>3. LockType' /\ LockFollowsReferences'
    BY <2>1, LockUnchanged
  <2> QED BY <2>2, <2>3
<1>2. CASE ~ holdsRef[c]
  <2>1. /\ flock' = p /\ holdsRef' = [holdsRef EXCEPT ![c] = TRUE]
        /\ refcount' = [refcount EXCEPT ![p] = IF flock = p THEN @ + 1 ELSE 1]
        /\ flock = None \/ flock = p
        /\ p \in Processes /\ p # None
    BY <1>2 DEF AcquireProcessLock, MayLock, CollectorAssumption
  <2>2. LockType'
    <3>1. flock' \in Processes \cup {None}
      BY <2>1
    <3>2. refcount' \in [Processes -> Nat]
      BY <2>1 DEF LockType
    <3>3. holdsRef' \in [Collectors -> BOOLEAN]
      BY <2>1 DEF LockType
    <3> QED BY <3>1, <3>2, <3>3 DEF LockType
  <2>3. HoldersOf(p)' = HoldersOf(p) \cup {c} /\ c \notin HoldersOf(p)
    BY <1>2, <2>1 DEF HoldersOf, LockType
  <2>4. IsFiniteSet(HoldersOf(p))
    BY FS_Subset, CollectorAssumption DEF HoldersOf, CollectorAssumption
  <2>5. Cardinality(HoldersOf(p)') = Cardinality(HoldersOf(p)) + 1
    BY <2>3, <2>4, FS_AddElement
  <2>6. Cardinality(HoldersOf(p)) = refcount[p] /\ (flock = p <=> HoldersOf(p) # {})
    BY <2>1 DEF LockFollowsReferences
  <2>7. refcount'[p] = Cardinality(HoldersOf(p)')
    <3>1. CASE flock = p
      BY <2>1, <2>5, <2>6, <3>1 DEF LockType
    <3>2. CASE flock # p
      <4>1. Cardinality(HoldersOf(p)) = 0
        BY <2>4, <2>6, <3>2, FS_EmptySet
      <4> QED BY <2>1, <2>5, <3>2, <4>1 DEF LockType
    <3> QED BY <3>1, <3>2
  <2>8. ASSUME NEW q \in Processes, q # p
        PROVE  /\ refcount'[q] = Cardinality(HoldersOf(q)')
               /\ flock' = q <=> HoldersOf(q)' # {}
    <3>1. HoldersOf(q)' = HoldersOf(q)
      BY <2>1, <2>8 DEF HoldersOf, LockType
    <3>2. flock # q
      BY <2>1, <2>8, CollectorAssumption DEF CollectorAssumption
    <3>3. refcount'[q] = refcount[q] /\ flock' # q
      BY <2>1, <2>8 DEF LockType
    <3> QED BY <3>1, <3>2, <3>3 DEF LockFollowsReferences
  <2>9. LockFollowsReferences'
    BY <2>1, <2>3, <2>7, <2>8 DEF LockFollowsReferences
  <2> QED BY <2>1, <2>2, <2>9
<1> QED BY <1>1, <1>2

LEMMA ReleaseKeepsCount ==
    ASSUME NEW c \in Collectors, LockType, LockFollowsReferences, ReleaseProcessLock(c)
    PROVE  /\ LockType' /\ LockFollowsReferences'
           /\ holdsRef' = [holdsRef EXCEPT ![c] = FALSE]
<1> DEFINE p == ProcessOf[c]
           left == IF refcount[p] > 0 THEN refcount[p] - 1 ELSE 0
<1> USE CollectorAssumption
<1>1. CASE ~ holdsRef[c]
  <2>1. UNCHANGED <<flock, refcount, holdsRef>>
    BY <1>1 DEF ReleaseProcessLock
  <2>2. holdsRef' = [holdsRef EXCEPT ![c] = FALSE]
    BY <1>1, <2>1, Zenon DEF LockType
  <2>3. LockType' /\ LockFollowsReferences'
    BY <2>1, LockUnchanged
  <2> QED BY <2>2, <2>3
<1>2. CASE holdsRef[c]
  <2>1. /\ holdsRef' = [holdsRef EXCEPT ![c] = FALSE]
        /\ refcount' = [refcount EXCEPT ![p] = left]
        /\ flock' = IF left = 0 THEN None ELSE flock
        /\ p \in Processes /\ p # None
    BY <1>2 DEF ReleaseProcessLock, CollectorAssumption
  <2>2. LockType'
    <3>1. flock' \in Processes \cup {None}
      BY <2>1 DEF LockType
    <3>2. refcount' \in [Processes -> Nat]
      BY <2>1 DEF LockType
    <3>3. holdsRef' \in [Collectors -> BOOLEAN]
      BY <2>1 DEF LockType
    <3> QED BY <3>1, <3>2, <3>3 DEF LockType
  <2>3. HoldersOf(p)' = HoldersOf(p) \ {c} /\ c \in HoldersOf(p)
    BY <1>2, <2>1 DEF HoldersOf, LockType
  <2>4. IsFiniteSet(HoldersOf(p)) /\ IsFiniteSet(HoldersOf(p)')
    BY <2>3, FS_Subset, CollectorAssumption DEF HoldersOf, CollectorAssumption
  <2>5. Cardinality(HoldersOf(p)') = Cardinality(HoldersOf(p)) - 1
    BY <2>3, <2>4, FS_RemoveElement
  <2>6. Cardinality(HoldersOf(p)) = refcount[p] /\ flock = p
    BY <2>1, <2>3 DEF LockFollowsReferences
  <2>7. Cardinality(HoldersOf(p)') \in Nat /\ (HoldersOf(p)' = {} <=> Cardinality(HoldersOf(p)') = 0)
    BY <2>4, FS_CardinalityType, FS_EmptySet
  <2>8. refcount'[p] = Cardinality(HoldersOf(p)') /\ (flock' = p <=> HoldersOf(p)' # {})
    BY <2>1, <2>5, <2>6, <2>7 DEF LockType
  <2>9. ASSUME NEW q \in Processes, q # p
        PROVE  /\ refcount'[q] = Cardinality(HoldersOf(q)')
               /\ flock' = q <=> HoldersOf(q)' # {}
    <3>1. HoldersOf(q)' = HoldersOf(q)
      BY <2>1, <2>9 DEF HoldersOf, LockType
    <3>2. flock # q /\ flock' # q
      BY <2>1, <2>6, <2>9, CollectorAssumption DEF CollectorAssumption
    <3>3. refcount'[q] = refcount[q]
      BY <2>1, <2>9 DEF LockType
    <3> QED BY <3>1, <3>2, <3>3 DEF LockFollowsReferences
  <2>10. LockFollowsReferences'
    BY <2>1, <2>8, <2>9 DEF LockFollowsReferences
  <2> QED BY <2>1, <2>2, <2>10
<1> QED BY <1>1, <1>2

LEMMA CrashKeepsCount ==
    ASSUME CollectorAssumption, NEW p \in Processes, LockType, LockFollowsReferences, Crash(p)
    PROVE  LockType' /\ LockFollowsReferences'
<1>1. /\ holdsRef' = [c \in Collectors |-> IF ProcessOf[c] = p THEN FALSE ELSE holdsRef[c]]
      /\ flock' = IF flock = p THEN None ELSE flock
      /\ refcount' = [refcount EXCEPT ![p] = 0]
  BY DEF Crash
<1>2. LockType'
  BY <1>1 DEF LockType
<1>3. HoldersOf(p)' = {} /\ Cardinality(HoldersOf(p)') = 0
  <2>1. HoldersOf(p)' = {}
    BY <1>1 DEF HoldersOf
  <2> QED BY <2>1, FS_EmptySet
<1>4. p # None
  BY CollectorAssumption DEF CollectorAssumption
<1>5. \A q \in Processes : q # p => HoldersOf(q)' = HoldersOf(q)
  BY <1>1 DEF HoldersOf
<1>6. ASSUME NEW q \in Processes, q # None
      PROVE  /\ refcount'[q] = Cardinality(HoldersOf(q)')
             /\ flock' = q <=> HoldersOf(q)' # {}
  <2>1. CASE q = p
    BY <1>1, <1>3, <1>4, <2>1 DEF LockType
  <2>2. CASE q # p
    BY <1>1, <1>5, <1>6, <2>2 DEF LockType, LockFollowsReferences
  <2> QED BY <2>1, <2>2
<1> QED BY <1>2, <1>6, CollectorAssumption DEF LockFollowsReferences, CollectorAssumption

LEMMA LockStep ==
    ASSUME CollectorAssumption, TypeOK, LockFollowsReferences, [Next]_vars
    PROVE  LockType' /\ LockFollowsReferences'
<1> USE DEF shared, local, history
<1>1. CASE UNCHANGED <<flock, refcount, holdsRef>>
  BY <1>1, LockUnchanged DEF TypeOK
<1>2. ASSUME NEW c \in Collectors, ScmiWriteFile(c)
      PROVE  LockType' /\ LockFollowsReferences'
  <2>1. UNCHANGED <<flock, refcount, holdsRef>> \/ (MayLock(c) /\ AcquireProcessLock(c))
    BY <1>2 DEF ScmiWriteFile
  <2> QED BY <2>1, AcquireKeepsCount, LockUnchanged, CollectorAssumption DEF TypeOK
<1>3. ASSUME NEW c \in Collectors, Leave(c)
      PROVE  LockType' /\ LockFollowsReferences'
  BY <1>3, ReleaseKeepsCount, CollectorAssumption DEF Leave, TypeOK
<1>4. ASSUME NEW p \in Processes, Crash(p)
      PROVE  LockType' /\ LockFollowsReferences'
  BY <1>4, CrashKeepsCount, CollectorAssumption DEF TypeOK
<1>5. ASSUME NEW c \in Collectors, Step(c), ~ ScmiWriteFile(c), ~ Leave(c)
      PROVE  UNCHANGED <<flock, refcount, holdsRef>>
  BY <1>5 DEF Step, ConfigureCollection, StartCollection, StopCollection,
     ClearCollectionState, Destroy, Discard, ScmiWriteCheck, ReadEnable, ReadStamp,
     FinishConfigure, SkipRecord, IoctlTelemetry, IoctlRestore, IoctlEnable
<1>6. party \subseteq Collectors
  BY CollectorAssumption DEF CollectorAssumption, TypeOK
<1> QED BY <1>1, <1>2, <1>3, <1>4, <1>5, <1>6 DEF Next, vars

-----------------------------------------------------------------------------
(* Lists of records *)

LEMMA OwedMember ==
    ASSUME NEW list \in Seq(DataEvent), NEW f
    PROVE  f \in OwedIn(list) <=> \E i \in 1 .. Len(list) : f \in Owed(list[i])
BY DEF OwedIn

LEMMA EventsMember ==
    ASSUME NEW list \in Seq(DataEvent), NEW e
    PROVE  e \in EventsOf(list) <=> \E i \in 1 .. Len(list) : list[i].event = e
BY DEF EventsOf

LEMMA AppendList ==
    ASSUME NEW list \in Seq(DataEvent), NEW r \in DataEvent
    PROVE  LET new == Append(list, r) IN
           /\ new \in Seq(DataEvent) /\ new # <<>> /\ new[Len(new)] = r
           /\ OwedIn(new) = OwedIn(list) \cup Owed(r)
           /\ EventsOf(new) = EventsOf(list) \cup {r.event}
<1> DEFINE new == Append(list, r)
<1>1. /\ new \in Seq(DataEvent) /\ new # <<>> /\ Len(new) = Len(list) + 1
      /\ new[Len(new)] = r /\ \A i \in 1 .. Len(list) : new[i] = list[i]
  OBVIOUS
<1> HIDE DEF new
<1>2. OwedIn(new) = OwedIn(list) \cup Owed(r)
  BY <1>1 DEF OwedIn
<1>3. EventsOf(new) = EventsOf(list) \cup {r.event}
  BY <1>1 DEF EventsOf
<1> QED BY <1>1, <1>2, <1>3 DEF new

LEMMA TailList ==
    ASSUME NEW list \in Seq(DataEvent), list # <<>>
    PROVE  /\ Tail(list) \in Seq(DataEvent) /\ Head(list) \in DataEvent
           /\ OwedIn(list) = Owed(Head(list)) \cup OwedIn(Tail(list))
           /\ EventsOf(Tail(list)) \subseteq EventsOf(list)
           /\ Head(list).event \in EventsOf(list)
<1> DEFINE rest == Tail(list)
<1>1. /\ rest \in Seq(DataEvent) /\ Len(rest) = Len(list) - 1
      /\ \A i \in 1 .. Len(rest) : rest[i] = list[i + 1]
      /\ Head(list) = list[1] /\ Len(list) \in Nat \ {0} /\ Head(list) \in DataEvent
  OBVIOUS
<1> HIDE DEF rest
<1>2. \A i \in 1 .. Len(list) : i = 1 \/ (i - 1 \in 1 .. Len(rest) /\ rest[i - 1] = list[i])
  BY <1>1
<1>3. \A i \in 1 .. Len(rest) : i + 1 \in 1 .. Len(list)
  BY <1>1
<1>4. ASSUME NEW f PROVE f \in OwedIn(list) <=> f \in Owed(Head(list)) \/ f \in OwedIn(rest)
  <2>1. ASSUME f \in OwedIn(list) PROVE f \in Owed(Head(list)) \/ f \in OwedIn(rest)
    <3>1. PICK i \in 1 .. Len(list) : f \in Owed(list[i])
      BY <2>1, OwedMember
    <3>2. CASE i = 1
      BY <1>1, <3>1, <3>2
    <3>3. CASE i # 1
      BY <1>1, <1>2, <3>1, <3>3, OwedMember
    <3> QED BY <3>2, <3>3
  <2>2. f \in Owed(Head(list)) => f \in OwedIn(list)
    <3>1. 1 \in 1 .. Len(list)
      BY <1>1
    <3> QED BY <1>1, <3>1, OwedMember
  <2>3. ASSUME f \in OwedIn(rest) PROVE f \in OwedIn(list)
    <3>1. PICK i \in 1 .. Len(rest) : f \in Owed(rest[i])
      BY <1>1, <2>3, OwedMember
    <3> QED BY <1>1, <1>3, <3>1, OwedMember
  <2> QED BY <2>1, <2>2, <2>3
<1>5. EventsOf(rest) \subseteq EventsOf(list)
  <2>1. ASSUME NEW e \in EventsOf(rest) PROVE e \in EventsOf(list)
    <3>1. PICK i \in 1 .. Len(rest) : rest[i].event = e
      BY <1>1, EventsMember
    <3> QED BY <1>1, <1>3, <3>1, EventsMember
  <2> QED BY <2>1
<1>6. Head(list).event \in EventsOf(list)
  <2>1. 1 \in 1 .. Len(list)
    BY <1>1
  <2> QED BY <1>1, <2>1, EventsMember
<1> QED BY <1>1, <1>4, <1>5, <1>6 DEF rest

LEMMA StampList ==
    ASSUME NEW list \in Seq(DataEvent), NEW k \in 1 .. Len(list),
           NEW how \in {"absent", "on", "off"}
    PROVE  /\ SetStamp(list, k, how) \in Seq(DataEvent)
           /\ SetStamp(list, k, how) # <<>>
           /\ Len(SetStamp(list, k, how)) = Len(list)
           /\ SetStamp(list, k, how)[k].event = list[k].event
           /\ SetStamp(list, k, how)[k].stamp = how
           /\ EventsOf(SetStamp(list, k, how)) = EventsOf(list)
           /\ how = "off" =>
                 OwedIn(SetStamp(list, k, how)) = OwedIn(list) \cup {<<"stamp", list[k].event>>}
           /\ how # "off" =>
                 /\ OwedIn(SetStamp(list, k, how)) \subseteq OwedIn(list)
                 /\ OwedIn(list) \ {<<"stamp", list[k].event>>}
                       \subseteq OwedIn(SetStamp(list, k, how))
           /\ how # "off" /\ list[k].stamp # "off" =>
                 OwedIn(SetStamp(list, k, how)) = OwedIn(list)
<1> DEFINE new == SetStamp(list, k, how)
           f == <<"stamp", list[k].event>>
<1>0. list[k] \in DataEvent
  OBVIOUS
<1>1. [list[k] EXCEPT !.stamp = how] \in DataEvent
  BY <1>0 DEF DataEvent
<1>2. /\ new \in Seq(DataEvent) /\ new # <<>> /\ Len(new) = Len(list)
      /\ new[k] = [list[k] EXCEPT !.stamp = how]
      /\ \A i \in 1 .. Len(list) : i # k => new[i] = list[i]
  BY <1>1 DEF SetStamp
<1>3. /\ new[k].event = list[k].event /\ new[k].enabled = list[k].enabled
      /\ new[k].stamp = how
  BY <1>0, <1>2 DEF DataEvent
<1> HIDE DEF new
<1>11. \A i \in 1 .. Len(list) : new[i].event = list[i].event
  BY <1>2, <1>3
<1>4. EventsOf(new) = EventsOf(list)
  <2>1. ASSUME NEW e PROVE e \in EventsOf(new) <=> e \in EventsOf(list)
    BY SMTT(60), <1>2, <1>11, EventsMember
  <2> QED BY <2>1
<1>5. /\ how = "off" => Owed(new[k]) = Owed(list[k]) \cup {f}
      /\ how # "off" => Owed(new[k]) = Owed(list[k]) \ {f}
  BY <1>3 DEF Owed
<1>6. list[k].stamp # "off" => f \notin Owed(list[k])
  BY DEF Owed
<1>7. ASSUME NEW g, g # f PROVE g \in OwedIn(new) <=> g \in OwedIn(list)
  BY <1>2, <1>5, <1>7, OwedMember
<1>8. how = "off" => f \in OwedIn(new)
  BY <1>2, <1>5, OwedMember
<1>9. how # "off" /\ f \in OwedIn(new) => f \in OwedIn(list)
  BY <1>2, <1>5, OwedMember
<1>10. how # "off" /\ list[k].stamp # "off" /\ f \in OwedIn(list) => f \in OwedIn(new)
  <2>1. SUFFICES ASSUME how # "off", list[k].stamp # "off", f \in OwedIn(list)
                 PROVE  f \in OwedIn(new)
    OBVIOUS
  <2>2. PICK i \in 1 .. Len(list) : f \in Owed(list[i])
    BY <2>1, OwedMember
  <2>3. i # k
    BY <1>6, <2>1, <2>2
  <2> QED BY <1>2, <2>2, <2>3, OwedMember
<1>12. how = "off" => OwedIn(new) = OwedIn(list) \cup {f}
  BY <1>7, <1>8
<1>13. how # "off" => /\ OwedIn(new) \subseteq OwedIn(list)
                      /\ OwedIn(list) \ {f} \subseteq OwedIn(new)
  BY <1>7, <1>9
<1>14. how # "off" /\ list[k].stamp # "off" => OwedIn(new) = OwedIn(list)
  BY <1>10, <1>13
<1> QED BY <1>2, <1>3, <1>4, <1>12, <1>12, <1>13, <1>14 DEF new

\* A record whose timestamp setting was off owes it, besides what it owed.
LEMMA StampOff ==
    ASSUME NEW list \in Seq(DataEvent), NEW k \in 1 .. Len(list)
    PROVE  /\ SetStamp(list, k, "off") \in Seq(DataEvent)
           /\ EventsOf(SetStamp(list, k, "off")) = EventsOf(list)
           /\ OwedIn(SetStamp(list, k, "off")) = OwedIn(list) \cup {<<"stamp", list[k].event>>}
<1>1. "off" \in {"absent", "on", "off"}
  OBVIOUS
<1> QED BY <1>1, StampList, ZenonT(60)

\* A record that owes no timestamp owes the same files after it was read.
LEMMA StampKept ==
    ASSUME NEW list \in Seq(DataEvent), NEW k \in 1 .. Len(list),
           NEW how \in {"absent", "on"}, list[k].stamp = "absent"
    PROVE  /\ SetStamp(list, k, how) \in Seq(DataEvent)
           /\ EventsOf(SetStamp(list, k, how)) = EventsOf(list)
           /\ OwedIn(SetStamp(list, k, how)) = OwedIn(list)
<1>1. /\ SetStamp(list, k, "absent") \in Seq(DataEvent)
      /\ EventsOf(SetStamp(list, k, "absent")) = EventsOf(list)
      /\ OwedIn(SetStamp(list, k, "absent")) = OwedIn(list)
  BY StampList
<1>2. /\ SetStamp(list, k, "on") \in Seq(DataEvent)
      /\ EventsOf(SetStamp(list, k, "on")) = EventsOf(list)
      /\ OwedIn(SetStamp(list, k, "on")) = OwedIn(list)
  BY StampList
<1> QED BY <1>1, <1>2

-----------------------------------------------------------------------------
(* What a status of ScmiWrite does to the records *)

LEMMA FileCases ==
    ASSUME NEW c \in Collectors
    PROVE  /\ pc[c] = "telemetry" => FileOf(c) = <<"telemetry", SocketOf[c]>>
           /\ pc[c] = "enable" => FileOf(c) = <<"enable", event[c]>>
           /\ pc[c] = "stamp" => FileOf(c) = <<"stamp", event[c]>>
           /\ pc[c] = "undo" /\ Front(c).stamp = "off" =>
                 FileOf(c) = <<"stamp", Front(c).event>>
           /\ pc[c] = "undo" /\ Front(c).stamp # "off" =>
                 FileOf(c) = <<"enable", Front(c).event>>
BY DEF FileOf

\* The records stay well-typed, and what they owe changes by the file written.
LEMMA ReturnedRecords ==
    ASSUME RecordsType, CallType, NEW c \in Collectors, ControlOf(c), Writing(c),
           NEW ok \in BOOLEAN, Returned(c, ok)
    PROVE  /\ RecordsType'
           /\ \A d \in Collectors \ {c} : touched'[d] = touched[d]
           /\ pc[c] = "telemetry" \/ (pc[c] # "undo" /\ ~ ok) => touched'[c] = touched[c]
           /\ pc[c] \in {"enable", "stamp"} /\ ok =>
                 /\ OwedIn(touched'[c]) = OwedIn(touched[c]) \cup {FileOf(c)}
                 /\ EventsOf(touched'[c]) = EventsOf(touched[c]) \cup {event[c]}
           /\ pc[c] = "enable" /\ ok =>
                 /\ touched'[c] # <<>>
                 /\ touched'[c][Len(touched'[c])].event = event[c]
                 /\ touched'[c][Len(touched'[c])].stamp = "absent"
           /\ pc[c] = "undo" /\ ok =>
                 /\ OwedIn(touched'[c]) \subseteq OwedIn(touched[c])
                 /\ OwedIn(touched[c]) \subseteq OwedIn(touched'[c]) \cup {FileOf(c)}
                 /\ EventsOf(touched'[c]) \subseteq EventsOf(touched[c])
           /\ pc[c] = "undo" /\ ~ ok => touched'[c] = <<>>
           /\ pc[c] = "undo" =>
                 Front(c).event \in EventsOf(touched[c]) /\ FileOf(c) \in OwedIn(touched[c])
<1> DEFINE list == touched[c]
<1>1. list \in Seq(DataEvent)
  BY DEF RecordsType
<1>2. CASE pc[c] = "telemetry" \/ (pc[c] # "undo" /\ ~ ok)
  <2>1. UNCHANGED touched
    BY <1>2 DEF Returned
  <2> QED BY <1>2, <2>1 DEF RecordsType
<1>3. CASE pc[c] = "enable" /\ ok
  <2> DEFINE r == [event |-> event[c], enabled |-> FALSE, stamp |-> "absent"]
  <2>1. touched' = [touched EXCEPT ![c] = Append(@, r)]
    BY <1>3 DEF Returned, Record
  <2>2. event[c] \in Events
    BY <1>3 DEF ControlOf, CallType
  <2>3. r \in DataEvent /\ r.event = event[c] /\ r.stamp = "absent"
    BY <2>2 DEF DataEvent
  <2>4. Owed(r) = {<<"enable", event[c]>>}
    BY DEF Owed
  <2>5. touched'[c] = Append(list, r) /\ \A d \in Collectors \ {c} : touched'[d] = touched[d]
    BY <2>1 DEF RecordsType
  <2> HIDE DEF r
  <2>6. RecordsType'
    BY <1>1, <2>1, <2>3, AppendList DEF RecordsType
  <2>7. /\ Append(list, r) # <<>> /\ Append(list, r)[Len(Append(list, r))] = r
        /\ OwedIn(Append(list, r)) = OwedIn(list) \cup Owed(r)
        /\ EventsOf(Append(list, r)) = EventsOf(list) \cup {r.event}
    BY <1>1, <2>3, AppendList
  <2>8. FileOf(c) = <<"enable", event[c]>>
    BY <1>3, FileCases
  <2> QED BY <1>3, <2>3, <2>4, <2>5, <2>6, <2>7, <2>8
<1>4. CASE pc[c] = "stamp" /\ ok
  <2> DEFINE k == Len(list)
             new == SetStamp(list, k, "off")
  <2>1. list # <<>> /\ list[k].event = event[c] /\ event[c] \in Events
    BY <1>4 DEF ControlOf, LastOf, CallType
  <2>2. k \in 1 .. Len(list)
    BY <1>1, <2>1
  <2>3. touched' = [touched EXCEPT ![c] = new]
    BY <1>4 DEF Returned, Stamp
  <2>4. touched'[c] = new /\ \A d \in Collectors \ {c} : touched'[d] = touched[d]
    BY <2>3 DEF RecordsType
  <2> HIDE DEF k
  <2>5. /\ new \in Seq(DataEvent) /\ EventsOf(new) = EventsOf(list)
        /\ OwedIn(new) = OwedIn(list) \cup {<<"stamp", list[k].event>>}
    BY <1>1, <2>2, StampOff
  <2>6. event[c] \in EventsOf(list)
    BY <1>1, <2>1, <2>2, EventsMember
  <2> HIDE DEF new
  <2>7. RecordsType'
    BY <2>3, <2>5 DEF RecordsType
  <2>8. FileOf(c) = <<"stamp", event[c]>>
    BY <1>4, FileCases
  <2> QED BY <1>4, <2>1, <2>4, <2>5, <2>6, <2>7, <2>8
<1>5. CASE pc[c] = "undo"
  <2> DEFINE r == Head(list)
  <2>1. list # <<>> /\ Owed(r) # {}
    BY <1>5 DEF Writing, Front
  <2>2. /\ Tail(list) \in Seq(DataEvent) /\ r \in DataEvent
        /\ OwedIn(list) = Owed(r) \cup OwedIn(Tail(list))
        /\ EventsOf(Tail(list)) \subseteq EventsOf(list)
        /\ r.event \in EventsOf(list)
    BY <1>1, <2>1, TailList
  <2>3. 1 \in 1 .. Len(list) /\ list[1] = r
    BY <1>1, <2>1
  <2>4. touched' = [touched EXCEPT ![c] =
              IF ~ ok THEN <<>> ELSE IF r.stamp = "off"
                   THEN SetStamp(@, 1, "absent") ELSE Tail(@)]
    BY <1>5 DEF Returned, Front
  <2>5. \A d \in Collectors \ {c} : touched'[d] = touched[d]
    BY <2>4 DEF RecordsType
  <2>6. FileOf(c) \in Owed(r)
    BY <1>5, <2>1, FileCases DEF Front, Owed
  <2>7. CASE ~ ok
    <3>1. touched'[c] = <<>>
      BY <2>4, <2>7 DEF RecordsType
    <3>2. RecordsType'
      BY <2>4, <2>7 DEF RecordsType
    <3> QED BY <1>5, <2>2, <2>5, <2>6, <2>7, <3>1, <3>2 DEF Front
  <2>8. CASE ok /\ r.stamp = "off"
    <3> DEFINE new == SetStamp(list, 1, "absent")
    <3>1. touched' = [touched EXCEPT ![c] = new]
      BY <2>4, <2>8
    <3>2. touched'[c] = new
      BY <3>1 DEF RecordsType
    <3>3. /\ new \in Seq(DataEvent) /\ EventsOf(new) = EventsOf(list)
          /\ OwedIn(new) \subseteq OwedIn(list)
          /\ OwedIn(list) \ {<<"stamp", list[1].event>>} \subseteq OwedIn(new)
      BY ZenonT(60), <1>1, <2>3, StampList
    <3> HIDE DEF new
    <3>4. RecordsType'
      BY <3>1, <3>3 DEF RecordsType
    <3>5. FileOf(c) = <<"stamp", list[1].event>>
      BY <1>5, <2>3, <2>8, FileCases DEF Front
    <3> QED BY <1>5, <2>2, <2>5, <2>6, <2>8, <3>2, <3>3, <3>4, <3>5 DEF Front
  <2>9. CASE ok /\ r.stamp # "off"
    <3>1. touched' = [touched EXCEPT ![c] = Tail(list)]
      BY <2>4, <2>9
    <3>2. touched'[c] = Tail(list)
      BY <3>1 DEF RecordsType
    <3>3. RecordsType'
      BY <2>2, <3>1 DEF RecordsType
    <3>4. Owed(r) \subseteq {FileOf(c)}
      BY <1>5, <2>9, FileCases DEF Front, Owed
    <3> QED BY <1>5, <2>2, <2>5, <2>6, <2>9, <3>2, <3>3, <3>4 DEF Front
  <2> QED BY <2>7, <2>8, <2>9
<1>6. pc[c] \in {"telemetry", "enable", "stamp", "undo"}
  BY DEF Writing
<1> QED BY <1>2, <1>3, <1>4, <1>5, <1>6

-----------------------------------------------------------------------------
(* The steps that write nothing *)

\* The local part of the invariant from the new values at the collector.
LEMMA QuietLocal ==
    ASSUME NEW c \in Collectors, LocalOf(c),
           UNCHANGED <<mine, holdsRef>>, touched'[c] = touched[c],
           ControlOf(c)', todo'[c] \subseteq Wanted[c],
           event'[c] # None => event'[c] \in Wanted[c],
           pc'[c] \in {"enable", "stamp"} => FileOf(c)' \notin InitiallyOn,
           IdleOf(c)'
    PROVE  LocalOf(c)'
BY DEF LocalOf, OwnOf, CoveredOf, BackedOf, WritableOf, OriginalsOf

LEMMA StartUndoLocal ==
    ASSUME NEW c \in Collectors, TypeOK, LocalOf(c), NEW why, StartUndo(c, why),
           UNCHANGED <<mine, holdsRef, checked>>, ~ checked[c], touched'[c] = touched[c]
    PROVE  LocalOf(c)'
<1>1. pc'[c] = "undo" /\ todo'[c] = {} /\ event'[c] = None /\ ~ checked'[c]
  BY DEF StartUndo, Goto, TypeOK, CallType
<1>2. ControlOf(c)'
  BY <1>1 DEF ControlOf, Configuring
<1>3. IdleOf(c)'
  BY <1>1 DEF IdleOf, Idle
<1> QED BY <1>1, <1>2, <1>3, QuietLocal

LEMMA NotWriting ==
    ASSUME NEW c \in Collectors, LocalOf(c), ~ Writing(c) \/ c \in Ioctl, TypeOK
    PROVE  checked[c] = FALSE
BY DEF LocalOf, ControlOf, TypeOK, CallType

LEMMA ConfigureLocal ==
    ASSUME NEW c \in Collectors, TypeOK, LocalOf(c), ConfigureCollection(c)
    PROVE  LocalOf(c)'
<1>1. pc[c] = "idle" /\ ~ checked[c]
  BY NotWriting DEF ConfigureCollection, Idle, Writing
<1>2. /\ UNCHANGED <<mine, holdsRef>> /\ touched'[c] = touched[c] /\ event'[c] = event[c]
      /\ ~ checked'[c]
      /\ \/ pc'[c] = "undo"
         \/ pc'[c] = "telemetry" /\ state[c] # "CONFIGURED" /\ state[c] # "STARTED"
  BY <1>1 DEF ConfigureCollection, Goto, shared, history, TypeOK, CallType
<1>3. todo'[c] \subseteq Wanted[c]
  BY DEF ConfigureCollection, TypeOK, CallType
<1>4. state[c] \in States
  BY DEF TypeOK, CallType
<1>5. pc'[c] = "telemetry" => touched'[c] = <<>>
  BY <1>1, <1>2, <1>4 DEF LocalOf, IdleOf, Idle, States
<1>6. ControlOf(c)'
  BY <1>2, <1>5 DEF ControlOf, Configuring
<1>7. IdleOf(c)'
  BY <1>2 DEF IdleOf, Idle
<1>8. event[c] # None => event[c] \in Wanted[c]
  BY DEF LocalOf, OwnOf
<1> QED BY <1>2, <1>3, <1>6, <1>7, <1>8, QuietLocal

LEMMA StartLocal ==
    ASSUME NEW c \in Collectors, TypeOK, LocalOf(c), StartCollection(c)
    PROVE  LocalOf(c)'
<1>1. pc[c] = "idle" /\ ~ checked[c] /\ state[c] = "CONFIGURED"
  BY NotWriting DEF StartCollection, Idle, Writing
<1>2. /\ UNCHANGED <<mine, holdsRef, touched, event, todo, pc, checked>>
      /\ state'[c] \in {"CONFIGURED", "STARTED"}
  BY <1>1 DEF StartCollection, shared, history, TypeOK, CallType
<1>3. ControlOf(c)'
  BY <1>1, <1>2 DEF ControlOf, Configuring
<1>4. IdleOf(c)'
  BY <1>2 DEF IdleOf
<1> QED BY <1>1, <1>2, <1>3, <1>4, QuietLocal DEF LocalOf, OwnOf

LEMMA StopLocal ==
    ASSUME NEW c \in Collectors, TypeOK, LocalOf(c),
           StopCollection(c) \/ ClearCollectionState(c) \/ Destroy(c)
    PROVE  LocalOf(c)'
<1>1. pc[c] = "idle" /\ ~ checked[c]
  BY NotWriting DEF StopCollection, ClearCollectionState, Destroy, Idle, Writing
<1>2. CASE \E why \in Reasons : StartUndo(c, why)
  BY <1>1, <1>2, StartUndoLocal
     DEF StopCollection, ClearCollectionState, Destroy, Discard, shared, history
<1>3. CASE UNCHANGED <<pc, event, todo, state>> /\ StopCollection(c)
  <2>1. UNCHANGED <<mine, holdsRef, touched, event, todo, pc, checked, state>>
    BY <1>3 DEF StopCollection, shared, history
  <2>2. ControlOf(c)'
    BY <1>1, <2>1 DEF ControlOf, Configuring
  <2>3. IdleOf(c)'
    BY <2>1 DEF IdleOf, Idle, LocalOf
  <2> QED BY <1>1, <2>1, <2>2, <2>3, QuietLocal DEF LocalOf, OwnOf
<1> QED
  BY <1>2, <1>3 DEF StopCollection, ClearCollectionState, Destroy, Discard, Reasons

LEMMA FinishLocal ==
    ASSUME NEW c \in Collectors, TypeOK, LocalOf(c), FinishConfigure(c)
    PROVE  LocalOf(c)'
<1>1. pc[c] = "next" /\ ~ checked[c] /\ state[c] = "CONFIGURED"
  BY NotWriting DEF FinishConfigure, Writing, LocalOf, ControlOf, Configuring
<1>2. CASE StartUndo(c, "failed")
  BY <1>1, <1>2, StartUndoLocal DEF FinishConfigure, shared
<1>3. CASE Goto(c, "idle") /\ UNCHANGED <<todo, event, leaving>>
  <2>1. UNCHANGED <<mine, holdsRef, touched, event, todo, checked, state>> /\ pc'[c] = "idle"
    BY <1>3 DEF FinishConfigure, Goto, shared, TypeOK, CallType
  <2>2. ControlOf(c)'
    BY <1>1, <2>1 DEF ControlOf, Configuring
  <2>3. IdleOf(c)'
    BY <1>1, <2>1 DEF IdleOf
  <2> QED BY <1>1, <2>1, <2>2, <2>3, QuietLocal DEF LocalOf, OwnOf
<1> QED BY <1>2, <1>3 DEF FinishConfigure

\* The same where the list of records changes but owes the same files.
LEMMA SameOwedLocal ==
    ASSUME NEW c \in Collectors, LocalOf(c), UNCHANGED <<mine, holdsRef>>,
           OwedIn(touched'[c]) = OwedIn(touched[c]), EventsOf(touched'[c]) \subseteq Wanted[c],
           ControlOf(c)', todo'[c] \subseteq Wanted[c],
           event'[c] # None => event'[c] \in Wanted[c],
           pc'[c] \in {"enable", "stamp"} => FileOf(c)' \notin InitiallyOn,
           IdleOf(c)'
    PROVE  LocalOf(c)'
BY DEF LocalOf, OwnOf, CoveredOf, BackedOf, WritableOf, OriginalsOf

LEMMA ReadEnableLocal ==
    ASSUME NEW c \in Collectors, TypeOK, LocalOf(c), OriginalsStayOn,
           NEW e \in Events, ReadEnable(c, e)
    PROVE  LocalOf(c)' /\ RecordsType'
<1> DEFINE list == touched[c]
           r == [event |-> e, enabled |-> TRUE, stamp |-> "absent"]
<1>1. /\ c \notin Ioctl /\ pc[c] = "next" /\ ~ checked[c] /\ state[c] = "CONFIGURED"
      /\ e \in Wanted[c] /\ list \in Seq(DataEvent)
  BY NotWriting DEF ReadEnable, Writing, LocalOf, ControlOf, OwnOf, Configuring,
     TypeOK, RecordsType
<1>2. CASE StartUndo(c, "failed") /\ UNCHANGED touched
  BY <1>1, <1>2, StartUndoLocal DEF ReadEnable, shared, TypeOK, RecordsType
<1>3. CASE ~ (StartUndo(c, "failed") /\ UNCHANGED touched)
  <2>1. /\ UNCHANGED <<mine, holdsRef, checked, state>>
        /\ todo'[c] = todo[c] \ {e} /\ event'[c] = e
        /\ \/ /\ touched' = [touched EXCEPT ![c] = Append(@, r)]
              /\ pc'[c] = "stamp?"
           \/ <<"enable", e>> \notin on /\ pc'[c] = "enable" /\ UNCHANGED touched
    BY <1>3 DEF ReadEnable, Record, Goto, shared, TypeOK, CallType
  <2>2. todo'[c] \subseteq Wanted[c] /\ event'[c] # None
    BY <1>1, <2>1, CollectorAssumption DEF LocalOf, OwnOf, CollectorAssumption
  <2>3. CASE pc'[c] = "enable" /\ UNCHANGED touched /\ <<"enable", e>> \notin on
    <3>1. ControlOf(c)'
      BY <1>1, <2>1, <2>2, <2>3 DEF ControlOf
    <3>2. IdleOf(c)'
      BY <2>3 DEF IdleOf, Idle
    <3>3. FileOf(c)' \notin InitiallyOn
      BY <2>1, <2>3 DEF FileOf, OriginalsStayOn
    <3>4. EventsOf(touched[c]) \subseteq Wanted[c]
      BY DEF LocalOf, OwnOf
    <3> QED BY <1>1, <2>1, <2>2, <2>3, <3>1, <3>2, <3>3, <3>4, SameOwedLocal
               DEF TypeOK, RecordsType
  <2>4. CASE touched' = [touched EXCEPT ![c] = Append(@, r)] /\ pc'[c] = "stamp?"
    <3>1. r \in DataEvent /\ r.event = e /\ r.stamp = "absent" /\ Owed(r) = {}
      BY DEF DataEvent, Owed
    <3> HIDE DEF r
    <3>2. /\ Append(list, r) \in Seq(DataEvent) /\ Append(list, r) # <<>>
          /\ Append(list, r)[Len(Append(list, r))] = r
          /\ OwedIn(Append(list, r)) = OwedIn(list) \cup Owed(r)
          /\ EventsOf(Append(list, r)) = EventsOf(list) \cup {r.event}
      BY <1>1, <3>1, AppendList
    <3>3. touched'[c] = Append(list, r)
      BY <2>4 DEF TypeOK, RecordsType
    <3>4. RecordsType'
      BY <2>4, <3>2 DEF TypeOK, RecordsType
    <3>5. ControlOf(c)'
      BY <1>1, <2>1, <2>2, <2>4, <3>1, <3>2, <3>3 DEF ControlOf, LastOf
    <3>6. IdleOf(c)'
      BY <2>4 DEF IdleOf, Idle
    <3>7. EventsOf(touched'[c]) \subseteq Wanted[c] /\ OwedIn(touched'[c]) = OwedIn(list)
      BY <1>1, <3>1, <3>2, <3>3 DEF LocalOf, OwnOf
    <3> QED BY <1>1, <2>1, <2>2, <2>4, <3>4, <3>5, <3>6, <3>7, SameOwedLocal
  <2> QED BY <2>1, <2>3, <2>4
<1> QED BY <1>2, <1>3

LEMMA ReadStampLocal ==
    ASSUME NEW c \in Collectors, TypeOK, LocalOf(c), OriginalsStayOn, ReadStamp(c)
    PROVE  LocalOf(c)' /\ RecordsType'
<1> DEFINE list == touched[c]
           k == Len(list)
<1>1. /\ pc[c] = "stamp?" /\ ~ checked[c] /\ state[c] = "CONFIGURED" /\ c \notin Ioctl
      /\ event[c] # None /\ event[c] \in Wanted[c] /\ todo[c] \subseteq Wanted[c]
      /\ list # <<>> /\ list[k].event = event[c] /\ list[k].stamp = "absent"
      /\ list \in Seq(DataEvent) /\ EventsOf(list) \subseteq Wanted[c]
  BY NotWriting DEF ReadStamp, Writing, LocalOf, ControlOf, OwnOf, Configuring, LastOf,
     TypeOK, RecordsType
<1>2. CASE StartUndo(c, "failed") /\ UNCHANGED <<touched, software>>
  BY <1>1, <1>2, StartUndoLocal DEF ReadStamp, shared, TypeOK, RecordsType
<1>3. CASE ~ (StartUndo(c, "failed") /\ UNCHANGED <<touched, software>>)
  <2>1. UNCHANGED <<mine, holdsRef, checked, state, todo>>
    BY <1>3 DEF ReadStamp, shared
  <2>2. \/ pc'[c] = "next" /\ event'[c] = None /\ UNCHANGED touched
        \/ /\ pc'[c] = "stamp" /\ UNCHANGED <<touched, event>>
           /\ <<"stamp", event[c]>> \notin on
        \/ \E how \in {"absent", "on"} :
              /\ touched' = [touched EXCEPT ![c] = SetStamp(@, Len(@), how)]
              /\ pc'[c] = "next" /\ event'[c] = None
    BY <1>3 DEF ReadStamp, Stamp, Goto, TypeOK, CallType
  <2>3. CASE pc'[c] = "next" /\ event'[c] = None /\ UNCHANGED touched
    <3>1. ControlOf(c)' /\ IdleOf(c)'
      BY <1>1, <2>1, <2>3 DEF ControlOf, IdleOf, Idle
    <3> QED BY <1>1, <2>1, <2>3, <3>1, SameOwedLocal DEF TypeOK, RecordsType
  <2>4. CASE /\ pc'[c] = "stamp" /\ UNCHANGED <<touched, event>>
             /\ <<"stamp", event[c]>> \notin on
    <3>1. ControlOf(c)' /\ IdleOf(c)'
      BY <1>1, <2>1, <2>4 DEF ControlOf, IdleOf, Idle, LastOf
    <3>2. FileOf(c)' \notin InitiallyOn
      BY <2>4 DEF FileOf, OriginalsStayOn
    <3> QED BY <1>1, <2>1, <2>4, <3>1, <3>2, SameOwedLocal DEF TypeOK, RecordsType
  <2>5. ASSUME NEW how \in {"absent", "on"},
               touched' = [touched EXCEPT ![c] = SetStamp(@, Len(@), how)],
               pc'[c] = "next", event'[c] = None
        PROVE  LocalOf(c)' /\ RecordsType'
    <3>1. k \in 1 .. Len(list)
      BY <1>1
    <3>2. touched' = [touched EXCEPT ![c] = SetStamp(list, k, how)]
      BY <2>5
    <3> HIDE DEF k
    <3>3. /\ SetStamp(list, k, how) \in Seq(DataEvent)
          /\ EventsOf(SetStamp(list, k, how)) = EventsOf(list)
          /\ OwedIn(SetStamp(list, k, how)) = OwedIn(list)
      BY <1>1, <3>1, StampKept
    <3>4. touched'[c] = SetStamp(list, k, how) /\ RecordsType'
      BY <3>2, <3>3 DEF TypeOK, RecordsType
    <3>5. ControlOf(c)' /\ IdleOf(c)'
      BY <1>1, <2>1, <2>5 DEF ControlOf, IdleOf, Idle
    <3> QED BY <1>1, <2>1, <2>5, <3>3, <3>4, <3>5, SameOwedLocal
  <2> QED BY <2>2, <2>3, <2>4, <2>5
<1> QED BY <1>2, <1>3

LEMMA SkipLocal ==
    ASSUME NEW c \in Collectors, TypeOK, LocalOf(c), SkipRecord(c)
    PROVE  LocalOf(c)' /\ RecordsType'
<1> DEFINE list == touched[c]
<1>1. /\ pc[c] = "undo" /\ list # <<>> /\ Owed(Head(list)) = {} /\ list \in Seq(DataEvent)
      /\ ~ checked[c] /\ EventsOf(list) \subseteq Wanted[c]
  BY NotWriting DEF SkipRecord, Front, Writing, TypeOK, RecordsType, LocalOf, OwnOf
<1>2. /\ UNCHANGED <<mine, holdsRef, checked, state, todo, pc, event>>
      /\ touched' = [touched EXCEPT ![c] = Tail(list)]
  BY DEF SkipRecord, shared, history
<1>3. /\ Tail(list) \in Seq(DataEvent) /\ OwedIn(list) = OwedIn(Tail(list))
      /\ EventsOf(Tail(list)) \subseteq EventsOf(list)
  BY <1>1, TailList
<1>4. touched'[c] = Tail(list) /\ RecordsType'
  BY <1>2, <1>3 DEF TypeOK, RecordsType
<1>5. ControlOf(c)' /\ IdleOf(c)'
  BY <1>1, <1>2 DEF ControlOf, IdleOf, Idle, Configuring
<1> QED BY <1>1, <1>2, <1>3, <1>4, <1>5, SameOwedLocal DEF LocalOf, OwnOf

LEMMA LeaveLocal ==
    ASSUME NEW c \in Collectors, TypeOK, LockFollowsReferences, LocalOf(c), Leave(c)
    PROVE  LocalOf(c)'
<1>1. /\ pc[c] = "undo" /\ touched[c] = <<>> /\ ~ checked[c]
  BY NotWriting DEF Leave, Writing
<1>2. mine[c] = {}
  <2>1. OwedIn(<<>>) = {}
    BY DEF OwedIn
  <2> QED BY <1>1, <2>1 DEF LocalOf, CoveredOf
<1>3. holdsRef' = [holdsRef EXCEPT ![c] = FALSE]
  BY ReleaseKeepsCount DEF Leave, TypeOK
<1>4. /\ UNCHANGED <<mine, touched, checked, todo, event>> /\ ~ holdsRef'[c]
      /\ pc'[c] \in {"telemetry", "idle"}
  BY <1>3 DEF Leave, Goto, history, TypeOK, CallType, LockType
<1>5. ControlOf(c)'
  BY <1>1, <1>4 DEF ControlOf, Configuring
<1>6. IdleOf(c)'
  BY <1>1, <1>2, <1>4 DEF IdleOf
<1> QED BY <1>1, <1>2, <1>4, <1>5, <1>6
           DEF LocalOf, OwnOf, CoveredOf, BackedOf, WritableOf, OriginalsOf

-----------------------------------------------------------------------------
(* The steps of ScmiWrite *)

LEMMA ReturnedControl ==
    ASSUME NEW c \in Collectors, TypeOK, LocalOf(c), Writing(c), c \notin Ioctl,
           NEW ok \in BOOLEAN, Returned(c, ok), ~ checked'[c]
    PROVE  /\ ControlOf(c)' /\ OwnOf(c)' /\ IdleOf(c)' /\ RecordsType'
           /\ pc'[c] \notin {"enable", "stamp"}
<1> USE DEF TypeOK
<1>1. ControlOf(c)
  BY DEF LocalOf
<1>2. RecordsType'
  BY <1>1, ReturnedRecords
<1>3. pc[c] \in {"telemetry", "enable", "stamp", "undo"}
  BY DEF Writing
<1>4. EventsOf(touched[c]) \subseteq Wanted[c] /\ todo[c] \subseteq Wanted[c]
  BY DEF LocalOf, OwnOf
<1>5. CASE pc[c] = "telemetry" /\ ok
  <2>1. /\ pc'[c] = "next" /\ state'[c] = "CONFIGURED" /\ UNCHANGED <<touched, todo, event>>
    BY <1>5 DEF Returned, Goto, CallType
  <2> QED BY <1>2, <2>1 DEF LocalOf, ControlOf, OwnOf, IdleOf, Idle
<1>6. CASE pc[c] = "enable" /\ ok
  <2>1. /\ pc'[c] = "stamp?" /\ state'[c] = state[c] /\ UNCHANGED <<todo, event>>
    BY <1>6 DEF Returned, Goto, CallType
  <2>2. /\ touched'[c] # <<>>
        /\ touched'[c][Len(touched'[c])].event = event[c]
        /\ touched'[c][Len(touched'[c])].stamp = "absent"
        /\ EventsOf(touched'[c]) = EventsOf(touched[c]) \cup {event[c]}
    BY <1>1, <1>6, ReturnedRecords
  <2>3. ControlOf(c)'
    BY <1>1, <1>6, <2>1, <2>2 DEF ControlOf, LastOf, Configuring
  <2>4. OwnOf(c)'
    BY <1>1, <1>4, <1>6, <2>1, <2>2 DEF LocalOf, OwnOf, ControlOf
  <2> QED BY <1>2, <2>1, <2>3, <2>4 DEF IdleOf, Idle
<1>7. CASE pc[c] = "stamp" /\ ok
  <2>1. /\ pc'[c] = "next" /\ state'[c] = state[c] /\ UNCHANGED todo /\ event'[c] = None
    BY <1>7 DEF Returned, Stamp, Goto, CallType
  <2>2. EventsOf(touched'[c]) = EventsOf(touched[c]) \cup {event[c]}
    BY <1>1, <1>7, ReturnedRecords
  <2>3. ControlOf(c)'
    BY <1>1, <1>7, <2>1 DEF ControlOf, Configuring
  <2>4. OwnOf(c)'
    BY <1>1, <1>4, <1>7, <2>1, <2>2 DEF LocalOf, OwnOf, ControlOf
  <2> QED BY <1>2, <2>1, <2>3, <2>4 DEF IdleOf, Idle
<1>8. CASE pc[c] # "undo" /\ ~ ok
  <2>1. /\ pc'[c] = "undo" /\ todo'[c] = {} /\ event'[c] = None /\ UNCHANGED touched
    BY <1>8 DEF Returned, StartUndo, Goto, CallType
  <2> QED BY <1>2, <1>4, <2>1 DEF ControlOf, Configuring, OwnOf, IdleOf, Idle
<1>9. CASE pc[c] = "undo"
  <2>1. UNCHANGED <<pc, state, todo, event>>
    BY <1>9 DEF Returned
  <2>2. EventsOf(touched'[c]) \subseteq EventsOf(touched[c])
    <3>1. EventsOf(<<>>) = {}
      BY DEF EventsOf
    <3> QED BY <1>1, <1>9, <3>1, ReturnedRecords
  <2> QED BY <1>2, <1>4, <1>9, <2>1, <2>2
             DEF LocalOf, ControlOf, Configuring, OwnOf, IdleOf, Idle
<1> QED BY <1>3, <1>5, <1>6, <1>7, <1>8, <1>9

\* The write failed, or was refused: nothing is added, and a restoring is over.
LEMMA FailedLocal ==
    ASSUME NEW c \in Collectors, TypeOK, LocalOf(c), Writing(c), c \notin Ioctl,
           Returned(c, FALSE), ~ checked'[c], holdsRef[c] => holdsRef'[c],
           mine'[c] = IF pc[c] = "undo" THEN {} ELSE mine[c]
    PROVE  LocalOf(c)' /\ RecordsType'
<1>1. /\ ControlOf(c)' /\ OwnOf(c)' /\ IdleOf(c)' /\ RecordsType'
      /\ pc'[c] \notin {"enable", "stamp"}
  BY ReturnedControl
<1>2. /\ pc[c] # "undo" => touched'[c] = touched[c]
      /\ pc[c] = "undo" => touched'[c] = <<>>
  BY ReturnedRecords DEF TypeOK, LocalOf
<1>3. OwedIn(<<>>) = {}
  BY DEF OwedIn
<1> QED BY <1>1, <1>2, <1>3 DEF LocalOf, CoveredOf, BackedOf, WritableOf, OriginalsOf

\* The file has the value that was asked for, or may not be written.
LEMMA DoneLocal ==
    ASSUME NEW c \in Collectors, TypeOK, LocalOf(c), Writing(c), c \notin Ioctl,
           Returned(c, TRUE), ~ checked'[c], holdsRef[c] => holdsRef'[c],
           \/ mine'[c] \subseteq mine[c] /\ pc[c] # "undo"
           \/ mine'[c] = mine[c] \ {FileOf(c)}
           \/ /\ pc[c] \in {"enable", "stamp"} /\ mine'[c] = mine[c] \cup {FileOf(c)}
              /\ holdsRef'[c] /\ FileOf(c) \notin ReadOnly
    PROVE  LocalOf(c)' /\ RecordsType'
<1>1. /\ ControlOf(c)' /\ OwnOf(c)' /\ IdleOf(c)' /\ RecordsType'
      /\ pc'[c] \notin {"enable", "stamp"}
  BY ReturnedControl
<1>2. /\ pc[c] = "telemetry" => touched'[c] = touched[c]
      /\ pc[c] \in {"enable", "stamp"} =>
            OwedIn(touched'[c]) = OwedIn(touched[c]) \cup {FileOf(c)}
      /\ pc[c] = "undo" => /\ OwedIn(touched'[c]) \subseteq OwedIn(touched[c])
                           /\ OwedIn(touched[c]) \subseteq OwedIn(touched'[c]) \cup {FileOf(c)}
  BY ReturnedRecords DEF TypeOK, LocalOf
<1>3. pc[c] \in {"telemetry", "enable", "stamp", "undo"}
  BY DEF Writing
<1>4. CoveredOf(c)'
  <2>1. mine[c] \subseteq OwedIn(touched[c])
    BY DEF LocalOf, CoveredOf
  <2>2. CASE pc[c] # "undo"
    BY <1>2, <1>3, <2>1, <2>2 DEF CoveredOf
  <2>3. CASE pc[c] = "undo"
    BY <1>2, <2>1, <2>3 DEF CoveredOf
  <2> QED BY <2>2, <2>3
<1>5. BackedOf(c)' /\ WritableOf(c)'
  BY DEF LocalOf, BackedOf, WritableOf
<1>6. OriginalsOf(c)'
  BY <1>1, <1>2, <1>3 DEF LocalOf, OriginalsOf
<1> QED BY <1>1, <1>4, <1>5, <1>6 DEF LocalOf

LEMMA WriteCheckLocal ==
    ASSUME NEW c \in Collectors, TypeOK, LocalOf(c), ScmiWriteCheck(c)
    PROVE  LocalOf(c)' /\ RecordsType'
<1>1. c \notin Ioctl /\ Writing(c) /\ ~ checked[c] /\ holdsRef' = holdsRef
  BY DEF ScmiWriteCheck, shared
<1>2. CASE Fails(c) /\ UNCHANGED checked
  <2>1. Returned(c, FALSE) /\ mine'[c] = IF pc[c] = "undo" THEN {} ELSE mine[c]
    BY <1>2 DEF Fails, TypeOK, HistoryType
  <2> QED BY <1>1, <1>2, <2>1, FailedLocal
<1>3. CASE /\ checked' = [checked EXCEPT ![c] = TRUE] /\ FileOf(c) \notin ReadOnly
           /\ UNCHANGED <<mine, state, touched, software, pc, todo, event, leaving>>
  <2>1. ControlOf(c)'
    BY <1>1, <1>3 DEF LocalOf, ControlOf, Writing, FileOf, Front, LastOf
  <2>2. FileOf(c)' = FileOf(c) /\ IdleOf(c)'
    BY <1>1, <1>3 DEF FileOf, Front, LocalOf, IdleOf, Idle
  <2> QED BY <1>1, <1>3, <2>1, <2>2 DEF TypeOK, RecordsType, LocalOf, OwnOf, CoveredOf,
             BackedOf, WritableOf, OriginalsOf
<1>4. CASE /\ Returned(c, TRUE) /\ UNCHANGED checked
           /\ mine' = [mine EXCEPT ![c] = IF SwitchingOn(c) THEN @ ELSE @ \ {FileOf(c)}]
  BY <1>1, <1>4, DoneLocal DEF SwitchingOn, TypeOK, HistoryType
<1> QED BY <1>2, <1>3, <1>4 DEF ScmiWriteCheck

LEMMA WriteFileLocal ==
    ASSUME NEW c \in Collectors, TypeOK, LockFollowsReferences, LocalOf(c), ScmiWriteFile(c)
    PROVE  LocalOf(c)' /\ RecordsType'
<1>1. /\ c \notin Ioctl /\ Writing(c) /\ FileOf(c) \notin ReadOnly /\ ~ checked'[c]
  BY DEF ScmiWriteFile, LocalOf, ControlOf, TypeOK, CallType
<1>2. MayLock(c) /\ AcquireProcessLock(c) => holdsRef' = [holdsRef EXCEPT ![c] = TRUE]
  BY AcquireKeepsCount DEF TypeOK
<1>3. CASE ~ MayLock(c) /\ Returned(c, FALSE) /\ UNCHANGED <<shared, spoiled, mine>>
  <2>1. mine[c] = {}
    BY <1>1, <1>3 DEF MayLock, LocalOf, BackedOf
  <2> QED BY <1>1, <1>3, <2>1, FailedLocal DEF shared
<1>4. CASE Fails(c) /\ (holdsRef[c] => holdsRef'[c])
  <2>1. Returned(c, FALSE) /\ mine'[c] = IF pc[c] = "undo" THEN {} ELSE mine[c]
    BY <1>4 DEF Fails, TypeOK, HistoryType
  <2> QED BY <1>1, <1>4, <2>1, FailedLocal
<1>5. CASE /\ MayLock(c) /\ AcquireProcessLock(c) /\ Returned(c, TRUE)
           /\ mine' = [mine EXCEPT ![c] =
                 IF pc[c] \in {"enable", "stamp"} THEN @ \cup {FileOf(c)} ELSE @ \ {FileOf(c)}]
  <2>1. holdsRef'[c]
    BY <1>2, <1>5 DEF TypeOK, LockType
  <2>2. mine'[c] = IF pc[c] \in {"enable", "stamp"} THEN mine[c] \cup {FileOf(c)}
                   ELSE mine[c] \ {FileOf(c)}
    BY <1>5 DEF TypeOK, HistoryType
  <2> QED BY <1>1, <1>5, <2>1, <2>2, DoneLocal
<1>6. MayLock(c) /\ AcquireProcessLock(c) => holdsRef'[c]
  BY <1>2 DEF TypeOK, LockType
<1> QED BY <1>3, <1>4, <1>5, <1>6 DEF ScmiWriteFile, shared

-----------------------------------------------------------------------------
(* The ioctl backend *)

LEMMA IoctlTelemetryLocal ==
    ASSUME NEW c \in Collectors, TypeOK, LocalOf(c), IoctlTelemetry(c)
    PROVE  LocalOf(c)' /\ RecordsType'
<1>1. /\ pc[c] = "telemetry" /\ ~ checked[c] /\ UNCHANGED <<mine, holdsRef, checked>>
      /\ EventsOf(touched[c]) \subseteq Wanted[c]
  BY NotWriting DEF IoctlTelemetry, LocalOf, OwnOf
<1>2. CASE Returned(c, FALSE)
  <2>1. StartUndo(c, "failed") /\ UNCHANGED touched
    BY <1>1, <1>2 DEF Returned
  <2> QED BY <1>1, <2>1, StartUndoLocal DEF TypeOK, RecordsType
<1>3. CASE Returned(c, TRUE)
  <2>1. pc'[c] = "next" /\ state'[c] = "CONFIGURED" /\ UNCHANGED <<touched, todo, event>>
    BY <1>1, <1>3 DEF Returned, Goto, TypeOK, CallType
  <2>2. ControlOf(c)' /\ IdleOf(c)'
    BY <1>1, <2>1 DEF ControlOf, IdleOf, Idle
  <2> QED BY <1>1, <2>1, <2>2, SameOwedLocal DEF TypeOK, RecordsType, LocalOf, OwnOf
<1> QED BY <1>2, <1>3 DEF IoctlTelemetry

LEMMA IoctlEnableLocal ==
    ASSUME NEW c \in Collectors, TypeOK, LocalOf(c), OriginalsStayOn,
           NEW e \in Events, IoctlEnable(c, e)
    PROVE  LocalOf(c)' /\ RecordsType'
<1> DEFINE list == touched[c]
           stamp == <<"stamp", e>>
           new == {<<"enable", e>>} \cup (IF software[c] THEN {} ELSE {stamp})
           r == [event |-> e, enabled |-> <<"enable", e>> \in on,
                 stamp |-> IF software[c] THEN "absent"
                           ELSE IF stamp \in on THEN "on" ELSE "off"]
<1>1. /\ c \in Ioctl /\ pc[c] = "next" /\ ~ checked[c] /\ state[c] = "CONFIGURED"
      /\ e \in Wanted[c] /\ list \in Seq(DataEvent)
      /\ UNCHANGED <<holdsRef, checked, state>>
      /\ EventsOf(list) \subseteq Wanted[c] /\ mine[c] \subseteq OwedIn(list)
  BY NotWriting DEF IoctlEnable, LocalOf, ControlOf, OwnOf, CoveredOf, Configuring,
     TypeOK, RecordsType
<1>2. CASE StartUndo(c, "failed") /\ UNCHANGED <<on, touched, mine>>
  BY <1>1, <1>2, StartUndoLocal DEF TypeOK, RecordsType
<1>3. CASE /\ todo' = [todo EXCEPT ![c] = @ \ {e}]
           /\ touched' = [touched EXCEPT ![c] = Append(@, r)]
           /\ mine' = [mine EXCEPT ![c] = @ \cup (new \ on)]
           /\ UNCHANGED <<pc, event, leaving>>
  <2>1. r \in DataEvent /\ r.event = e
    <3>1. r.enabled \in BOOLEAN /\ r.stamp \in {"absent", "on", "off"} /\ r.event \in Events
      OBVIOUS
    <3> QED BY <3>1 DEF DataEvent
  <2>2. new \ on \subseteq Owed(r) /\ Owed(r) \cap on = {}
    BY DEF Owed
  <2> HIDE DEF r, new
  <2>3. /\ Append(list, r) \in Seq(DataEvent)
        /\ OwedIn(Append(list, r)) = OwedIn(list) \cup Owed(r)
        /\ EventsOf(Append(list, r)) = EventsOf(list) \cup {r.event}
    BY <1>1, <2>1, AppendList
  <2>4. touched'[c] = Append(list, r)
    BY <1>3 DEF TypeOK, RecordsType
  <2>5. RecordsType'
    BY <1>3, <2>3 DEF TypeOK, RecordsType
  <2>6. todo'[c] \subseteq todo[c] /\ mine'[c] = mine[c] \cup (new \ on)
    BY <1>3 DEF TypeOK, CallType, HistoryType
  <2>7. ControlOf(c)' /\ IdleOf(c)'
    BY <1>1, <1>3 DEF ControlOf, IdleOf, Idle
  <2>8. OwnOf(c)'
    BY <1>1, <1>3, <2>1, <2>3, <2>4, <2>6 DEF LocalOf, OwnOf
  <2>9. CoveredOf(c)'
    BY <1>1, <2>2, <2>3, <2>4, <2>6 DEF CoveredOf
  <2>10. OriginalsOf(c)'
    BY <1>1, <1>3, <2>2, <2>3, <2>4 DEF LocalOf, OriginalsOf, OriginalsStayOn
  <2> QED BY <1>1, <2>5, <2>7, <2>8, <2>9, <2>10 DEF LocalOf, BackedOf, WritableOf
<1> QED BY <1>2, <1>3 DEF IoctlEnable, Record

LEMMA IoctlRestoreLocal ==
    ASSUME NEW c \in Collectors, TypeOK, LocalOf(c), IoctlRestore(c)
    PROVE  LocalOf(c)' /\ RecordsType'
<1> DEFINE list == touched[c]
<1>1. /\ c \in Ioctl /\ pc[c] = "undo" /\ ~ checked[c] /\ list # <<>>
      /\ list \in Seq(DataEvent) /\ UNCHANGED <<holdsRef, checked>>
      /\ EventsOf(list) \subseteq Wanted[c] /\ mine[c] \subseteq OwedIn(list)
  BY NotWriting DEF IoctlRestore, LocalOf, OwnOf, CoveredOf, TypeOK, RecordsType
<1>2. UNCHANGED <<state, pc, todo, event>>
  BY <1>1 DEF IoctlRestore, Fails, Returned
<1>3. ControlOf(c)' /\ IdleOf(c)'
  BY <1>1, <1>2 DEF ControlOf, Configuring, IdleOf, Idle
<1>4. CASE touched' = [touched EXCEPT ![c] = <<>>] /\ mine' = [mine EXCEPT ![c] = {}]
  <2>1. touched'[c] = <<>> /\ mine'[c] = {} /\ RecordsType'
    BY <1>4 DEF TypeOK, RecordsType, HistoryType
  <2>2. OwedIn(<<>>) = {} /\ EventsOf(<<>>) = {}
    BY DEF OwedIn, EventsOf
  <2> QED BY <1>1, <1>2, <1>3, <2>1, <2>2
             DEF LocalOf, OwnOf, CoveredOf, BackedOf, WritableOf, OriginalsOf
<1>5. CASE /\ touched' = [touched EXCEPT ![c] = Tail(@)]
           /\ mine' = [mine EXCEPT ![c] = @ \ Owed(Front(c))]
  <2>1. /\ Tail(list) \in Seq(DataEvent)
        /\ OwedIn(list) = Owed(Head(list)) \cup OwedIn(Tail(list))
        /\ EventsOf(Tail(list)) \subseteq EventsOf(list)
    BY <1>1, TailList
  <2>2. touched'[c] = Tail(list) /\ mine'[c] = mine[c] \ Owed(Head(list)) /\ RecordsType'
    BY <1>5, <2>1 DEF TypeOK, RecordsType, HistoryType, Front
  <2> QED BY <1>1, <1>2, <1>3, <2>1, <2>2
             DEF LocalOf, OwnOf, CoveredOf, BackedOf, WritableOf, OriginalsOf
<1>6. Returned(c, FALSE) => touched' = [touched EXCEPT ![c] = <<>>]
  BY <1>1 DEF Returned
<1>7. Fails(c) => mine' = [mine EXCEPT ![c] = {}]
  BY <1>1 DEF Fails
<1> QED BY <1>4, <1>5, <1>6, <1>7 DEF IoctlRestore, Fails

-----------------------------------------------------------------------------
(* All steps *)

LEMMA StepLocal ==
    ASSUME TypeOK, LockFollowsReferences, OriginalsStayOn,
           NEW c \in Collectors, LocalOf(c), Step(c)
    PROVE  LocalOf(c)' /\ RecordsType'
<1>1. UNCHANGED touched => RecordsType'
  BY DEF TypeOK, RecordsType
<1>2. ConfigureCollection(c) \/ StartCollection(c) \/ StopCollection(c) \/ FinishConfigure(c)
      \/ ClearCollectionState(c) \/ Destroy(c) \/ Leave(c) => UNCHANGED touched
  BY DEF ConfigureCollection, StartCollection, StopCollection, FinishConfigure,
     ClearCollectionState, Destroy, Discard, Leave
<1> QED
  BY <1>1, <1>2, ConfigureLocal, StartLocal, StopLocal, FinishLocal, LeaveLocal,
     WriteCheckLocal, WriteFileLocal, ReadEnableLocal, ReadStampLocal, SkipLocal,
     IoctlTelemetryLocal, IoctlEnableLocal, IoctlRestoreLocal DEF Step

\* A step of one collector leaves the call and the records of another alone.
LEMMA StepFrame ==
    ASSUME TypeOK, LockFollowsReferences, NEW c \in Collectors, Step(c),
           NEW d \in Collectors, d # c
    PROVE  /\ state'[d] = state[d] /\ pc'[d] = pc[d] /\ todo'[d] = todo[d]
           /\ event'[d] = event[d] /\ checked'[d] = checked[d]
           /\ touched'[d] = touched[d] /\ mine'[d] = mine[d] /\ holdsRef'[d] = holdsRef[d]
<1> USE DEF TypeOK, CallType, RecordsType, HistoryType, LockType, shared, local, history
<1>1. ASSUME NEW why, StartUndo(c, why)
      PROVE  pc'[d] = pc[d] /\ todo'[d] = todo[d] /\ event'[d] = event[d]
  BY <1>1 DEF StartUndo, Goto
<1>2. ASSUME NEW ok \in BOOLEAN, Returned(c, ok)
      PROVE  /\ state'[d] = state[d] /\ pc'[d] = pc[d] /\ todo'[d] = todo[d]
             /\ event'[d] = event[d] /\ touched'[d] = touched[d]
  BY <1>1, <1>2 DEF Returned, Goto, Record, Stamp
<1>3. CASE ConfigureCollection(c)
  BY <1>3 DEF ConfigureCollection, Goto
<1>4. CASE StartCollection(c)
  BY <1>4 DEF StartCollection
<1>5. CASE StopCollection(c) \/ ClearCollectionState(c) \/ Destroy(c)
  BY <1>1, <1>5 DEF StopCollection, ClearCollectionState, Destroy, Discard
<1>6. CASE ScmiWriteCheck(c)
  BY <1>2, <1>6 DEF ScmiWriteCheck, Fails
<1>7. CASE ScmiWriteFile(c)
  <2>1. holdsRef' = holdsRef \/ holdsRef' = [holdsRef EXCEPT ![c] = TRUE]
    BY <1>7 DEF ScmiWriteFile, AcquireProcessLock
  <2>2. Returned(c, TRUE) \/ Returned(c, FALSE)
    BY <1>7 DEF ScmiWriteFile, Fails
  <2>3. mine' = mine \/ \E s : mine' = [mine EXCEPT ![c] = s]
    BY <1>7 DEF ScmiWriteFile, Fails
  <2>4. checked' = [checked EXCEPT ![c] = FALSE]
    BY <1>7 DEF ScmiWriteFile
  <2> QED BY <1>2, <2>1, <2>2, <2>3, <2>4
<1>8. ASSUME NEW e \in Events, ReadEnable(c, e)
      PROVE  /\ state'[d] = state[d] /\ pc'[d] = pc[d] /\ todo'[d] = todo[d]
             /\ event'[d] = event[d] /\ checked'[d] = checked[d]
             /\ touched'[d] = touched[d] /\ mine'[d] = mine[d] /\ holdsRef'[d] = holdsRef[d]
  BY <1>1, <1>8 DEF ReadEnable, Record, Goto
<1>9. CASE ReadStamp(c)
  BY <1>1, <1>9 DEF ReadStamp, Stamp, Goto
<1>10. CASE FinishConfigure(c)
  BY <1>1, <1>10 DEF FinishConfigure, Goto
<1>11. CASE SkipRecord(c)
  BY <1>11 DEF SkipRecord
<1>12. CASE Leave(c)
  BY <1>12 DEF Leave, ReleaseProcessLock, Goto
<1>13. CASE IoctlTelemetry(c)
  BY <1>2, <1>13 DEF IoctlTelemetry
<1>14. CASE IoctlRestore(c)
  BY <1>2, <1>14 DEF IoctlRestore, Fails
<1>15. ASSUME NEW e \in Events, IoctlEnable(c, e)
      PROVE  /\ state'[d] = state[d] /\ pc'[d] = pc[d] /\ todo'[d] = todo[d]
             /\ event'[d] = event[d] /\ checked'[d] = checked[d]
             /\ touched'[d] = touched[d] /\ mine'[d] = mine[d] /\ holdsRef'[d] = holdsRef[d]
  BY <1>1, <1>15 DEF IoctlEnable, Record
<1> QED BY <1>3, <1>4, <1>5, <1>6, <1>7, <1>8, <1>9, <1>10, <1>11, <1>12, <1>13,
           <1>14, <1>15 DEF Step

LEMMA FrameLocal ==
    ASSUME NEW d \in Collectors, LocalOf(d),
           state'[d] = state[d], pc'[d] = pc[d], todo'[d] = todo[d], event'[d] = event[d],
           checked'[d] = checked[d], touched'[d] = touched[d], mine'[d] = mine[d],
           holdsRef'[d] = holdsRef[d]
    PROVE  LocalOf(d)'
<1>1. FileOf(d)' = FileOf(d) /\ Writing(d)' = Writing(d) /\ LastOf(d)' = LastOf(d)
  BY DEF FileOf, Writing, LastOf, Front
<1>2. ControlOf(d)'
  BY <1>1 DEF LocalOf, ControlOf
<1> QED BY <1>1, <1>2 DEF LocalOf, OwnOf, CoveredOf, BackedOf, WritableOf, OriginalsOf,
           IdleOf, Idle

-----------------------------------------------------------------------------
(* What a step of a collector does to the files and to its debts *)

Unmoved(c) == on' = on /\ mine'[c] = mine[c] /\ spoiled' = spoiled
GivesUp(c) == /\ on' = on /\ mine'[c] = {}
              /\ spoiled' = spoiled \cup EventsOf(touched[c])
SwitchesOn(c, new) ==
    /\ new \subseteq Files /\ on' = on \cup new /\ spoiled' = spoiled
    /\ mine[c] \subseteq mine'[c] /\ mine'[c] \subseteq (mine[c] \cup new) \cap Settings
    /\ (new \cap Settings) \ on \subseteq mine'[c]
SwitchesOff(c, off, kept) ==
    /\ off \subseteq OwedIn(touched[c]) /\ kept \subseteq KeptIn(touched[c])
    /\ kept # {} => c \in Ioctl
    /\ c \in Ioctl \/ MayLock(c)
    /\ on' = (on \ off) \cup kept /\ mine'[c] = mine[c] \ off /\ spoiled' = spoiled

Effect(c) ==
    /\ Unmoved(c) \/ GivesUp(c) \/ (\E new : SwitchesOn(c, new))
       \/ \E off, kept : SwitchesOff(c, off, kept)
    /\ mine' = mine \/ \E s : mine' = [mine EXCEPT ![c] = s]

LEMMA RecordFiles ==
    ASSUME NEW list \in Seq(DataEvent)
    PROVE  /\ OwedIn(list) \subseteq Settings /\ KeptIn(list) \subseteq Settings
           /\ EventsOf(list) \subseteq Events
           /\ \A f \in OwedIn(list) \cup KeptIn(list) : f[2] \in EventsOf(list)
<1>1. ASSUME NEW i \in DOMAIN list
      PROVE  /\ Owed(list[i]) \cup Kept(list[i]) \subseteq EventFiles(list[i].event)
             /\ list[i].event \in Events /\ list[i].event \in EventsOf(list)
  <2>1. list[i] \in DataEvent
    OBVIOUS
  <2> QED BY <2>1 DEF Owed, Kept, EventFiles, EventsOf, DataEvent
<1>2. \A e \in Events : EventFiles(e) \subseteq Settings /\ \A f \in EventFiles(e) : f[2] = e
  BY DEF EventFiles, Settings
<1> QED BY <1>1, <1>2 DEF OwedIn, KeptIn, EventsOf

LEMMA UnchangedEffect ==
    ASSUME NEW c \in Collectors, UNCHANGED <<on, mine, spoiled>>
    PROVE  Effect(c)
BY DEF Effect, Unmoved

LEMMA FailsEffect ==
    ASSUME NEW c \in Collectors, TypeOK, Fails(c), UNCHANGED on
    PROVE  Effect(c)
<1>1. CASE pc[c] = "undo"
  BY <1>1 DEF Fails, Lost, Effect, GivesUp, TypeOK, HistoryType
<1>2. CASE pc[c] # "undo"
  <2>1. spoiled' = spoiled /\ mine' = [mine EXCEPT ![c] = mine[c]]
    BY <1>2 DEF Fails, Lost
  <2> QED BY <2>1 DEF Effect, Unmoved, TypeOK, HistoryType
<1> QED BY <1>1, <1>2

\* A file that a collector wants off and finds off, or may not write, is none it owes.
LEMMA WriteCheckEffect ==
    ASSUME NEW c \in Collectors, TypeOK, LocalOf(c), OwnChangesStayOn, ScmiWriteCheck(c)
    PROVE  Effect(c)
<1> DEFINE f == FileOf(c)
<1>1. UNCHANGED on /\ c \notin Ioctl
  BY DEF ScmiWriteCheck, shared
<1>2. CASE Fails(c)
  BY <1>1, <1>2, FailsEffect
<1>3. CASE UNCHANGED <<mine, spoiled>>
  BY <1>1, <1>3, UnchangedEffect
<1>4. CASE /\ UNCHANGED spoiled
           /\ f \notin on \/ f \in ReadOnly \/ SwitchingOn(c)
           /\ mine' = [mine EXCEPT ![c] = IF SwitchingOn(c) THEN @ ELSE @ \ {f}]
  <2>1. SwitchingOn(c) \/ f \notin mine[c]
    BY <1>1, <1>4 DEF LocalOf, WritableOf, OwnChangesStayOn
  <2>2. mine'[c] = mine[c]
    BY <1>4, <2>1 DEF TypeOK, HistoryType
  <2>3. mine' = mine
    BY <1>4, <2>1 DEF TypeOK, HistoryType
  <2> QED BY <1>1, <1>4, <2>2, <2>3 DEF Effect, Unmoved
<1> QED BY <1>2, <1>3, <1>4 DEF ScmiWriteCheck, SwitchingOn

LEMMA WriteFileEffect ==
    ASSUME CollectorAssumption, NEW c \in Collectors, TypeOK, LocalOf(c), ScmiWriteFile(c)
    PROVE  Effect(c)
<1> DEFINE f == FileOf(c)
<1>1. c \notin Ioctl /\ Writing(c)
  BY DEF ScmiWriteFile, LocalOf, ControlOf
<1>2. CASE UNCHANGED <<on, mine, spoiled>>
  BY <1>2, UnchangedEffect
<1>3. CASE Fails(c) /\ UNCHANGED on
  BY <1>3, FailsEffect
<1>4. CASE /\ MayLock(c) /\ Returned(c, TRUE) /\ UNCHANGED spoiled
           /\ on' = IF SwitchingOn(c) THEN on \cup {f} ELSE on \ {f}
           /\ mine' = [mine EXCEPT ![c] =
                          IF pc[c] \in {"enable", "stamp"} THEN @ \cup {f} ELSE @ \ {f}]
  <2>1. \E s : mine' = [mine EXCEPT ![c] = s]
    BY <1>4
  <2>2. mine[c] \subseteq Settings
    BY DEF TypeOK, HistoryType
  <2>3. CASE pc[c] = "telemetry"
    <3>1. f \in Files /\ f \notin Settings
      BY <2>3, FileCases, CollectorAssumption DEF Files, Settings, CollectorAssumption
    <3>2. mine'[c] = mine[c] /\ on' = on \cup {f}
      BY <1>4, <2>2, <2>3, <3>1 DEF TypeOK, HistoryType, SwitchingOn
    <3>3. SwitchesOn(c, {f})
      BY <1>4, <2>2, <3>1, <3>2 DEF SwitchesOn
    <3> QED BY <2>1, <3>3 DEF Effect
  <2>4. CASE pc[c] \in {"enable", "stamp"}
    <3>1. event[c] \in Events
      BY <2>4 DEF LocalOf, ControlOf, TypeOK, CallType
    <3>2. f \in Settings
      BY <2>4, <3>1, FileCases DEF Settings
    <3>3. mine'[c] = mine[c] \cup {f} /\ on' = on \cup {f}
      BY <1>4, <2>4 DEF TypeOK, HistoryType, SwitchingOn
    <3>4. SwitchesOn(c, {f})
      BY <1>4, <2>2, <3>2, <3>3 DEF SwitchesOn, Files
    <3> QED BY <2>1, <3>4 DEF Effect
  <2>5. CASE pc[c] = "undo"
    <3>1. f \in OwedIn(touched[c])
      BY <1>1, <1>4, <2>5, ReturnedRecords DEF TypeOK, LocalOf
    <3>2. mine'[c] = mine[c] \ {f} /\ on' = on \ {f}
      BY <1>4, <2>5 DEF TypeOK, HistoryType, SwitchingOn
    <3>3. SwitchesOff(c, {f}, {})
      BY <1>4, <3>1, <3>2 DEF SwitchesOff
    <3> QED BY <2>1, <3>3 DEF Effect
  <2> QED BY <1>1, <2>3, <2>4, <2>5 DEF Writing
<1> QED BY <1>2, <1>3, <1>4 DEF ScmiWriteFile, shared

LEMMA IoctlEffect ==
    ASSUME CollectorAssumption, NEW c \in Collectors, TypeOK, LocalOf(c),
           IoctlTelemetry(c) \/ IoctlRestore(c) \/ \E e \in Events : IoctlEnable(c, e)
    PROVE  Effect(c)
<1> USE DEF TypeOK, HistoryType
<1>1. CASE IoctlTelemetry(c)
  <2>1. <<"telemetry", SocketOf[c]>> \in Files \ Settings
    BY CollectorAssumption DEF Files, Settings, CollectorAssumption
  <2>2. CASE UNCHANGED on
    BY <1>1, <2>2, UnchangedEffect DEF IoctlTelemetry
  <2>3. CASE on' = on \cup {<<"telemetry", SocketOf[c]>>}
    <3>1. SwitchesOn(c, {<<"telemetry", SocketOf[c]>>})
      BY <1>1, <2>1, <2>3 DEF IoctlTelemetry, SwitchesOn
    <3> QED BY <1>1, <3>1 DEF Effect, IoctlTelemetry
  <2> QED BY <1>1, <2>2, <2>3 DEF IoctlTelemetry
<1>2. ASSUME NEW e \in Events, IoctlEnable(c, e) PROVE Effect(c)
  <2> DEFINE new == {<<"enable", e>>} \cup (IF software[c] THEN {} ELSE {<<"stamp", e>>})
  <2>1. new \subseteq Settings /\ spoiled' = spoiled
    BY <1>2 DEF Settings, IoctlEnable
  <2>2. CASE UNCHANGED <<on, mine>>
    BY <2>1, <2>2, UnchangedEffect
  <2>3. CASE on' = on \cup new /\ mine' = [mine EXCEPT ![c] = @ \cup (new \ on)]
    <3> HIDE DEF new
    <3>1. mine'[c] = mine[c] \cup (new \ on) /\ \E s : mine' = [mine EXCEPT ![c] = s]
      BY <2>3
    <3>2. SwitchesOn(c, new)
      BY <2>1, <2>3, <3>1 DEF SwitchesOn, Files
    <3> QED BY <3>1, <3>2 DEF Effect
  <2> QED BY <1>2, <2>2, <2>3 DEF IoctlEnable
<1>3. CASE IoctlRestore(c)
  <2>1. touched[c] \in Seq(DataEvent) /\ touched[c] # <<>>
    BY <1>3 DEF IoctlRestore, RecordsType
  <2>2. CASE Fails(c) /\ UNCHANGED on
    BY <2>2, FailsEffect
  <2>3. CASE /\ on' = (on \ Owed(Front(c))) \cup Kept(Front(c)) /\ UNCHANGED spoiled
             /\ mine' = [mine EXCEPT ![c] = @ \ Owed(Front(c))]
    <3>1. Owed(Front(c)) \subseteq OwedIn(touched[c]) /\ Kept(Front(c)) \subseteq KeptIn(touched[c])
      <4>1. 1 \in DOMAIN touched[c] /\ Front(c) = touched[c][1]
        BY <2>1 DEF Front
      <4> QED BY <4>1 DEF OwedIn, KeptIn
    <3>2. mine'[c] = mine[c] \ Owed(Front(c)) /\ \E s : mine' = [mine EXCEPT ![c] = s]
      BY <2>3
    <3>3. SwitchesOff(c, Owed(Front(c)), Kept(Front(c)))
      BY <1>3, <2>3, <3>1, <3>2 DEF SwitchesOff, IoctlRestore
    <3> QED BY <3>2, <3>3 DEF Effect
  <2> QED BY <1>3, <2>2, <2>3 DEF IoctlRestore
<1> QED BY <1>1, <1>2, <1>3

LEMMA StepEffect ==
    ASSUME CollectorAssumption, TypeOK, OwnChangesStayOn,
           NEW c \in Collectors, LocalOf(c), Step(c)
    PROVE  Effect(c)
<1>1. CASE \/ ConfigureCollection(c) \/ StartCollection(c) \/ StopCollection(c)
           \/ ClearCollectionState(c) \/ Destroy(c) \/ ReadStamp(c) \/ FinishConfigure(c)
           \/ SkipRecord(c) \/ Leave(c) \/ \E e \in Events : ReadEnable(c, e)
  <2>1. UNCHANGED <<on, mine, spoiled>>
    BY <1>1 DEF ConfigureCollection, StartCollection, StopCollection, ClearCollectionState,
       Destroy, Discard, ReadStamp, FinishConfigure, SkipRecord, Leave, ReadEnable,
       shared, history
  <2> QED BY <2>1, UnchangedEffect
<1> QED BY <1>1, WriteCheckEffect, WriteFileEffect, IoctlEffect DEF Step

-----------------------------------------------------------------------------
(* The invariants over all collectors *)

LEMMA HistoryStep ==
    ASSUME CollectorAssumption, TypeOK, OwnChangesStayOn, OriginalsStayOn,
           NEW c \in Collectors, LocalOf(c), Step(c)
    PROVE  mine' \in [Collectors -> SUBSET Settings] /\ spoiled' \subseteq Events
           /\ on' \subseteq Files
<1>1. /\ EventsOf(touched[c]) \subseteq Events
      /\ OwedIn(touched[c]) \cup KeptIn(touched[c]) \subseteq Settings
  BY RecordFiles DEF TypeOK, RecordsType
<1>2. Effect(c) /\ mine[c] \subseteq Settings /\ on \subseteq Files /\ spoiled \subseteq Events
  BY StepEffect DEF TypeOK, HistoryType
<1>3. mine'[c] \subseteq Settings
  BY <1>2 DEF Effect, Unmoved, GivesUp, SwitchesOn, SwitchesOff
<1>4. mine' \in [Collectors -> SUBSET Settings]
  BY <1>2, <1>3 DEF Effect, TypeOK, HistoryType
<1>5. spoiled' \subseteq Events
  BY <1>1, <1>2 DEF Effect, Unmoved, GivesUp, SwitchesOn, SwitchesOff
<1>6. on' \subseteq Files
  BY <1>1, <1>2 DEF Effect, Unmoved, GivesUp, SwitchesOn, SwitchesOff, Files
<1> QED BY <1>4, <1>5, <1>6

LEMMA FaultCount ==
    ASSUME CollectorAssumption, TypeOK, Next
    PROVE  faults' \in 0 .. MaxFaults /\ party' = party
<1> USE DEF TypeOK, HistoryType
<1>1. ASSUME NEW kind, Fault(kind) PROVE faults' \in 0 .. MaxFaults
  BY <1>1, CollectorAssumption DEF Fault, CollectorAssumption
<1>2. ASSUME NEW c \in Collectors, Step(c) PROVE faults' \in 0 .. MaxFaults /\ party' = party
  <2>1. CASE \/ ConfigureCollection(c) \/ ClearCollectionState(c) \/ Destroy(c)
             \/ SkipRecord(c) \/ Leave(c)
    BY <2>1 DEF ConfigureCollection, ClearCollectionState, Destroy, Discard, SkipRecord,
       Leave, history
  <2>2. CASE \/ StartCollection(c) \/ StopCollection(c) \/ ReadStamp(c) \/ FinishConfigure(c)
             \/ \E e \in Events : ReadEnable(c, e) \/ IoctlEnable(c, e)
    BY <1>1, <2>2 DEF StartCollection, StopCollection, ReadStamp, FinishConfigure,
       ReadEnable, IoctlEnable, NoFault
  <2>3. CASE ScmiWriteCheck(c) \/ ScmiWriteFile(c) \/ IoctlTelemetry(c) \/ IoctlRestore(c)
    BY <1>1, <2>3 DEF ScmiWriteCheck, ScmiWriteFile, IoctlTelemetry, IoctlRestore, NoFault
  <2> QED BY <1>2, <2>1, <2>2, <2>3 DEF Step
<1>3. party \subseteq Collectors
  BY CollectorAssumption DEF CollectorAssumption
<1> QED BY <1>1, <1>2, <1>3 DEF Next, Crash

\* Whose files a collector may switch off, no other collector counts on.
LEMMA NobodyElseOwes ==
    ASSUME CollectorAssumption, SharingAssumption, TypeOK, LockFollowsReferences,
           NEW c \in Collectors, LocalOf(c), NEW d \in Collectors, d # c, LocalOf(d),
           c \in Ioctl \/ MayLock(c)
    PROVE  mine[d] \cap OwedIn(touched[c]) = {}
<1> SUFFICES ASSUME NEW f \in mine[d], f \in OwedIn(touched[c]) PROVE FALSE
  OBVIOUS
<1>1. touched[c] \in Seq(DataEvent) /\ touched[d] \in Seq(DataEvent)
  BY DEF TypeOK, RecordsType
<1>2. f \in OwedIn(touched[d])
  BY DEF LocalOf, CoveredOf
<1>3. f[2] \in Wanted[c] /\ f[2] \in Wanted[d]
  BY <1>1, <1>2, RecordFiles DEF LocalOf, OwnOf
<1>4. ProcessOf[c] # ProcessOf[d] /\ c \notin Ioctl /\ d \notin Ioctl
  BY <1>3, SharingAssumption DEF SharingAssumption
<1>5. holdsRef[d] /\ MayLock(c)
  BY <1>4 DEF LocalOf, BackedOf
<1>6. /\ ProcessOf[c] \in Processes /\ ProcessOf[d] \in Processes
      /\ None \notin Processes
  BY CollectorAssumption DEF CollectorAssumption
<1>7. flock = ProcessOf[d]
  BY <1>5, <1>6 DEF LockFollowsReferences, HoldersOf
<1>8. holdsRef[c] => flock = ProcessOf[c]
  BY <1>6 DEF LockFollowsReferences, HoldersOf
<1> QED BY <1>4, <1>5, <1>6, <1>7, <1>8 DEF MayLock

LEMMA StepOwnStays ==
    ASSUME CollectorAssumption, SharingAssumption, IInv, NEW c \in Collectors, Step(c)
    PROVE  OwnChangesStayOn'
<1> SUFFICES ASSUME NEW d \in Collectors PROVE mine'[d] \subseteq on'
  BY DEF OwnChangesStayOn
<1>1. Effect(c) /\ mine[c] \subseteq on /\ mine[d] \subseteq on /\ mine[c] \subseteq Settings
  BY StepEffect DEF IInv, OwnChangesStayOn, TypeOK, HistoryType
<1>2. CASE d = c
  BY <1>1, <1>2 DEF Effect, Unmoved, GivesUp, SwitchesOn, SwitchesOff
<1>3. CASE d # c
  <2>1. mine'[d] = mine[d]
    BY <1>3, StepFrame DEF IInv
  <2>2. ASSUME NEW off, NEW kept, SwitchesOff(c, off, kept) PROVE mine[d] \subseteq on'
    BY <1>1, <1>3, <2>2, NobodyElseOwes DEF IInv, SwitchesOff
  <2> QED BY <1>1, <2>1, <2>2 DEF Effect, Unmoved, GivesUp, SwitchesOn
<1> QED BY <1>2, <1>3

LEMMA StepOriginals ==
    ASSUME CollectorAssumption, IInv, NEW c \in Collectors, Step(c)
    PROVE  OriginalsStayOn'
<1>1. Effect(c) /\ InitiallyOn \subseteq on /\ OwedIn(touched[c]) \cap InitiallyOn = {}
  BY StepEffect DEF IInv, OriginalsStayOn, LocalOf, OriginalsOf
<1> QED BY <1>1 DEF Effect, Unmoved, GivesUp, SwitchesOn, SwitchesOff, OriginalsStayOn

LEMMA StepAttributed ==
    ASSUME CollectorAssumption, IInv, NEW c \in Collectors, Step(c)
    PROVE  Attributed'
<1> SUFFICES ASSUME NEW e \in Events \ spoiled', NEW f \in EventFiles(e), f \in on',
                    f \notin InitiallyOn
             PROVE  \E d \in Collectors : f \in mine'[d]
  BY DEF Attributed
<1>1. f \in Settings /\ f[2] = e
  BY DEF EventFiles, Settings
<1>2. Effect(c) /\ spoiled \subseteq spoiled'
  BY StepEffect DEF IInv, Effect, Unmoved, GivesUp, SwitchesOn, SwitchesOff
<1>3. \A d \in Collectors \ {c} : mine'[d] = mine[d]
  BY StepFrame DEF IInv
<1>4. f \in on => \E d \in Collectors : f \in mine[d]
  BY <1>2 DEF IInv, Attributed
<1>5. CASE Unmoved(c)
  BY <1>3, <1>4, <1>5 DEF Unmoved
<1>6. CASE GivesUp(c)
  <2>1. f \notin mine[c]
    <3>1. e \notin EventsOf(touched[c])
      BY <1>6 DEF GivesUp
    <3>2. f \notin OwedIn(touched[c])
      BY <1>1, <3>1, RecordFiles DEF IInv, TypeOK, RecordsType
    <3> QED BY <3>2 DEF IInv, LocalOf, CoveredOf
  <2> QED BY <1>3, <1>4, <1>6, <2>1 DEF GivesUp
<1>7. ASSUME NEW new, SwitchesOn(c, new) PROVE \E d \in Collectors : f \in mine'[d]
  BY <1>1, <1>3, <1>4, <1>7 DEF SwitchesOn
<1>8. ASSUME NEW off, NEW kept, SwitchesOff(c, off, kept)
      PROVE  \E d \in Collectors : f \in mine'[d]
  <2>1. f \notin kept
    BY <1>1, <1>2, <1>8 DEF SwitchesOff, IInv, KeepsOf
  <2>2. f \in on /\ f \notin off
    BY <1>8, <2>1 DEF SwitchesOff
  <2> QED BY <1>3, <1>4, <1>8, <2>2 DEF SwitchesOff
<1> QED BY <1>2, <1>5, <1>6, <1>7, <1>8 DEF Effect

LEMMA KeptAppend ==
    ASSUME NEW list \in Seq(DataEvent), NEW r \in DataEvent
    PROVE  KeptIn(Append(list, r)) = KeptIn(list) \cup Kept(r)
<1>1. /\ DOMAIN Append(list, r) = 1 .. Len(list) + 1 /\ Append(list, r)[Len(list) + 1] = r
      /\ \A i \in 1 .. Len(list) : Append(list, r)[i] = list[i]
      /\ DOMAIN list = 1 .. Len(list) /\ Len(list) \in Nat
  OBVIOUS
<1>2. \A i \in 1 .. Len(list) + 1 : i \in 1 .. Len(list) \/ i = Len(list) + 1
  BY <1>1
<1>3. Len(list) + 1 \in 1 .. Len(list) + 1 /\ 1 .. Len(list) \subseteq 1 .. Len(list) + 1
  BY <1>1
<1> QED BY <1>1, <1>2, <1>3 DEF KeptIn

LEMMA KeptTail ==
    ASSUME NEW list \in Seq(DataEvent), list # <<>>
    PROVE  KeptIn(Tail(list)) \subseteq KeptIn(list)
<1>1. \A i \in DOMAIN Tail(list) : i + 1 \in DOMAIN list /\ Tail(list)[i] = list[i + 1]
  OBVIOUS
<1> QED BY <1>1 DEF KeptIn

\* An ioctl finds on, of an event not in its list, only what was on before.
LEMMA IoctlEnableKeeps ==
    ASSUME CollectorAssumption, SharingAssumption, IInv, NEW c \in Collectors,
           NEW e \in Events, IoctlEnable(c, e)
    PROVE  KeepsOf(c)'
<1> DEFINE list == touched[c]
           stamp == <<"stamp", e>>
           r == [event |-> e, enabled |-> <<"enable", e>> \in on,
                 stamp |-> IF software[c] THEN "absent"
                           ELSE IF stamp \in on THEN "on" ELSE "off"]
<1>1. /\ c \in Ioctl /\ pc[c] = "next" /\ e \in todo[c] /\ UNCHANGED spoiled
      /\ list \in Seq(DataEvent) /\ e \in Wanted[c]
      /\ todo[c] \cap EventsOf(list) = {}
      /\ \A f \in KeptIn(list) : f[2] \notin spoiled => f \in InitiallyOn
  BY DEF IoctlEnable, IInv, KeepsOf, LocalOf, OwnOf, TypeOK, RecordsType
<1>2. CASE StartUndo(c, "failed") /\ UNCHANGED touched
  <2>1. pc'[c] = "undo" /\ touched'[c] = list
    BY <1>2 DEF StartUndo, Goto, IInv, TypeOK, CallType
  <2> QED BY <1>1, <2>1 DEF KeepsOf
<1>3. CASE todo' = [todo EXCEPT ![c] = @ \ {e}] /\ touched' = [touched EXCEPT ![c] = Append(@, r)]
  <2>1. r \in DataEvent /\ r.event = e
    <3>1. r.enabled \in BOOLEAN /\ r.stamp \in {"absent", "on", "off"} /\ r.event \in Events
      OBVIOUS
    <3> QED BY <3>1 DEF DataEvent
  <2>2. Kept(r) \subseteq on /\ Kept(r) \subseteq EventFiles(e)
    BY DEF Kept, EventFiles
  <2> HIDE DEF r
  <2>3. /\ touched'[c] = Append(list, r) /\ todo'[c] = todo[c] \ {e}
        /\ KeptIn(Append(list, r)) = KeptIn(list) \cup Kept(r)
        /\ EventsOf(Append(list, r)) = EventsOf(list) \cup {e}
    BY <1>1, <1>3, <2>1, KeptAppend, AppendList DEF IInv, TypeOK, RecordsType, CallType
  <2>4. \A f \in EventFiles(e) : f[2] = e
    BY DEF EventFiles
  <2>5. ASSUME NEW f \in Kept(r), e \notin spoiled PROVE f \in InitiallyOn
    <3> SUFFICES ASSUME NEW d \in Collectors, f \in mine[d] PROVE FALSE
      BY <2>2, <2>5 DEF IInv, Attributed
    <3>1. e \in EventsOf(touched[d])
      <4>1. f \in OwedIn(touched[d])
        BY DEF IInv, LocalOf, CoveredOf
      <4> QED BY <2>2, <2>4, <4>1, RecordFiles DEF IInv, TypeOK, RecordsType
    <3>2. e \in Wanted[d]
      BY <3>1 DEF IInv, LocalOf, OwnOf
    <3>3. d = c
      BY <1>1, <3>2, SharingAssumption DEF SharingAssumption
    <3> QED BY <1>1, <3>1, <3>3
  <2> QED BY <1>1, <2>2, <2>3, <2>4, <2>5 DEF KeepsOf
<1> QED BY <1>2, <1>3 DEF IoctlEnable, Record

LEMMA StepKeeps ==
    ASSUME CollectorAssumption, SharingAssumption, IInv, NEW c \in Collectors, Step(c)
    PROVE  KeepsOf(c)'
<1> SUFFICES ASSUME c \in Ioctl PROVE KeepsOf(c)'
  BY DEF KeepsOf
<1>1. spoiled \subseteq spoiled'
  BY StepEffect DEF IInv, Effect, Unmoved, GivesUp, SwitchesOn, SwitchesOff
<1>2. /\ touched[c] \in Seq(DataEvent) /\ (pc[c] = "telemetry" => touched[c] = <<>>) /\ ~ checked[c]
      /\ \A f \in KeptIn(touched[c]) : f[2] \notin spoiled => f \in InitiallyOn
      /\ pc[c] \notin {"enable", "stamp?", "stamp"}
  BY DEF IInv, TypeOK, RecordsType, LocalOf, ControlOf, KeepsOf
<1>3. EventsOf(<<>>) = {} /\ KeptIn(<<>>) = {}
  BY DEF EventsOf, KeptIn
<1>4. ASSUME touched'[c] = touched[c], pc'[c] # "next" \/ touched[c] = <<>> PROVE KeepsOf(c)'
  BY <1>1, <1>2, <1>3, <1>4 DEF KeepsOf
<1>5. ASSUME NEW why, StartUndo(c, why) PROVE pc'[c] = "undo"
  BY <1>5 DEF StartUndo, Goto, IInv, TypeOK, CallType
<1> USE DEF IInv, TypeOK
<1>6. CASE ConfigureCollection(c)
  BY <1>4, <1>6 DEF ConfigureCollection, Goto, CallType
<1>7. CASE StopCollection(c) \/ ClearCollectionState(c) \/ Destroy(c) \/ StartCollection(c)
  BY <1>4, <1>5, <1>7 DEF StopCollection, ClearCollectionState, Destroy, Discard,
     StartCollection, Idle
<1>8. CASE FinishConfigure(c)
  BY <1>4, <1>5, <1>8 DEF FinishConfigure, Goto, CallType
<1>9. CASE Leave(c)
  BY <1>4, <1>9 DEF Leave
<1>10. CASE IoctlTelemetry(c)
  <2>1. UNCHANGED touched /\ touched[c] = <<>>
    BY <1>2, <1>10 DEF IoctlTelemetry, Returned
  <2> QED BY <1>4, <2>1
<1>11. CASE IoctlRestore(c)
  <2>1. pc'[c] = "undo" /\ (touched'[c] = <<>> \/ touched'[c] = Tail(touched[c]))
    BY <1>11 DEF IoctlRestore, Fails, Returned, RecordsType
  <2>2. touched[c] # <<>>
    BY <1>11 DEF IoctlRestore
  <2>3. KeptIn(touched'[c]) \subseteq KeptIn(touched[c])
    BY <1>2, <1>3, <2>1, <2>2, KeptTail
  <2> QED BY <1>1, <1>2, <2>1, <2>3 DEF KeepsOf
<1>12. ~ ScmiWriteCheck(c) /\ ~ ScmiWriteFile(c) /\ ~ ReadStamp(c) /\ ~ SkipRecord(c)
       /\ \A e \in Events : ~ ReadEnable(c, e)
  BY <1>2 DEF ScmiWriteCheck, ScmiWriteFile, ReadStamp, SkipRecord, ReadEnable
<1> QED BY <1>6, <1>7, <1>8, <1>9, <1>10, <1>11, <1>12, IoctlEnableKeeps DEF Step

-----------------------------------------------------------------------------
(* A crash *)

LEMMA CrashEffect ==
    ASSUME CollectorAssumption, TypeOK, NEW p \in Processes, Crash(p), NEW c \in Collectors
    PROVE  IF ProcessOf[c] = p
           THEN /\ touched'[c] = <<>> /\ mine'[c] = {} /\ pc'[c] = "idle" /\ todo'[c] = {}
                /\ event'[c] = None /\ ~ checked'[c] /\ ~ holdsRef'[c]
                /\ EventsOf(touched[c]) \subseteq spoiled'
           ELSE /\ state'[c] = state[c] /\ pc'[c] = pc[c] /\ todo'[c] = todo[c]
                /\ event'[c] = event[c] /\ checked'[c] = checked[c]
                /\ touched'[c] = touched[c] /\ mine'[c] = mine[c]
                /\ holdsRef'[c] = holdsRef[c]
BY DEF Crash

LEMMA CrashLocal ==
    ASSUME CollectorAssumption, IInv, NEW p \in Processes, Crash(p), NEW c \in Collectors
    PROVE  LocalOf(c)' /\ KeepsOf(c)'
<1>1. spoiled \subseteq spoiled'
  BY DEF Crash
<1>2. OwedIn(<<>>) = {} /\ EventsOf(<<>>) = {} /\ KeptIn(<<>>) = {}
  BY DEF OwedIn, EventsOf, KeptIn
<1>3. CASE ProcessOf[c] = p
  <2>1. /\ touched'[c] = <<>> /\ mine'[c] = {} /\ pc'[c] = "idle" /\ todo'[c] = {}
        /\ event'[c] = None /\ ~ checked'[c] /\ ~ holdsRef'[c]
    BY <1>3, CrashEffect DEF IInv
  <2>2. ControlOf(c)' /\ IdleOf(c)' /\ KeepsOf(c)'
    BY <1>2, <2>1 DEF ControlOf, Configuring, IdleOf, Idle, KeepsOf
  <2> QED BY <1>2, <2>1, <2>2 DEF LocalOf, OwnOf, CoveredOf, BackedOf, WritableOf, OriginalsOf
<1>4. CASE ProcessOf[c] # p
  <2>1. /\ state'[c] = state[c] /\ pc'[c] = pc[c] /\ todo'[c] = todo[c]
        /\ event'[c] = event[c] /\ checked'[c] = checked[c] /\ touched'[c] = touched[c]
        /\ mine'[c] = mine[c] /\ holdsRef'[c] = holdsRef[c]
    BY <1>4, CrashEffect DEF IInv
  <2>2. LocalOf(c)'
    BY <2>1, FrameLocal DEF IInv
  <2>3. KeepsOf(c)'
    BY <1>1, <2>1 DEF IInv, KeepsOf
  <2> QED BY <2>2, <2>3
<1> QED BY <1>3, <1>4

LEMMA CrashGlobal ==
    ASSUME CollectorAssumption, IInv, NEW p \in Processes, Crash(p)
    PROVE  OwnChangesStayOn' /\ OriginalsStayOn' /\ Attributed'
<1>1. on' = on
  BY DEF Crash
<1>2. OwnChangesStayOn'
  BY <1>1, CrashEffect DEF IInv, OwnChangesStayOn
<1>3. OriginalsStayOn'
  BY <1>1 DEF IInv, OriginalsStayOn
<1>4. Attributed'
  <2> SUFFICES ASSUME NEW e \in Events \ spoiled', NEW f \in EventFiles(e), f \in on,
                      f \notin InitiallyOn
               PROVE  \E d \in Collectors : f \in mine'[d]
    BY <1>1 DEF Attributed
  <2>1. spoiled \subseteq spoiled' /\ f[2] = e
    BY DEF Crash, EventFiles
  <2>2. PICK d \in Collectors : f \in mine[d]
    BY <2>1 DEF IInv, Attributed
  <2>3. e \in EventsOf(touched[d])
    <3>1. f \in OwedIn(touched[d])
      BY <2>2 DEF IInv, LocalOf, CoveredOf
    <3> QED BY <2>1, <3>1, RecordFiles DEF IInv, TypeOK, RecordsType
  <2>4. ProcessOf[d] # p
    BY <2>3, CrashEffect DEF IInv
  <2> QED BY <2>2, <2>4, CrashEffect DEF IInv
<1> QED BY <1>2, <1>3, <1>4

LEMMA CrashTypes ==
    ASSUME CollectorAssumption, TypeOK, NEW p \in Processes, Crash(p)
    PROVE  /\ RecordsType' /\ on' \subseteq Files
           /\ mine' \in [Collectors -> SUBSET Settings] /\ spoiled' \subseteq Events
<1>1. \A c \in Collectors : EventsOf(touched[c]) \subseteq Events
  BY RecordFiles DEF TypeOK, RecordsType
<1>2. <<>> \in Seq(DataEvent)
  OBVIOUS
<1>3. RecordsType'
  BY <1>2 DEF Crash, TypeOK, RecordsType
<1>4. mine' \in [Collectors -> SUBSET Settings] /\ on' \subseteq Files
  BY DEF Crash, TypeOK, HistoryType
<1>5. spoiled' \subseteq Events
  BY <1>1 DEF Crash, TypeOK, HistoryType
<1> QED BY <1>3, <1>4, <1>5

-----------------------------------------------------------------------------
(* The theorems *)

LEMMA InitIInv ==
    ASSUME CollectorAssumption, Init PROVE IInv
<1> USE CollectorAssumption DEF CollectorAssumption
<1>1. LockType
  BY DEF Init, LockType
<1>2. CallType
  BY DEF Init, CallType, States, Labels, Reasons
<1>3. RecordsType
  <2>1. <<>> \in Seq(DataEvent)
    OBVIOUS
  <2> QED BY <2>1 DEF Init, RecordsType
<1>4. HistoryType /\ party \in Parties /\ on \subseteq Files
  BY DEF Init, HistoryType, Files
<1>5. LockFollowsReferences
  <2>1. \A p : HoldersOf(p) = {}
    BY DEF Init, HoldersOf
  <2> QED BY <2>1, FS_EmptySet DEF Init, LockFollowsReferences
<1>6. OwedIn(<<>>) = {} /\ EventsOf(<<>>) = {} /\ KeptIn(<<>>) = {}
  BY DEF OwedIn, EventsOf, KeptIn
<1>7. ASSUME NEW c \in Collectors PROVE LocalOf(c) /\ KeepsOf(c)
  <2>1. /\ touched[c] = <<>> /\ mine[c] = {} /\ pc[c] = "idle" /\ todo[c] = {}
        /\ event[c] = None /\ ~ checked[c] /\ ~ holdsRef[c]
    BY DEF Init
  <2>2. ControlOf(c) /\ IdleOf(c) /\ KeepsOf(c)
    BY <1>6, <2>1 DEF ControlOf, Configuring, IdleOf, Idle, KeepsOf
  <2> QED BY <1>6, <2>1, <2>2
          DEF LocalOf, OwnOf, CoveredOf, BackedOf, WritableOf, OriginalsOf
<1>8. OwnChangesStayOn /\ OriginalsStayOn /\ Attributed
  BY DEF Init, OwnChangesStayOn, OriginalsStayOn, Attributed
<1> QED BY <1>1, <1>2, <1>3, <1>4, <1>5, <1>7, <1>8 DEF IInv, TypeOK

LEMMA NextIInv ==
    ASSUME CollectorAssumption, SharingAssumption, IInv, Next PROVE IInv'
<1>1. CallType' /\ LockType' /\ LockFollowsReferences'
  BY CallTypeStep, LockStep DEF IInv
<1>2. faults' \in 0 .. MaxFaults /\ party' \in Parties
  BY FaultCount DEF IInv, TypeOK
<1>3. ASSUME NEW c \in Collectors, Step(c) PROVE IInv'
  <2>1. RecordsType' /\ LocalOf(c)'
    BY <1>3, StepLocal DEF IInv
  <2>2. ASSUME NEW d \in Collectors PROVE LocalOf(d)'
    <3>1. CASE d = c
      BY <2>1, <3>1
    <3>2. CASE d # c
      <4>1. /\ state'[d] = state[d] /\ pc'[d] = pc[d] /\ todo'[d] = todo[d]
            /\ event'[d] = event[d] /\ checked'[d] = checked[d]
            /\ touched'[d] = touched[d] /\ mine'[d] = mine[d] /\ holdsRef'[d] = holdsRef[d]
        BY <1>3, <3>2, StepFrame DEF IInv
      <4> QED BY <4>1, FrameLocal DEF IInv
    <3> QED BY <3>1, <3>2
  <2>3. ASSUME NEW d \in Collectors PROVE KeepsOf(d)'
    <3>1. CASE d = c
      BY <1>3, <3>1, StepKeeps
    <3>2. CASE d # c
      <4>1. pc'[d] = pc[d] /\ todo'[d] = todo[d] /\ touched'[d] = touched[d]
        BY <1>3, <3>2, StepFrame DEF IInv
      <4>2. spoiled \subseteq spoiled'
        BY <1>3, StepEffect DEF IInv, Effect, Unmoved, GivesUp, SwitchesOn, SwitchesOff
      <4> QED BY <4>1, <4>2 DEF IInv, KeepsOf
    <3> QED BY <3>1, <3>2
  <2>4. HistoryType' /\ on' \subseteq Files
    BY <1>2, <1>3, HistoryStep DEF IInv, HistoryType
  <2>5. OwnChangesStayOn' /\ OriginalsStayOn' /\ Attributed'
    BY <1>3, StepOwnStays, StepOriginals, StepAttributed
  <2> QED BY <1>1, <1>2, <2>1, <2>2, <2>3, <2>4, <2>5 DEF IInv, TypeOK
<1>4. ASSUME NEW p \in Processes, Crash(p) PROVE IInv'
  <2>1. RecordsType' /\ HistoryType' /\ on' \subseteq Files
    BY <1>2, <1>4, CrashTypes DEF IInv, HistoryType
  <2>2. \A d \in Collectors : LocalOf(d)' /\ KeepsOf(d)'
    BY <1>4, CrashLocal
  <2>3. OwnChangesStayOn' /\ OriginalsStayOn' /\ Attributed'
    BY <1>4, CrashGlobal
  <2> QED BY <1>1, <1>2, <2>1, <2>2, <2>3 DEF IInv, TypeOK
<1>5. party \subseteq Collectors
  BY CollectorAssumption DEF CollectorAssumption, IInv, TypeOK
<1> QED BY <1>3, <1>4, <1>5 DEF Next

LEMMA StutterIInv ==
    ASSUME IInv, UNCHANGED vars PROVE IInv'
<1> USE DEF vars, shared, local, history
<1>1. TypeOK'
  BY DEF IInv, TypeOK, LockType, CallType, RecordsType, HistoryType
<1>2. LockFollowsReferences'
  BY LockUnchanged DEF IInv, TypeOK
<1>3. \A c \in Collectors : LocalOf(c)'
  BY FrameLocal DEF IInv
<1>4. \A c \in Collectors : KeepsOf(c)'
  BY DEF IInv, KeepsOf
<1>5. OwnChangesStayOn' /\ OriginalsStayOn' /\ Attributed'
  BY DEF IInv, OwnChangesStayOn, OriginalsStayOn, Attributed
<1> QED BY <1>1, <1>2, <1>3, <1>4, <1>5 DEF IInv

\* The invariant holds in every state of every behaviour.
THEOREM IInvHolds == Spec => []IInv
<1>1. Init => IInv
  BY InitIInv, CollectorAssumption
<1>2. IInv /\ [Next]_vars => IInv'
  BY NextIInv, StutterIInv, CollectorAssumption, SharingAssumption
<1> QED BY <1>1, <1>2, PTL DEF Spec

\* All variables have their types: a record of _data_events always holds an
\* event and the settings that were read for it.
THEOREM TypesHold == Spec => []TypeOK
<1>1. IInv => TypeOK
  BY DEF IInv
<1> QED BY <1>1, IInvHolds, PTL

\* The process lock follows the reference counting, whatever fails or crashes.
THEOREM LockIsCounted == Spec => []LockFollowsReferences
<1>1. IInv => LockFollowsReferences
  BY DEF IInv
<1> QED BY <1>1, IInvHolds, PTL

\* No process switches off what another has switched on for its collection.
THEOREM OwnChangesAreKept == Spec => []OwnChangesStayOn
<1>1. IInv => OwnChangesStayOn
  BY DEF IInv
<1> QED BY <1>1, IInvHolds, PTL

\* Rollbacks, stops and replaced configurations leave the events as they were.
THEOREM EventsComeBack == Spec => []EventsAreRestored
<1>1. IInv => EventsAreRestored
  <2> SUFFICES ASSUME IInv, NEW e \in Events \ spoiled,
                      \A c \in Collectors : e \notin EventsOf(touched[c]),
                      NEW f \in EventFiles(e)
               PROVE  f \in on <=> f \in InitiallyOn
    BY DEF EventsAreRestored
  <2>1. f \in InitiallyOn => f \in on
    BY DEF IInv, OriginalsStayOn
  <2>2. ASSUME f \in on, f \notin InitiallyOn PROVE FALSE
    <3>1. PICK c \in Collectors : f \in mine[c]
      BY <2>2 DEF IInv, Attributed
    <3>2. f \in OwedIn(touched[c]) /\ f[2] = e
      BY <3>1 DEF IInv, LocalOf, CoveredOf, EventFiles
    <3> QED BY <3>2, RecordFiles DEF IInv, TypeOK, RecordsType
  <2> QED BY <2>1, <2>2
<1> QED BY <1>1, IInvHolds, PTL

\* A collector at rest owes nothing and does not keep the lock from others.
THEOREM RestOwesNothing == Spec => []IdleOwesNothing
<1>1. IInv => IdleOwesNothing
  BY DEF IInv, LocalOf, IdleOf, IdleOwesNothing
<1> QED BY <1>1, IInvHolds, PTL
=============================================================================
