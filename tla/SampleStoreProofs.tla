--------------------------- MODULE SampleStoreProofs ---------------------------
(***************************************************************************)
(* Proofs about SampleStore, for any targets, metrics, batch size, faults  *)
(* and bounds: what visits and outputs find (StoreInv), the types, and     *)
(* that no accepted sample is lost (KeptInv).  The first part assumes      *)
(* nothing of the pipeline (Processed) but that it is a function of the    *)
(* raw samples; the others use StoreAssumption and the lemmas about Keep.  *)
(***************************************************************************)
EXTENDS SampleStore, SequenceLemmas, FiniteSetTheorems, TLAPS

-----------------------------------------------------------------------------
(* What steps have in common.                                               *)

\* The answer to a visit of raw samples depends on nothing else.
LEMMA SameAnswer ==
  ASSUME NEW t, NEW m, Raw(t) # <<>>, Raw(t)' = Raw(t)
  PROVE  Answer(t, m)' = Answer(t, m)
<1>1. ~NoRaw(t) /\ ~NoRaw(t)'
  BY DEF NoRaw, Raw
<1> QED
  BY <1>1 DEF Answer

\* A step that leaves the snapshot and the raw samples it was made from alone.
LEMMA SnapshotKept ==
  ASSUME Snapshots, recent' = recent, ~overtaken' => ~overtaken,
         recent # None /\ ~overtaken' => Raw(recent.target)' = Raw(recent.target)
  PROVE  Snapshots'
  BY SameAnswer DEF Snapshots, SnapshotIsOfRaw, SnapshotIsFresh

LEMMA SnapshotGone ==
  ASSUME recent' = None PROVE Snapshots'
  BY DEF Snapshots, SnapshotIsOfRaw, SnapshotIsFresh

\* A step that discards what is pending of t.
LEMMA DropStep ==
  ASSUME Shape, Snapshots, UncachedStaysInMemory, NEW t \in Targets, DropPending(t),
         file' = file, recent' = recent, uncached' = uncached
  PROVE  Shape' /\ Snapshots' /\ UncachedStaysInMemory'
<1>1. Shape'
  BY DEF Shape, DropPending
<1>2. Snapshots'
  <2>1. ~overtaken' => ~overtaken
    BY DEF DropPending
  <2>2. ASSUME recent # None, ~overtaken'
        PROVE  Raw(recent.target)' = Raw(recent.target)
    <3>1. recent.target = t => pending[t] = <<>>
      BY <2>2 DEF DropPending
    <3>2. recent.target \in Targets
      BY <2>2 DEF Snapshots, SnapshotIsOfRaw
    <3>3. pending'[recent.target] = pending[recent.target]
      BY <3>1, <3>2 DEF DropPending, Shape
    <3> QED
      BY <3>3 DEF Raw
  <2> QED
    BY <2>1, <2>2, SnapshotKept
<1>3. UncachedStaysInMemory'
  BY DEF UncachedStaysInMemory, NoRaw, DropPending, Shape
<1> QED
  BY <1>1, <1>2, <1>3

\* A reset of the targets S that cannot remove the files of "stuck".
LEMMA ResetStep ==
  ASSUME Shape, NEW S, NEW stuck, ResetArtifacts(S, stuck), uncached' \subseteq Targets
  PROVE  /\ Shape' /\ Snapshots'
         /\ \A u \in Targets : NoRaw(u) \/ u \in S \ stuck => NoRaw(u)'
<1>1. Shape'
  BY DEF Shape, ResetArtifacts, InvalidateRecent
<1>2. Snapshots'
  BY SnapshotGone DEF ResetArtifacts, InvalidateRecent
<1>3. ASSUME NEW u \in Targets, NoRaw(u) \/ u \in S \ stuck PROVE NoRaw(u)'
  BY <1>3 DEF Shape, ResetArtifacts, NoRaw
<1> QED
  BY <1>1, <1>2, <1>3

\* No stop and no consumption is under way after a step that ends idle.
LEMMA IdleCalls ==
  ASSUME call' = Idle PROVE Calls'
  BY DEF Calls, Idle, StopIsQuiet, ConsumesUncached

\* A step that changes nothing of the raw samples.
LEMMA RawKept ==
  ASSUME Shape, Snapshots, UncachedStaysInMemory,
         UNCHANGED <<pending, file, uncached, recent, overtaken>>
  PROVE  Shape' /\ Snapshots' /\ UncachedStaysInMemory'
<1>1. Snapshots'
  BY SnapshotKept DEF Raw
<1> QED
  BY <1>1 DEF Shape, UncachedStaysInMemory, NoRaw

-----------------------------------------------------------------------------
(* One lemma per action, or per group of actions that do the same.          *)

USE DEF StoreInv

\* Every target that is uncached afterwards was so before or has been reset.
LEMMA ConfigureStep ==
  ASSUME StoreInv, NEW t \in Targets, NEW noCache \in BOOLEAN, Configure(t, noCache)
  PROVE  StoreInv'
<1>1. t \in CleanSet(t) /\ CleanSet(t) \subseteq Targets
  BY DEF CleanSet
<1>2. uncached' \subseteq Targets
  BY <1>1 DEF Configure, Shape
<1>3. /\ Shape' /\ Snapshots'
      /\ \A u \in Targets : NoRaw(u) \/ u \in CleanSet(t) => NoRaw(u)'
  BY <1>2, ResetStep DEF Configure
<1>4. UncachedStaysInMemory'
  BY <1>1, <1>2, <1>3 DEF Configure, UncachedStaysInMemory, Shape
<1>5. Calls'
  BY IdleCalls DEF Configure, CanConfigure
<1> QED
  BY <1>3, <1>4, <1>5

LEMMA ConfigureFailsStep ==
  ASSUME StoreInv, NEW t \in Targets, NEW stuck \in BOOLEAN, ConfigureFails(t, stuck)
  PROVE  StoreInv'
<1>1. uncached' \subseteq uncached
  BY DEF ConfigureFails
<1>2. /\ Shape' /\ Snapshots'
      /\ \A u \in Targets : NoRaw(u) => NoRaw(u)'
  BY <1>1, ResetStep DEF ConfigureFails, Shape
<1>3. UncachedStaysInMemory'
  BY <1>1, <1>2 DEF UncachedStaysInMemory, Shape
<1>4. Calls'
  BY IdleCalls DEF ConfigureFails, CanConfigure
<1> QED
  BY <1>2, <1>3, <1>4

LEMMA CleanConfigureFailsStep ==
  ASSUME StoreInv, NEW t \in Targets, CleanConfigureFails(t)
  PROVE  StoreInv'
<1>1. PICK u \in Targets : \E S : ResetArtifacts(S, {u})
  BY DEF CleanConfigureFails
<1>2. uncached' = uncached
  BY DEF CleanConfigureFails
<1>3. /\ Shape' /\ Snapshots'
      /\ \A v \in Targets : NoRaw(v) => NoRaw(v)'
  <2>1. PICK S : ResetArtifacts(S, {u})
    BY <1>1
  <2> QED
    BY <1>2, <2>1, ResetStep DEF Shape
<1>4. UncachedStaysInMemory'
  BY <1>2, <1>3 DEF UncachedStaysInMemory, Shape
<1>5. Calls'
  BY IdleCalls DEF CleanConfigureFails, CanConfigure
<1> QED
  BY <1>3, <1>4, <1>5

LEMMA CollectorRefusesStep ==
  ASSUME StoreInv, NEW t \in Targets, CollectorRefuses(t)
  PROVE  StoreInv'
<1>1. Calls'
  BY IdleCalls DEF CollectorRefuses, CanConfigure
<1>2. CASE CleanSet(t) = Targets
  <2>1. ResetArtifacts(Targets, {}) /\ uncached' = {}
    BY <1>2 DEF CollectorRefuses
  <2>2. Shape' /\ Snapshots'
    BY <2>1, ResetStep
  <2>3. UncachedStaysInMemory'
    BY <2>1 DEF UncachedStaysInMemory
  <2> QED
    BY <1>1, <2>2, <2>3
<1>3. CASE CleanSet(t) # Targets
  <2>1. UNCHANGED <<pending, file, uncached, recent, overtaken>>
    BY <1>3 DEF CollectorRefuses, rawVars, snapshotVars
  <2> QED
    BY <1>1, <2>1, RawKept
<1> QED
  BY <1>2, <1>3

LEMMA BeginStartStep ==
  ASSUME StoreInv, NEW t \in Targets, BeginStart(t)
  PROVE  StoreInv'
<1>1. Shape' /\ Snapshots' /\ UncachedStaysInMemory'
  BY DropStep DEF BeginStart
<1>2. Calls'
  BY DEF BeginStart, Calls, StopIsQuiet, ConsumesUncached
<1> QED
  BY <1>1, <1>2

LEMMA FinishStartStep ==
  ASSUME StoreInv, NEW t \in Targets, FinishStart(t) \/ StartRefused(t)
  PROVE  StoreInv'
<1>1. UNCHANGED <<pending, file, uncached, recent, overtaken>> /\ call' = Idle
  BY DEF FinishStart, StartRefused, rawVars, snapshotVars
<1> QED
  BY <1>1, RawKept, IdleCalls

LEMMA StartWithdrawnStep ==
  ASSUME StoreInv, NEW t \in Targets, StartWithdrawn(t)
  PROVE  StoreInv'
<1>1. Shape' /\ Snapshots' /\ UncachedStaysInMemory'
  BY DropStep DEF StartWithdrawn
<1> QED
  BY <1>1, IdleCalls DEF StartWithdrawn

LEMMA RollbackStep ==
  ASSUME StoreInv, NEW t \in Targets, Rollback(t)
  PROVE  StoreInv'
<1>1. Calls'
  BY IdleCalls DEF Rollback
<1>2. uncached' = uncached
  BY DEF Rollback
<1>3. CASE UNCHANGED <<rawVars, snapshotVars>>
  BY <1>1, <1>2, <1>3, RawKept DEF rawVars, snapshotVars
<1>4. ASSUME NEW stuck, ResetArtifacts({t}, stuck)
      PROVE  StoreInv'
  <2>1. /\ Shape' /\ Snapshots'
        /\ \A u \in Targets : NoRaw(u) => NoRaw(u)'
    BY <1>2, <1>4, ResetStep DEF Shape
  <2>2. UncachedStaysInMemory'
    BY <1>2, <2>1 DEF UncachedStaysInMemory, Shape
  <2> QED
    BY <1>1, <2>1, <2>2
<1> QED
  BY <1>3, <1>4 DEF Rollback

\* The cached samples go to one target; its snapshot is gone.
LEMMA AppendStep ==
  ASSUME Shape, NEW t \in Targets, NEW span, AppendCached(t, span), uncached' = uncached
  PROVE  /\ Shape' /\ Snapshots'
         /\ \A u \in Targets \ {t} : pending'[u] = pending[u] /\ file'[u] = file[u]
<1>1. recent' = None /\ overtaken' = FALSE
  BY DEF AppendCached, InvalidateRecent
<1>2. PICK f, p : /\ file' = [file EXCEPT ![t] = f]
                  /\ pending' = [pending EXCEPT ![t] = p]
  BY DEF AppendCached, Batches, WriteFails
<1> QED
  BY <1>1, <1>2, SnapshotGone DEF Shape

LEMMA SampleStep ==
  ASSUME StoreInv, NEW t \in Targets, Sample(t)
  PROVE  StoreInv'
<1>1. /\ t \in live
      /\ UNCHANGED <<live, uncached, call>>
  BY DEF Sample
<1>2. PICK span : SinkRawSamples(t, span)
  BY DEF Sample
<1>3. CASE t \in uncached
  <2>1. UNCHANGED <<pending, file, uncached, recent, overtaken>>
    BY <1>1, <1>2, <1>3 DEF SinkRawSamples, ProcessUncached, snapshotVars
  <2>2. Calls'
    BY <1>1, <2>1 DEF Calls, StopIsQuiet, ConsumesUncached
  <2> QED
    BY <2>1, <2>2, RawKept
<1>4. CASE t \notin uncached
  <2>1. AppendCached(t, span)
    BY <1>2, <1>4 DEF SinkRawSamples
  <2>2. /\ Shape' /\ Snapshots'
        /\ \A u \in Targets \ {t} : pending'[u] = pending[u] /\ file'[u] = file[u]
    BY <1>1, <2>1, AppendStep
  <2>3. UncachedStaysInMemory'
    BY <1>1, <1>4, <2>2 DEF UncachedStaysInMemory, NoRaw, Shape
  <2>4. Calls'
    BY <1>1, <2>2 DEF Calls, StopIsQuiet, ConsumesUncached
  <2> QED
    BY <2>2, <2>3, <2>4
<1> QED
  BY <1>3, <1>4

LEMMA BeginStopStep ==
  ASSUME StoreInv, NEW t \in Targets, BeginStop(t)
  PROVE  StoreInv'
<1>1. UNCHANGED <<pending, file, uncached, recent, overtaken>>
  BY DEF BeginStop, rawVars, snapshotVars
<1>2. Calls'
  <2>1. \/ call' = [op |-> "flush", target |-> t] /\ t \notin live'
        \/ call' = Idle
    BY DEF BeginStop
  <2> QED
    BY <2>1, IdleCalls DEF Calls, StopIsQuiet, ConsumesUncached
<1> QED
  BY <1>1, <1>2, RawKept

\* What was pending is in the file: a replay reads the same.
LEMMA FlushStep ==
  ASSUME StoreInv, NEW t \in Targets, Flush(t)
  PROVE  StoreInv'
<1>1. UNCHANGED <<live, uncached, recent, overtaken>> /\ t \notin live
  BY DEF Flush, snapshotVars, Calls, StopIsQuiet
<1>2. CASE call' = Idle /\ UNCHANGED <<file, pending>>
  BY <1>1, <1>2, RawKept, IdleCalls
<1>3. CASE /\ file' = [file EXCEPT ![t] = Raw(t)]
           /\ pending' = [pending EXCEPT ![t] = <<>>]
           /\ call' = [op |-> "emit", target |-> t]
  <2>1. Shape'
    BY <1>1, <1>3 DEF Shape
  <2>2. Calls'
    BY <1>1, <1>3 DEF Calls, StopIsQuiet, ConsumesUncached, Shape
  <2>3. pending'[t] = <<>> /\ file'[t] = Raw(t)
    BY <1>3 DEF Shape
  <2>4. \A u \in Targets \ {t} : pending'[u] = pending[u] /\ file'[u] = file[u]
    BY <1>3 DEF Shape
  <2>5. ASSUME NEW u \in Targets, NoRaw(u)
        PROVE  NoRaw(u)'
    BY <2>3, <2>4, <2>5 DEF NoRaw, Raw
  <2>6. UncachedStaysInMemory'
    BY <1>1, <2>5 DEF UncachedStaysInMemory, Shape
  <2>7. \A u \in Targets : Raw(u)' = Raw(u)
    BY <2>3, <2>4 DEF Raw
  <2>8. Snapshots'
    BY <1>1, <2>7, SnapshotKept DEF Snapshots, SnapshotIsOfRaw
  <2> QED
    BY <2>1, <2>2, <2>6, <2>8
<1> QED
  BY <1>2, <1>3 DEF Flush

LEMMA FinishStopStep ==
  ASSUME StoreInv, NEW t \in Targets, FinishStop(t)
  PROVE  StoreInv'
<1>1. UNCHANGED <<pending, file, uncached, recent, overtaken>> /\ call' = Idle
  BY DEF FinishStop, rawVars, snapshotVars
<1> QED
  BY <1>1, RawKept, IdleCalls

\* A visit remembers raw samples only.
LEMMA VisitStep ==
  ASSUME Shape, Snapshots, UncachedStaysInMemory,
         NEW t \in Targets, NEW m, NEW takesAll, VisitSamples(t, m, takesAll)
  PROVE  Shape' /\ Snapshots' /\ UncachedStaysInMemory'
<1>1. UNCHANGED <<pending, file, uncached>>
  BY DEF VisitSamples, rawVars
<1>2. Shape' /\ UncachedStaysInMemory'
  BY <1>1 DEF VisitSamples, snapshotVars, Shape, UncachedStaysInMemory, NoRaw
<1>3. Snapshots'
  <2>1. CASE UNCHANGED snapshotVars
    BY <1>1, <2>1, SnapshotKept DEF snapshotVars, Raw
  <2>2. CASE recent' = None
    BY <2>2, SnapshotGone
  <2>3. CASE /\ Raw(t) # <<>>
             /\ recent' = [target |-> t, metric |-> m, samples |-> Answer(t, m)]
    <3>1. Raw(t)' = Raw(t) /\ Answer(t, m)' = Answer(t, m)
      BY <1>1, <2>3, SameAnswer DEF Raw
    <3> QED
      BY <2>3, <3>1 DEF Snapshots, SnapshotIsOfRaw, SnapshotIsFresh
  <2> QED
    BY <2>1, <2>2, <2>3 DEF VisitSamples
<1> QED
  BY <1>2, <1>3

LEMMA VisitsStep ==
  ASSUME StoreInv, NEW t \in Targets, NEW m \in AllMetrics,
         Visit(t, m) \/ \E w \in Windows : GetSamples(t, m, w)
  PROVE  StoreInv'
<1>1. PICK takesAll : VisitSamples(t, m, takesAll)
  BY DEF Visit, GetSamples
<1>2. Shape' /\ Snapshots' /\ UncachedStaysInMemory'
  BY <1>1, VisitStep
<1>3. \/ call' = Idle
      \/ t \in uncached' /\ call'.op = "consume" /\ call'.target = t
  BY <1>1 DEF Visit, GetSamples, VisitSamples
<1>4. Calls'
  <2>1. CASE call' = Idle
    BY <2>1, IdleCalls
  <2>2. CASE t \in uncached' /\ call'.op = "consume" /\ call'.target = t
    BY <2>2 DEF Calls, StopIsQuiet, ConsumesUncached
  <2> QED
    BY <1>3, <2>1, <2>2
<1> QED
  BY <1>2, <1>4

LEMMA ConsumeStep ==
  ASSUME StoreInv, Consume
  PROVE  StoreInv'
<1>1. UNCHANGED <<pending, file, uncached, recent, overtaken>> /\ call' = Idle
  BY DEF Consume, rawVars, snapshotVars
<1> QED
  BY <1>1, RawKept, IdleCalls

\* A crop touches the samples of one target, and finds none where there are none.
LEMMA CropStep ==
  ASSUME StoreInv, NEW t \in Targets, NEW w \in Windows, Crop(t, w)
  PROVE  StoreInv'
<1>1. Calls'
  BY IdleCalls DEF Crop
<1>2. Shape' /\ Snapshots'
  BY SnapshotGone DEF Crop, InvalidateRecent, Shape
<1>3. ASSUME NEW u \in Targets, NoRaw(u)
      PROVE  NoRaw(u)'
  <2>1. RawWithin(w, <<>>) = <<>>
    BY KeepOfNone DEF RawWithin
  <2> QED
    BY <1>3, <2>1 DEF Crop, NoRaw, Shape
<1>4. UncachedStaysInMemory'
  BY <1>3 DEF Crop, UncachedStaysInMemory, Shape
<1> QED
  BY <1>1, <1>2, <1>4

LEMMA CropFailsStep ==
  ASSUME StoreInv, NEW t \in Targets, NEW w \in Windows, CropFails(t, w)
  PROVE  StoreInv'
<1>1. Calls'
  BY IdleCalls DEF CropFails
<1>2. PICK f, p : /\ file' = [file EXCEPT ![t] = f]
                  /\ pending' = [pending EXCEPT ![t] = p]
  BY DEF CropFails
<1>3. UNCHANGED <<uncached, recent>> /\ t \notin uncached
  BY DEF CropFails, UncachedStaysInMemory, NoRaw
<1>4. Shape'
  BY <1>2, <1>3 DEF CropFails, Shape
<1>5. Snapshots'
  <2>1. ~overtaken' => ~overtaken /\ ~(recent # None /\ recent.target = t)
    BY DEF CropFails
  <2>2. ASSUME recent # None, ~overtaken'
        PROVE  Raw(recent.target)' = Raw(recent.target)
    <3>1. recent.target # t /\ recent.target \in Targets
      BY <2>1, <2>2 DEF Snapshots, SnapshotIsOfRaw
    <3>2. /\ pending'[recent.target] = pending[recent.target]
          /\ file'[recent.target] = file[recent.target]
      BY <1>2, <3>1 DEF Shape
    <3> QED
      BY <1>3, <3>2 DEF Raw
  <2> QED
    BY <1>3, <2>1, <2>2, SnapshotKept
<1>6. UncachedStaysInMemory'
  BY <1>2, <1>3 DEF UncachedStaysInMemory, NoRaw, Shape
<1> QED
  BY <1>1, <1>4, <1>5, <1>6

-----------------------------------------------------------------------------
(* The theorems.                                                            *)

\* The invariant holds, whatever the calls, the samplers and the failures.
THEOREM StoreInvariance == Spec => []StoreInv
<1>1. Init => StoreInv
  <2> SUFFICES ASSUME Init PROVE StoreInv
    OBVIOUS
  <2>1. Shape
    BY DEF Init, Shape
  <2>2. Calls
    BY DEF Init, Idle, Calls, StopIsQuiet, ConsumesUncached
  <2>3. Snapshots /\ UncachedStaysInMemory
    BY DEF Init, Snapshots, SnapshotIsOfRaw, SnapshotIsFresh, UncachedStaysInMemory
  <2> QED
    BY <2>1, <2>2, <2>3
<1>2. ASSUME StoreInv, [Next]_vars
      PROVE  StoreInv'
  <2>1. CASE UNCHANGED vars
    <3>1. UNCHANGED <<pending, file, uncached, recent, overtaken, live, call>>
      BY <2>1 DEF vars, rawVars, snapshotVars
    <3>2. Calls'
      BY <1>2, <3>1 DEF Calls, StopIsQuiet, ConsumesUncached
    <3> QED
      BY <1>2, <3>1, <3>2, RawKept
  <2>2. CASE Consume
    BY <1>2, <2>2, ConsumeStep
  <2>3. ASSUME NEW t \in Targets,
               \/ \E noCache \in BOOLEAN : Configure(t, noCache)
               \/ \E stuck \in BOOLEAN : ConfigureFails(t, stuck)
               \/ CleanConfigureFails(t) \/ CollectorRefuses(t)
        PROVE  StoreInv'
    BY <1>2, <2>3, ConfigureStep, ConfigureFailsStep, CleanConfigureFailsStep,
       CollectorRefusesStep
  <2>4. ASSUME NEW t \in Targets,
               \/ BeginStart(t) \/ FinishStart(t) \/ StartRefused(t) \/ StartWithdrawn(t)
               \/ Rollback(t)
        PROVE  StoreInv'
    BY <1>2, <2>4, BeginStartStep, FinishStartStep, StartWithdrawnStep, RollbackStep
  <2>5. ASSUME NEW t \in Targets,
               Sample(t) \/ BeginStop(t) \/ Flush(t) \/ FinishStop(t)
        PROVE  StoreInv'
    BY <1>2, <2>5, SampleStep, BeginStopStep, FlushStep, FinishStopStep
  <2>6. ASSUME NEW t \in Targets,
               \/ \E m \in AllMetrics : Visit(t, m)
               \/ \E m \in AllMetrics, w \in Windows : GetSamples(t, m, w)
               \/ \E w \in Windows : Crop(t, w) \/ CropFails(t, w)
        PROVE  StoreInv'
    BY <1>2, <2>6, VisitsStep, CropStep, CropFailsStep
  <2> QED
    BY <1>2, <2>1, <2>2, <2>3, <2>4, <2>5, <2>6 DEF Next
<1> QED
  BY <1>1, <1>2, PTL DEF Spec

\* A target that is not cached has no raw samples, in memory or on file, even of a
\* configuration before that was cached (ResetTargetCollectionArtifacts, SinkRawSamples).
THEOREM UncachedInMemory == Spec => []UncachedStaysInMemory
BY StoreInvariance, PTL

\* The snapshot answers as a replay would, as long as no raw samples are discarded
\* behind it (VisitRawMetricSampleBatchesAndRemember, the calls that invalidate it).
THEOREM SnapshotFresh == Spec => []SnapshotIsFresh
<1>1. StoreInv => SnapshotIsFresh
  BY DEF Snapshots
<1> QED
  BY <1>1, StoreInvariance, PTL

\* The first final output has what visits find (StopCollection, the rebuild).
THEOREM FirstOutputComplete == Spec => FirstOutputIsComplete
<1>1. ASSUME StoreInv, NEW t \in Targets, FinishStop(t), rebuilt # rebuilt',
             NEW u \in Targets, NEW m \in Metrics, u = t \/ file[u] # <<>>
      PROVE  Held(u, m)' = Answer(u, m)
  <2>1. processed' = [v \in Targets |-> IF file[v] = <<>> THEN processed[v]
                                         ELSE ReplayOf(Raw(v))]
    BY <1>1 DEF FinishStop
  <2>2. CASE file[u] = <<>>
    <3>1. NoRaw(u)
      BY <1>1, <2>2 DEF FinishStop, Calls, StopIsQuiet, NoRaw
    <3>2. processed'[u] = processed[u]
      BY <2>1, <2>2
    <3> QED
      BY <3>1, <3>2 DEF Answer, Held
  <2>3. CASE file[u] # <<>>
    <3>1. ~NoRaw(u) /\ processed'[u] = ReplayOf(Raw(u))
      BY <2>1, <2>3 DEF NoRaw
    <3> QED
      BY <3>1 DEF Answer, Held, ReplayOf
  <2> QED
    BY <2>2, <2>3
<1>2. StoreInv /\ [Next]_vars =>
        [\A t \in Targets :
           FinishStop(t) /\ rebuilt # rebuilt' =>
             \A u \in Targets, m \in Metrics :
               u = t \/ file[u] # <<>> => Held(u, m)' = Answer(u, m)]_vars
  BY <1>1
<1> QED
  BY <1>2, StoreInvariance, PTL DEF Spec, FirstOutputIsComplete

HIDE DEF StoreInv

-----------------------------------------------------------------------------
(* Readings, and what the pipeline makes of them.                            *)

\* A set as a sequence: each element once.
LEMMA SequenceOfSet ==
  ASSUME NEW S, IsFiniteSet(S)
  PROVE  /\ SetToSeq(S) \in Seq(S)
         /\ IsInjective(SetToSeq(S))
<1>1. Cardinality(S) \in Nat /\ ExistsBijection(1..Cardinality(S), S)
  BY FS_CardinalityType
<1>2. \E f \in [1..Cardinality(S) -> S] : IsInjective(f)
  BY <1>1 DEF ExistsBijection, Bijection, Injection
<1>3. SetToSeq(S) \in [1..Cardinality(S) -> S] /\ IsInjective(SetToSeq(S))
  <2> HIDE DEF IsInjective
  <2> QED
    BY <1>2, Zenon DEF SetToSeq
<1>4. SetToSeq(S) \in UNION {[1..n -> S] : n \in Nat}
  BY <1>1, <1>3, Zenon
<1> QED
  BY <1>3, <1>4, SeqDef

\* A reading: samples of different metrics, all of the next tick.
LEMMA SpansAreReadings ==
  ASSUME RawTypes, NEW span \in Spans
  PROVE  /\ span \in Seq(RawSample)
         /\ \A s \in Range(span) : s.tick = tick + 1
         /\ \A i, j \in DOMAIN span : span[i].metric = span[j].metric => i = j
<1>1. PICK M \in Readings : span = SetToSeq({[metric |-> m, tick |-> tick + 1] : m \in M})
  BY DEF Spans
<1> DEFINE S == {[metric |-> m, tick |-> tick + 1] : m \in M}
           f == [m \in M |-> [metric |-> m, tick |-> tick + 1]]
<1>2. IsFiniteSet(M) /\ M \subseteq Metrics
  <2>1. M \subseteq Metrics /\ IsFiniteSet(Metrics)
    BY StoreAssumption
  <2> QED
    BY <2>1, FS_Subset
<1>3. f \in Surjection(M, S)
  BY DEF Surjection
<1>4. IsFiniteSet(S)
  BY <1>2, <1>3, FS_Surjection
<1>5. span \in Seq(S) /\ IsInjective(span)
  BY <1>1, <1>4, SequenceOfSet
<1>6. S \subseteq RawSample
  BY <1>2 DEF RawTypes, RawSample
<1>7. \A s \in S : s.tick = tick + 1
  OBVIOUS
<1>8. \A r, s \in S : r.metric = s.metric => r = s
  OBVIOUS
<1> HIDE DEF S
<1>9. \A i \in DOMAIN span : span[i] \in S
  BY <1>5, LenProperties, ElementOfSeq
<1>10. span \in Seq(RawSample)
  BY <1>5, <1>6, SeqMonotonic
<1>11. \A s \in Range(span) : s.tick = tick + 1
  BY <1>7, <1>9 DEF Range
<1>12. \A i, j \in DOMAIN span : span[i].metric = span[j].metric => i = j
  BY <1>5, <1>8, <1>9 DEF IsInjective
<1> QED
  BY <1>10, <1>11, <1>12

\* What the pipeline makes of raw samples.
LEMMA TicksType ==
  ASSUME NEW raw \in Seq(RawSample), NEW m
  PROVE  TicksOf(m, raw) \in Seq(Nat)
<1> DEFINE own == Keep(raw, [metric: {m}, tick: Nat])
<1>1. own \in Seq(RawSample)
  BY KeepElements
<1> HIDE DEF own
<1>2. Len(own) \in Nat /\ DOMAIN own = 1..Len(own)
  BY <1>1, LenProperties
<1>3. \A i \in 1..Len(own) : own[i] \in RawSample
  BY <1>1, ElementOfSeq
<1>4. [i \in DOMAIN own |-> own[i].tick] \in [1..Len(own) -> Nat]
  BY <1>2, <1>3 DEF RawSample
<1>5. [i \in DOMAIN own |-> own[i].tick] \in UNION {[1..n -> Nat] : n \in Nat}
  BY <1>2, <1>4, Zenon
<1> QED
  BY <1>5, SeqDef DEF TicksOf, own

\* A delta is an interval between two samples, a value stands for one.
LEMMA ProcessedType ==
  ASSUME NEW raw \in Seq(RawSample), NEW before \in Seq(Nat), NEW m
  PROVE  Processed(m, before, raw) \in Seq(ProcessedSample)
<1> DEFINE ticks == (IF m \in DeltaMetrics THEN before ELSE <<>>) \o TicksOf(m, raw)
<1>1. ticks \in Seq(Nat)
  BY TicksType, EmptySeq, ConcatProperties
<1> HIDE DEF ticks
<1>2. Len(ticks) \in Nat /\ DOMAIN ticks = 1..Len(ticks) /\ \A i \in 1..Len(ticks) : ticks[i] \in Nat
  BY <1>1, LenProperties, ElementOfSeq
<1> DEFINE deltas == [i \in 1..(Len(ticks) - 1) |-> [since |-> ticks[i], at |-> ticks[i + 1]]]
           values == [i \in DOMAIN ticks |-> [since |-> ticks[i], at |-> ticks[i]]]
<1>3. CASE Len(ticks) = 0
  <2>1. deltas = <<>> /\ values = <<>>
    BY <1>2, <1>3
  <2> QED
    BY <2>1, EmptySeq DEF Processed, ticks
<1>4. CASE Len(ticks) # 0
  <2>1. /\ Len(ticks) - 1 \in Nat
        /\ deltas \in [1..(Len(ticks) - 1) -> ProcessedSample]
        /\ values \in [1..Len(ticks) -> ProcessedSample]
    BY <1>2, <1>4 DEF ProcessedSample
  <2> HIDE DEF deltas, values
  <2>2. /\ deltas \in UNION {[1..n -> ProcessedSample] : n \in Nat}
        /\ values \in UNION {[1..n -> ProcessedSample] : n \in Nat}
    BY <1>2, <2>1, Zenon
  <2>3. deltas \in Seq(ProcessedSample) /\ values \in Seq(ProcessedSample)
    BY <2>2, SeqDef
  <2> QED
    BY <2>3 DEF Processed, ticks, deltas, values
<1> QED
  BY <1>3, <1>4


-----------------------------------------------------------------------------
(* Types.                                                                   *)

USE DEF TypeOK

\* The parts of the type invariant that a step leaves alone.
LEMMA RawTypesKept ==
  ASSUME RawTypes, UNCHANGED rawVars PROVE RawTypes'
BY DEF RawTypes, rawVars
LEMMA PreviousTypesKept ==
  ASSUME PreviousTypes, UNCHANGED previous PROVE PreviousTypes'
BY DEF PreviousTypes
LEMMA ProcessedTypesKept ==
  ASSUME ProcessedTypes, UNCHANGED processed PROVE ProcessedTypes'
BY DEF ProcessedTypes
LEMMA SnapshotTypesKept ==
  ASSUME SnapshotTypes, UNCHANGED snapshotVars PROVE SnapshotTypes'
BY DEF SnapshotTypes, snapshotVars
LEMMA CallTypesKept ==
  ASSUME CallTypes, call' = Idle \/ call' = call PROVE CallTypes'
BY DEF CallTypes

\* What a reset leaves has the types of what there was, or is empty.
LEMMA ResetTypes ==
  ASSUME RawTypes, ProcessedTypes, NEW S, NEW stuck, ResetArtifacts(S, stuck)
  PROVE  RawTypes' /\ ProcessedTypes' /\ SnapshotTypes'
<1>1. RawTypes'
  <2>1. <<>> \in Seq(RawSample)
    BY EmptySeq
  <2> QED
    BY <2>1 DEF RawTypes, ResetArtifacts
<1>2. ProcessedTypes'
  BY DEF ProcessedTypes, ResetArtifacts
<1>3. SnapshotTypes'
  BY DEF SnapshotTypes, ResetArtifacts, InvalidateRecent
<1> QED
  BY <1>1, <1>2, <1>3

\* A metric that is reset has no previous sample.
LEMMA ResetMetricsTypes ==
  ASSUME PreviousTypes, NEW S, ResetMetrics(S)
  PROVE  PreviousTypes'
<1>1. <<>> \in Seq(Nat) /\ Len(<<>>) = 0
  BY EmptySeq
<1>2. previous' \in [Targets -> [AllMetrics -> Seq(Nat)]]
  BY <1>1 DEF PreviousTypes, ResetMetrics
<1>3. ASSUME NEW t \in Targets, NEW m \in AllMetrics
      PROVE  Len(previous'[t][m]) <= 1
  <2>1. previous'[t][m] = IF t \in S THEN <<>> ELSE previous[t][m]
    BY DEF ResetMetrics
  <2> QED
    BY <1>1, <2>1 DEF PreviousTypes
<1> QED
  BY <1>2, <1>3 DEF PreviousTypes

\* What a crop, a start that drops samples and a write leave of the raw samples.
LEMMA DropTypes ==
  ASSUME RawTypes, SnapshotTypes, NEW t \in Targets, DropPending(t),
         UNCHANGED <<file, tick, recent>>
  PROVE  RawTypes' /\ SnapshotTypes'
<1>1. <<>> \in Seq(RawSample) /\ Keep(accepted[t], Range(file[t])) \in Seq(RawSample)
  BY EmptySeq, KeepElements DEF RawTypes
<1>2. RawTypes'
  BY <1>1 DEF RawTypes, DropPending
<1>3. SnapshotTypes'
  BY DEF SnapshotTypes, DropPending
<1> QED
  BY <1>2, <1>3

\* Batches that are cut from a sequence of raw samples.
LEMMA BatchesTypes ==
  ASSUME RawTypes, NEW t \in Targets, NEW all \in Seq(RawSample), NEW n \in Int,
         NEW last \in Int, n * BatchSize <= Len(all), last <= Len(all), n >= 0,
         Batches(t, all, n, last)
  PROVE  /\ file' \in [Targets -> Seq(RawSample)]
         /\ pending' \in [Targets -> Seq(RawSample)]
<1>1. n * BatchSize \in Nat /\ n * BatchSize + 1 \in Int /\ 1 \in Int
  BY StoreAssumption
<1>2. \A i \in 1..Len(all) : all[i] \in RawSample
  BY ElementOfSeq
<1>3. SubSeq(all, 1, n * BatchSize) \in Seq(RawSample)
  BY <1>1, <1>2, SubSeqProperties
<1>4. SubSeq(all, n * BatchSize + 1, last) \in Seq(RawSample)
  BY <1>1, <1>2, SubSeqProperties
<1>5. file[t] \o SubSeq(all, 1, n * BatchSize) \in Seq(RawSample)
  BY <1>3, ConcatProperties DEF RawTypes
<1> QED
  BY <1>4, <1>5 DEF Batches, RawTypes

\* What a replay reads is the file and what is pending.
LEMMA RawType ==
  ASSUME RawTypes, NEW t \in Targets
  PROVE  /\ Raw(t) = file[t] \o pending[t]
         /\ Raw(t) \in Seq(RawSample)
<1>1. pending[t] \in Seq(RawSample) /\ file[t] \in Seq(RawSample)
  BY DEF RawTypes
<1>2. file[t] \o <<>> = file[t]
  BY <1>1, ConcatEmptySeq
<1>3. file[t] \o pending[t] \in Seq(RawSample)
  BY <1>1, ConcatProperties
<1> QED
  BY <1>2, <1>3 DEF Raw

\* What a visit finds, and what it makes of it.
LEMMA HeldType ==
  ASSUME ProcessedTypes, NEW t \in Targets, NEW m
  PROVE  Held(t, m) \in Seq(ProcessedSample)
<1>1. <<>> \in Seq(ProcessedSample)
  BY EmptySeq
<1> QED
  BY <1>1 DEF Held, ProcessedTypes

LEMMA AnswerType ==
  ASSUME RawTypes, ProcessedTypes, NEW t \in Targets, NEW m
  PROVE  Answer(t, m) \in Seq(ProcessedSample)
<1>1. <<>> \in Seq(Nat)
  BY EmptySeq
<1> QED
  BY <1>1, RawType, HeldType, ProcessedType DEF Answer

\* What the replay of a target leaves in the processed samples.
LEMMA ReplayType ==
  ASSUME NEW raw \in Seq(RawSample)
  PROVE  /\ DOMAIN ReplayOf(raw) \subseteq Metrics
         /\ \A m \in DOMAIN ReplayOf(raw) : ReplayOf(raw)[m] \in Seq(ProcessedSample)
<1>1. <<>> \in Seq(Nat)
  BY EmptySeq
<1>2. \A m : Processed(m, <<>>, raw) \in Seq(ProcessedSample)
  BY <1>1, ProcessedType
<1> QED
  BY <1>2 DEF ReplayOf

\* What is left of the processed samples of a metric in a window.
LEMMA WithinType ==
  ASSUME NEW w, NEW samples \in Seq(ProcessedSample)
  PROVE  Within(w, samples) \in Seq(ProcessedSample)
BY KeepElements DEF Within

-----------------------------------------------------------------------------

\* The actions, in the order of the specification.
LEMMA ConfigureTypes ==
  ASSUME TypeOK, NEW t \in Targets,
         \/ \E noCache \in BOOLEAN : Configure(t, noCache)
         \/ \E stuck \in BOOLEAN : ConfigureFails(t, stuck)
  PROVE  TypeOK'
<1>1. PICK S, stuck : ResetArtifacts(S, stuck)
  BY DEF Configure, ConfigureFails
<1>2. RawTypes' /\ ProcessedTypes' /\ SnapshotTypes'
  BY <1>1, ResetTypes
<1>3. PreviousTypes'
  BY ResetMetricsTypes DEF Configure, ConfigureFails
<1>4. ControlTypes'
  BY DEF Configure, ConfigureFails, ControlTypes, ResetOutputs, Unconfigure
<1>5. CallTypes'
  BY CallTypesKept DEF Configure, ConfigureFails
<1> QED
  BY <1>2, <1>3, <1>4, <1>5

LEMMA CleanConfigureFailsTypes ==
  ASSUME TypeOK, NEW t \in Targets, CleanConfigureFails(t)
  PROVE  TypeOK'
<1>1. PICK S, stuck : ResetArtifacts(S, stuck)
  BY DEF CleanConfigureFails
<1>2. RawTypes' /\ ProcessedTypes' /\ SnapshotTypes'
  BY <1>1, ResetTypes
<1>3. PreviousTypes' /\ CallTypes'
  BY PreviousTypesKept, CallTypesKept DEF CleanConfigureFails
<1>4. ControlTypes'
  BY DEF CleanConfigureFails, ControlTypes
<1> QED
  BY <1>2, <1>3, <1>4

LEMMA CollectorRefusesTypes ==
  ASSUME TypeOK, NEW t \in Targets, CollectorRefuses(t)
  PROVE  TypeOK'
<1>1. CallTypes'
  BY CallTypesKept DEF CollectorRefuses
<1>2. CASE CleanSet(t) = Targets
  <2>1. RawTypes' /\ ProcessedTypes' /\ SnapshotTypes'
    BY <1>2, ResetTypes DEF CollectorRefuses
  <2>2. PreviousTypes'
    BY <1>2, ResetMetricsTypes DEF CollectorRefuses
  <2>3. ControlTypes'
    BY <1>2 DEF CollectorRefuses, ControlTypes, ResetOutputs
  <2> QED
    BY <1>1, <2>1, <2>2, <2>3
<1>3. CASE CleanSet(t) # Targets
  <2>1. /\ UNCHANGED <<phase, uncached, rawVars, previous, processed, snapshotVars, rebuilt>>
        /\ live' \in {live, live \ {t}} /\ UNCHANGED active
    BY <1>3 DEF CollectorRefuses
  <2>2. ControlTypes'
    BY <2>1 DEF ControlTypes
  <2> QED
    BY <1>1, <2>1, <2>2, RawTypesKept, PreviousTypesKept, ProcessedTypesKept,
       SnapshotTypesKept
<1> QED
  BY <1>2, <1>3

\* A start, its end and its withdrawal.
LEMMA StartTypes ==
  ASSUME TypeOK, NEW t \in Targets,
         BeginStart(t) \/ FinishStart(t) \/ StartRefused(t) \/ StartWithdrawn(t)
  PROVE  TypeOK'
<1>1. RawTypes' /\ SnapshotTypes'
  <2>1. CASE BeginStart(t) \/ StartWithdrawn(t)
    BY <2>1, DropTypes DEF BeginStart, StartWithdrawn
  <2>2. CASE FinishStart(t) \/ StartRefused(t)
    BY <2>2, RawTypesKept, SnapshotTypesKept DEF FinishStart, StartRefused
  <2> QED
    BY <2>1, <2>2
<1>2. PreviousTypes' /\ ProcessedTypes'
  BY PreviousTypesKept, ProcessedTypesKept
     DEF BeginStart, FinishStart, StartRefused, StartWithdrawn
<1>3. ControlTypes'
  BY DEF BeginStart, FinishStart, StartRefused, StartWithdrawn, ControlTypes
<1>4. CallTypes'
  BY DEF BeginStart, FinishStart, StartRefused, StartWithdrawn, CallTypes
<1> QED
  BY <1>1, <1>2, <1>3, <1>4

LEMMA RollbackTypes ==
  ASSUME TypeOK, NEW t \in Targets, Rollback(t)
  PROVE  TypeOK'
<1>1. PreviousTypes' /\ CallTypes'
  BY PreviousTypesKept, CallTypesKept DEF Rollback
<1>2. RawTypes' /\ ProcessedTypes' /\ SnapshotTypes'
  <2>1. CASE \E stuck : ResetArtifacts({t}, stuck)
    BY <2>1, ResetTypes
  <2>2. CASE UNCHANGED <<rawVars, processed, snapshotVars>>
    BY <2>2, RawTypesKept, ProcessedTypesKept, SnapshotTypesKept
  <2> QED
    BY <2>1, <2>2 DEF Rollback
<1>3. ControlTypes'
  BY DEF Rollback, ControlTypes, ResetOutputs
<1> QED
  BY <1>1, <1>2, <1>3

\* A reading goes to the batches, written or not, or through the pipeline.
LEMMA AppendTypes ==
  ASSUME TypeOK, NEW t \in Targets, NEW span \in Spans, AppendCached(t, span), tick' = tick + 1
  PROVE  RawTypes' /\ SnapshotTypes'
<1> DEFINE all == pending[t] \o span
           batches == Len(all) \div BatchSize
<1>1. RawTypes /\ tick \in Nat /\ span \in Seq(RawSample)
  BY SpansAreReadings DEF RawTypes
<1>2. all \in Seq(RawSample) /\ Len(all) \in Nat
  BY <1>1, ConcatProperties, LenProperties DEF RawTypes
<1> HIDE DEF all
<1>3. SnapshotTypes'
  BY DEF AppendCached, InvalidateRecent, SnapshotTypes
<1>4. CASE /\ Batches(t, all, batches, Len(all))
           /\ accepted' = [accepted EXCEPT ![t] = @ \o span]
  <2>1. batches \in Nat /\ batches * BatchSize <= Len(all)
    BY <1>2, Division, StoreAssumption
  <2>2. accepted[t] \o span \in Seq(RawSample)
    BY <1>1, ConcatProperties DEF RawTypes
  <2> HIDE DEF batches
  <2>3. /\ file' \in [Targets -> Seq(RawSample)]
        /\ pending' \in [Targets -> Seq(RawSample)]
    BY <1>1, <1>2, <1>4, <2>1, BatchesTypes
  <2>4. accepted' \in [Targets -> Seq(RawSample)]
    BY <1>1, <1>4, <2>2 DEF RawTypes
  <2> QED
    BY <1>1, <1>3, <2>3, <2>4 DEF RawTypes
<1>5. CASE /\ \E n \in 1..batches : WriteFails(t, all, n)
           /\ UNCHANGED accepted
  <2>1. PICK n \in 1..batches : Batches(t, all, n - 1, n * BatchSize)
    BY <1>5 DEF WriteFails
  <2>2. BatchSize \in Nat \ {0}
    BY StoreAssumption
  <2>3. /\ n * BatchSize \in Nat /\ n * BatchSize <= Len(all) /\ n * BatchSize >= BatchSize
        /\ (n - 1) * BatchSize = n * BatchSize - BatchSize
    BY <1>2, <2>2, Batch
  <2>4. (n - 1) * BatchSize <= Len(all)
    BY <1>2, <2>2, <2>3
  <2>5. n - 1 \in Int /\ n - 1 >= 0 /\ n * BatchSize \in Int
    BY <2>3
  <2>6. /\ file' \in [Targets -> Seq(RawSample)]
        /\ pending' \in [Targets -> Seq(RawSample)]
    BY <1>1, <1>2, <2>1, <2>3, <2>4, <2>5, BatchesTypes
  <2> QED
    BY <1>1, <1>3, <1>5, <2>6 DEF RawTypes
<1> QED
  BY <1>4, <1>5 DEF AppendCached, all

LEMMA ProcessTypes ==
  ASSUME TypeOK, NEW t \in Targets, NEW span \in Spans, ProcessUncached(t, span)
  PROVE  PreviousTypes' /\ ProcessedTypes'
<1> DEFINE made == [m \in AllMetrics |-> Processed(m, previous[t][m], span)]
           keys == DOMAIN processed[t] \cup {m \in AllMetrics : made[m] # <<>>}
<1>1. /\ PreviousTypes /\ ProcessedTypes /\ span \in Seq(RawSample)
      /\ \A m \in AllMetrics : previous[t][m] \in Seq(Nat)
  BY SpansAreReadings DEF PreviousTypes
<1>2. \A m \in AllMetrics : made[m] \in Seq(ProcessedSample)
  BY <1>1, ProcessedType
<1>3. keys \subseteq AllMetrics
  BY <1>1 DEF ProcessedTypes
<1> HIDE DEF made
<1>4. \A m \in keys : Held(t, m) \o made[m] \in Seq(ProcessedSample)
  BY <1>1, <1>2, <1>3, HeldType, ConcatProperties
<1>5. ProcessedTypes'
  <2>1. processed' = [processed EXCEPT ![t] = [m \in keys |-> Held(t, m) \o made[m]]]
    BY DEF ProcessUncached, made
  <2> HIDE DEF keys
  <2> QED
    BY <1>1, <1>3, <1>4, <2>1 DEF ProcessedTypes
<1>6. \A m : TicksOf(m, span) # <<>> =>
               <<Last(TicksOf(m, span))>> \in Seq(Nat) /\ Len(<<Last(TicksOf(m, span))>>) = 1
  <2> SUFFICES ASSUME NEW m, TicksOf(m, span) # <<>>
               PROVE  /\ <<Last(TicksOf(m, span))>> \in Seq(Nat)
                      /\ Len(<<Last(TicksOf(m, span))>>) = 1
    OBVIOUS
  <2>1. TicksOf(m, span) \in Seq(Nat)
    BY <1>1, TicksType
  <2>2. Len(TicksOf(m, span)) \in Nat \ {0}
    BY <2>1, EmptySeq
  <2>3. TicksOf(m, span)[Len(TicksOf(m, span))] \in Nat
    BY <2>1, <2>2, ElementOfSeq
  <2> QED
    BY <2>3 DEF Last
<1>7. PreviousTypes'
  <2>1. previous' = [previous EXCEPT ![t] =
                       [m \in AllMetrics |-> IF TicksOf(m, span) = <<>> THEN @[m]
                                             ELSE <<Last(TicksOf(m, span))>>]]
    BY DEF ProcessUncached
  <2>2. previous' \in [Targets -> [AllMetrics -> Seq(Nat)]]
    BY <1>1, <1>6, <2>1 DEF PreviousTypes
  <2>3. ASSUME NEW u \in Targets, NEW m \in AllMetrics
        PROVE  Len(previous'[u][m]) <= 1
    <3>1. CASE u = t /\ TicksOf(m, span) # <<>>
      <4>1. previous'[u][m] = <<Last(TicksOf(m, span))>>
        BY <1>1, <2>1, <3>1 DEF PreviousTypes
      <4> QED
        BY <1>6, <3>1, <4>1
    <3>2. CASE ~(u = t /\ TicksOf(m, span) # <<>>)
      <4>1. previous'[u][m] = previous[u][m]
        BY <1>1, <2>1, <3>2 DEF PreviousTypes
      <4> QED
        BY <1>1, <4>1 DEF PreviousTypes
    <3> QED
      BY <3>1, <3>2
  <2> QED
    BY <2>2, <2>3 DEF PreviousTypes
<1> QED
  BY <1>5, <1>7

LEMMA SampleTypes ==
  ASSUME TypeOK, NEW t \in Targets, Sample(t)
  PROVE  TypeOK'
<1>1. tick' = tick + 1 /\ UNCHANGED <<phase, live, active, uncached, rebuilt, call>>
  BY DEF Sample
<1>2. PICK span \in Spans : SinkRawSamples(t, span)
  BY DEF Sample
<1>3. ControlTypes' /\ CallTypes'
  BY <1>1, CallTypesKept DEF ControlTypes
<1>4. CASE t \in uncached
  <2>1. ProcessUncached(t, span)
    BY <1>2, <1>4 DEF SinkRawSamples
  <2>2. RawTypes' /\ SnapshotTypes'
    BY <1>1, <2>1, SnapshotTypesKept DEF ProcessUncached, RawTypes
  <2> QED
    BY <1>3, <2>1, <2>2, ProcessTypes
<1>5. CASE t \notin uncached
  <2>1. AppendCached(t, span)
    BY <1>2, <1>5 DEF SinkRawSamples
  <2>2. PreviousTypes' /\ ProcessedTypes'
    BY <2>1, PreviousTypesKept, ProcessedTypesKept DEF AppendCached
  <2> QED
    BY <1>1, <1>3, <2>1, <2>2, AppendTypes
<1> QED
  BY <1>4, <1>5

\* A stop, its flush and the final outputs.
LEMMA StopTypes ==
  ASSUME TypeOK, NEW t \in Targets, BeginStop(t) \/ Flush(t) \/ FinishStop(t)
  PROVE  TypeOK'
<1>1. ControlTypes'
  BY DEF BeginStop, Flush, FinishStop, ControlTypes
<1>2. RawTypes'
  <2>1. CASE file' = [file EXCEPT ![t] = Raw(t)] /\ pending' = [pending EXCEPT ![t] = <<>>]
             /\ UNCHANGED <<accepted, tick>>
    <3>1. <<>> \in Seq(RawSample) /\ Raw(t) \in Seq(RawSample)
      BY EmptySeq, RawType
    <3> QED
      BY <2>1, <3>1 DEF RawTypes
  <2>2. CASE UNCHANGED rawVars
    BY <2>2, RawTypesKept
  <2> QED
    BY <2>1, <2>2 DEF BeginStop, Flush, FinishStop, rawVars
<1>3. PreviousTypes' /\ SnapshotTypes'
  BY PreviousTypesKept, SnapshotTypesKept DEF BeginStop, Flush, FinishStop
<1>4. ProcessedTypes'
  <2>1. CASE UNCHANGED processed
    BY <2>1, ProcessedTypesKept
  <2>2. CASE processed' = [u \in Targets |-> IF file[u] = <<>> THEN processed[u]
                                              ELSE ReplayOf(Raw(u))]
    <3>1. DOMAIN processed' = Targets
      BY <2>2
    <3>2. ASSUME NEW u \in Targets
          PROVE  /\ DOMAIN processed'[u] \subseteq AllMetrics
                 /\ \A m \in DOMAIN processed'[u] : processed'[u][m] \in Seq(ProcessedSample)
      <4>1. CASE file[u] = <<>>
        BY <2>2, <4>1 DEF ProcessedTypes
      <4>2. CASE file[u] # <<>>
        <5>1. processed'[u] = ReplayOf(Raw(u)) /\ Raw(u) \in Seq(RawSample)
          BY <2>2, <4>2, RawType
        <5> QED
          BY <5>1, ReplayType DEF AllMetrics
      <4> QED
        BY <4>1, <4>2
    <3> QED
      BY <3>1, <3>2 DEF ProcessedTypes
  <2> QED
    BY <2>1, <2>2 DEF BeginStop, Flush, FinishStop
<1>5. CallTypes'
  BY DEF BeginStop, Flush, FinishStop, CallTypes
<1> QED
  BY <1>1, <1>2, <1>3, <1>4, <1>5

\* What a visit leaves and answers.
LEMMA VisitTypes ==
  ASSUME TypeOK, NEW t \in Targets, NEW m \in AllMetrics, NEW takesAll \in BOOLEAN,
         VisitSamples(t, m, takesAll)
  PROVE  /\ ControlTypes' /\ RawTypes' /\ PreviousTypes' /\ ProcessedTypes' /\ SnapshotTypes'
         /\ Result(t, m) \in Seq(ProcessedSample)
<1>1. Answer(t, m) \in Seq(ProcessedSample)
  BY AnswerType
<1>2. ControlTypes' /\ RawTypes' /\ PreviousTypes'
  BY RawTypesKept, PreviousTypesKept DEF VisitSamples, ControlTypes
<1>3. ProcessedTypes'
  <2>1. CASE UNCHANGED processed
    BY <2>1, ProcessedTypesKept
  <2>2. CASE processed' = [processed EXCEPT ![t] = Restrict(@, DOMAIN @ \ {m})]
    BY <2>2 DEF ProcessedTypes, Restrict
  <2> QED
    BY <2>1, <2>2 DEF VisitSamples
<1>4. SnapshotTypes'
  <2>1. CASE UNCHANGED snapshotVars
    BY <2>1, SnapshotTypesKept
  <2>2. CASE /\ overtaken' = FALSE
             /\ \/ recent' = None
                \/ recent' = [target |-> t, metric |-> m, samples |-> Answer(t, m)]
    <3>1. [target |-> t, metric |-> m, samples |-> Answer(t, m)] \in
            [target: Targets, metric: AllMetrics, samples: Seq(ProcessedSample)]
      BY <1>1
    <3> QED
      BY <2>2, <3>1, Zenon DEF SnapshotTypes
  <2> QED
    BY <2>1, <2>2 DEF VisitSamples
<1>5. Result(t, m) \in Seq(ProcessedSample)
  BY <1>1 DEF Result, Snapshot, SnapshotTypes
<1> QED
  BY <1>2, <1>3, <1>4, <1>5

\* The calls that visit samples.
LEMMA VisitsTypes ==
  ASSUME TypeOK, NEW t \in Targets, NEW m \in AllMetrics,
         Visit(t, m) \/ \E w \in Windows : GetSamples(t, m, w)
  PROVE  TypeOK'
<1>1. CASE Visit(t, m)
  <2>1. /\ ControlTypes' /\ RawTypes' /\ PreviousTypes' /\ ProcessedTypes' /\ SnapshotTypes'
    BY <1>1, VisitTypes DEF Visit
  <2> QED
    BY <1>1, <2>1, CallTypesKept DEF Visit
<1>2. ASSUME NEW w \in Windows, GetSamples(t, m, w)
      PROVE  TypeOK'
  <2>1. PICK fits \in BOOLEAN :
          /\ VisitSamples(t, m, fits)
          /\ call' = IF fits /\ t \in uncached
                       THEN [op |-> "consume", target |-> t, metric |-> m,
                             copied |-> Within(w, Result(t, m))]
                       ELSE Idle
    BY <1>2 DEF GetSamples
  <2>2. /\ ControlTypes' /\ RawTypes' /\ PreviousTypes' /\ ProcessedTypes' /\ SnapshotTypes'
        /\ Within(w, Result(t, m)) \in Seq(ProcessedSample)
    BY <2>1, VisitTypes, WithinType
  <2>3. CallTypes'
    BY <2>1, <2>2 DEF CallTypes
  <2> QED
    BY <2>2, <2>3
<1> QED
  BY <1>1, <1>2

LEMMA ConsumeTypes ==
  ASSUME TypeOK, Consume
  PROVE  TypeOK'
<1>1. ControlTypes' /\ RawTypes' /\ PreviousTypes' /\ SnapshotTypes' /\ CallTypes'
  BY RawTypesKept, PreviousTypesKept, SnapshotTypesKept, CallTypesKept DEF Consume, ControlTypes
<1>2. ProcessedTypes'
  BY DEF Consume, ProcessedTypes, Restrict
<1> QED
  BY <1>1, <1>2

\* What is cropped are processed samples of metrics of the target.
LEMMA CroppedTypes ==
  ASSUME TypeOK, NEW t \in Targets, NEW w, NEW kept \in Cropped(t, w)
  PROVE  /\ DOMAIN kept \subseteq AllMetrics
         /\ \A m \in DOMAIN kept : kept[m] \in Seq(ProcessedSample)
<1>1. PICK held \in Loaded(t) : kept = [m \in DOMAIN held |-> Within(w, held[m])]
  BY DEF Cropped
<1>2. held \in {processed[t], ReplayOf(file[t])}
  BY DEF Loaded
<1>3. /\ DOMAIN held \subseteq AllMetrics
      /\ \A m \in DOMAIN held : held[m] \in Seq(ProcessedSample)
  BY <1>2, ReplayType DEF ProcessedTypes, RawTypes, AllMetrics
<1> QED
  BY <1>1, <1>3, WithinType

\* What a crop makes of the raw samples and of the processed ones.
LEMMA RawWithinTypes ==
  ASSUME RawTypes, NEW t \in Targets, NEW w
  PROVE  /\ [pending EXCEPT ![t] = RawWithin(w, @)] \in [Targets -> Seq(RawSample)]
         /\ [file EXCEPT ![t] = RawWithin(w, @)] \in [Targets -> Seq(RawSample)]
         /\ [accepted EXCEPT ![t] = RawWithin(w, @)] \in [Targets -> Seq(RawSample)]
<1>1. \A raw \in Seq(RawSample) : RawWithin(w, raw) \in Seq(RawSample)
  BY KeepElements DEF RawWithin
<1> QED
  BY <1>1 DEF RawTypes

LEMMA MarkersType ==
  ASSUME NEW w \in Windows PROVE Markers(w) \in Seq(ProcessedSample)
<1>1. w.from \in Nat /\ w.to \in Nat
  BY StoreAssumption
<1>2. \A time \in Nat : <<[since |-> time, at |-> time]>> \in Seq(ProcessedSample)
  BY DEF ProcessedSample
<1>3. <<>> \in Seq(ProcessedSample)
  BY EmptySeq
<1> QED
  BY <1>1, <1>2, <1>3, ConcatProperties DEF Markers

\* A crop that succeeds, and one that fails.
LEMMA CropTypes ==
  ASSUME TypeOK, NEW t \in Targets, NEW w \in Windows, Crop(t, w)
  PROVE  TypeOK'
<1>1. ControlTypes' /\ PreviousTypes' /\ CallTypes' /\ SnapshotTypes'
  BY PreviousTypesKept, CallTypesKept DEF Crop, ControlTypes, InvalidateRecent, SnapshotTypes
<1>2. RawTypes'
  BY RawWithinTypes DEF Crop, RawTypes
<1>3. ProcessedTypes'
  <2>1. PICK kept \in Cropped(t, w) :
          LET events == (IF Lifecycle \in DOMAIN kept THEN kept[Lifecycle] ELSE <<>>)
                          \o Markers(w)
              keys == DOMAIN kept \cup (IF Markers(w) = <<>> THEN {} ELSE {Lifecycle})
          IN  processed' = [processed EXCEPT ![t] =
                              [m \in keys |-> IF m = Lifecycle THEN events ELSE kept[m]]]
    BY DEF Crop
  <2> DEFINE events == (IF Lifecycle \in DOMAIN kept THEN kept[Lifecycle] ELSE <<>>)
                          \o Markers(w)
             keys == DOMAIN kept \cup (IF Markers(w) = <<>> THEN {} ELSE {Lifecycle})
  <2>2. /\ DOMAIN kept \subseteq AllMetrics
        /\ \A m \in DOMAIN kept : kept[m] \in Seq(ProcessedSample)
    BY CroppedTypes
  <2>3. events \in Seq(ProcessedSample)
    BY <2>2, MarkersType, EmptySeq, ConcatProperties
  <2>4. keys \subseteq AllMetrics /\ keys \subseteq DOMAIN kept \cup {Lifecycle}
    BY <2>2 DEF AllMetrics
  <2>5. processed' = [processed EXCEPT ![t] =
                        [m \in keys |-> IF m = Lifecycle THEN events ELSE kept[m]]]
    BY <2>1
  <2> HIDE DEF events, keys
  <2> QED
    BY <2>2, <2>3, <2>4, <2>5 DEF ProcessedTypes
<1> QED
  BY <1>1, <1>2, <1>3

LEMMA CropFailsTypes ==
  ASSUME TypeOK, NEW t \in Targets, NEW w \in Windows, CropFails(t, w)
  PROVE  TypeOK'
<1>1. ControlTypes' /\ PreviousTypes' /\ CallTypes' /\ SnapshotTypes'
  BY PreviousTypesKept, CallTypesKept DEF CropFails, ControlTypes, SnapshotTypes
<1>2. RawTypes'
  <2>1. PICK rest \in {file[t], <<>>} :
          /\ file' = [file EXCEPT ![t] = rest]
          /\ accepted' = [accepted EXCEPT ![t] = Keep(@, Range(rest \o pending'[t]))]
    BY DEF CropFails
  <2>2. rest \in Seq(RawSample)
    BY <2>1, EmptySeq DEF RawTypes
  <2>3. Keep(accepted[t], Range(rest \o pending'[t])) \in Seq(RawSample)
    BY KeepElements DEF RawTypes
  <2>4. pending' \in [Targets -> Seq(RawSample)] /\ tick' = tick
    BY RawWithinTypes DEF CropFails
  <2> QED
    BY <2>1, <2>2, <2>3, <2>4 DEF RawTypes
<1>3. ProcessedTypes'
  <2>1. PICK kept \in Cropped(t, w) : processed' = [processed EXCEPT ![t] = kept]
    BY DEF CropFails
  <2>2. /\ DOMAIN kept \subseteq AllMetrics
        /\ \A m \in DOMAIN kept : kept[m] \in Seq(ProcessedSample)
    BY CroppedTypes
  <2> QED
    BY <2>1, <2>2 DEF ProcessedTypes
<1> QED
  BY <1>1, <1>2, <1>3

\* Everything is empty at first.
LEMMA InitTypes ==
  ASSUME Init PROVE TypeOK
<1>1. <<>> \in Seq(RawSample) /\ <<>> \in Seq(Nat) /\ Len(<<>>) = 0 /\ DOMAIN <<>> = {}
  BY EmptySeq
<1>2. ControlTypes
  BY DEF Init, ControlTypes
<1>3. RawTypes /\ PreviousTypes
  BY <1>1 DEF Init, RawTypes, PreviousTypes
<1>4. ProcessedTypes
  BY <1>1 DEF Init, ProcessedTypes
<1>5. SnapshotTypes /\ CallTypes
  BY DEF Init, SnapshotTypes, CallTypes
<1> QED
  BY <1>2, <1>3, <1>4, <1>5

\* The variables have their types (orchestrator.hpp, the members of the orchestrator).
THEOREM StoreTypes == Spec => []TypeOK
<1>1. Init => TypeOK
  BY InitTypes
<1>2. ASSUME TypeOK, [Next]_vars
      PROVE  TypeOK'
  <2>1. CASE UNCHANGED vars
    <3>1. ControlTypes' /\ CallTypes'
      BY <1>2, <2>1, CallTypesKept DEF vars, ControlTypes
    <3> QED
      BY <1>2, <2>1, <3>1, RawTypesKept, PreviousTypesKept, ProcessedTypesKept, SnapshotTypesKept
         DEF vars
  <2>2. CASE Consume
    BY <2>2, ConsumeTypes, <1>2
  <2>3. ASSUME NEW t \in Targets,
               \/ \E noCache \in BOOLEAN : Configure(t, noCache)
               \/ \E stuck \in BOOLEAN : ConfigureFails(t, stuck)
               \/ CleanConfigureFails(t) \/ CollectorRefuses(t)
        PROVE  TypeOK'
    BY <1>2, <2>3, ConfigureTypes, CleanConfigureFailsTypes, CollectorRefusesTypes
  <2>4. ASSUME NEW t \in Targets,
               \/ BeginStart(t) \/ FinishStart(t) \/ StartRefused(t) \/ StartWithdrawn(t)
               \/ Rollback(t)
        PROVE  TypeOK'
    BY <1>2, <2>4, StartTypes, RollbackTypes
  <2>5. ASSUME NEW t \in Targets,
               Sample(t) \/ BeginStop(t) \/ Flush(t) \/ FinishStop(t)
        PROVE  TypeOK'
    BY <1>2, <2>5, SampleTypes, StopTypes
  <2>6. ASSUME NEW t \in Targets,
               \/ \E m \in AllMetrics : Visit(t, m)
               \/ \E m \in AllMetrics, w \in Windows : GetSamples(t, m, w)
               \/ \E w \in Windows : Crop(t, w) \/ CropFails(t, w)
        PROVE  TypeOK'
    BY <1>2, <2>6, VisitsTypes, CropTypes, CropFailsTypes
  <2> HIDE DEF TypeOK
  <2> QED
    BY <1>2, <2>1, <2>2, <2>3, <2>4, <2>5, <2>6 DEF Next
<1> QED
  BY <1>1, <1>2, PTL DEF Spec

HIDE DEF TypeOK

-----------------------------------------------------------------------------
(* What is accepted is kept.                                                *)

\* A sequence is in order if its samples but the last are, and the last one is
\* later than those of its metric before it.
LEMMA OrderOfAppend ==
  ASSUME NEW s \in Seq(RawSample), NEW x \in RawSample
  PROVE  InOrder(Append(s, x)) <=>
           /\ InOrder(s)
           /\ \A y \in Range(s) : y.metric = x.metric => y.tick < x.tick
<1>1. /\ Len(s) \in Nat /\ DOMAIN s = 1..Len(s)
      /\ DOMAIN Append(s, x) = 1..(Len(s) + 1)
      /\ \A i \in 1..Len(s) : Append(s, x)[i] = s[i]
      /\ Append(s, x)[Len(s) + 1] = x
  BY AppendProperties, LenProperties
<1> DEFINE r == Append(s, x)
<1>2. DOMAIN r = 1..Len(s) \cup {Len(s) + 1}
  BY <1>1
<1> HIDE DEF r
<1>3. ASSUME InOrder(r) PROVE InOrder(s)
  <2> SUFFICES ASSUME NEW i \in DOMAIN s, NEW j \in DOMAIN s, i < j, s[i].metric = s[j].metric
               PROVE  s[i].tick < s[j].tick
    BY DEF InOrder
  <2>1. i \in DOMAIN r /\ j \in DOMAIN r /\ r[i] = s[i] /\ r[j] = s[j]
    BY <1>1, <1>2 DEF r
  <2> QED
    BY <1>3, <2>1 DEF InOrder
<1>4. ASSUME InOrder(r), NEW y \in Range(s), y.metric = x.metric PROVE y.tick < x.tick
  <2>1. PICK i \in DOMAIN s : y = s[i]
    BY DEF Range
  <2>2. i \in DOMAIN r /\ Len(s) + 1 \in DOMAIN r /\ i < Len(s) + 1
    BY <1>1, <1>2
  <2>3. r[i] = y /\ r[Len(s) + 1] = x
    BY <1>1, <2>1 DEF r
  <2> QED
    BY <1>4, <2>2, <2>3 DEF InOrder
<1>5. ASSUME InOrder(s), \A y \in Range(s) : y.metric = x.metric => y.tick < x.tick
      PROVE  InOrder(r)
  <2> SUFFICES ASSUME NEW i \in DOMAIN r, NEW j \in DOMAIN r, i < j, r[i].metric = r[j].metric
               PROVE  r[i].tick < r[j].tick
    BY DEF InOrder
  <2>1. i \in DOMAIN s /\ r[i] = s[i] /\ s[i] \in Range(s)
    BY <1>1, <1>2 DEF r, Range
  <2>2. CASE j \in DOMAIN s
    BY <1>1, <1>5, <2>1, <2>2 DEF r, InOrder
  <2>3. CASE j = Len(s) + 1
    BY <1>1, <1>5, <2>1, <2>3 DEF r
  <2> QED
    BY <1>1, <1>2, <2>2, <2>3
<1> QED
  BY <1>3, <1>4, <1>5 DEF r

\* Nothing is in order.
LEMMA OrderOfNone == InOrder(<<>>)
BY DEF InOrder

\* What is kept of samples in order is in order.
LEMMA OrderOfKept ==
  ASSUME NEW S, NEW s \in Seq(RawSample), InOrder(s)
  PROVE  InOrder(Keep(s, S))
<1> DEFINE T == {r \in Seq(RawSample) : InOrder(r) => InOrder(Keep(r, S))}
<1>1. <<>> \in T
  BY KeepOfNone, EmptySeq, OrderOfNone
<1>2. ASSUME NEW r \in Seq(RawSample), NEW x \in RawSample, r \in T
      PROVE  Append(r, x) \in T
  <2>1. Append(r, x) \in Seq(RawSample)
    BY AppendProperties
  <2>2. ASSUME InOrder(Append(r, x)) PROVE InOrder(Keep(Append(r, x), S))
    <3>1. InOrder(r) /\ \A y \in Range(r) : y.metric = x.metric => y.tick < x.tick
      BY <2>2, OrderOfAppend
    <3>2. InOrder(Keep(r, S)) /\ Keep(r, S) \in Seq(RawSample)
      BY <1>2, <3>1, KeepElements
    <3>3. Range(Keep(r, S)) \subseteq Range(r)
      BY KeepElements
    <3>4. InOrder(Append(Keep(r, S), x))
      BY <3>1, <3>2, <3>3, OrderOfAppend
    <3> QED
      BY <3>2, <3>4, KeepOfAppend
  <2> QED
    BY <2>1, <2>2
<1> HIDE DEF T
<1>3. s \in T
  BY <1>1, <1>2, SequenceInduction
<1> QED
  BY <1>3 DEF T

\* Two sequences one after the other are in order if each is, and the second is
\* the later one.
LEMMA OrderOfConcat ==
  ASSUME NEW s \in Seq(RawSample), NEW t \in Seq(RawSample)
  PROVE  InOrder(s \o t) <=>
           /\ InOrder(s) /\ InOrder(t)
           /\ \A x \in Range(s), y \in Range(t) : x.metric = y.metric => x.tick < y.tick
<1> DEFINE Cross(r) == \A x \in Range(s), y \in Range(r) : x.metric = y.metric => x.tick < y.tick
           T == {r \in Seq(RawSample) : InOrder(s \o r) <=> InOrder(s) /\ InOrder(r) /\ Cross(r)}
<1>1. <<>> \in T
  <2>1. s \o <<>> = s /\ <<>> \in Seq(RawSample) /\ Range(<<>>) = {}
    BY ConcatEmptySeq, EmptySeq, RangeOfNone
  <2> QED
    BY <2>1, OrderOfNone
<1>2. ASSUME NEW r \in Seq(RawSample), NEW x \in RawSample, r \in T
      PROVE  Append(r, x) \in T
  <2> DEFINE Before(q) == \A y \in Range(q) : y.metric = x.metric => y.tick < x.tick
  <2>1. /\ Append(r, x) \in Seq(RawSample) /\ s \o r \in Seq(RawSample)
        /\ Range(Append(r, x)) = Range(r) \cup {x}
        /\ Range(s \o r) = Range(s) \cup Range(r)
    BY AppendProperties, ConcatProperties, RangeOfAppend, RangeConcatenation
  <2>2. s \o Append(r, x) = Append(s \o r, x)
    BY AppendOfConcat
  <2>3. InOrder(Append(s \o r, x)) <=> InOrder(s \o r) /\ Before(s \o r)
    BY <2>1, OrderOfAppend
  <2>4. InOrder(Append(r, x)) <=> InOrder(r) /\ Before(r)
    BY OrderOfAppend
  <2>5. Cross(Append(r, x)) <=> Cross(r) /\ Before(s)
    BY <2>1
  <2>6. Before(s \o r) <=> Before(s) /\ Before(r)
    BY <2>1
  <2>7. InOrder(s \o r) <=> InOrder(s) /\ InOrder(r) /\ Cross(r)
    BY <1>2
  <2> HIDE DEF Cross, Before
  <2>8. InOrder(s \o Append(r, x)) <=> InOrder(s) /\ InOrder(Append(r, x)) /\ Cross(Append(r, x))
    BY <2>2, <2>3, <2>4, <2>5, <2>6, <2>7
  <2> QED
    BY <2>1, <2>8
<1> HIDE DEF T
<1>3. t \in T
  BY <1>1, <1>2, SequenceInduction
<1> QED
  BY <1>3 DEF T

\* No sample is twice in a sequence that is in order.
LEMMA PartsDiffer ==
  ASSUME NEW s \in Seq(RawSample), NEW t \in Seq(RawSample), InOrder(s \o t)
  PROVE  Range(s) \cap Range(t) = {}
<1> SUFFICES ASSUME NEW x \in Range(s) \cap Range(t) PROVE FALSE
  OBVIOUS
<1>1. x.tick < x.tick
  BY OrderOfConcat
<1>2. x \in RawSample
  BY RangeOfSeq
<1> QED
  BY <1>1, <1>2 DEF RawSample

\* Either part of a sequence that is in order, out of the whole.
LEMMA KeepFirst ==
  ASSUME NEW s \in Seq(RawSample), NEW t \in Seq(RawSample), InOrder(s \o t),
         NEW W
  PROVE  Keep(s \o t, Range(s) \cup (Range(t) \cap W)) = s \o Keep(t, W)
<1> DEFINE Y == Range(s) \cup (Range(t) \cap W)
<1>1. Range(s) \cap Range(t) = {}
  BY PartsDiffer
<1>2. Keep(s \o t, Y) = Keep(s, Y) \o Keep(t, Y)
  BY SMTT(60), KeepConcat
<1>3. Keep(s, Y) = s
  BY KeepAll
<1>4. Keep(t, Y) = Keep(t, W)
  <2>1. Range(t) \cap Y = Range(t) \cap W
    BY <1>1
  <2> QED
    BY <2>1, KeepSame
<1> QED
  BY <1>2, <1>3, <1>4

\* What is kept of the second part only.
LEMMA KeepSecond ==
  ASSUME NEW s \in Seq(RawSample), NEW t \in Seq(RawSample), InOrder(s \o t),
         NEW W
  PROVE  Keep(s \o t, Range(t) \cap W) = Keep(t, W)
<1> DEFINE Y == Range(t) \cap W
<1>1. Range(s) \cap Range(t) = {}
  BY PartsDiffer
<1>2. Keep(s \o t, Y) = Keep(s, Y) \o Keep(t, Y)
  BY KeepConcat
<1>3. Keep(s, Y) = <<>>
  BY <1>1, KeepNone
<1>4. Keep(t, Y) = Keep(t, W)
  BY KeepSame
<1>5. Keep(t, W) \in Seq(RawSample)
  BY KeepElements
<1> QED
  BY <1>2, <1>3, <1>4, <1>5, ConcatEmptySeq

\* What the invariant says of one target.
Sound(t) ==
    /\ Len(pending[t]) <= BatchSize
    /\ InOrder(Raw(t))
    /\ \A s \in Range(Raw(t)) : s.tick <= tick
    /\ Kept(t)
SnapshotIsBounded == recent # None => Len(recent.samples) <= BatchSize
AllSound == (\A t \in Targets : Sound(t)) /\ SnapshotIsBounded

\* The invariant is that every target is sound, and the snapshot bounded.
LEMMA KeptParts == KeptInv <=> AllSound
BY DEF AllSound, KeptInv, MemoryIsBounded, SamplesAreTimed, Sound, SnapshotIsBounded

\* A target whose raw samples a step leaves alone.
LEMMA Untouched ==
  ASSUME RawTypes, NEW t \in Targets, Sound(t),
         pending'[t] = pending[t], file'[t] = file[t], accepted'[t] = accepted[t],
         tick' \in {tick, tick + 1}
  PROVE  Sound(t)'
<1>1. Raw(t)' = Raw(t) /\ Raw(t) \in Seq(RawSample)
  BY RawType DEF Raw
<1>2. \A s \in Range(Raw(t)) : s.tick \in Nat
  <2>1. Range(Raw(t)) \subseteq RawSample
    BY <1>1, RangeOfSeq
  <2> QED
    BY <2>1 DEF RawSample
<1>3. \A s \in Range(Raw(t)) : s.tick <= tick'
  BY <1>2 DEF Sound, RawTypes
<1>4. Kept(t)'
  BY <1>1 DEF Sound, Kept
<1> QED
  BY <1>1, <1>3, <1>4 DEF Sound

\* A target that keeps those of its raw samples that are in a set.
LEMMA Reduced ==
  ASSUME RawTypes, NEW t \in Targets, Sound(t), NEW Y,
         Raw(t)' = Keep(Raw(t), Y),
         accepted'[t] \in {<<>>, Keep(accepted[t], Y)},
         Len(pending'[t]) <= BatchSize, tick' = tick
  PROVE  Sound(t)'
<1> DEFINE raw == Raw(t)
           A == Range(accepted[t])
<1>1. raw \in Seq(RawSample) /\ Keep(raw, Y) \in Seq(RawSample)
  BY RawType, KeepElements
<1>2. InOrder(Keep(raw, Y))
  BY <1>1, OrderOfKept DEF Sound
<1>3. \A s \in Range(Keep(raw, Y)) : s.tick <= tick
  <2>1. Range(Keep(raw, Y)) \subseteq Range(raw)
    BY <1>1, KeepElements
  <2> QED
    BY <2>1 DEF Sound
<1>4. CASE accepted'[t] = <<>>
  <2>1. Keep(Keep(raw, Y), Range(<<>>)) = <<>>
    BY <1>1, RangeOfNone, KeepNone
  <2> QED
    BY <1>2, <1>3, <1>4, <2>1 DEF Sound, Kept
<1>5. CASE accepted'[t] = Keep(accepted[t], Y)
  <2>1. accepted[t] = Keep(raw, A)
    BY DEF Sound, Kept
  <2>2. Keep(Keep(raw, A), Y) = Keep(raw, A \cap Y) /\ Keep(Keep(raw, Y), A) = Keep(raw, Y \cap A)
    BY <1>1, KeepTwice
  <2>3. A \cap Y = Y \cap A
    OBVIOUS
  <2>4. accepted'[t] = Keep(Keep(raw, Y), A)
    BY <1>5, <2>1, <2>2, <2>3
  <2>5. Keep(Keep(raw, Y), Range(Keep(Keep(raw, Y), A))) = Keep(Keep(raw, Y), A)
    BY <1>1, OwnKept
  <2> QED
    BY <1>2, <1>3, <2>4, <2>5 DEF Sound, Kept
<1> QED
  BY <1>4, <1>5

\* The samples of the file, and those of them that are pending too.
LEMMA PartsOfRaw ==
  ASSUME RawTypes, NEW t \in Targets, Sound(t), NEW W
  PROVE  /\ Keep(Raw(t), Range(file[t])) = file[t]
         /\ Keep(Raw(t), Range(file[t]) \cup (Range(pending[t]) \cap W)) =
              file[t] \o Keep(pending[t], W)
         /\ Keep(Raw(t), Range(pending[t]) \cap W) = Keep(pending[t], W)
         /\ Keep(Raw(t), {}) = <<>>
<1> DEFINE f == file[t]
           p == pending[t]
<1>1. f \in Seq(RawSample) /\ p \in Seq(RawSample)
  BY DEF RawTypes
<1>2. Raw(t) = f \o p /\ Raw(t) \in Seq(RawSample)
  BY RawType
<1>3. InOrder(f \o p)
  BY <1>2 DEF Sound
<1> HIDE DEF f, p
<1>4. ASSUME NEW X PROVE Keep(f \o p, Range(f) \cup (Range(p) \cap X)) = f \o Keep(p, X)
  BY ZenonT(60), <1>1, <1>3, KeepFirst
<1>5. Keep(f \o p, Range(p) \cap W) = Keep(p, W)
  BY <1>1, <1>3, KeepSecond
<1>6. Keep(f \o p, Range(f)) = f
  <2>1. Keep(f \o p, Range(f) \cup (Range(p) \cap {})) = f \o Keep(p, {})
    BY <1>4
  <2>2. Keep(p, {}) = <<>> /\ f \o <<>> = f
    BY <1>1, KeepNone, ConcatEmptySeq
  <2>3. Range(f) \cup (Range(p) \cap {}) = Range(f)
    OBVIOUS
  <2> QED
    BY <2>1, <2>2, <2>3
<1>7. Keep(Raw(t), {}) = <<>>
  BY <1>2, KeepNone
<1> QED
  BY <1>2, <1>4, <1>5, <1>6, <1>7 DEF f, p

\* A reset: the file of a target that is reset is removed, or stays.
LEMMA ResetSound ==
  ASSUME RawTypes, NEW S, NEW stuck, ResetArtifacts(S, stuck), AllSound
  PROVE  AllSound'
<1>1. SnapshotIsBounded'
  BY DEF ResetArtifacts, InvalidateRecent, SnapshotIsBounded
<1>2. ASSUME NEW t \in Targets PROVE Sound(t)'
  <2>1. tick' = tick /\ BatchSize \in Nat /\ Sound(t)
    BY <1>2, StoreAssumption DEF ResetArtifacts, AllSound
  <2>2. CASE t \notin S
    BY <1>2, <2>1, <2>2, Untouched DEF ResetArtifacts
  <2>3. CASE t \in S
    <3>1. /\ pending'[t] = <<>> /\ accepted'[t] = <<>> /\ file'[t] \in {<<>>, file[t]}
          /\ Raw(t)' = file'[t]
      BY <1>2, <2>3 DEF ResetArtifacts, Raw
    <3>2. \E Y : Raw(t)' = Keep(Raw(t), Y)
      BY <1>2, <2>1, <3>1, PartsOfRaw
    <3> QED
      BY <1>2, <2>1, <3>1, <3>2, Reduced
  <2> QED
    BY <2>2, <2>3
<1> QED
  BY <1>1, <1>2 DEF AllSound

\* A start discards what is pending, and keeps what is accepted on file.
LEMMA DropSound ==
  ASSUME RawTypes, NEW t \in Targets, DropPending(t), UNCHANGED <<file, tick, recent>>,
         AllSound
  PROVE  AllSound'
<1>1. SnapshotIsBounded'
  BY DEF AllSound, SnapshotIsBounded
<1>2. ASSUME NEW u \in Targets PROVE Sound(u)'
  <2>1. BatchSize \in Nat /\ Sound(u)
    BY <1>2, StoreAssumption DEF AllSound
  <2>2. CASE u # t
    BY <1>2, <2>1, <2>2, Untouched DEF DropPending, RawTypes
  <2>3. CASE u = t
    <3>1. /\ pending'[u] = <<>> /\ Raw(u)' = file[u]
          /\ accepted'[u] = Keep(accepted[u], Range(file[u]))
      BY <1>2, <2>3 DEF DropPending, RawTypes, Raw
    <3>2. Raw(u)' = Keep(Raw(u), Range(file[u]))
      BY <1>2, <2>1, <3>1, PartsOfRaw
    <3> QED
      BY <1>2, <2>1, <3>1, <3>2, Reduced
  <2> QED
    BY <2>2, <2>3
<1> QED
  BY <1>1, <1>2 DEF AllSound

\* A target that is given the beginning of a reading, and has accepted it or not.
LEMMA Extended ==
  ASSUME RawTypes, NEW t \in Targets, Sound(t), NEW p \in Seq(RawSample),
         \A s \in Range(p) : s.tick = tick + 1,
         \A i, j \in DOMAIN p : p[i].metric = p[j].metric => i = j,
         Raw(t)' = Raw(t) \o p, accepted'[t] \in {accepted[t], accepted[t] \o p},
         tick' = tick + 1, Len(pending'[t]) <= BatchSize
  PROVE  Sound(t)'
<1> DEFINE raw == Raw(t)
           a == accepted[t]
<1>1. raw \in Seq(RawSample) /\ a \in Seq(RawSample) /\ tick \in Nat
  BY RawType DEF RawTypes
<1>2. InOrder(raw) /\ (\A s \in Range(raw) : s.tick <= tick) /\ Keep(raw, Range(a)) = a
  BY DEF Sound, Kept
<1>3. Range(raw) \subseteq RawSample /\ Range(p) \subseteq RawSample
      /\ Range(raw \o p) = Range(raw) \cup Range(p) /\ Range(a \o p) = Range(a) \cup Range(p)
  BY <1>1, RangeOfSeq, RangeConcatenation
<1>4. \A s \in RawSample : s.tick \in Nat
  BY DEF RawSample
<1> HIDE DEF raw, a
<1>5. InOrder(p)
  <2>1. \A i, j \in DOMAIN p : i < j => i # j
    <3>1. DOMAIN p = 1..Len(p) /\ Len(p) \in Nat
      BY LenProperties
    <3> QED
      BY <3>1
  <2> QED
    BY <2>1 DEF InOrder
<1>6. \A x \in Range(raw), y \in Range(p) : x.tick < y.tick
  BY <1>1, <1>2, <1>3, <1>4
<1>7. InOrder(raw \o p)
  BY <1>1, <1>2, <1>5, <1>6, OrderOfConcat
<1>8. \A s \in Range(raw \o p) : s.tick <= tick + 1
  BY <1>1, <1>2, <1>3, <1>4
<1>9. Range(raw) \cap Range(p) = {} /\ Range(a) \subseteq Range(raw)
  <2>1. Range(a) = Range(raw) \cap Range(a)
    BY <1>1, <1>2, KeepElements
  <2> QED
    BY <1>1, <1>7, <2>1, PartsDiffer
<1>10. Keep(raw \o p, Range(a)) = a
  <2>1. Keep(raw \o p, Range(a)) = Keep(raw, Range(a)) \o Keep(p, Range(a))
    BY SMTT(60), <1>1, KeepConcat
  <2>2. Keep(p, Range(a)) = <<>>
    BY <1>9, KeepNone
  <2> QED
    BY <1>1, <1>2, <2>1, <2>2, ConcatEmptySeq
<1>11. Keep(raw \o p, Range(a \o p)) = a \o p
  <2> DEFINE Y == Range(a \o p)
  <2>1. Keep(raw \o p, Y) = Keep(raw, Y) \o Keep(p, Y)
    BY SMTT(60), <1>1, KeepConcat
  <2>2. Keep(raw, Y) = Keep(raw, Range(a))
    <3>1. Range(raw) \cap Y = Range(raw) \cap Range(a)
      BY <1>3, <1>9
    <3> QED
      BY <1>1, <3>1, KeepSame
  <2>3. Keep(p, Y) = p
    BY <1>3, KeepAll
  <2> QED
    BY <1>2, <2>1, <2>2, <2>3
<1>12. Kept(t)'
  <2>1. accepted'[t] \in {a, a \o p} /\ Raw(t)' = raw \o p
    BY DEF a, raw
  <2>2. Keep(raw \o p, Range(accepted'[t])) = accepted'[t]
    BY <1>10, <1>11, <2>1
  <2> QED
    BY <2>1, <2>2 DEF Kept
<1>13. InOrder(Raw(t)') /\ \A s \in Range(Raw(t)') : s.tick <= tick'
  BY <1>7, <1>8 DEF raw
<1> QED
  BY <1>12, <1>13 DEF Sound

\* What is in the file and pending after n batches, up to the sample "last".
LEMMA RawOfBatches ==
  ASSUME RawTypes, NEW t \in Targets, NEW span \in Seq(RawSample), NEW n \in Int,
         NEW last \in Int, n * BatchSize \in Nat, n * BatchSize <= last,
         Len(pending[t]) <= last, last <= Len(pending[t] \o span),
         Batches(t, pending[t] \o span, n, last)
  PROVE  /\ Raw(t)' = Raw(t) \o SubSeq(span, 1, last - Len(pending[t]))
         /\ Len(pending'[t]) = last - n * BatchSize
<1> DEFINE p == pending[t]
           f == file[t]
           all == p \o span
           k == n * BatchSize
           front == SubSeq(all, 1, k)
           rest == SubSeq(all, k + 1, last)
           q == SubSeq(span, 1, last - Len(p))
<1>1. /\ p \in Seq(RawSample) /\ f \in Seq(RawSample) /\ all \in Seq(RawSample)
      /\ Len(all) = Len(p) + Len(span) /\ Len(p) \in Nat /\ Len(span) \in Nat
      /\ k \in Nat /\ last \in Nat
  BY ConcatProperties, LenProperties DEF RawTypes
<1>2. file'[t] = f \o front /\ pending'[t] = rest
  BY DEF Batches, RawTypes
<1>3. k <= last /\ last <= Len(all) /\ Len(p) <= last
  OBVIOUS
<1> HIDE DEF p, f, k
<1>4. SubSeq(all, 1, last) = p \o q /\ q \in Seq(RawSample)
  <2>1. last \in Len(p)..(Len(p) + Len(span))
    BY <1>1, <1>3
  <2> QED
    BY <1>1, <2>1, FrontOfConcat, Zenon
<1> HIDE DEF all, q
<1>5. \A i \in 1..Len(all) : all[i] \in RawSample
  BY <1>1, ElementOfSeq
<1>6. front \in Seq(RawSample)
  BY <1>1, <1>3, <1>5, SubSeqProperties
<1>7. rest \in Seq(RawSample) /\ Len(rest) = last - k
  <2>1. \A i \in (k + 1)..last : all[i] \in RawSample
    BY <1>1, <1>3, <1>5
  <2>2. /\ rest \in Seq(RawSample)
        /\ Len(rest) = IF k + 1 <= last THEN last - (k + 1) + 1 ELSE 0
    BY SMTT(60), <1>1, <2>1, SubSeqProperties
  <2> QED
    BY <1>1, <1>3, <2>2
<1>8. front \o rest = SubSeq(all, 1, last)
  <2>1. 1 \in 1..(Len(all) + 1) /\ k \in (1 - 1)..Len(all) /\ last \in k..Len(all)
    BY <1>1, <1>3, LenProperties
  <2> QED
    BY <1>1, <2>1, ConcatAdjacentSubSeq
<1> HIDE DEF front, rest
<1>9. Raw(t)' = (f \o front) \o rest
  <2>1. f \o front \in Seq(RawSample)
    BY <1>1, <1>6, ConcatProperties
  <2>2. (f \o front) \o <<>> = f \o front
    BY <2>1, ConcatEmptySeq
  <2> QED
    BY <1>2, <2>2 DEF Raw
<1>10. Raw(t)' = (f \o p) \o q
  <2>1. f \in Seq(RawSample) /\ p \in Seq(RawSample) /\ q \in Seq(RawSample)
    BY <1>1, <1>4
  <2>2. f \in Seq(RawSample) /\ front \in Seq(RawSample) /\ rest \in Seq(RawSample)
    BY <1>1, <1>6, <1>7
  <2>3. (f \o front) \o rest = f \o (front \o rest)
    BY ONLY <2>2, SMTT(60)
  <2>4. (f \o p) \o q = f \o (p \o q)
    BY ONLY <2>1, SMTT(60)
  <2>5. front \o rest = p \o q
    BY <1>4, <1>8
  <2> QED
    BY ONLY <1>9, <2>3, <2>4, <2>5
<1>11. Raw(t) = f \o p
  BY RawType DEF f, p
<1> QED
  BY <1>2, <1>7, <1>10, <1>11 DEF q, p, k

\* A step that changes no raw sample, of any target.
LEMMA KeptSame ==
  ASSUME RawTypes, AllSound, UNCHANGED <<pending, file, accepted, recent>>,
         tick' \in {tick, tick + 1}
  PROVE  AllSound'
<1>1. ASSUME NEW t \in Targets PROVE Sound(t)'
  <2>1. Sound(t)
    BY DEF AllSound
  <2> QED
    BY <2>1, Untouched
<1> QED
  BY <1>1 DEF AllSound, SnapshotIsBounded

\* What a delivery to t adds to its raw samples: q, accepted or not.
Extends(t, q) ==
    /\ \A s \in Range(q) : s.tick = tick + 1
    /\ \A i, j \in DOMAIN q : q[i].metric = q[j].metric => i = j
    /\ Raw(t)' = Raw(t) \o q
    /\ accepted'[t] \in {accepted[t], accepted[t] \o q}
    /\ Len(pending'[t]) <= BatchSize

\* The batches of a reading: all of it is in them, or what fits into the batch that
\* cannot be written.
LEMMA AppendExtends ==
  ASSUME RawTypes, AllSound, NEW t \in Targets, NEW span \in Spans, AppendCached(t, span)
  PROVE  \E q \in Seq(RawSample) : Extends(t, q)
<1> DEFINE p == pending[t]
           all == p \o span
           batches == Len(all) \div BatchSize
<1>1. /\ p \in Seq(RawSample) /\ span \in Seq(RawSample) /\ all \in Seq(RawSample)
      /\ Len(all) = Len(p) + Len(span) /\ Len(p) \in Nat /\ Len(span) \in Nat
      /\ Len(all) \in Nat
  BY SpansAreReadings, ConcatProperties, LenProperties DEF RawTypes
<1>2. BatchSize \in Nat \ {0} /\ Len(p) <= BatchSize
  BY StoreAssumption DEF AllSound, Sound
<1>3. /\ \A s \in Range(span) : s.tick = tick + 1
      /\ \A i, j \in DOMAIN span : span[i].metric = span[j].metric => i = j
  BY SpansAreReadings
<1>4. /\ \/ /\ Batches(t, all, batches, Len(all))
            /\ accepted' = [accepted EXCEPT ![t] = @ \o span]
         \/ /\ \E n \in 1..batches : WriteFails(t, all, n)
            /\ UNCHANGED accepted
  BY DEF AppendCached
<1> HIDE DEF p
<1>5. /\ batches \in Nat /\ batches * BatchSize \in Nat /\ batches * BatchSize <= Len(all)
      /\ Len(all) < batches * BatchSize + BatchSize
  BY <1>1, <1>2, Division
<1>6. ASSUME Batches(t, all, batches, Len(all)),
             accepted' = [accepted EXCEPT ![t] = @ \o span]
      PROVE  \E q \in Seq(RawSample) : Extends(t, q)
  <2> HIDE DEF batches
  <2>1. /\ Raw(t)' = Raw(t) \o SubSeq(span, 1, Len(all) - Len(p))
        /\ Len(pending'[t]) = Len(all) - batches * BatchSize
    <3> DEFINE last == Len(all)
    <3>1. /\ batches \in Int /\ last \in Int /\ Len(p) <= last /\ last <= Len(all)
          /\ batches * BatchSize <= last /\ Batches(t, all, batches, last)
      BY <1>1, <1>5, <1>6
    <3> HIDE DEF last
    <3>2. /\ Raw(t)' = Raw(t) \o SubSeq(span, 1, last - Len(p))
          /\ Len(pending'[t]) = last - batches * BatchSize
      BY <1>1, <1>5, <3>1, RawOfBatches DEF p
    <3> QED
      BY <3>2 DEF last
  <2>2. SubSeq(span, 1, Len(all) - Len(p)) = span
    BY <1>1, SubSeqFull
  <2>3. accepted'[t] = accepted[t] \o span
    BY <1>6 DEF RawTypes
  <2>4. Len(pending'[t]) <= BatchSize
    BY <1>1, <1>2, <1>5, <2>1
  <2>5. Extends(t, span)
    BY <1>3, <2>1, <2>2, <2>3, <2>4 DEF Extends
  <2> QED
    BY <1>1, <2>5
<1>7. ASSUME NEW n \in 1..batches, WriteFails(t, all, n), UNCHANGED accepted
       PROVE  \E q \in Seq(RawSample) : Extends(t, q)
  <2>1. /\ n * BatchSize \in Nat /\ n * BatchSize <= Len(all) /\ n * BatchSize >= BatchSize
        /\ (n - 1) * BatchSize = n * BatchSize - BatchSize
    BY <1>1, <1>2, <1>7, Batch
  <2>2. n \in Int
    BY <1>5
  <2> HIDE DEF batches
  <2> DEFINE last == n * BatchSize
             k == last - Len(p)
             q == SubSeq(span, 1, k)
  <2>3. /\ (n - 1) * BatchSize \in Nat /\ (n - 1) * BatchSize <= last /\ Len(p) <= last
        /\ last \in Int /\ n - 1 \in Int
    BY <1>1, <1>2, <2>1, <2>2
  <2>4. /\ Raw(t)' = Raw(t) \o q
        /\ Len(pending'[t]) = last - (n - 1) * BatchSize
    <3>1. Batches(t, all, n - 1, last)
      BY <1>7 DEF WriteFails
    <3> HIDE DEF last
    <3>2. last <= Len(all)
      BY <2>1 DEF last
    <3> QED
      BY <1>1, <2>3, <3>1, <3>2, RawOfBatches DEF p
  <2>5. Len(pending'[t]) <= BatchSize
    BY <1>2, <2>1, <2>4
  <2> HIDE DEF last
  <2>6. /\ q \in Seq(RawSample) /\ Len(q) = k
        /\ \A i \in 1..k : q[i] = span[i]
        /\ k \in Nat /\ k <= Len(span)
    <3>1. last \in Len(p)..(Len(p) + Len(span))
      BY <1>1, <2>1, <2>3 DEF last
    <3>2. k \in Nat /\ k <= Len(span)
      BY <1>1, <3>1
    <3> QED
      BY SMTT(60), <1>1, <3>1, <3>2, FrontOfConcat
  <2> HIDE DEF q, k
  <2>7. DOMAIN q \subseteq DOMAIN span /\ \A i \in DOMAIN q : q[i] = span[i]
    BY <1>1, <2>6, LenProperties
  <2>8. \A s \in Range(q) : s.tick = tick + 1
    BY <1>3, <2>7 DEF Range
  <2>9. \A i, j \in DOMAIN q : q[i].metric = q[j].metric => i = j
    BY <1>3, <2>7
  <2>10. Extends(t, q)
    BY <1>7, <2>4, <2>5, <2>8, <2>9 DEF Extends
  <2> QED
    BY <2>6, <2>10
<1> QED
  BY <1>4, <1>6, <1>7

LEMMA AppendSound ==
  ASSUME RawTypes, AllSound, NEW t \in Targets, NEW span \in Spans,
         AppendCached(t, span), tick' = tick + 1
  PROVE  AllSound'
<1>1. SnapshotIsBounded'
  BY DEF AppendCached, InvalidateRecent, SnapshotIsBounded
<1>2. ASSUME NEW u \in Targets, u # t PROVE Sound(u)'
  <2>1. pending'[u] = pending[u] /\ file'[u] = file[u] /\ accepted'[u] = accepted[u]
    BY <1>2 DEF AppendCached, WriteFails, Batches, RawTypes
  <2> QED
    BY <2>1, Untouched DEF AllSound
<1>3. PICK q \in Seq(RawSample) : Extends(t, q)
  BY AppendExtends
<1>4. Sound(t)'
  BY <1>3, Extended DEF AllSound, Extends
<1> QED
  BY <1>1, <1>2, <1>4 DEF AllSound

\* A reading, cached or not.
LEMMA SampleSound ==
  ASSUME RawTypes, AllSound, NEW t \in Targets, Sample(t)
  PROVE  AllSound'
<1>1. tick' = tick + 1
  BY DEF Sample
<1>2. PICK span \in Spans : SinkRawSamples(t, span)
  BY DEF Sample
<1>3. CASE t \in uncached
  BY <1>1, <1>2, <1>3, KeptSame DEF SinkRawSamples, ProcessUncached, snapshotVars
<1>4. CASE t \notin uncached
  BY <1>1, <1>2, <1>4, AppendSound DEF SinkRawSamples
<1> QED
  BY <1>3, <1>4

\* A flush moves samples from memory to the file, or leaves them there.
LEMMA FlushSound ==
  ASSUME RawTypes, AllSound, NEW t \in Targets, Flush(t)
  PROVE  AllSound'
<1>1. UNCHANGED <<accepted, tick, recent>>
  BY DEF Flush, snapshotVars
<1>2. CASE UNCHANGED <<file, pending>>
  BY <1>1, <1>2, KeptSame
<1>3. CASE /\ file' = [file EXCEPT ![t] = Raw(t)]
           /\ pending' = [pending EXCEPT ![t] = <<>>]
  <2>1. ASSUME NEW u \in Targets, u # t PROVE Sound(u)'
    BY <1>1, <1>3, <2>1, Untouched DEF AllSound, RawTypes
  <2>2. Sound(t)'
    <3>1. pending'[t] = <<>> /\ file'[t] = Raw(t)
      BY <1>3 DEF RawTypes
    <3>2. Raw(t)' = Raw(t)
      BY <3>1 DEF Raw
    <3>3. Len(pending'[t]) <= BatchSize
      BY <3>1, StoreAssumption
    <3>4. Kept(t)' = Kept(t)
      BY <1>1, <3>2 DEF Kept
    <3>5. Sound(t)
      BY DEF AllSound
    <3> QED
      BY <1>1, <3>2, <3>3, <3>4, <3>5 DEF Sound
  <2> QED
    BY <1>1, <2>1, <2>2 DEF AllSound, SnapshotIsBounded
<1> QED
  BY <1>2, <1>3 DEF Flush

\* A visit remembers at most a batch.
LEMMA VisitSound ==
  ASSUME RawTypes, AllSound, NEW t, NEW m, NEW takesAll, VisitSamples(t, m, takesAll)
  PROVE  AllSound'
<1>1. SnapshotIsBounded'
  <2>1. CASE recent' = recent
    BY <2>1 DEF AllSound, SnapshotIsBounded
  <2>2. CASE recent' = None
    BY <2>2 DEF SnapshotIsBounded
  <2>3. CASE /\ recent' = [target |-> t, metric |-> m, samples |-> Answer(t, m)]
             /\ Len(Answer(t, m)) <= BatchSize
    BY <2>3 DEF SnapshotIsBounded
  <2> QED
    BY <2>1, <2>2, <2>3 DEF VisitSamples, snapshotVars
<1>2. ASSUME NEW u \in Targets PROVE Sound(u)'
  BY Untouched DEF AllSound, VisitSamples, rawVars
<1> QED
  BY <1>1, <1>2 DEF AllSound

\* A crop keeps the same of what was accepted as of the raw samples.
LEMMA CropSound ==
  ASSUME RawTypes, AllSound, NEW t \in Targets, NEW w \in Windows, Crop(t, w)
  PROVE  AllSound' /\ \E Y : Raw(t)' = Keep(Raw(t), Y)
<1> DEFINE W == {s \in RawSample : InWindow(w, s.tick)}
<1>1. SnapshotIsBounded'
  BY DEF Crop, InvalidateRecent, SnapshotIsBounded
<1>2. ASSUME NEW u \in Targets, u # t PROVE Sound(u)'
  BY <1>2, Untouched DEF AllSound, Crop, RawTypes
<1>3. Sound(t)' /\ \E Y : Raw(t)' = Keep(Raw(t), Y)
  <2>1. /\ pending'[t] = Keep(pending[t], W) /\ file'[t] = Keep(file[t], W)
        /\ accepted'[t] = Keep(accepted[t], W) /\ tick' = tick
    BY DEF Crop, RawWithin, RawTypes
  <2> HIDE DEF W
  <2>2. pending[t] \in Seq(RawSample) /\ file[t] \in Seq(RawSample)
    BY DEF RawTypes
  <2>3. Keep(pending[t], W) \in Seq(RawSample) /\ Keep(file[t], W) \in Seq(RawSample)
    BY <2>2, KeepElements
  <2>4. Keep(file[t], W) \o <<>> = Keep(file[t], W)
    BY <2>3, ConcatEmptySeq
  <2>5. Raw(t)' = Keep(file[t], W) \o Keep(pending[t], W)
    BY <2>1, <2>4 DEF Raw
  <2>6. Raw(t)' = Keep(Raw(t), W)
    <3>1. Raw(t) = file[t] \o pending[t]
      BY RawType
    <3>2. Keep(file[t] \o pending[t], W) = Keep(file[t], W) \o Keep(pending[t], W)
      BY <2>2, KeepConcat
    <3> QED
      BY <2>5, <3>1, <3>2
  <2>7. Len(pending'[t]) <= BatchSize
    <3>1. /\ Len(Keep(pending[t], W)) <= Len(pending[t]) /\ Len(pending[t]) \in Nat
          /\ Len(Keep(pending[t], W)) \in Nat
      BY <2>2, <2>3, KeepElements, LenProperties
    <3>2. Len(pending[t]) <= BatchSize /\ BatchSize \in Nat
      BY StoreAssumption DEF AllSound, Sound
    <3> QED
      BY <2>1, <3>1, <3>2
  <2>8. Sound(t)
    BY DEF AllSound
  <2>9. Sound(t)'
    BY <2>1, <2>6, <2>7, <2>8, Reduced
  <2> QED
    BY <2>6, <2>9
<1> QED
  BY <1>1, <1>2, <1>3 DEF AllSound

\* A crop that fails keeps what is left of the file and what it has kept of what is
\* pending.
LEMMA CropFailsSound ==
  ASSUME RawTypes, AllSound, NEW t \in Targets, NEW w \in Windows, CropFails(t, w)
  PROVE  AllSound' /\ \E Y : Raw(t)' = Keep(Raw(t), Y)
<1> DEFINE W == {s \in RawSample : InWindow(w, s.tick)}
           kept == Keep(pending[t], W)
<1>1. SnapshotIsBounded'
  BY DEF CropFails, AllSound, SnapshotIsBounded
<1>2. ASSUME NEW u \in Targets, u # t PROVE Sound(u)'
  BY <1>2, Untouched DEF AllSound, CropFails, RawTypes
<1>3. PICK rest \in {file[t], <<>>} :
        /\ pending'[t] = kept /\ file'[t] = rest
        /\ accepted'[t] = Keep(accepted[t], Range(rest \o kept)) /\ tick' = tick
  <2>1. /\ pending' = [pending EXCEPT ![t] = kept] /\ tick' = tick
        /\ \E rest \in {file[t], <<>>} :
             /\ file' = [file EXCEPT ![t] = rest]
             /\ accepted' = [accepted EXCEPT ![t] = Keep(@, Range(rest \o pending'[t]))]
    BY Zenon DEF CropFails, RawWithin
  <2>2. t \in DOMAIN pending /\ t \in DOMAIN file /\ t \in DOMAIN accepted
    BY DEF RawTypes
  <2> HIDE DEF kept
  <2> QED
    BY <2>1, <2>2, Zenon
<1> HIDE DEF W
<1>4. pending[t] \in Seq(RawSample) /\ file[t] \in Seq(RawSample) /\ <<>> \in Seq(RawSample)
  BY EmptySeq DEF RawTypes
<1>5. kept \in Seq(RawSample) /\ Range(kept) = Range(pending[t]) \cap W
  BY <1>4, KeepElements
<1>6. Len(kept) <= BatchSize
  <2>1. Len(kept) <= Len(pending[t]) /\ Len(pending[t]) \in Nat /\ Len(kept) \in Nat
    BY <1>4, <1>5, KeepElements, LenProperties
  <2>2. Len(pending[t]) <= BatchSize /\ BatchSize \in Nat
    BY StoreAssumption DEF AllSound, Sound
  <2> QED
    BY <2>1, <2>2
<1>7. Raw(t)' = rest \o kept
  <2>1. rest \o <<>> = rest
    BY <1>3, <1>4, ConcatEmptySeq
  <2> QED
    BY <1>3, <2>1 DEF Raw
<1>8. Sound(t)
  BY DEF AllSound
<1>9. Range(rest \o kept) = Range(rest) \cup (Range(pending[t]) \cap W)
  <2>1. rest \in Seq(RawSample)
    BY <1>3, <1>4
  <2> HIDE DEF kept
  <2> QED
    BY <1>5, <2>1, RangeConcatenation
<1>10. Raw(t)' = Keep(Raw(t), Range(rest \o kept))
  <2> HIDE DEF kept
  <2>1. /\ Keep(Raw(t), Range(file[t]) \cup (Range(pending[t]) \cap W)) = file[t] \o kept
        /\ Keep(Raw(t), Range(pending[t]) \cap W) = kept
    BY <1>8, PartsOfRaw DEF kept
  <2>2. CASE rest = file[t]
    BY <1>7, <1>9, <2>1, <2>2
  <2>3. CASE rest = <<>>
    <3>1. Range(rest \o kept) = Range(pending[t]) \cap W
      BY <1>9, <2>3, RangeOfNone
    <3>2. <<>> \o kept = kept
      BY <1>5, ConcatEmptySeq
    <3> QED
      BY <1>7, <2>1, <2>3, <3>1, <3>2
  <2> QED
    BY <1>3, <2>2, <2>3
<1>11. Sound(t)'
  BY <1>3, <1>6, <1>8, <1>10, Reduced
<1>12. \E Y : Raw(t)' = Keep(Raw(t), Y)
  BY <1>10
<1> QED
  BY <1>1, <1>2, <1>11, <1>12 DEF AllSound

\* Configurations: what is not reset stays.
LEMMA ConfigureSound ==
  ASSUME RawTypes, AllSound, NEW t \in Targets,
         \/ \E noCache \in BOOLEAN : Configure(t, noCache)
         \/ \E stuck \in BOOLEAN : ConfigureFails(t, stuck)
         \/ CleanConfigureFails(t) \/ CollectorRefuses(t)
  PROVE  AllSound'
<1>1. ASSUME NEW S, NEW stuck, ResetArtifacts(S, stuck) PROVE AllSound'
  BY <1>1, ResetSound
<1>2. CASE \E noCache \in BOOLEAN : Configure(t, noCache)
  BY <1>1, <1>2 DEF Configure
<1>3. CASE \E stuck \in BOOLEAN : ConfigureFails(t, stuck)
  BY <1>1, <1>3 DEF ConfigureFails
<1>4. CASE CleanConfigureFails(t)
  BY <1>1, <1>4 DEF CleanConfigureFails
<1>5. CASE CollectorRefuses(t)
  <2>1. CASE ResetArtifacts(Targets, {})
    BY <1>1, <2>1
  <2>2. CASE UNCHANGED <<rawVars, snapshotVars>>
    BY <2>2, KeptSame DEF rawVars, snapshotVars
  <2> QED
    BY <1>5, <2>1, <2>2 DEF CollectorRefuses
<1> QED
  BY <1>2, <1>3, <1>4, <1>5

\* A start, its end and its withdrawal, and a rollback.
LEMMA StartSound ==
  ASSUME RawTypes, AllSound, NEW t \in Targets,
         \/ BeginStart(t) \/ FinishStart(t) \/ StartRefused(t) \/ StartWithdrawn(t)
         \/ Rollback(t)
  PROVE  AllSound'
<1>1. CASE BeginStart(t) \/ StartWithdrawn(t)
  <2>1. DropPending(t) /\ UNCHANGED <<file, tick, recent>>
    BY <1>1 DEF BeginStart, StartWithdrawn
  <2> QED
    BY <2>1, DropSound
<1>2. CASE UNCHANGED <<rawVars, snapshotVars>>
  BY <1>2, KeptSame DEF rawVars, snapshotVars
<1>3. CASE \E S, stuck : ResetArtifacts(S, stuck)
  BY <1>3, ResetSound
<1>4. Rollback(t) => UNCHANGED <<rawVars, snapshotVars>> \/ \E S, stuck : ResetArtifacts(S, stuck)
  BY DEF Rollback
<1> QED
  BY <1>1, <1>2, <1>3, <1>4 DEF FinishStart, StartRefused

\* The steps of a stop that change no raw sample.
LEMMA OtherSound ==
  ASSUME RawTypes, AllSound, NEW t \in Targets,
         UNCHANGED vars \/ BeginStop(t) \/ FinishStop(t) \/ Consume
  PROVE  AllSound'
<1>1. UNCHANGED <<rawVars, snapshotVars>>
  BY DEF vars, BeginStop, FinishStop, Consume
<1> QED
  BY <1>1, KeptSame DEF rawVars, snapshotVars

\* The calls that visit samples.
LEMMA VisitsSound ==
  ASSUME RawTypes, AllSound, NEW t \in Targets,
         \/ \E m \in AllMetrics : Visit(t, m)
         \/ \E m \in AllMetrics, w \in Windows : GetSamples(t, m, w)
  PROVE  AllSound'
<1>1. \E m, takesAll : VisitSamples(t, m, takesAll)
  BY DEF Visit, GetSamples
<1> QED
  BY <1>1, VisitSound

\* There is nothing at first.
LEMMA InitSound ==
  ASSUME Init PROVE AllSound
<1>1. ASSUME NEW t \in Targets PROVE Sound(t)
  <2>1. pending[t] = <<>> /\ accepted[t] = <<>> /\ Raw(t) = <<>>
    BY <1>1 DEF Init, Raw
  <2>2. Keep(<<>>, Range(<<>>)) = <<>> /\ Range(<<>>) = {} /\ InOrder(<<>>)
    BY KeepOfNone, RangeOfNone, OrderOfNone
  <2>3. Len(pending[t]) <= BatchSize
    BY <2>1, StoreAssumption
  <2> QED
    BY <2>1, <2>2, <2>3 DEF Sound, Kept
<1> QED
  BY <1>1 DEF AllSound, SnapshotIsBounded, Init

\* Every step keeps the invariant: it adds the beginning of a later reading, or it keeps
\* some of the raw samples, and the same ones of the accepted.
THEOREM KeptInvariance == Spec => []KeptInv
<1>1. Init => AllSound
  BY InitSound
<1>2. ASSUME RawTypes, AllSound, [Next]_vars
      PROVE  AllSound'
  <2>1. CASE UNCHANGED vars
    <3>1. UNCHANGED <<pending, file, accepted, recent, tick>>
      BY <2>1 DEF vars, rawVars, snapshotVars
    <3> QED
      BY <1>2, <3>1, KeptSame
  <2>2. CASE Consume
    <3>1. UNCHANGED <<pending, file, accepted, recent, tick>>
      BY <2>2 DEF Consume, rawVars, snapshotVars
    <3> QED
      BY <1>2, <3>1, KeptSame
  <2>3. ASSUME NEW t \in Targets,
               \/ \E noCache \in BOOLEAN : Configure(t, noCache)
               \/ \E stuck \in BOOLEAN : ConfigureFails(t, stuck)
               \/ CleanConfigureFails(t) \/ CollectorRefuses(t)
        PROVE  AllSound'
    BY <1>2, <2>3, ConfigureSound
  <2>4. ASSUME NEW t \in Targets,
               \/ BeginStart(t) \/ FinishStart(t) \/ StartRefused(t) \/ StartWithdrawn(t)
               \/ Rollback(t)
        PROVE  AllSound'
    BY <1>2, <2>4, StartSound
  <2>5. ASSUME NEW t \in Targets,
               Sample(t) \/ BeginStop(t) \/ Flush(t) \/ FinishStop(t)
        PROVE  AllSound'
    BY <1>2, <2>5, SampleSound, FlushSound, OtherSound
  <2>6. ASSUME NEW t \in Targets,
               \/ \E m \in AllMetrics : Visit(t, m)
               \/ \E m \in AllMetrics, w \in Windows : GetSamples(t, m, w)
               \/ \E w \in Windows : Crop(t, w) \/ CropFails(t, w)
        PROVE  AllSound'
    BY <1>2, <2>6, VisitsSound, CropSound, CropFailsSound
  <2> QED
    BY <1>2, <2>1, <2>2, <2>3, <2>4, <2>5, <2>6 DEF Next
<1>3. TypeOK => RawTypes
  BY DEF TypeOK
<1>4. AllSound <=> KeptInv
  BY KeptParts
<1> QED
  BY <1>1, <1>2, <1>3, <1>4, StoreTypes, PTL DEF Spec

\* The ticks of one metric, of raw samples that are in order.
LEMMA TicksAscend ==
  ASSUME NEW raw \in Seq(RawSample), InOrder(raw), NEW m,
         NEW i \in 1..(Len(TicksOf(m, raw)) - 1)
  PROVE  TicksOf(m, raw)[i] < TicksOf(m, raw)[i + 1]
<1> DEFINE M == [metric: {m}, tick: Nat]
           own == Keep(raw, M)
           ticks == [j \in DOMAIN own |-> own[j].tick]
<1>1. \A x \in M : x.metric = m
  OBVIOUS
<1> HIDE DEF M
<1>2. own \in Seq(RawSample) /\ InOrder(own) /\ Range(own) \subseteq M
  BY KeepElements, OrderOfKept
<1> HIDE DEF own
<1>3. Len(own) \in Nat /\ DOMAIN own = 1..Len(own)
  BY <1>2, LenProperties
<1>4. TicksOf(m, raw) = ticks
  BY DEF TicksOf, own, M
<1>5. Len(ticks) = Len(own)
  BY <1>3
<1>6. i \in DOMAIN own /\ i + 1 \in DOMAIN own /\ i < i + 1
  BY <1>3, <1>4, <1>5
<1>7. own[i].metric = m /\ own[i + 1].metric = m
  BY <1>1, <1>2, <1>6 DEF Range
<1>8. own[i].tick < own[i + 1].tick
  BY <1>2, <1>6, <1>7 DEF InOrder
<1> QED
  BY <1>4, <1>6, <1>8

\* Whatever writes fail, whatever is reset, cropped or discarded: a raw sample whose
\* delivery succeeded is found by a replay, once and in order, until a start, a reset or
\* a crop discards it (AppendCachedRawSamples, SerializeBatchWithRollback,
\* FlushPendingRawSamples, CropSamplesOnTarget).
THEOREM AcceptedKept == Spec => []AcceptedAreKept
<1>1. RawTypes /\ KeptInv => AcceptedAreKept
  <2> SUFFICES ASSUME RawTypes, KeptInv, NEW t \in Targets
               PROVE  /\ Kept(t)
                      /\ \A m \in Metrics :
                           \A i \in 1..(Len(TicksOf(m, Raw(t))) - 1) :
                             TicksOf(m, Raw(t))[i] < TicksOf(m, Raw(t))[i + 1]
    BY DEF AcceptedAreKept
  <2>1. Raw(t) \in Seq(RawSample) /\ InOrder(Raw(t)) /\ Kept(t)
    BY RawType DEF KeptInv, SamplesAreTimed
  <2> QED
    BY <2>1, TicksAscend
<1>2. TypeOK => RawTypes
  BY DEF TypeOK
<1> QED
  BY <1>1, <1>2, StoreTypes, KeptInvariance, PTL

\* What is pending never exceeds a batch, even while every write fails, nor does the
\* snapshot (AppendCachedRawSamples, VisitRawMetricSampleBatchesAndRemember).
THEOREM BoundedMemory == Spec => []MemoryIsBounded
<1>1. KeptInv => MemoryIsBounded
  BY DEF KeptInv
<1> QED
  BY <1>1, KeptInvariance, PTL

-----------------------------------------------------------------------------
(* SampleStore implements SampleLog: step simulation.  The log of a target   *)
(* is its raw samples, wherever they are.                                    *)

\* A call has its target in the phase it began in, since no other call comes between.
THEOREM PhasesMatching == Spec => []PhasesMatch
<1>1. Init => PhasesMatch
  BY DEF Init, PhasesMatch, Idle
<1>2. ASSUME ControlTypes, PhasesMatch, [Next]_vars
      PROVE  PhasesMatch'
  <2> USE DEF PhasesMatch
  <2>1. CASE UNCHANGED vars
    BY <1>2, <2>1 DEF vars
  <2>2. CASE call' = Idle
    BY <2>2 DEF Idle
  <2>3. ASSUME NEW t \in Targets, BeginStart(t) PROVE PhasesMatch'
    BY <1>2, <2>3 DEF BeginStart, ControlTypes
  <2>4. ASSUME NEW t \in Targets, BeginStop(t) PROVE PhasesMatch'
    BY <1>2, <2>4 DEF BeginStop
  <2>5. ASSUME NEW t \in Targets, Flush(t) PROVE PhasesMatch'
    <3>1. phase[t] = "STARTED" /\ phase' = phase
      BY <1>2, <2>5 DEF Flush
    <3>2. call' = Idle \/ call' = [op |-> "emit", target |-> t]
      BY <2>5 DEF Flush
    <3>3. CASE call' = [op |-> "emit", target |-> t]
      BY <3>1, <3>3
    <3> QED
      BY <2>2, <3>2, <3>3
  <2>6. ASSUME NEW t \in Targets, Sample(t) PROVE PhasesMatch'
    BY <1>2, <2>6 DEF Sample
  <2>7. ASSUME NEW t \in Targets, NEW m, NEW w, GetSamples(t, m, w) PROVE PhasesMatch'
    <3>1. CASE call'.op = "consume"
      BY <3>1
    <3>2. call' = Idle \/ call'.op = "consume"
      BY <2>7 DEF GetSamples
    <3> QED
      BY <2>2, <3>1, <3>2
  <2>8. ASSUME NEW t \in Targets,
               \/ \E noCache \in BOOLEAN : Configure(t, noCache)
               \/ \E stuck \in BOOLEAN : ConfigureFails(t, stuck)
               \/ CleanConfigureFails(t) \/ CollectorRefuses(t)
        PROVE  call' = Idle
    BY <2>8 DEF Configure, ConfigureFails, CleanConfigureFails, CollectorRefuses, CanConfigure
  <2>9. ASSUME NEW t \in Targets,
               \/ FinishStart(t) \/ StartRefused(t) \/ StartWithdrawn(t) \/ Rollback(t)
               \/ FinishStop(t)
        PROVE  call' = Idle
    BY <2>9 DEF FinishStart, StartRefused, StartWithdrawn, Rollback, FinishStop
  <2>10. ASSUME NEW t \in Targets,
                \/ \E m \in AllMetrics : Visit(t, m)
                \/ \E w \in Windows : Crop(t, w) \/ CropFails(t, w)
         PROVE  call' = Idle
    BY <2>10 DEF Visit, Crop, CropFails
  <2>11. Consume => call' = Idle
    BY DEF Consume
  <2> HIDE DEF PhasesMatch
  <2> QED
    BY <1>2, <2>1, <2>2, <2>3, <2>4, <2>5, <2>6, <2>7, <2>8, <2>9, <2>10, <2>11 DEF Next
<1>3. TypeOK => ControlTypes
  BY DEF TypeOK
<1> QED
  BY <1>1, <1>2, <1>3, StoreTypes, PTL DEF Spec

\* Nothing, the whole and the first of two sequences are prefixes.
LEMMA PrefixesOfLogs ==
  ASSUME NEW V, NEW s \in Seq(V), NEW r \in Seq(V)
  PROVE  Log!IsPrefix(<<>>, s) /\ Log!IsPrefix(s, s) /\ Log!IsPrefix(s, s \o r)
<1>1. /\ s \o r \in Seq(V) /\ Len(s \o r) = Len(s) + Len(r)
      /\ Len(s) \in Nat /\ Len(r) \in Nat
      /\ \A i \in 1..Len(s) : (s \o r)[i] = s[i]
  BY ConcatProperties, LenProperties
<1>2. SubSeq(s, 1, Len(s)) = s
  BY SubSeqFull
<1>3. SubSeq(s \o r, 1, Len(s)) = s
  <2>1. Len(s) \in Len(s)..(Len(s) + Len(r))
    BY <1>1
  <2>2. SubSeq(s \o r, 1, Len(s)) = s \o SubSeq(r, 1, Len(s) - Len(s))
        /\ SubSeq(r, 1, Len(s) - Len(s)) \in Seq(V)
        /\ Len(SubSeq(r, 1, Len(s) - Len(s))) = Len(s) - Len(s)
    BY <2>1, FrontOfConcat
  <2>3. SubSeq(r, 1, Len(s) - Len(s)) = <<>>
    BY <1>1, <2>2, EmptySeq
  <2> QED
    BY <2>2, <2>3, ConcatEmptySeq
<1>4. Len(<<>>) = 0 /\ SubSeq(<<>>, 1, 0) = <<>> /\ SubSeq(s, 1, 0) = <<>>
  BY EmptySeq, SubSeqEmpty
<1> QED
  BY <1>1, <1>2, <1>3, <1>4 DEF Log!IsPrefix

\* Logs that are cut, or stay.
LEMMA LogsCut ==
  ASSUME NEW S \in SUBSET Targets, \A t \in S : Log!IsPrefix(Raw(t)', Raw(t)),
         \A t \in Targets \ S : Raw(t)' = Raw(t)
  PROVE  Log!Cut(S)
BY DEF Log!Cut, Log!Others

LEMMA LogsStay ==
  ASSUME \A t \in Targets : Raw(t)' = Raw(t)
  PROVE  [t \in Targets |-> Raw(t)]' = [t \in Targets |-> Raw(t)]
OBVIOUS

\* A reset of S cuts the logs of S; those whose files can be removed are empty.
LEMMA ResetCuts ==
  ASSUME RawTypes, NEW S \in SUBSET Targets, NEW stuck, ResetArtifacts(S, stuck)
  PROVE  Log!Cut(S) /\ \A t \in S \ stuck : Raw(t)' = <<>>
<1>1. ASSUME NEW t \in S
      PROVE  /\ Log!IsPrefix(Raw(t)', Raw(t))
             /\ t \notin stuck => Raw(t)' = <<>>
  <2>1. /\ t \in Targets /\ file[t] \in Seq(RawSample) /\ pending[t] \in Seq(RawSample)
        /\ Raw(t) = file[t] \o pending[t] /\ Raw(t) \in Seq(RawSample)
    BY <1>1, RawType DEF RawTypes
  <2>2. Raw(t)' = IF t \in stuck THEN file[t] ELSE <<>>
    BY <1>1, <2>1 DEF ResetArtifacts, Raw
  <2> QED
    BY <2>1, <2>2, PrefixesOfLogs
<1>2. \A t \in Targets \ S : Raw(t)' = Raw(t)
  BY DEF ResetArtifacts, Raw
<1> QED
  BY <1>1, <1>2, LogsCut

\* A start that drops what is pending cuts the log of its target.
LEMMA DropCuts ==
  ASSUME RawTypes, NEW t \in Targets, DropPending(t), file' = file
  PROVE  Log!Cut({t})
<1>1. /\ file[t] \in Seq(RawSample) /\ pending[t] \in Seq(RawSample)
      /\ Raw(t) = file[t] \o pending[t]
  BY RawType DEF RawTypes
<1>2. Raw(t)' = file[t]
  BY DEF DropPending, RawTypes, Raw
<1>3. \A u \in Targets \ {t} : Raw(u)' = Raw(u)
  BY DEF DropPending, RawTypes, Raw
<1> QED
  BY <1>1, <1>2, <1>3, PrefixesOfLogs, LogsCut

\* The filters of the two modules are one.
LEMMA SameKeep ==
  ASSUME NEW s, NEW S
  PROVE  Log!Keep(s, S) = Keep(s, S) /\ Log!Range(s) = Range(s)
BY DEF Log!Keep, Keep, Log!Range, Range

\* What cuts the logs of some targets cuts, at most, those of all.
LEMMA CutMore ==
  ASSUME RawTypes, NEW S \in SUBSET Targets, Log!Cut(S) PROVE Log!Cut(Targets)
<1>1. ASSUME NEW t \in Targets PROVE Log!IsPrefix(Raw(t)', Raw(t))
  <2>1. CASE t \in S
    BY <2>1 DEF Log!Cut
  <2>2. CASE t \notin S
    <3>1. Raw(t)' = Raw(t)
      BY <2>2 DEF Log!Cut, Log!Others
    <3> QED
      BY <3>1, RawType, PrefixesOfLogs
  <2> QED
    BY <2>1, <2>2
<1> QED
  BY <1>1, LogsCut

\* A configuration, and one that fails.
LEMMA ConfigureLogs ==
  ASSUME RawTypes, ControlTypes, NEW t \in Targets,
         \/ \E noCache \in BOOLEAN : Configure(t, noCache)
         \/ \E stuck \in BOOLEAN : ConfigureFails(t, stuck)
         \/ CleanConfigureFails(t) \/ CollectorRefuses(t)
  PROVE  Log!Configure(t) \/ Log!Close(t) \/ Log!Look
<1> DEFINE S == CleanSet(t)
<1>1. /\ \A u \in Targets : phase[u] \notin Log!Running
      /\ S \in {{t}, Targets} /\ t \in S /\ S \in SUBSET Targets /\ live \subseteq Targets
  <2>1. CanConfigure
    BY DEF Configure, ConfigureFails, CleanConfigureFails, CollectorRefuses
  <2> QED
    BY <2>1 DEF CanConfigure, Running, Log!Running, CleanSet, ControlTypes
<1>2. ASSUME Unconfigure(t, "UNCONFIGURED"), live' = live \ S, uncached' \subseteq uncached,
             Log!Cut(S)
      PROVE  Log!Configure(t)
  <2>1. /\ phase' = [u \in Targets |-> IF u = t THEN "UNCONFIGURED"
                                       ELSE IF u \in S THEN "UNCONFIGURED" ELSE phase[u]]
        /\ {u \in {t} : "UNCONFIGURED" = "CONFIGURED"} = {}
    BY <1>2 DEF Unconfigure
  <2> HIDE DEF S
  <2> QED
    BY <1>1, <1>2, <2>1 DEF Log!Configure
<1>3. ASSUME NEW noCache \in BOOLEAN, Configure(t, noCache)
      PROVE  Log!Configure(t)
  <2>1. /\ phase' = [u \in Targets |-> IF u = t THEN "CONFIGURED"
                                       ELSE IF u \in S THEN "UNCONFIGURED" ELSE phase[u]]
        /\ {u \in {t} : "CONFIGURED" = "CONFIGURED"} = {t}
        /\ live' = (live \ S) \cup {t} /\ uncached' \subseteq uncached \cup {t}
        /\ ResetArtifacts(S, {})
    BY <1>3 DEF Configure, Unconfigure
  <2> HIDE DEF S
  <2>2. Log!Cut(S) /\ Raw(t)' = <<>>
    <3>1. t \in S \ {}
      BY <1>1
    <3> QED
      BY <1>1, <2>1, <3>1, ResetCuts
  <2>3. [u \in Targets |-> Raw(u)]'[t] = <<>>
    BY <2>2
  <2> QED
    BY <1>1, <2>1, <2>2, <2>3 DEF Log!Configure
<1>4. ASSUME NEW stuck \in BOOLEAN, ConfigureFails(t, stuck)
      PROVE  Log!Configure(t)
  <2>1. /\ Unconfigure(t, "UNCONFIGURED") /\ live' = live \ S /\ uncached' \subseteq uncached
        /\ \E left : ResetArtifacts(S, left)
    BY <1>4 DEF ConfigureFails
  <2>2. Log!Cut(S)
    BY <1>1, <2>1, ResetCuts
  <2> QED
    BY <1>2, <2>1, <2>2
<1>5. ASSUME phase' = [u \in Targets |-> "UNCONFIGURED"], S = Targets, live' = {}
      PROVE  Unconfigure(t, "UNCONFIGURED") /\ live' = live \ S
  BY <1>1, <1>5 DEF Unconfigure
<1>6. CASE CleanConfigureFails(t)
  <2>1. /\ phase' = [u \in Targets |-> "UNCONFIGURED"] /\ S = Targets /\ live' = {}
        /\ uncached' = uncached
        /\ \E some \in SUBSET Targets : \E left : ResetArtifacts(some, left)
    BY <1>6 DEF CleanConfigureFails
  <2>2. Log!Cut(S)
    BY <2>1, ResetCuts, CutMore
  <2> QED
    BY <1>2, <1>5, <2>1, <2>2
<1>7. CASE CollectorRefuses(t)
  <2>1. CASE S = Targets
    <3>1. /\ phase' = [u \in Targets |-> "UNCONFIGURED"] /\ live' = {}
          /\ uncached' \subseteq uncached /\ ResetArtifacts(S, {})
      BY <1>7, <2>1 DEF CollectorRefuses
    <3>2. Log!Cut(S)
      BY <1>1, <3>1, ResetCuts
    <3> QED
      BY <1>2, <1>5, <2>1, <3>1, <3>2
  <2>2. CASE S # Targets
    <3>1. /\ live' \in {live, live \ {t}} /\ UNCHANGED <<phase, uncached>>
          /\ \A u \in Targets : Raw(u)' = Raw(u)
      BY <1>7, <2>2 DEF CollectorRefuses, rawVars, Raw
    <3>2. [u \in Targets |-> Raw(u)]' = [u \in Targets |-> Raw(u)]
      BY <3>1, LogsStay
    <3> QED
      BY <3>1, <3>2 DEF Log!Close, Log!Look, Log!vars
  <2> QED
    BY <2>1, <2>2
<1> QED
  BY <1>3, <1>4, <1>6, <1>7

\* A start, from its beginning to its end, and a rollback.
LEMMA StartLogs ==
  ASSUME RawTypes, ControlTypes, PhasesMatch, NEW t \in Targets,
         \/ BeginStart(t) \/ FinishStart(t) \/ StartRefused(t) \/ StartWithdrawn(t)
         \/ Rollback(t)
  PROVE  \/ Log!BeginStart(t) \/ Log!EnterStarted(t) \/ Log!AbandonStart(t)
         \/ Log!Rollback(t)
<1>1. CASE BeginStart(t)
  <2>1. /\ Log!Move(t, "CONFIGURED", "STARTING") /\ UNCHANGED <<live, uncached>>
        /\ DropPending(t) /\ file' = file
    BY <1>1 DEF BeginStart, Log!Move
  <2>2. Log!Cut({t})
    BY <2>1, DropCuts
  <2> QED
    BY <2>1, <2>2 DEF Log!BeginStart
<1>2. CASE FinishStart(t)
  <2>1. /\ Log!Move(t, "STARTING", "STARTED") /\ UNCHANGED <<live, uncached>> /\ t \in live
        /\ \A u \in Targets : Raw(u)' = Raw(u)
    BY <1>2 DEF FinishStart, Log!Move, PhasesMatch, rawVars, Raw
  <2>2. [u \in Targets |-> Raw(u)]' = [u \in Targets |-> Raw(u)]
    BY <2>1, LogsStay
  <2> QED
    BY <2>1, <2>2 DEF Log!EnterStarted
<1>3. CASE StartRefused(t)
  <2>1. /\ Log!Move(t, "STARTING", "CONFIGURED") /\ UNCHANGED <<live, uncached>>
        /\ \A u \in Targets : Raw(u)' = Raw(u)
    BY <1>3 DEF StartRefused, Log!Move, PhasesMatch, rawVars, Raw
  <2>2. Log!Cut({t})
    BY <2>1, RawType, PrefixesOfLogs, LogsCut
  <2> QED
    BY <2>1, <2>2 DEF Log!AbandonStart
<1>4. CASE StartWithdrawn(t)
  <2>1. /\ phase[t] = "STARTING" /\ live' \in {live, live \ {t}} /\ uncached' = uncached
        /\ DropPending(t) /\ file' = file
        /\ \E to \in {"CONFIGURED", "STARTED"} : phase' = [phase EXCEPT ![t] = to]
    BY <1>4 DEF StartWithdrawn, PhasesMatch
  <2>2. Log!Cut({t})
    BY <2>1, DropCuts
  <2> QED
    BY <2>1, <2>2 DEF Log!AbandonStart, Log!Move
<1>5. CASE Rollback(t)
  <2>1. t \in live /\ live' = live \ {t} /\ uncached' = uncached /\ phase[t] = "STARTED"
    BY <1>5 DEF Rollback
  <2>2. \/ phase' = [phase EXCEPT ![t] = "CONFIGURED"] /\ ResetArtifacts({t}, {})
        \/ phase' = phase /\ ResetArtifacts({t}, {t})
        \/ phase' = phase /\ \A u \in Targets : Raw(u)' = Raw(u)
    BY <1>5 DEF Rollback, rawVars, Raw
  <2>3. ASSUME NEW stuck, ResetArtifacts({t}, stuck)
        PROVE  Log!Cut({t}) /\ (t \notin stuck => [u \in Targets |-> Raw(u)]'[t] = <<>>)
    BY <2>3, ResetCuts
  <2>4. (\A u \in Targets : Raw(u)' = Raw(u)) => Log!Cut({t})
    BY RawType, PrefixesOfLogs, LogsCut
  <2>5. CASE phase' = [phase EXCEPT ![t] = "CONFIGURED"] /\ ResetArtifacts({t}, {})
    <3>1. Log!Cut({t}) /\ [u \in Targets |-> Raw(u)]'[t] = <<>>
      BY <2>3, <2>5
    <3> QED
      BY <2>1, <2>5, <3>1 DEF Log!Rollback, Log!Move
  <2>6. CASE phase' = phase
    <3>1. Log!Cut({t})
      BY <2>2, <2>3, <2>4
    <3> QED
      BY <2>1, <2>6, <3>1 DEF Log!Rollback
  <2> QED
    BY <2>2, <2>5, <2>6
<1> QED
  BY <1>1, <1>2, <1>3, <1>4, <1>5

\* A flush, that succeeds or fails, moves samples but loses none.
LEMMA FlushKeepsRaw ==
  ASSUME RawTypes, NEW t \in Targets, Flush(t)
  PROVE  \A u \in Targets : Raw(u)' = Raw(u)
<1>1. CASE UNCHANGED <<file, pending>>
  BY <1>1 DEF Raw
<1>2. CASE file' = [file EXCEPT ![t] = Raw(t)] /\ pending' = [pending EXCEPT ![t] = <<>>]
  <2>1. pending'[t] = <<>> /\ file'[t] = Raw(t)
    BY <1>2 DEF RawTypes
  <2>2. \A u \in Targets \ {t} : pending'[u] = pending[u] /\ file'[u] = file[u]
    BY <1>2 DEF RawTypes
  <2> QED
    BY <2>1, <2>2 DEF Raw
<1> QED
  BY <1>1, <1>2 DEF Flush

\* A stop: its collector closes, and nothing is lost from there to its end.
LEMMA StopLogs ==
  ASSUME RawTypes, PhasesMatch, StopIsQuiet, NEW t \in Targets,
         BeginStop(t) \/ Flush(t) \/ FinishStop(t)
  PROVE  Log!Close(t) \/ Log!Look \/ Log!Stop(t)
<1>1. \A u \in Targets : Raw(u)' = Raw(u)
  <2>1. CASE BeginStop(t) \/ FinishStop(t)
    BY <2>1 DEF BeginStop, FinishStop, rawVars, Raw
  <2>2. CASE Flush(t)
    BY <2>2, FlushKeepsRaw
  <2> QED
    BY <2>1, <2>2
<1>2. [u \in Targets |-> Raw(u)]' = [u \in Targets |-> Raw(u)]
  BY <1>1, LogsStay
<1>3. CASE BeginStop(t)
  <2>1. live' = live \ {t} /\ UNCHANGED <<phase, uncached>>
    BY <1>3 DEF BeginStop
  <2> QED
    BY <1>2, <2>1 DEF Log!Close
<1>4. CASE Flush(t)
  <2>1. UNCHANGED <<phase, live, uncached>>
    BY <1>4 DEF Flush
  <2> QED
    BY <1>2, <2>1 DEF Log!Look, Log!vars
<1>5. CASE FinishStop(t)
  <2>1. /\ t \notin live /\ phase[t] = "STARTED" /\ phase' = [phase EXCEPT ![t] = "STOPPED"]
        /\ UNCHANGED <<live, uncached>>
    BY <1>5 DEF FinishStop, StopIsQuiet, PhasesMatch
  <2> QED
    BY <1>2, <2>1 DEF Log!Stop, Log!Move
<1> QED
  BY <1>3, <1>4, <1>5

\* A log that is extended by samples of the next tick is extended by later ones.
LEMMA LaterSamples ==
  ASSUME RawTypes, NEW t \in Targets, \A s \in Range(Raw(t)) : s.tick <= tick,
         NEW q \in Seq(RawSample), \A s \in Range(q) : s.tick = tick + 1,
         Raw(t)' = Raw(t) \o q
  PROVE  /\ Log!IsPrefix(Raw(t), Raw(t)')
         /\ \A i \in DOMAIN Raw(t) : \A j \in DOMAIN Raw(t)' \ DOMAIN Raw(t) :
              Raw(t)[i].tick < Raw(t)'[j].tick
<1> DEFINE r == Raw(t)
<1>1. r \in Seq(RawSample)
  BY RawType
<1>2. Log!IsPrefix(r, r \o q)
  BY <1>1, PrefixesOfLogs
<1>3. ASSUME NEW i \in DOMAIN r, NEW j \in DOMAIN (r \o q) \ DOMAIN r
      PROVE  r[i].tick < (r \o q)[j].tick
  <2> HIDE DEF r
  <2>1. /\ Len(r \o q) = Len(r) + Len(q) /\ Len(r) \in Nat /\ Len(q) \in Nat
        /\ r \o q \in Seq(RawSample)
        /\ \A k \in Len(r) + 1 .. Len(r) + Len(q) : (r \o q)[k] = q[k - Len(r)]
    BY <1>1, ConcatProperties, LenProperties
  <2>2. /\ DOMAIN r = 1..Len(r) /\ DOMAIN q = 1..Len(q)
        /\ DOMAIN (r \o q) = 1..(Len(r) + Len(q))
    BY <1>1, <2>1, LenProperties
  <2>3. j \in Len(r) + 1 .. Len(r) + Len(q) /\ j - Len(r) \in 1..Len(q)
    BY ONLY <1>3, <2>1, <2>2
  <2>4. (r \o q)[j].tick = tick + 1
    BY <2>1, <2>2, <2>3 DEF Range
  <2>5. r[i].tick <= tick /\ r[i] \in RawSample
    BY <1>1, <1>3, <2>2 DEF Range, r
  <2>6. r[i].tick \in Nat /\ tick \in Nat
    BY <2>5 DEF RawSample, RawTypes
  <2> QED
    BY ONLY <2>4, <2>5, <2>6
<1> QED
  BY <1>2, <1>3

\* A reading extends the log of its target, if the target is cached.
LEMMA SampleLogs ==
  ASSUME RawTypes, AllSound, NEW t \in Targets, Sample(t)
  PROVE  Log!Deliver(t) \/ Log!Look
<1>1. /\ t \in live /\ UNCHANGED <<phase, live, uncached>>
      /\ \E span \in Spans : SinkRawSamples(t, span)
  BY DEF Sample
<1>2. PICK span \in Spans : SinkRawSamples(t, span)
  BY <1>1
<1>3. CASE t \in uncached
  <2>1. \A u \in Targets : Raw(u)' = Raw(u)
    BY <1>2, <1>3 DEF SinkRawSamples, ProcessUncached, Raw
  <2>2. [u \in Targets |-> Raw(u)]' = [u \in Targets |-> Raw(u)]
    BY <2>1, LogsStay
  <2> QED
    BY <1>1, <2>2 DEF Log!Look, Log!vars
<1>4. CASE t \notin uncached
  <2>1. AppendCached(t, span)
    BY <1>2, <1>4 DEF SinkRawSamples
  <2>2. PICK q \in Seq(RawSample) : Extends(t, q)
    BY <2>1, AppendExtends
  <2>3. \A s \in Range(Raw(t)) : s.tick <= tick
    BY DEF AllSound, Sound
  <2>4. /\ Log!IsPrefix(Raw(t), Raw(t)')
        /\ \A i \in DOMAIN Raw(t) : \A j \in DOMAIN Raw(t)' \ DOMAIN Raw(t) :
             Raw(t)[i].tick < Raw(t)'[j].tick
    BY <2>2, <2>3, LaterSamples DEF Extends
  <2>5. \A u \in Targets \ {t} : Raw(u)' = Raw(u)
    BY <2>1 DEF AppendCached, WriteFails, Batches, RawTypes, Raw
  <2> QED
    BY <1>1, <1>4, <2>4, <2>5 DEF Log!Deliver, Log!Others
<1> QED
  BY <1>3, <1>4

\* A crop, whatever of it fails, filters the log of its target.
LEMMA CropLogs ==
  ASSUME RawTypes, AllSound, NEW t \in Targets, NEW w \in Windows,
         Crop(t, w) \/ CropFails(t, w)
  PROVE  Log!Crop(t)
<1>1. /\ phase[t] \notin Log!Running /\ UNCHANGED <<phase, live, uncached>>
      /\ \A u \in Targets \ {t} : Raw(u)' = Raw(u)
  <2>1. CASE Crop(t, w)
    BY <2>1 DEF Crop, Running, Log!Running, RawTypes, Raw
  <2>2. CASE CropFails(t, w)
    BY <2>2 DEF CropFails, Running, Log!Running, RawTypes, Raw
  <2> QED
    BY <2>1, <2>2
<1>2. PICK Y : Raw(t)' = Keep(Raw(t), Y)
  BY CropSound, CropFailsSound
<1>3. Raw(t)' = Log!Keep(Raw(t), Log!Range(Raw(t)'))
  <2>1. Keep(Raw(t), Range(Keep(Raw(t), Y))) = Keep(Raw(t), Y)
    BY RawType, OwnKept
  <2> QED
    BY <1>2, <2>1, SameKeep
<1> QED
  BY <1>1, <1>3 DEF Log!Crop, Log!Others

\* A step that touches neither the samples nor the states only looks.
LEMMA LookLogs ==
  ASSUME UNCHANGED <<phase, live, uncached, rawVars>>
  PROVE  Log!Look
<1>1. [u \in Targets |-> Raw(u)]' = [u \in Targets |-> Raw(u)]
  BY LogsStay DEF rawVars, Raw
<1> QED
  BY <1>1 DEF Log!Look, Log!vars

\* Wherever the raw samples of a target are, and whatever fails: a reading only extends
\* them, by later samples; visits, outputs, and a stop from the end of its sampler on
\* lose none; a configuration, a start and a rollback take away their end; only a crop
\* filters them (SinkRawSamples, FlushPendingRawSamples, ResetTargetCollectionArtifacts,
\* CropSamplesOnTarget).
THEOREM LogImplementation == Spec => ImplementsLog
<1>1. Init => Log!Init
  BY DEF Init, Log!Init, Raw
<1>2. ASSUME RawTypes, ControlTypes, AllSound, PhasesMatch, StopIsQuiet, [Next]_vars
      PROVE  [Log!Next]_(Log!vars)
  <2>1. CASE UNCHANGED vars
    <3>1. UNCHANGED <<phase, live, uncached, rawVars>>
      BY <2>1 DEF vars
    <3> QED
      BY <3>1, LookLogs DEF Log!Look
  <2>2. CASE Consume
    <3>1. UNCHANGED <<phase, live, uncached, rawVars>>
      BY <2>2 DEF Consume
    <3> QED
      BY <3>1, LookLogs DEF Log!Look
  <2>3. ASSUME NEW t \in Targets,
               \/ \E noCache \in BOOLEAN : Configure(t, noCache)
               \/ \E stuck \in BOOLEAN : ConfigureFails(t, stuck)
               \/ CleanConfigureFails(t) \/ CollectorRefuses(t)
        PROVE  Log!Next
    <3>1. Log!Configure(t) \/ Log!Close(t) \/ Log!Look
      BY <1>2, <2>3, ConfigureLogs
    <3> QED
      BY <3>1 DEF Log!Next
  <2>4. ASSUME NEW t \in Targets,
               \/ BeginStart(t) \/ FinishStart(t) \/ StartRefused(t) \/ StartWithdrawn(t)
               \/ Rollback(t)
        PROVE  Log!Next
    <3>1. \/ Log!BeginStart(t) \/ Log!EnterStarted(t) \/ Log!AbandonStart(t)
          \/ Log!Rollback(t)
      BY <1>2, <2>4, StartLogs
    <3> QED
      BY <3>1 DEF Log!Next
  <2>5. ASSUME NEW t \in Targets, BeginStop(t) \/ Flush(t) \/ FinishStop(t)
        PROVE  Log!Next
    <3>1. Log!Close(t) \/ Log!Look \/ Log!Stop(t)
      BY <1>2, <2>5, StopLogs
    <3> QED
      BY <3>1 DEF Log!Next
  <2>6. ASSUME NEW t \in Targets, Sample(t) PROVE Log!Next
    <3>1. Log!Deliver(t) \/ Log!Look
      BY <1>2, <2>6, SampleLogs
    <3> QED
      BY <3>1 DEF Log!Next
  <2>7. ASSUME NEW t \in Targets, NEW w \in Windows, Crop(t, w) \/ CropFails(t, w)
        PROVE  Log!Next
    <3>1. Log!Crop(t)
      BY <1>2, <2>7, CropLogs
    <3> QED
      BY <3>1 DEF Log!Next
  <2>8. ASSUME NEW t \in Targets,
               \/ \E m \in AllMetrics : Visit(t, m)
               \/ \E m \in AllMetrics, w \in Windows : GetSamples(t, m, w)
        PROVE  Log!Next
    <3>1. \E m, takesAll : VisitSamples(t, m, takesAll)
      BY <2>8 DEF Visit, GetSamples
    <3>2. UNCHANGED <<phase, live, uncached, rawVars>>
      BY <3>1 DEF VisitSamples
    <3> QED
      BY <3>2, LookLogs DEF Log!Next
  <2> QED
    BY <1>2, <2>1, <2>2, <2>3, <2>4, <2>5, <2>6, <2>7, <2>8 DEF Next
<1>3. TypeOK => RawTypes /\ ControlTypes
  BY DEF TypeOK
<1>4. AllSound <=> KeptInv
  BY KeptParts
<1>5. StoreInv => StopIsQuiet
  BY DEF StoreInv, Calls
<1> QED
  BY <1>1, <1>2, <1>3, <1>4, <1>5, StoreTypes, StoreInvariance, KeptInvariance,
     PhasesMatching, PTL DEF Spec, ImplementsLog, Log!Spec
=============================================================================
