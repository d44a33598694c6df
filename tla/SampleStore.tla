----------------------------- MODULE SampleStore -----------------------------
(***************************************************************************)
(* The sample store of the orchestrator: the raw samples of each target,   *)
(* pending in memory and in its cache file, the processed samples, the     *)
(* snapshot of the metric visited last, the targets that are not cached    *)
(* and the final outputs.                                                  *)
(*                                                                         *)
(* Every entry point of the C API holds one mutex, so one call runs at a   *)
(* time; the samplers of the targets run beside it.  A call that a sampler *)
(* can interrupt where it matters is several steps, "call" says where it   *)
(* is; a method that holds the cache file mutex or the processed samples   *)
(* mutex throughout is one step.  A sample is its metric and the tick of   *)
(* the clock it was taken at.  A paused target is a started one whose      *)
(* sampler does not run: pause markers are not in this module.             *)
(***************************************************************************)
EXTENDS Naturals, FiniteSets, SequencesExt, Functions, Subsequences

CONSTANTS
    Targets,
    Metrics,        \* the metrics of a target, one operation each
    DeltaMetrics,   \* those that report the difference to the previous sample
    Lifecycle,      \* the metric of lifecycle events, made by the library itself
    BatchSize,      \* _sample_batch_size
    LastTick,       \* bound: samples of a target are taken at ticks up to this
    MaxEvents,      \* bound: no crop of a target with as many lifecycle events as this
    Readings,       \* bound: the sets of metrics that one reading may have
    Windows,        \* the ranges that callers crop to and ask for
    Operations,     \* the calls that are made, of StoreOperations
    Faults,         \* what may go wrong, of StoreFaults
    None

StoreOperations == {"read", "visit", "get", "crop", "rollback"}
StoreFaults ==
    {"collector", "clock", "remove", "start", "pause", "stop", "write", "crop"}

ASSUME StoreAssumption ==
    /\ IsFiniteSet(Metrics) /\ DeltaMetrics \subseteq Metrics /\ Lifecycle \notin Metrics
    /\ BatchSize \in Nat \ {0} /\ LastTick \in [Targets -> Nat]
    /\ MaxEvents \in [Targets -> Nat]
    /\ Readings \subseteq (SUBSET Metrics) \ {{}}
    /\ Windows \subseteq [from: Nat, to: Nat]
    /\ Operations \subseteq StoreOperations /\ Faults \subseteq StoreFaults

VARIABLES
    phase,      \* _target_collection_states
    live,       \* the targets whose collector accepts reads
    active,     \* _targets_with_active_collection
    uncached,   \* _no_cache_targets
    pending,    \* _raw_samples
    file,       \* the cache file of each target, empty if there is none
    previous,   \* the sample an uncached metric has processed last
    processed,  \* _processed_samples
    recent,     \* _recent_processed_target, _metric and _samples
    rebuilt,    \* _final_rebuild_attempted
    call,       \* the C API call that is under way
    tick,       \* the clock
    accepted,   \* history: the samples whose delivery has succeeded
    overtaken   \* history: raw samples have been discarded behind the snapshot

rawVars == <<pending, file, accepted, tick>>
snapshotVars == <<recent, overtaken>>
vars == <<phase, live, active, uncached, rawVars, previous, processed, snapshotVars,
          rebuilt, call>>

AllMetrics == Metrics \cup {Lifecycle}
RawSample == [metric: Metrics, tick: Nat]
ProcessedSample == [since: Nat, at: Nat]   \* the interval a value stands for
Idle == [op |-> "none"]

Init ==
    /\ phase = [t \in Targets |-> "UNCONFIGURED"]
    /\ live = {} /\ active = {} /\ uncached = {}
    /\ pending = [t \in Targets |-> <<>>]
    /\ file = [t \in Targets |-> <<>>]
    /\ previous = [t \in Targets |-> [m \in AllMetrics |-> <<>>]]
    /\ processed = [t \in Targets |-> <<>>]
    /\ recent = None /\ overtaken = FALSE
    /\ rebuilt = FALSE
    /\ call = Idle
    /\ tick = 0
    /\ accepted = [t \in Targets |-> <<>>]

-----------------------------------------------------------------------------
(* The metric pipeline, as the store sees it.                               *)

TicksOf(m, raw) ==
    LET own == Keep(raw, [metric: {m}, tick: Nat])
    IN  [i \in DOMAIN own |-> own[i].tick]

\* What a metric makes of raw samples, if it has seen "before" (one tick or none):
\* a delta for each sample but the first, or a value for each.
Processed(m, before, raw) ==
    LET ticks == (IF m \in DeltaMetrics THEN before ELSE <<>>) \o TicksOf(m, raw)
    IN  IF m \in DeltaMetrics
          THEN [i \in 1..(Len(ticks) - 1) |-> [since |-> ticks[i], at |-> ticks[i + 1]]]
          ELSE [i \in DOMAIN ticks |-> [since |-> ticks[i], at |-> ticks[i]]]

\* All metrics of a target, reset and given raw samples: a metric without a sample
\* makes no entry.
ReplayOf(raw) ==
    [m \in {n \in Metrics : Processed(n, <<>>, raw) # <<>>} |-> Processed(m, <<>>, raw)]

\* What a replay reads: the cache file, and what is pending if there is any.
Raw(t) == IF pending[t] = <<>> THEN file[t] ELSE file[t] \o pending[t]
Held(t, m) == IF m \in DOMAIN processed[t] THEN processed[t][m] ELSE <<>>

\* What a visit of a metric finds without the snapshot.
NoRaw(t) == file[t] = <<>> /\ pending[t] = <<>>
Answer(t, m) == IF NoRaw(t) THEN Held(t, m) ELSE Processed(m, <<>>, Raw(t))

-----------------------------------------------------------------------------
(* Configuration.                                                           *)

Running == {"STARTING", "STARTED"}

KeepRecent == UNCHANGED snapshotVars   \* mutant: the snapshot is not invalidated

InvalidateRecent == recent' = None /\ overtaken' = FALSE

ResetMemory(S, stuck) ==   \* mutant: the cache files stay
    /\ InvalidateRecent
    /\ pending' = [t \in Targets |-> IF t \in S THEN <<>> ELSE pending[t]]
    /\ processed' = [t \in Targets |-> IF t \in S THEN <<>> ELSE processed[t]]
    /\ accepted' = [t \in Targets |-> IF t \in S THEN <<>> ELSE accepted[t]]
    /\ UNCHANGED <<file, tick>>

\* ResetTargetCollectionArtifacts of the targets S; the files of "stuck" cannot be
\* removed.
ResetArtifacts(S, stuck) ==
    /\ InvalidateRecent
    /\ pending' = [t \in Targets |-> IF t \in S THEN <<>> ELSE pending[t]]
    /\ processed' = [t \in Targets |-> IF t \in S THEN <<>> ELSE processed[t]]
    /\ file' = [t \in Targets |-> IF t \in S \ stuck THEN <<>> ELSE file[t]]
    /\ accepted' = [t \in Targets |-> IF t \in S THEN <<>> ELSE accepted[t]]
    /\ UNCHANGED tick

ResetOutputs == rebuilt' = FALSE

ResetMetrics(S) ==
    previous' = [t \in Targets |->
                   IF t \in S THEN [m \in AllMetrics |-> <<>>] ELSE previous[t]]

\* A configuration is clean unless another target is CONFIGURED: then all targets
\* lose their samples, not only the one that is configured.
CleanSet(t) ==
    IF \E u \in Targets \ {t} : phase[u] = "CONFIGURED" THEN {t} ELSE Targets

CanConfigure ==
    /\ call = Idle
    /\ \A u \in Targets : phase[u] \notin Running

\* The target of a configuration becomes p, the others of the clean set UNCONFIGURED.
Unconfigure(t, p) ==
    phase' = [u \in Targets |-> IF u = t THEN p
                                ELSE IF u \in CleanSet(t) THEN "UNCONFIGURED"
                                ELSE phase[u]]

Configure(t, noCache) ==
    /\ CanConfigure
    /\ ResetArtifacts(CleanSet(t), {})
    /\ ResetMetrics(CleanSet(t))
    /\ ResetOutputs
    /\ Unconfigure(t, "CONFIGURED")
    /\ live' = (live \ CleanSet(t)) \cup {t}
    /\ uncached' = (uncached \ CleanSet(t)) \cup (IF noCache THEN {t} ELSE {})
    /\ UNCHANGED <<active, call>>

\* ClearFailedCollectionConfiguration: the clocks cannot be correlated, or the file
\* of the target cannot be removed.
ConfigureFails(t, stuck) ==
    /\ CanConfigure
    /\ IF stuck THEN "remove" \in Faults /\ CleanSet(t) = {t} /\ file[t] # <<>>
                ELSE "clock" \in Faults
    /\ ResetArtifacts(CleanSet(t), IF stuck THEN {t} ELSE {})
    /\ ResetMetrics(CleanSet(t))
    /\ ResetOutputs
    /\ Unconfigure(t, "UNCONFIGURED")
    /\ live' = live \ CleanSet(t)
    /\ uncached' = uncached \ CleanSet(t)
    /\ UNCHANGED <<active, call>>

\* ResetCollectionStateForCleanConfigureLocked stops at the first file it cannot
\* remove: the targets before it, and what it had in memory, are reset.
CleanConfigureFails(t) ==
    /\ CanConfigure /\ "remove" \in Faults
    /\ CleanSet(t) = Targets
    /\ \E u \in Targets : \E before \in SUBSET (Targets \ {u}) :
         file[u] # <<>> /\ ResetArtifacts(before \cup {u}, {u})
    /\ phase' = [u \in Targets |-> "UNCONFIGURED"]
    /\ live' = {}
    /\ UNCHANGED <<active, uncached, previous, rebuilt, call>>

\* The collector refuses the configuration: only a clean reset has happened.
CollectorRefuses(t) ==
    /\ CanConfigure /\ "collector" \in Faults
    /\ IF CleanSet(t) = Targets
         THEN /\ ResetArtifacts(Targets, {}) /\ ResetMetrics(Targets) /\ ResetOutputs
              /\ phase' = [u \in Targets |-> "UNCONFIGURED"]
              /\ live' = {} /\ uncached' = {}
         ELSE /\ live' \in {live, live \ {t}}
              /\ UNCHANGED <<phase, uncached, rawVars, previous, processed,
                             snapshotVars, rebuilt>>
    /\ UNCHANGED <<active, call>>

-----------------------------------------------------------------------------
(* Start and rollback.                                                      *)

\* Raw samples of t are discarded, and the snapshot is left as it is.
DropPending(t) ==
    /\ pending' = [pending EXCEPT ![t] = <<>>]
    /\ accepted' = [accepted EXCEPT ![t] = Keep(@, Range(file[t]))]
    /\ overtaken' = (overtaken \/ (recent # None /\ recent.target = t /\ pending[t] # <<>>))

BeginStart(t) ==
    /\ call = Idle /\ phase[t] = "CONFIGURED"
    /\ phase' = [phase EXCEPT ![t] = "STARTING"]
    /\ call' = [op |-> "start", target |-> t]
    /\ DropPending(t)
    /\ UNCHANGED <<live, active, uncached, file, tick, previous, processed, recent,
                   rebuilt>>

FinishStart(t) ==
    /\ call = [op |-> "start", target |-> t] /\ t \in live
    /\ phase' = [phase EXCEPT ![t] = "STARTED"]
    /\ active' = active \cup {t}
    /\ call' = Idle
    /\ UNCHANGED <<live, uncached, rawVars, previous, processed, snapshotVars, rebuilt>>

\* The collector does not start; what it has sampled so far stays.
StartRefused(t) ==
    /\ call = [op |-> "start", target |-> t]
    /\ t \in live => "start" \in Faults
    /\ phase' = [phase EXCEPT ![t] = "CONFIGURED"]
    /\ call' = Idle
    /\ UNCHANGED <<live, active, uncached, rawVars, previous, processed, snapshotVars,
                   rebuilt>>

\* A start that should be paused is withdrawn because the pause is refused; when the
\* collector does not stop either the target is STARTED.
StartWithdrawn(t) ==
    /\ call = [op |-> "start", target |-> t] /\ t \in live /\ "pause" \in Faults
    /\ \/ /\ phase' = [phase EXCEPT ![t] = "CONFIGURED"]
          /\ live' = live \ {t}
          /\ UNCHANGED active
       \/ /\ "stop" \in Faults
          /\ phase' = [phase EXCEPT ![t] = "STARTED"]
          /\ live' \in {live, live \ {t}}
          /\ active' = active \cup {t}
    /\ call' = Idle
    /\ DropPending(t)
    /\ UNCHANGED <<uncached, file, tick, previous, processed, recent, rebuilt>>

\* RollbackStartedCollectionToConfigured: another target of an aggregate start has
\* failed.
Rollback(t) ==
    /\ "rollback" \in Operations
    /\ call = Idle /\ phase[t] = "STARTED" /\ t \in live
    /\ live' = live \ {t}
    /\ \/ /\ ResetArtifacts({t}, {}) /\ ResetOutputs
          /\ phase' = [phase EXCEPT ![t] = "CONFIGURED"]
          /\ active' = active \ {t}
       \/ /\ "remove" \in Faults /\ file[t] # <<>>
          /\ ResetArtifacts({t}, {t})
          /\ active' = active \ {t}
          /\ UNCHANGED <<phase, rebuilt>>
       \/ /\ "stop" \in Faults
          /\ UNCHANGED <<phase, active, rawVars, processed, snapshotVars, rebuilt>>
    /\ UNCHANGED <<uncached, previous, call>>

-----------------------------------------------------------------------------
(* SinkRawSamples.                                                          *)

\* One reading of some of the metrics at one tick.
Spans == {SetToSeq({[metric |-> m, tick |-> tick + 1] : m \in M}) :
            M \in Readings}

\* The first n batches are in the file, what is pending ends with the sample "last".
Batches(t, all, n, last) ==
    /\ file' = [file EXCEPT ![t] = @ \o SubSeq(all, 1, n * BatchSize)]
    /\ pending' = [pending EXCEPT ![t] = SubSeq(all, n * BatchSize + 1, last)]

LoseBatch(t, all, n) ==   \* mutant: the batch is not pending any more
    Batches(t, all, n - 1, (n - 1) * BatchSize)
KeepRest(t, all, n) ==    \* mutant: the rest of the span is pending too
    Batches(t, all, n - 1, Len(all))

\* The write of batch n fails: the batch stays pending, and full, and the rest of the
\* span is dropped.
WriteFails(t, all, n) == Batches(t, all, n - 1, n * BatchSize)

\* AppendCachedRawSamples: batches are filled and written, as many as there are.
AppendCached(t, span) ==
    LET all == pending[t] \o span
        batches == Len(all) \div BatchSize
    IN  /\ InvalidateRecent
        /\ \/ /\ Batches(t, all, batches, Len(all))
              /\ accepted' = [accepted EXCEPT ![t] = @ \o span]
           \/ /\ "write" \in Faults
              /\ \E n \in 1..batches : WriteFails(t, all, n)
              /\ UNCHANGED accepted
        /\ UNCHANGED <<previous, processed>>

KeepPrevious(t, span) ==   \* mutant: the previous sample is not replaced
    LET made == [m \in AllMetrics |-> Processed(m, previous[t][m], span)]
        keys == DOMAIN processed[t] \cup {m \in AllMetrics : made[m] # <<>>}
    IN  /\ processed' = [processed EXCEPT ![t] = [m \in keys |-> Held(t, m) \o made[m]]]
        /\ previous' = [previous EXCEPT ![t] =
                          [m \in AllMetrics |->
                             IF TicksOf(m, span) = <<>> THEN @[m]
                             ELSE @[m] \o <<Last(TicksOf(m, span))>>]]
        /\ UNCHANGED <<file, pending, accepted, snapshotVars>>

\* The samples of a target that is not cached are processed at once.
ProcessUncached(t, span) ==
    LET made == [m \in AllMetrics |-> Processed(m, previous[t][m], span)]
        keys == DOMAIN processed[t] \cup {m \in AllMetrics : made[m] # <<>>}
    IN  /\ processed' = [processed EXCEPT ![t] = [m \in keys |-> Held(t, m) \o made[m]]]
        /\ previous' = [previous EXCEPT ![t] =
                          [m \in AllMetrics |->
                             IF TicksOf(m, span) = <<>> THEN @[m]
                             ELSE <<Last(TicksOf(m, span))>>]]
        /\ UNCHANGED <<file, pending, accepted, snapshotVars>>

SinkRawSamples(t, span) ==
    IF t \in uncached THEN ProcessUncached(t, span) ELSE AppendCached(t, span)

\* A collector samples while it starts, runs or stops, whatever the caller does; an
\* immediate read is a call.
Sample(t) ==
    /\ t \in live /\ tick < LastTick[t]
    /\ phase[t] \in Running \/ ("read" \in Operations /\ call = Idle)
    /\ tick' = tick + 1
    /\ \E span \in Spans : SinkRawSamples(t, span)
    /\ UNCHANGED <<phase, live, active, uncached, rebuilt, call>>

-----------------------------------------------------------------------------
(* Stop and the final outputs.                                              *)

StopWithoutFlush(t) ==   \* mutant: the pending samples are not flushed
    /\ call = Idle /\ phase[t] = "STARTED" /\ t \in live
    /\ live' = live \ {t}
    /\ active' = active \ {t}
    /\ call' = [op |-> "emit", target |-> t]
    /\ UNCHANGED <<phase, uncached, rawVars, previous, processed, snapshotVars, rebuilt>>

\* The collector has stopped: its sampler has ended.  If it reports a failure the
\* target stays STARTED.
BeginStop(t) ==
    /\ call = Idle /\ phase[t] = "STARTED" /\ t \in live
    /\ live' = live \ {t}
    /\ \/ /\ active' = active \ {t}
          /\ call' = [op |-> "flush", target |-> t]
       \/ "stop" \in Faults /\ UNCHANGED <<active, call>>
    /\ UNCHANGED <<phase, uncached, rawVars, previous, processed, snapshotVars, rebuilt>>

FlushAnyway(t) ==   \* mutant: what cannot be written is dropped all the same
    /\ call = [op |-> "flush", target |-> t]
    /\ \/ file' = [file EXCEPT ![t] = Raw(t)]
       \/ "write" \in Faults /\ UNCHANGED file
    /\ pending' = [pending EXCEPT ![t] = <<>>]
    /\ call' = [op |-> "emit", target |-> t]
    /\ UNCHANGED <<phase, live, active, uncached, accepted, tick, previous, processed,
                   snapshotVars, rebuilt>>

\* FlushPendingRawSamples.  If it fails the target stays STARTED.
Flush(t) ==
    /\ call = [op |-> "flush", target |-> t]
    /\ \/ /\ file' = [file EXCEPT ![t] = Raw(t)]
          /\ pending' = [pending EXCEPT ![t] = <<>>]
          /\ call' = [op |-> "emit", target |-> t]
       \/ /\ "write" \in Faults /\ pending[t] # <<>>
          /\ call' = Idle
          /\ UNCHANGED <<file, pending>>
    /\ UNCHANGED <<phase, live, active, uncached, accepted, tick, previous, processed,
                   snapshotVars, rebuilt>>

AnyTargetCollected == active # {}

\* If any output is requested, every target with a cache file is replayed before the
\* first one: outputs write _processed_samples.
FinishStop(t) ==
    /\ call = [op |-> "emit", target |-> t]
    /\ \/ UNCHANGED <<processed, rebuilt>>
       \/ /\ ~AnyTargetCollected /\ ~rebuilt
          /\ rebuilt' = TRUE
          /\ processed' = [u \in Targets |-> IF file[u] = <<>> THEN processed[u]
                                              ELSE ReplayOf(Raw(u))]
    /\ phase' = [phase EXCEPT ![t] = "STOPPED"]
    /\ call' = Idle
    /\ UNCHANGED <<live, active, uncached, rawVars, previous, snapshotVars>>

-----------------------------------------------------------------------------
(* Visits.                                                                  *)

Snapshot(t, m) == recent # None /\ recent.target = t /\ recent.metric = m
Result(t, m) == IF Snapshot(t, m) THEN recent.samples ELSE Answer(t, m)

\* A visit answers from the snapshot, or else invalidates it and replays the raw
\* samples, or reads the processed ones if there are none.  A replay removes what was
\* processed of the metric, and is remembered if the caller takes all of it and it is
\* at most one batch.
VisitSamples(t, m, takesAll) ==
    /\ IF Snapshot(t, m)
         THEN UNCHANGED <<processed, snapshotVars>>
         ELSE /\ overtaken' = FALSE
              /\ recent' = IF takesAll /\ Raw(t) # <<>> /\ Len(Answer(t, m)) <= BatchSize
                             THEN [target |-> t, metric |-> m, samples |-> Answer(t, m)]
                             ELSE None
              /\ processed' = IF NoRaw(t) THEN processed
                              ELSE [processed EXCEPT ![t] = Restrict(@, DOMAIN @ \ {m})]
    /\ UNCHANGED <<phase, live, active, uncached, rawVars, previous, rebuilt>>

\* Counts, statistics and histograms.
Visit(t, m) ==
    /\ "visit" \in Operations /\ call = Idle
    /\ VisitSamples(t, m, TRUE)
    /\ UNCHANGED call

InWindow(w, time) ==
    /\ w.from = 0 \/ time >= w.from
    /\ w.to = 0 \/ time <= w.to
Within(w, samples) == Keep(samples, {s \in ProcessedSample : InWindow(w, s.at)})

\* astlGetMetricSamplesOnTarget: one pass counts, the next copies what is in the
\* range, if the buffer is large enough.
GetSamples(t, m, w) ==
    /\ "get" \in Operations /\ call = Idle
    /\ \E fits \in BOOLEAN :
         /\ VisitSamples(t, m, fits)
         /\ call' = IF fits /\ t \in uncached
                      THEN [op |-> "consume", target |-> t, metric |-> m,
                            copied |-> Within(w, Result(t, m))]
                      ELSE Idle

\* ConsumeProcessedMetricSamplesIfUncached.
Consume ==
    /\ call.op = "consume"
    /\ processed' = [processed EXCEPT ![call.target] =
                       Restrict(@, DOMAIN @ \ {call.metric})]
    /\ call' = Idle
    /\ UNCHANGED <<phase, live, active, uncached, rawVars, previous, snapshotVars,
                   rebuilt>>

-----------------------------------------------------------------------------
(* CropSamplesOnTarget, with one window.                                    *)

RawWithin(w, raw) == Keep(raw, {s \in RawSample : InWindow(w, s.tick)})

Markers(w) ==
    LET At(time) == IF time = 0 THEN <<>> ELSE <<[since |-> time, at |-> time]>>
    IN  At(w.from) \o At(w.to)

\* The processed samples that a crop filters: they are loaded from the cache file if
\* those of a metric are missing.  The metric of lifecycle events is known to the
\* target, and missed, only from the first pause or crop on.
Loaded(t) ==
    LET replayed == IF file[t] = <<>> THEN processed[t] ELSE ReplayOf(file[t])
    IN  IF Metrics \subseteq DOMAIN processed[t]
          THEN {processed[t]} \cup
                 (IF Lifecycle \in DOMAIN processed[t] THEN {} ELSE {replayed})
          ELSE {replayed}

Cropped(t, w) ==
    {[m \in DOMAIN held |-> Within(w, held[m])] : held \in Loaded(t)}

Crop(t, w) ==
    /\ "crop" \in Operations /\ call = Idle /\ phase[t] \notin Running
    /\ Len(Held(t, Lifecycle)) < MaxEvents[t]
    /\ \E kept \in Cropped(t, w) :
         LET events == (IF Lifecycle \in DOMAIN kept THEN kept[Lifecycle] ELSE <<>>)
                         \o Markers(w)
             keys == DOMAIN kept \cup (IF Markers(w) = <<>> THEN {} ELSE {Lifecycle})
         IN  processed' = [processed EXCEPT ![t] =
                             [m \in keys |-> IF m = Lifecycle THEN events ELSE kept[m]]]
    /\ pending' = [pending EXCEPT ![t] = RawWithin(w, @)]
    /\ file' = [file EXCEPT ![t] = RawWithin(w, @)]
    /\ accepted' = [accepted EXCEPT ![t] = RawWithin(w, @)]
    /\ InvalidateRecent
    /\ UNCHANGED <<phase, live, active, uncached, previous, tick, rebuilt, call>>

\* The cache file cannot be rewritten: it stays as it was, or it has been removed
\* already when its replacement cannot be renamed.  The snapshot stays.
CropFails(t, w) ==
    LET left == {file[t]} \cup (IF RawWithin(w, file[t]) = <<>> THEN {} ELSE {<<>>})
    IN  /\ "crop" \in Operations /\ "crop" \in Faults
        /\ call = Idle /\ phase[t] \notin Running /\ file[t] # <<>>
        /\ Len(Held(t, Lifecycle)) < MaxEvents[t]
        /\ \E kept \in Cropped(t, w) : processed' = [processed EXCEPT ![t] = kept]
        /\ pending' = [pending EXCEPT ![t] = RawWithin(w, @)]
        /\ \E rest \in left :
             /\ file' = [file EXCEPT ![t] = rest]
             /\ accepted' = [accepted EXCEPT ![t] = Keep(@, Range(rest \o pending'[t]))]
        /\ overtaken' = (overtaken \/ (recent # None /\ recent.target = t))
        /\ UNCHANGED <<phase, live, active, uncached, previous, tick, recent, rebuilt,
                       call>>

-----------------------------------------------------------------------------
Next ==
    \/ Consume
    \/ \E t \in Targets :
         \/ \E noCache \in BOOLEAN : Configure(t, noCache)
         \/ \E stuck \in BOOLEAN : ConfigureFails(t, stuck)
         \/ CleanConfigureFails(t) \/ CollectorRefuses(t)
         \/ BeginStart(t) \/ FinishStart(t) \/ StartRefused(t) \/ StartWithdrawn(t)
         \/ Rollback(t) \/ Sample(t)
         \/ BeginStop(t) \/ Flush(t) \/ FinishStop(t)
         \/ \E m \in AllMetrics : Visit(t, m)
         \/ \E m \in AllMetrics, w \in Windows : GetSamples(t, m, w)
         \/ \E w \in Windows : Crop(t, w) \/ CropFails(t, w)

Spec == Init /\ [][Next]_vars

-----------------------------------------------------------------------------
(* What makes the safety properties inductive.                              *)

\* A stop that is under way has no sampler any more, and after its flush nothing is
\* pending.
StopIsQuiet ==
    \A t \in Targets :
      /\ call = [op |-> "flush", target |-> t] => t \notin live
      /\ call = [op |-> "emit", target |-> t] => t \notin live /\ pending[t] = <<>>

\* A call has its target in the phase it began in.
PhasesMatch ==
    \A t \in Targets :
      /\ call = [op |-> "start", target |-> t] => phase[t] = "STARTING"
      /\ call \in [op: {"flush", "emit"}, target: {t}] => phase[t] = "STARTED"

ConsumesUncached == call.op = "consume" => call.target \in uncached

\* The snapshot is one of raw samples, which are still there unless overtaken.
SnapshotIsOfRaw ==
    recent # None =>
      /\ recent.target \in Targets
      /\ ~overtaken => Raw(recent.target) # <<>>

\* The raw samples of a metric were taken one after the other, and until now.
InOrder(raw) ==
    \A i, j \in DOMAIN raw :
        i < j /\ raw[i].metric = raw[j].metric => raw[i].tick < raw[j].tick
SamplesAreTimed ==
    \A t \in Targets : InOrder(Raw(t)) /\ \A s \in Range(Raw(t)) : s.tick <= tick

-----------------------------------------------------------------------------
(* Properties.                                                              *)

ControlTypes ==
    /\ phase \in [Targets ->
                   {"UNCONFIGURED", "CONFIGURED", "STARTING", "STARTED", "STOPPED"}]
    /\ live \subseteq Targets /\ active \subseteq Targets /\ uncached \subseteq Targets
    /\ rebuilt \in BOOLEAN
RawTypes ==
    /\ pending \in [Targets -> Seq(RawSample)] /\ file \in [Targets -> Seq(RawSample)]
    /\ accepted \in [Targets -> Seq(RawSample)]
    /\ tick \in Nat
PreviousTypes ==
    /\ previous \in [Targets -> [AllMetrics -> Seq(Nat)]]
    /\ \A t \in Targets, m \in AllMetrics : Len(previous[t][m]) <= 1
ProcessedTypes ==
    /\ DOMAIN processed = Targets
    /\ \A t \in Targets : /\ DOMAIN processed[t] \subseteq AllMetrics
                          /\ \A m \in DOMAIN processed[t] :
                               processed[t][m] \in Seq(ProcessedSample)
SnapshotTypes ==
    /\ \/ recent = None
       \/ recent \in [target: Targets, metric: AllMetrics, samples: Seq(ProcessedSample)]
    /\ overtaken \in BOOLEAN
CallTypes ==
    \/ call = Idle
    \/ call \in [op: {"start", "flush", "emit"}, target: Targets]
    \/ call \in [op: {"consume"}, target: Targets, metric: AllMetrics,
                 copied: Seq(ProcessedSample)]
TypeOK ==
    /\ ControlTypes /\ RawTypes /\ PreviousTypes /\ ProcessedTypes
    /\ SnapshotTypes /\ CallTypes

\* Whatever writes fail: a raw sample whose delivery succeeded is in the cache file or
\* pending, once, and the samples of each metric replay in the order they were taken.
\* Only a start, a reset or a crop discards any.  (AppendCachedRawSamples,
\* SerializeBatchWithRollback, FlushPendingRawSamples.)
Kept(t) == Keep(Raw(t), Range(accepted[t])) = accepted[t]
AcceptedAreKept ==
    \A t \in Targets :
      /\ Kept(t)
      /\ \A m \in Metrics : LET ticks == TicksOf(m, Raw(t))
                            IN \A i \in 1..(Len(ticks) - 1) : ticks[i] < ticks[i + 1]

\* The batch size bounds what is pending, even while every write fails, and the
\* snapshot: orchestrator.hpp:653, the batch size is also the hard memory cap.
MemoryIsBounded ==
    /\ \A t \in Targets : Len(pending[t]) <= BatchSize
    /\ recent # None => Len(recent.samples) <= BatchSize

\* astl_telemetry.h:860 - a target that is not cached retains no raw samples, neither
\* its own nor those of an earlier configuration that was cached.
UncachedStaysInMemory == \A t \in uncached : NoRaw(t)

\* The snapshot only saves the replay: a visit answers the same with it and without,
\* unless raw samples have been discarded behind it (BeginStart, CropFails).
SnapshotIsFresh ==
    recent # None /\ ~overtaken => recent.samples = Answer(recent.target, recent.metric)

\* The inductive invariant.
Shape ==
    /\ pending = [t \in Targets |-> pending[t]] /\ file = [t \in Targets |-> file[t]]
    /\ uncached \subseteq Targets /\ overtaken \in BOOLEAN
Calls == StopIsQuiet /\ ConsumesUncached
Snapshots == SnapshotIsOfRaw /\ SnapshotIsFresh
KeptInv == MemoryIsBounded /\ SamplesAreTimed /\ \A t \in Targets : Kept(t)
StoreInv == Shape /\ Calls /\ Snapshots /\ UncachedStaysInMemory

\* The first final output after a configuration has for each target with a cache file,
\* and for the one that stopped, all that a visit would find: it is taken after the
\* flush, and visits and consumption before it have removed nothing from it.
FirstOutputIsComplete ==
    [][\A t \in Targets :
         FinishStop(t) /\ rebuilt # rebuilt' =>
           \A u \in Targets, m \in Metrics :
             u = t \/ file[u] # <<>> =>
               Held(u, m)' = Answer(u, m)]_vars

\* Wherever the raw samples of a target are, they are one log: samplers extend it, visits,
\* outputs, stops and flushes leave it as it is, and whatever fails in between, nothing
\* but a configuration, a start, its rollback or a crop takes anything out of it.
Log == INSTANCE SampleLog WITH log <- [t \in Targets |-> Raw(t)], open <- live

ImplementsLog == Log!Spec

\* orchestrator.cpp:156 - the snapshot is an optimization that can be left out: visits
\* never answer from it what a replay would not return.
SnapshotIsOnlyAnOptimization ==
    call = Idle /\ recent # None => recent.samples = Answer(recent.target, recent.metric)

\* orchestrator.hpp:409 - samples are dropped after a successful copy-out: those that
\* are dropped have been copied out.
DroppedWereCopied ==
    call.op = "consume" => Held(call.target, call.metric) = call.copied

\* astl_telemetry.h:1532 - a crop retains the samples whose timestamp is in a window.
CropRetains ==
    [][\A t \in Targets, w \in Windows :
         Crop(t, w) => \A m \in Metrics : Answer(t, m)' = Within(w, Answer(t, m))]_vars
=============================================================================
