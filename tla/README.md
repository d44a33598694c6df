# Verification of ASTL in TLA+

ASTL (the Arm System Telemetry Library) collects hardware and operating system
telemetry.  A C interface configures, starts, pauses, resumes, stops and reads
collections on *targets*; an orchestrator keeps the lifecycle of each target and
the samples; one collector per target (SCMI, libsensors, procfs, NUMA, ...) reads
the data, either when it is called or from a sampler thread of its own.

This directory holds TLA+ models of that code, TLC configurations that check them
on small instances, and proofs checked by TLAPS.  Paths below are relative to
`src/src/impl/` unless they start with `src/`.

## The system

| Component | State | Operations | Hard because |
|---|---|---|---|
| C interface, `src/src/astl_telemetry.cpp` | `GetCApiMutex` | one function per call; calls on all targets are sequences of calls on one | aggregate calls that fail in the middle and roll back |
| Orchestrator lifecycle, `orchestrator/orchestrator.cpp` | `_target_collection_states`, `_clean_configure_reset_pending`, `_configure_mutex` | configure, start (paused), pause, resume, stop, read, reset | pause, resume and stop check, let go of the mutex, act, and write |
| Lifecycle table, `common/collection_lifecycle.cpp` | none | `CheckCollectionLifecycleAction` | used by two layers that must agree |
| Collector manager, `collector/collector_manager.cpp` | `_targets_with_active_collection`, `_mutex` | forwards to the collectors; carries samples back | called from both sides: lock order |
| Collectors, `procfs/`, `libsensors/`, `numa/`, `scmi/` | `_collection_state`, `_configuration`, `_periodic_sampler`, `_collection_mutex` | the same lifecycle, each with its own failures | joined with, and locked against, their sampler |
| Periodic sampler, `collector/periodic_sampler.hpp` | `_cancel`, `_paused`, a thread | poll, sample, sleep | flags read without a lock |
| Sample store, `orchestrator/orchestrator.cpp` | `_raw_samples`, cache files, `_processed_samples`, the recent snapshot, no-cache targets | append, flush, replay, visit, consume, crop | files that fail half way, several copies of one truth |
| Final outputs, `orchestrator/orchestrator.cpp`, `output/` | emission state per output, `_final_rebuild_attempted` | rebuild and emit at the last stop | "once per lifecycle" with several targets |
| SCMI data events, `scmi/scmi_sysfs_collector.hpp`, `scmi/scmi_ioctl_collector_data_events.cpp` | `_data_events`, the kernel's `enable` files, `_use_software_clock_timestamps`, `_previous_timestamps` | enable, read, restore | shared with other processes; a failure in the middle of a list |
| SCMI process lock, `src/utils/filesystem_process_lock.hpp` | a lock file, a reference count per process | take, share, release | processes that die |
| Metric manager, `metric/metric_manager.cpp` | routes from operation ids to metrics, live and for replays; correlations; the last timestamp of each metric | route, queue, sort, dispatch, reset | ids that are given out again; late samples; configurations that fail half way |
| Metrics and summaries, `metric/`, `output/summarizer.cpp` | last sample, accumulators | delta, rate, residency, events, averages | wrap-around, gaps, pauses |
| Clock correlation, `common/clock_correlation.hpp` | anchors per operation | ticks to time | two clocks meet in one metric |
| Serialization, configuration, topology, builders, bindings | built once | parsing and conversion | sequential; left out |

The calls go down: C interface, orchestrator, collector manager, collector.  The
samples go up: collector (from a call or from its sampler thread), collector
manager, orchestrator, metrics.  The two directions meet in three kinds of mutex.

## Modules

| Module | What it is |
|---|---|
| `CollectionLifecycle` | the lifecycle table; the states, the calls and their status |
| `TargetLifecycle` | abstract specification: the transitions of each target that a caller may rely on |
| `Collection` | orchestrator, collector manager, collectors and samplers, at the grain of their mutexes |
| `CollectionInv` | the inductive invariants of `Collection` |
| `SampleStore` | the raw and processed samples of each target, the snapshot and the final outputs |
| `SampleLog` | abstract specification: what may happen to the raw samples of each target, wherever they are |
| `Subsequences` | the filter that `SampleStore` uses: the elements of a sequence that are in a set |
| `ScmiDataEvents` | SCMI collectors of several processes: enabling and restoring data events, the process lock |
| `MetricPipeline` | from a reading to the processed samples of a metric: pass, clocks, routes, queue, metrics, replay |
| `PipelineInv` | the inductive invariants of `MetricPipeline` |
| `MCCollection`, `MCSampleStore`, `MCScmi`, `MCPipeline` | constants for TLC |
| `CollectionCallProofs`, `CollectionMethodProofs`, `CollectionCollectorProofs` | a lemma per action: it keeps the invariant |
| `CollectionProofs` | the invariants and what follows from them; `Collection` implements `TargetLifecycle` |
| `SequenceLemmas` | what filters, appends and batches do to a sequence of any length |
| `SampleStoreProofs` | invariants of `SampleStore` and what follows from them; `SampleStore` implements `SampleLog` |
| `ScmiDataEventsProofs` | invariant of `ScmiDataEvents` and what follows from it |
| `MetricPipelineProofs` | invariants of `MetricPipeline` and what follows from them |

### How `Collection` corresponds to the code

A caller is a thread inside an orchestrator method.  Its `pc` is the place it has
reached, `op` the orchestrator method, `call` the collector method that one needs
next, `tgt` the target.  An action is what the code does between taking and
releasing one mutex, or between two of them; a mutex that stays locked across
actions is a variable that holds its owner (`configureMutex`, `managerMutex`,
`collectorMutex[t]`).  `_collection_state_mutex` and the mutexes of the sample
containers are leaves and are inside one action.

A method call runs through `begin` (the orchestrator's own check), `lookup` (the
collector manager finds the collector under its mutex), for a stop `cancel` and
`join` (the sampler ends before the collector locks), `enter` and `work` (the
collector method under its mutex), `insert` or `erase` (the set of active targets)
and ends `succeeded` or `refused`, from where the orchestrator method goes on.
A clean configuration first runs `clearAll`, `clearing`, `cleared`.

The sampler thread of target `t` is `samplerPc[t]`: `poll` (cancelled? paused?),
`lock` (past the pause check), `sample` (in `ReadImmediate`, holding the collector's
mutex and needing the manager's).  `sampler[t]` is `_periodic_sampler`.

What may fail is a constant, `Faults`, so that a run can say which failures a
property survives: a configuration refused (by the metric manager or the collector),
an acquisition or its sink, a marker, the restoration of the data events, the files,
the native clock.

With one caller the model is the C interface.  With several it is the
`Orchestrator` class, which is written for several threads: its mutexes serve no
other purpose, and its tests run it from several
(`src/tests/unit_test/src/orchestrator_utests.cpp:1316`,
`orchestrator_clock_utests.cpp:232`).  Two callers never work on one target at
the same time (`claim`): `_periodic_sampler` of a collector has no lock, so two
simultaneous stops of one target are outside what the class supports.

The targets are there from the start (`Init`: what `SetTargets` gives a target it has not
seen).  That `SetTargets` can replace the targets of a running system is left out: its
comment keeps it to test harnesses.

### How `SampleStore` corresponds to the code

The lifecycle is the one of `Collection` reduced to what the samples depend on: one
call at a time (every entry point of the C interface holds `GetCApiMutex`), samplers
beside it, collectors that accept reads (`live`) and are counted as active.  `phase`
is `_target_collection_states`; a paused target is a started one whose sampler does
not run.  A sample is its metric and the tick it was taken at; a processed sample is
the interval that its value stands for, so that a delta over the wrong pair of samples
is a wrong value.  Serialization is the identity on samples and may fail: then the file
is truncated to what it was (`SerializeBatchWithRollback`).

| State | Code |
|---|---|
| `pending`, `file` | `_raw_samples`, and the cache file of each target |
| `uncached`, `previous` | `_no_cache_targets`, and the last sample of each of its metrics |
| `processed` | `_processed_samples` |
| `recent` | `_recent_processed_target`, `_metric`, `_samples` |
| `rebuilt` | `_final_rebuild_attempted` |
| `accepted`, `overtaken` | history: what delivery has succeeded; whether raw samples were discarded behind the snapshot |

`SinkRawSamples` is one step, because it holds the cache file mutex throughout, or the
one of metric processing.  A start is two steps (samples arrive as soon as the
collector runs), a stop three (`BeginStop`: the sampler has ended; `Flush`;
`FinishStop`: the outputs), a copy of samples two (`GetSamples`, `Consume`).  A visit
is one step: it replays a consistent copy, taken under the mutexes of the cache file
and the raw samples.

### How `ScmiDataEvents` corresponds to the code

A collector is one `ScmiSysfsCollector` (or an ioctl collector: `Ioctl`) of one process.
A step is one access to a file of the kernel, with what the collector does up to the
next one; the collection mutex and the mutex of the shared lock state are inside a
process and its collectors make one call at a time, so only steps of different processes,
and of different collectors, interleave.  `on` is the set of files that read "1": the
`enable` and `tstamp_enable` files of a data event and `tlm_enable` of a socket.

`pc[c]` is where a call of collector `c` is: `telemetry` (`ScmiWrite` of `tlm_enable`),
`next` (the loop of `EnableDataEvents`), `enable`, `stamp?`, `stamp` (the two files of
the event in hand, with `checked` when `ScmiWrite` has read that it must write and goes
for the process lock), `undo` (`RestoreDataEventEnabledState`, one file at a time).
`leaving` says what the restoring belongs to: the replacement of a configuration, a
failed one, a clear or a stop.  `touched` is `_data_events`.

| State | Code |
|---|---|
| `flock`, `refcount`, `holdsRef` | the lock file, `SharedProcessLockState::refcount`, `_holds_process_lock_ref` |
| `touched` | `_data_events`: the events in hand, with their original settings |
| `mine`, `spoiled`, `faults` | history: what a collector has switched on and owes, what a failure outside the code has spoilt, how many failures there were |

Any access may fail (`Faults`: a read, the lock, a write, the rate of an event, an
operation), at most `MaxFaults` times, and a process may die, which frees its lock and
forgets its lists.  Two collectors of one process never share an event, and the events of
an ioctl collector, which takes no lock, are left to it (`SharingAssumption`).

### How `MetricPipeline` corresponds to the code

One target with an SCMI collector, whose metrics have one operation each.  Calls of the C
interface come one at a time, the sampler runs beside them.  A pass holds the collection
mutex (`reader`) and reads one operation per step; between two operations the clock and
the firmware go on.  `Wake` is the pause check of the sampler and `BeginPass` its getting
the mutex, so a pause may come between them.

A delivered sample goes into the store, or at once into the processing queue if the
target is uncached.  The queue is dispatched one entry per step, in the order of
`std::sort`: by the address of the metric (`Rank`), then by time, entries of one time in
any order.  Live samples and replays hold the processing mutex until the queue is empty;
nothing in them reads the clock, so it stands still (`Settled`).  A replay
(`BeginReplay`, `LoadBatch`, `EndReplay`) resets the metrics, reads the batches of the
cache file and then what is pending; one for a single metric uses the routes that
`BuildTargetedReplayInput` would.

A configuration is one step, since only calls of the C interface could come between: the
clean reset or not (`others`: another target is configured, which keeps the ids going),
the operations and their routes, the collector, `ClearStale`, the correlations.  It may
fail at each of these (`FailedReset`, `FailedConfigure`, and for the collector and the
snapshot of its clocks `AbandonedConfigure`) and then leaves what the code leaves.

| State | Code |
|---|---|
| `operations`, `software`, `seen` | `operationsOnSample`, `_use_software_clock_timestamps`, `_previous_timestamps` of the collector |
| `nextId` | `Operation::NextOperationId` |
| `routes`, `replayRoutes`, `anchor` | `_target_to_operation_to_metric_map`, `_replay_operation_to_metric_map`, `_clock_correlations` |
| `previous`, `last`, `known` | `_previous_sample`, `_last_processed_timestamp_by_metric`, `_operation_id_to_config` |
| `store` | the cache file of the target and `_raw_samples`: full batches are in the file, and after a stop, which flushes the rest, everything is (`CacheFile`) |
| `processed` | `_processed_samples` of each metric, as the intervals that the values stand for |
| `pauses`, `replayed` | history |

A sample has the tick of its clock and the time of the update it shows, from which the
value of the counter follows (`Counter`).  The hardware clock is `Offset` ahead of the
monotonic clock and both tick at one rate, `Microsecond` ticks to a microsecond: a rate
refuses an interval that is zero in whole microseconds (`NoInterval`).  The failures of the store are in
`SampleStore` and left out here; so are the fallback of `FindSoleMetricOnTarget` (a
target has at least two metrics), the metric of lifecycle events, snapshot mode, and what
a residency metric makes of its samples, since it accepts none (see the findings).

## Runs

The runs of `Collection` have two targets, one SCMI (it marks pauses, restores data events, and
drops a configuration it refuses) and one NUMA (it keeps it).  procfs and
libsensors are in between.

| Run | Instance | Shows |
|---|---|---|
| `ClassFaults` | 2 callers, all operations, all faults | type invariant, no circular wait, collecting targets are tracked, active set right, reset flag fresh, STARTING transient, the inductive invariant, refinement of `TargetLifecycle` |
| `ClassStoppable` | 2 callers, all faults but files and restoration | on every target nobody works on, orchestrator and collector agree, but for five pairs of states that failures leave behind; a running target can always be stopped; the inductive invariant behind both |
| `CApiReturns` | 1 caller, all faults, fairness | every call returns |
| `RollbackReady` | 1 caller: configure, start, start all, stop | violated: see the findings |
| `StoreFaults` | `SampleStore`, all calls, all faults | accepted samples are kept in order, memory is bounded, uncached targets keep no raw samples, the snapshot is fresh, the first final output is complete; the inductive invariant of what is kept; refinement of `SampleLog` |
| `StoreConsume`, `StoreRecent`, `StoreCrop` | `SampleStore`, only the calls concerned, no faults | violated: see the findings |
| `ScmiProcesses` | 2 processes, 4 collectors of which at most two at a time, one failure of any kind | the lock is held exactly while it is referred to, what a collector switched on stays on until it restores it, events come back as they were, a collector at rest owes nothing |
| `Pipeline` | a rate and a residency metric on one event, all calls | samples stay in order, no delta spans a pause (software clock), intervals leave out nothing but pauses, no sample goes to another metric, a replay is complete; the inductive invariants of pauses, intervals and replays |
| `PipelinePause`, `PipelineResidency` | fewer metrics or faults | violated: see the findings |

Two targets are what the aggregate start needs to fail half way and what a reset
needs to meet a target that is configured by another caller; two callers are what
any two-thread race needs, and the proofs below cover any number.  The modes are
SAMPLING, which has the sampler thread, and SNAPSHOT, in which Start and Stop
acquire and so can fail; IMMEDIATE has neither and behaves like SNAPSHOT without
failures.  No variable of `Collection` is a counter, so nothing else is bounded.
The two callers are interchangeable, so the safety runs use them as a symmetry set; the
liveness run has one caller and no symmetry.

The runs of `SampleStore` have two targets, a delta metric and a plain one, and a
batch size of two.  One target is sampled at three ticks, the other at one
(`LastTick`), and a reading has both metrics or the delta only (`Readings`): so there
are batches of one reading and of two, rests, a write that fails in the first or the
second batch of a reading, a replay that is longer than the snapshot may be, and a
delta that spans batches.  Callers crop and ask for the second tick (`Windows`), which
leaves out a sample before it and one after it.  A crop adds two lifecycle events, so
`MaxEvents` bounds the crops, those that fail too: the first target is cropped while it has no event, the
second one never (`OneCropped`).

`ScmiProcesses` has process P with two sysfs collectors and an ioctl collector, and
process Q with a collector on an event of the first.  A run has one or two of them
(`Parties`): two processes that share an event, two collectors of a process that share
the lock, strangers, or the ioctl collector alone.  Some files are on from the start, one
event has no `tstamp_enable`, one `tlm_enable` is read only, and one failure or crash may
happen anywhere.

`Pipeline` has two metrics on one event, requested together or one alone, so that ids
move from one metric to the other; three ids, three instants, three raw samples with
batches of two, so that there is a full batch with a rest, a pause with a reading on each
side, and one marker that comes late.  The counter is set back at the last instant, which
makes the rate metric refuse a reading.  A refusal by the collector is left to
`ScmiProcesses` and `ClassFaults` (the runs of `MetricPipeline` leave out the fault
`"collector"`, which only shortens `operations`).  `MaxStore` bounds the store when a
pass or a marker begins, and what is stored is replayed once for each state of the store
(`replayed = {}` in `BeginReplay`).  A configuration fails before the
last instant (`MayFailToConfigure`), so that another one and its samples may follow.  An
instant is a microsecond (`Microsecond = 1`); the proofs hold for any.  `PipelinePause` needs four raw samples: a reading,
pause, resume, a reading.

### Fairness

`CApiReturns` assumes weak fairness of each sampler: a thread that can run does.
It assumes strong fairness of the caller: it may wait for a mutex that the sampler
takes again and again, but the sampler sleeps for its interval between two samples,
so a mutex that is free again and again is eventually obtained.

## Findings

* `RollbackReady` refutes two promises about `StartCollection`, one at each target.
  `StartSuffices` says that at least one of them is kept, so a state that violates it
  breaks both.
  * `orchestrator.hpp:47` says CONFIGURED means ready to start.  The rollback of an
    aggregate start (`orchestrator.cpp:753`) leaves the target CONFIGURED and its
    collector STOPPED; the next start is refused by the collector.
  * `orchestrator.hpp:322` says of `StopCollection` that to re-enable collection,
    `StartCollection` should be sufficient.  A stop leaves the target STOPPED, where START
    is refused (`common/collection_lifecycle.cpp:26`): the target has to be configured
    again.  `orchestrator.hpp:51` calls STOPPED terminal for the current configuration and
    agrees with the code, and so does `TargetLifecycle`.
* `StoreConsume`: `orchestrator.hpp:407` drops the samples of an uncached metric after
  they have been copied out.  Between the copy and `orchestrator.cpp:1181`, which erases
  all of them, no lock is held that keeps the sampler out: what it adds is lost.
* `StoreRecent`: the snapshot of the metric visited last is meant to save a replay.  A
  start discards the samples of immediate reads (`orchestrator.cpp:684`) and leaves the
  snapshot: until the next sample a visit of that metric answers what is gone.
* `StoreCrop`: `src/include/astl/astl_telemetry.h:1532` retains every sample in a
  window.  The raw samples are cropped as well and visits replay them, so a delta whose
  predecessor is outside the window is not retained.
* `PipelinePause`: `metric/delta_metric.cpp:91` starts a fresh window after a pause.
  `MakeHardwareClockCorrelation` (`scmi/scmi_sysfs_collector.hpp:346`) pairs the
  monotonic clock of now with the timestamp of the event's last update, so the normalised
  times of its readings run ahead by the age of that update.  The marker of a pause has
  the monotonic time itself: it is sorted before readings that were taken before it, or
  dropped behind them as late, and the first reading after the resume gives a delta over
  the pause.
* `PipelineResidency`: `Reset` of a residency metric clears the map of the operations it
  was configured with (`metric/residency_metric.cpp:55`), and a configuration ends with a
  reset of all metrics (`orchestrator.cpp:450`), as does the beginning of a replay.  Every
  sample of the metric is refused, and the refusal ends the queue, so metrics behind it
  lose theirs.

Three things the models show contradict no document.  A sampler tests its pause flag and
then samples (`collector/periodic_sampler.hpp:65`), so a last reading may follow the
marker of a pause; with software timestamps `NoDeltaAcrossPause` holds all the same.  Two
metrics that read one data event compete for it: the second reading of a pass has the
timestamp of the first and is discarded (`scmi/scmi_sysfs_collector.hpp:867`).  A counter
that is set back ends a replay at the same reading every time
(`metric/delta_metric.cpp:51`).

`ClassStoppable` leaves out the failures with which its properties do not hold: when the
samples cannot be flushed after the collector has
stopped, or SCMI cannot restore its data events, the orchestrator keeps the target
STARTED with a STOPPED collector, which then refuses every further stop, and no
configuration is possible while a target runs.  The five `Disagreements` that other
failures leave are: a pause or resume whose marker failed, a collector that dropped a
configuration it refused, and the rolled back start of `RollbackReady`.  From each of them
a later call leads out.

## Proofs

Each module's proofs assume what its constants are (`CollectionAssumption`,
`StoreAssumption`, `CollectorAssumption` and `SharingAssumption`, `PipelineAssumption`;
TLC evaluates them in every run) and nothing else, but for the three theorems that ask
for `NoLoss` below.  They hold for any number of targets, callers, metrics, events and
processes, any backends, modes, faults, operations, batch sizes, windows, readings and
bounds.

### The lifecycle

The safety properties of `ClassFaults` are not inductive: that a reset meets no
running collector depends on who holds which mutex, on what each caller has checked
and on nobody else working on its target.  `IInv` adds

* `Control`: which labels, operations and collector calls go together,
* `Claims`: no two callers have a target in common,
* `Locks`: who holds each mutex, from the label it is at,
* `Known`: what a caller inside a method has established of its target and can still
  rely on, the heart of the argument,
* `Batches`: the targets of an aggregate start that are behind it run,
* `SamplerIsOwned`: a sampler only belongs to a collector that runs.

There is one lemma per action, `<Action>Step`, with a step per conjunct.
`CollectionProofs` puts them together (`Invariance`) and derives the properties.

`DeadlockFree` needs one more idea: `NoCircularWait` speaks of all sets of threads.
Who holds the manager's mutex while it waits is clearing the collectors; then no
target runs, so there is no sampler, nobody is inside a collector, and it waits for
nobody.  Who is inside a collector waits for the manager only.  A sampler outside
waits for its collector only.  Everyone else waits for one of these, or for the
configuration mutex, whose holder waits for one of these.

`Implementation` shows that every step of `Collection` maps to a step of
`TargetLifecycle` or a stutter.  `TargetLifecycle` has the valid transitions listed at
`orchestrator.hpp:52-57`, and outside of this list what the code does besides:
configuration and reset, the paused start (STARTING to PAUSED) and the rollback of an
aggregate start (`Rollback`, STARTED or PAUSED to CONFIGURED, `orchestrator.hpp:258`).
It has no start from STOPPED, against the comment at `orchestrator.hpp:322`; see the
findings.

`StatesAgree` and `RunningCanBeStopped` speak of targets that nobody works on, and what
they say is false in the middle of every call.  `AgreeInv` says of every target, at any
time, that it agrees with its collector, but for the five `Disagreements`, or that a call
is between the two (`Unsettled`: in a start, behind the collector's part of a stop, behind
the one of a configuration), and of such a call where it has taken the collector
(`ReachedOf`).  An unsettled call claims its target, so a target without a claim agrees
(`StatesAreInAgreement`); none of the disagreements is a running target whose collector
refuses a stop (`RunningStoppable`).  Both theorems and `AgreeInvariance` assume `NoLoss`:
files can be written and data events restored.  Without it they are false, see the findings.

### The sample store

What visits and outputs find rests on `StoreInv`.  `SnapshotIsFresh` is not inductive:
`StoreInv` adds that the snapshot is one of raw samples, which are still there
(`SnapshotIsOfRaw`), because a visit of a target without any answers its processed
samples, which an uncached sampler changes without invalidating anything.  It adds that a consumption is one of an uncached target
(`ConsumesUncached`), so that it takes nothing a replay has made, and that a stop has
no sampler from its second step on and nothing pending from its third (`StopIsQuiet`).
Of the metrics the proofs use only that what they make is a function of the raw
samples.

* `UncachedInMemory`: only a configuration makes a target uncached, and it removes the
  file; a sampler of an uncached target adds no raw samples.
* `SnapshotFresh`: a step either leaves the raw samples of the snapshot's target as they
  are, drops the snapshot, or is one of the two that set `overtaken`.
* `FirstOutputComplete`: with nothing pending and no sampler, the rebuild replays what a
  visit would, or leaves alone what a visit would find.

`AcceptedAreKept` says that the samples whose delivery has succeeded are in the file or
pending, once and in order.  It is inductive only together with `KeptInv`'s other parts:
the raw samples of a metric are in the order of time and none is later than the clock
(`SamplesAreTimed`), or else a new sample could be taken for one that is accepted
already; and at most a batch is pending (`MemoryIsBounded`), or else a delivery would not
know which of its batches fail.  A step adds a suffix to the raw samples of one target
(`RawOfBatches`: for any span, however many of its batches reach the file), removes all of
them, or filters them by a window.  What a filter leaves in a sequence of any length is
the subject of `SequenceLemmas`: a filter is a recursive function, so its lemmas are an
induction over the length.  The induction theorems of the library take an operator, which
the provers cannot instantiate; `NumberInduction` says the same of a set of numbers
(a set of numbers with zero and the successors of its members has all of them) and is
proved from the minimum of what is missing.  From `KeptInv` follow `AcceptedKept` and
`BoundedMemory`; `StoreTypes` is proved beside it, since a replay is of the type of the
raw samples whatever these are.

`LogImplementation` shows that `SampleStore` implements `SampleLog`, in which a target has
one log of raw samples instead of batches, a pending rest and a file (the log is `Raw`).
It says more than `AcceptedAreKept`, which is about samples whose delivery succeeded only:
no step adds a sample but a reading, and a reading adds later ones at the end; from the
end of its sampler to the end of the stop a target loses nothing, whatever writes fail; a
configuration, a start and a rollback may cut off the end of a log, and a configuration or
a rollback that succeeds leaves its target none; only a crop takes samples out of the middle, and
what is left keeps its order.  The steps are mapped one action at a time:

* a reset leaves the file that cannot be removed, a start drops what is pending, and the
  file is a prefix of the log (`ResetCuts`, `DropCuts`, `ConfigureLogs`, `StartLogs`);
* a delivery adds the beginning of its reading, of which the failed write decides how long
  it is (`AppendExtends`), and by `SamplesAreTimed` its tick is later than all there are
  (`LaterSamples`, `SampleLogs`);
* a flush moves samples from one part of the log to the other (`FlushKeepsRaw`); that the
  stop ends a target which is STARTED and whose sampler has ended needs `StopIsQuiet` and
  `PhasesMatch` (a call has its target in the phase it began in; `PhasesMatching`);
* a crop filters both parts by the window, and one that fails may lose the file: each is a
  filter of the whole log (`CropLogs`, from `PartsDiffer`: no sample is in both parts).

### The data events

The assumptions are `CollectorAssumption` and `SharingAssumption`, for any processes,
collectors, parties and faults.  `IInv` says of each collector which labels, lists and
events go together (`ControlOf`), that what it has switched on is in its list or in hand
(`CoveredOf`), that a sysfs collector that owes something refers to the lock (`BackedOf`),
that it owes nothing it may not write (`WritableOf`), that what was on before is never
recorded as off (`OriginalsOf`), and that it owes nothing at rest (`IdleOf`).  Between
collectors, `Attributed` says that every file that is on was on before or is owed by
somebody, unless a failure spoilt it; and `KeepsOf` that an ioctl collector, which
restores both settings of an event at once, switches on only what was on.

* `LockIsCounted`: the references of a process are counted by its collectors one by one.
* `OwnChangesAreKept`: who switches a file off owes it; if another collector owed it too,
  both would refer to the lock, so they would be of one process, whose collectors share no
  event.
* `EventsComeBack`: from `Attributed` and the lists of the collectors.

### The pipeline

The assumption is `PipelineAssumption`, for any metrics, events, counters, requests, faults
and bounds.  `IInv` adds to the types

* `Passes`: a sampling pass is at one of the operations of the collector, and an armed
  sampler is one of a running target;
* `Owned`: the operations of the collector have ids below `nextId`, with their routes, for
  replays as well, and their correlations;
* `Kept`: so have the readings in the store, unless a configuration that was given up has
  left them without a route;
* `Bounded`: what a metric has sunk is not later than its last timestamp.

From it follow

* `PipelineInOrder`: a metric sinks nothing that is earlier than its last timestamp, and
  who clears the timestamps clears what was sunk.  `Bounded` is what makes it inductive.
* `PipelineRoutes`: a reading gets the id and the metric of an operation, which is routed
  by `Owned`.  A configuration gives out ids from `nextId` on, so it moves no route of a
  kept reading; where `nextId` starts again at 1 (a clean reset), the store is empty.

`JoinInv` is what `DeltasJoin` needs: the last interval a rate or delta metric has sunk
ends at its previous sample, or else a pause was recorded since, and if there is no
previous sample one that is not later than the last timestamp (`Joined`).  It uses that
every marker in the queue or in the store is of a recorded pause (`MarkersArePauses`) and
that nothing is sunk out of order (`IInv`).  It holds for both clocks.

`PauseInv` is what `NoDeltaAcrossPause` needs, and says what software timestamps buy:

* `Past`: no update, pause, or software timestamp is later than now, so a marker is not
  earlier than anything that was delivered before it;
* `QueueIsDue`: who processes the queue, and that live it has one reading or markers only;
* `PreviousIsLast`: the previous sample of a metric has its last timestamp;
* `PausesCut`: every pause cuts the store, at its marker or at the end, and what is before
  the cut is not later than the pause;
* `PausesMet`: a metric has met every pause: the marker is in its queue, or its last
  timestamp is beyond it, or whatever of the metric is queued is not later than the pause
  and the rest of a replay comes to the cut (`Meets`, `Ahead`).

A delta over a pause would take a previous sample before it (`PreviousIsLast`: the last
timestamp is before the pause) to a reading after it that is the first in its queue; by
`PausesMet` the marker is in the queue, and the queue is in the order of time.  With a
hardware clock `Past` is false, and so is the property (`PipelinePause`).

`ReplayInv` is what `ReplayIsComplete` needs, for both clocks and any batch size.  Batches
are loaded whole (`WholeBatches`), and as long as no update of a replay has failed, each of
its metrics is on its way (`Going`):

* `LastIsLoaded`: its last timestamp is that of a reading or marker that was loaded;
* `QueueIsLoaded`: what it has in the queue is of the batch in hand, and what would be
  late there was overtaken by something of an earlier batch;
* `LoadedIsShown`: every reading that was loaded is shown, overtaken or alone, or else it
  is of the batch in hand and waits in the queue;
* `Unknown`: a replayed residency metric knows no operation, so it refuses each of its
  readings and its replay fails: what is processed without an error is of another kind.

Loading a batch makes its readings due, and as the queue is empty before, whatever is late
is behind something of an earlier batch.  An entry that is processed leaves the queue
because it is shown, late, or a marker, which leaves its predecessor alone; that the
predecessor is the sample with the last timestamp is `PreviousIsLast`.  At the end the
queue is empty, nothing is due, and the replay is complete.

### What stays with TLC

Liveness (`CallsReturn`): fairness is out of the prover's reach.  Every safety property of
a passing run is a theorem.  The properties of the runs that expect a violation have none.

## Not modelled, and the plan

Next, in this order:

1. The summarizer: averages weighted by time, over pauses.
2. Residency metrics with several states, as units beside the pipeline.
3. `CropWindows`: consolidation of crop windows against the union of intervals.
4. Save, load and the singleton.

Not in `SampleStore`: pause markers in the raw samples, samples without a clock
correlation (a crop keeps them), several crop windows, the files an output writes and
what happens when it cannot, and the pending reset flag, which `Collection` has.

Not in `MetricPipeline`: several targets in one queue (`others` stands for them when ids
are given out), several operations per metric, formulas, statistics, events, counters,
the rate of a clock other than one tick per time unit, and overflow of ticks.

Left out for good: parsing and building (configuration, formulas, topology,
system information), protobuf and zip conversion, the layout of the output files,
language bindings, samples, fuzzers and scripts: sequential code without protocol,
or outside the library.  The Windows PDH collector has the lifecycle of the others and a
service behind it that is not in the repository.
