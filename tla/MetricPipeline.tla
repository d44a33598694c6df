---------------------------- MODULE MetricPipeline ----------------------------
(***************************************************************************)
(* From a reading of the SCMI collector to the processed samples of a      *)
(* metric, for one target: the sampling pass with its hardware timestamps, *)
(* the routes and clock correlations of the metric manager, the processing *)
(* queue, the metrics themselves, and the replay of the raw samples.       *)
(*                                                                         *)
(* Calls of the C API run one at a time, the sampler runs beside them.  A  *)
(* sampling pass holds the collection mutex and reads one operation per    *)
(* step.  Live samples and a replay hold the processing mutex until the    *)
(* queue is empty; a replay also holds the cache file mutex, so that no    *)
(* sample arrives meanwhile.  Nothing a queue or a replay does depends on  *)
(* the clock, so the clock stands still until they are done.               *)
(*                                                                         *)
(* A metric reads one operation.  The value of a reading is what the       *)
(* counter of its event showed when the firmware last updated it.  What    *)
(* may go wrong on the way into the store is in module SampleStore.        *)
(***************************************************************************)
EXTENDS Integers, Sequences, Functions

CONSTANTS
    Events,     \* the SCMI data events
    Metrics,
    EventOf,    \* the data event a metric reads
    Kind,       \* what a metric makes of its readings
    Rank,       \* the order of the metrics by address
    Counter,    \* what the counter of an event shows, per time of an update
    Offset,     \* the hardware clock less the monotonic clock
    BatchSize,  \* _sample_batch_size
    Microsecond,    \* the ticks of the clocks in a microsecond
    Faults,     \* what may go wrong, of PipelineFaults
    Requests,   \* the requests: sequences of metrics
    LastTime,   \* bound on the clock
    MaxId,      \* bound on the operation ids
    MaxStore,   \* bound on the raw samples
    None

Kinds == {"value", "delta", "rate", "residency"}
PipelineFaults == {"operations", "collector", "remove", "clock", "software", "timestamp"}
Marks == {"pause", "resume"}
Ids == 1..MaxId
Marker == 0    \* kPauseResumeOperationId

ASSUME PipelineAssumption ==
    /\ EventOf \in [Metrics -> Events] /\ Kind \in [Metrics -> Kinds]
    /\ Rank \in [Metrics -> Nat]
    /\ \A m, n \in Metrics : Rank[m] = Rank[n] => m = n
    /\ \E m, n \in Metrics : m # n    \* a sole metric takes samples without a route
    /\ LastTime \in Nat /\ Counter \in [Events -> [0..LastTime -> Nat]]
    /\ Offset \in Nat /\ BatchSize \in Nat \ {0} /\ Microsecond \in Nat \ {0}
    /\ MaxId \in Nat /\ MaxStore \in Nat
    /\ Faults \subseteq PipelineFaults /\ Requests \subseteq Seq(Metrics) \ {<<>>}
    /\ None \notin Metrics \cup Ids \cup Int
    /\ None \notin [raw: Int, native: Int] \cup [at: Int, taken: 0..LastTime]
    /\ Marks \cap Metrics = {}

VARIABLES
    now,            \* the monotonic clock
    updated,        \* the time at which the firmware last updated an event
    state,          \* the lifecycle state of the target
    uncached,       \* _no_cache_targets has the target
    operations,     \* operationsOnSample of the collector: ids and whom they serve
    software,       \* _use_software_clock_timestamps
    seen,           \* _previous_timestamps
    armed,          \* the sampler has seen that it is not paused
    reader,         \* who holds the collection mutex in a sampling pass
    next,           \* the operation the pass reads next
    nextId,         \* Operation::NextOperationId
    routes,         \* _target_to_operation_to_metric_map
    replayRoutes,   \* _replay_operation_to_metric_map
    anchor,         \* _clock_correlations
    known,          \* operations in the _operation_id_to_config of residency metrics
    previous,       \* _previous_sample of a metric
    last,           \* _last_processed_timestamp_by_metric
    processed,      \* what each metric has sunk since its last reset
    queue,          \* the processing queue
    store,          \* the raw samples of the target, in the order they were delivered
    replay,         \* the replay under way
    rebuilt,        \* _final_rebuild_attempted
    pauses,         \* history: the times of the pauses of what is stored or sunk
    replayed        \* history: the metrics that hold a complete replay of the store

clockVars == <<now, updated>>
collectorVars == <<operations, software, seen>>
passVars == <<armed, reader, next>>
routeVars == <<nextId, routes, replayRoutes, anchor>>
metricVars == <<known, previous, last, processed>>
storeVars == <<store, replayed>>
vars == <<clockVars, state, uncached, collectorVars, passVars, routeVars, metricVars,
          queue, storeVars, replay, rebuilt, pauses>>

Running == {"STARTED", "PAUSED"}
States == Running \cup {"UNCONFIGURED", "CONFIGURED", "STOPPED"}

Time == 0..LastTime
Operation == [id: Ids, metric: Metrics]
Sample == [id: Ids, of: Metrics, tick: Int, taken: Time]
      \cup [id: {Marker}, of: Marks, tick: Time, taken: Time]
Anchor == [raw: Int, native: Int]
Entry == [id: Ids \cup {Marker}, metric: Metrics, at: Int, taken: Time, pos: Nat]
Held == [at: Int, taken: Time]
Sunk == [since: Int, at: Int]     \* the interval a processed sample stands for
Quiet == [of |-> {}, from |-> 0, failed |-> FALSE]
NoId == [i \in Ids |-> None]
NothingSeen == [e \in Events |-> None]

Init ==
    /\ now = 0 /\ updated = [e \in Events |-> 0]
    /\ state = "UNCONFIGURED" /\ uncached = FALSE
    /\ operations = <<>> /\ software = FALSE /\ seen = NothingSeen
    /\ armed = FALSE /\ reader = "none" /\ next = 1
    /\ nextId = 1 /\ routes = NoId /\ replayRoutes = NoId /\ anchor = NoId
    /\ known = {}
    /\ previous = [m \in Metrics |-> None]
    /\ last = [m \in Metrics |-> None]
    /\ processed = [m \in Metrics |-> <<>>]
    /\ queue = {} /\ store = <<>> /\ replay = Quiet /\ rebuilt = FALSE
    /\ pauses = {} /\ replayed = {}

\* No queue is processed and nothing is replayed.
Settled == queue = {} /\ replay = Quiet

\* A call of the C API may begin, and one that needs the collection mutex.
MayCall == Settled /\ reader # "caller"
MayControl == Settled /\ reader = "none"

-----------------------------------------------------------------------------
(* The world: time passes, and the firmware updates its events.             *)

Tick ==
    /\ Settled /\ now < LastTime
    /\ now' = now + 1
    /\ UNCHANGED <<updated, state, uncached, collectorVars, passVars, routeVars,
                   metricVars, queue, storeVars, replay, rebuilt, pauses>>

FirmwareUpdate(e) ==
    /\ Settled /\ updated[e] < now
    /\ updated' = [updated EXCEPT ![e] = now]
    /\ UNCHANGED <<now, state, uncached, collectorVars, passVars, routeVars,
                   metricVars, queue, storeVars, replay, rebuilt, pauses>>

-----------------------------------------------------------------------------
(* The metric manager: routes, correlations and the processing queue.       *)

\* Samples are processed for all metrics, or for one of them: M is the set.
OneOf(M) == M # Metrics

\* A replay for one metric uses the routes of the last configuration when there
\* are no live ones.
Table(M) == IF OneOf(M) /\ routes = NoId THEN replayRoutes ELSE routes
RoutedMetrics(M) == IF OneOf(M) THEN M ELSE {routes[i] : i \in Ids} \ {None}

Normalised(s) == anchor[s.id].raw + s.tick - anchor[s.id].native

\* What the sample at a position adds to the queue: a pause marker goes to every
\* routed metric, a resume marker only to the metric of lifecycle events.
Entries(s, pos, M) ==
    CASE s.of = "pause" -> [id: {Marker}, metric: RoutedMetrics(M), at: {s.tick},
                            taken: {s.taken}, pos: {pos}]
      [] s.of = "resume" -> {}
      [] OTHER -> {[id |-> s.id, metric |-> Table(M)[s.id], at |-> Normalised(s),
                    taken |-> s.taken, pos |-> pos]}

\* A replay for one metric leaves out the samples of the others.
Selected(s, M) == OneOf(M) => s.id = Marker \/ Table(M)[s.id] \in M
Rejected(s, M) == s.id # Marker /\ (Table(M)[s.id] = None \/ anchor[s.id] = None)

\* EnqueueTargetSamples: up to the first sample that is rejected.
Enqueued(samples, M) ==
    LET own == {i \in DOMAIN samples : Selected(samples[i], M)}
        bad == {i \in own : Rejected(samples[i], M)}
        good == {i \in own : \A k \in bad : i < k}
    IN  [entries |-> IF Table(M) = NoId THEN {}
                     ELSE UNION {Entries(samples[i], i, M) : i \in good},
         failed |-> Table(M) = NoId \/ bad # {}]

\* std::sort by metric, then by time; entries of one time come in any order.
InTurn(e) ==
    \A f \in queue :
        \/ Rank[e.metric] < Rank[f.metric]
        \/ e.metric = f.metric /\ e.at <= f.at

NoRegression(e) == FALSE    \* mutant: late samples are kept
IsTimestampRegression(e) == last[e.metric] # None /\ e.at < last[e.metric]

-----------------------------------------------------------------------------
(* The metrics.                                                             *)

ValueOf(m, taken) == Counter[EventOf[m]][taken]

\* ResidencyMetric refuses an operation it has no state for, AstlValue::Subtract a
\* counter that has become smaller, RateMetric an interval that is none in microseconds.
NoInterval(before, e) == e.at - before.at \in (-Microsecond + 1)..(Microsecond - 1)
Fails(e) ==
    LET before == previous[e.metric]
    IN  \/ Kind[e.metric] = "residency" /\ [id |-> e.id, metric |-> e.metric] \notin known
        \/ /\ Kind[e.metric] \in {"delta", "rate"} /\ before # None
           /\ \/ ValueOf(e.metric, e.taken) < ValueOf(e.metric, before.taken)
              \/ Kind[e.metric] = "rate" /\ NoInterval(before, e)

\* What the metric sinks for a reading it does not refuse; what a residency metric would
\* sink is left out, as it refuses them all.
Sinks(e) ==
    LET before == previous[e.metric]
    IN  CASE Kind[e.metric] = "value" -> <<[since |-> e.at, at |-> e.at]>>
          [] Kind[e.metric] \in {"delta", "rate"} /\ before # None ->
               <<[since |-> before.at, at |-> e.at]>>
          [] OTHER -> <<>>

KeepFirst(e) ==    \* mutant: the previous sample is not replaced
    /\ processed' = [processed EXCEPT ![e.metric] = @ \o Sinks(e)]
    /\ previous' = IF previous[e.metric] # None THEN previous
                   ELSE [previous EXCEPT ![e.metric] = [at |-> e.at, taken |-> e.taken]]

ReceiveRawSample(e) ==
    /\ processed' = [processed EXCEPT ![e.metric] = @ \o Sinks(e)]
    /\ previous' = IF Kind[e.metric] = "value" THEN previous
                   ELSE [previous EXCEPT ![e.metric] = [at |-> e.at, taken |-> e.taken]]

IgnorePause(e) == UNCHANGED <<previous, processed>>    \* mutant

ProcessPauseSample(e) ==
    /\ previous' = [previous EXCEPT ![e.metric] = None]
    /\ UNCHANGED processed

\* Reset of the metrics M, with their last timestamps; what they have sunk so far is
\* dropped by the orchestrator in the same breath.
ResetMetrics(M) ==
    /\ known' = {o \in known : o.metric \notin M}
    /\ previous' = [m \in Metrics |-> IF m \in M THEN None ELSE previous[m]]
    /\ last' = [m \in Metrics |-> IF m \in M THEN None ELSE last[m]]
    /\ processed' = [m \in Metrics |-> IF m \in M THEN <<>> ELSE processed[m]]

\* One round of the loop of DispatchProcessingQueue.  An error ends the loop: the rest
\* of the queue is lost, and with it the sampling pass or the replay.
Dispatch(e) ==
    /\ e \in queue /\ InTurn(e)
    /\ \/ /\ IsTimestampRegression(e)
          /\ queue' = queue \ {e}
          /\ UNCHANGED <<previous, processed, last, replay, reader, next>>
       \/ /\ ~IsTimestampRegression(e) /\ e.id # Marker /\ Fails(e)
          /\ queue' = {}
          /\ IF replay # Quiet
             THEN replay' = [replay EXCEPT !.failed = TRUE] /\ UNCHANGED <<reader, next>>
             ELSE reader' = "none" /\ next' = 1 /\ UNCHANGED replay
          /\ UNCHANGED <<previous, processed, last>>
       \/ /\ ~IsTimestampRegression(e) /\ (e.id = Marker \/ ~Fails(e))
          /\ queue' = queue \ {e}
          /\ IF e.id = Marker THEN ProcessPauseSample(e) ELSE ReceiveRawSample(e)
          /\ last' = [last EXCEPT ![e.metric] = e.at]
          /\ UNCHANGED <<replay, reader, next>>
    /\ UNCHANGED <<clockVars, state, uncached, collectorVars, armed, routeVars, known,
                   storeVars, rebuilt, pauses>>

-----------------------------------------------------------------------------
(* A sampling pass.                                                         *)

\* SinkRawSamples: into the store, or at once to the metrics.
Deliver(s) ==
    IF uncached
    THEN queue' = Enqueued(<<s>>, Metrics).entries /\ UNCHANGED storeVars
    ELSE store' = Append(store, s) /\ replayed' = {} /\ UNCHANGED queue

\* Bound: n more samples fit in, and those of a pass that is due.
Room(n) == uncached \/ Len(store) + n + (IF armed THEN Len(operations) ELSE 0) <= MaxStore

\* The loop of PeriodicSampler sees that it is not paused ...
Wake ==
    /\ Settled /\ state = "STARTED" /\ ~armed /\ Room(Len(operations))
    /\ armed' = TRUE
    /\ UNCHANGED <<clockVars, state, uncached, collectorVars, reader, next, routeVars,
                   metricVars, queue, storeVars, replay, rebuilt, pauses>>

\* ... and gets the collection mutex, perhaps after a pause.
BeginPass ==
    /\ MayControl /\ armed /\ state \in Running
    /\ armed' = FALSE /\ reader' = "sampler"
    /\ UNCHANGED <<clockVars, state, uncached, collectorVars, next, routeVars,
                   metricVars, queue, storeVars, replay, rebuilt, pauses>>

\* ReadImmediate by the caller.
CallerRead ==
    /\ MayControl /\ state \in Running \cup {"CONFIGURED"} /\ operations # <<>>
    /\ Room(Len(operations))
    /\ reader' = "caller"
    /\ UNCHANGED <<clockVars, state, uncached, collectorVars, armed, next, routeVars,
                   metricVars, queue, storeVars, replay, rebuilt, pauses>>

\* ExecuteScmiReadOperation: a timestamp that cannot be parsed makes the collector
\* use the software clock from now on; the correlations stay what they were.
ReadOperation ==
    /\ Settled /\ reader # "none"
    /\ \E falls \in BOOLEAN :
         LET o == operations[next]
             e == EventOf[o.metric]
             tick == IF software \/ falls THEN now ELSE updated[e] + Offset
             before == IF falls THEN NothingSeen ELSE seen
         IN  /\ falls => ~software /\ "timestamp" \in Faults
             /\ software' = (software \/ falls)
             /\ seen' = [before EXCEPT ![e] = tick]
             /\ IF before[e] = tick
                THEN UNCHANGED <<queue, storeVars>>
                ELSE Deliver([id |-> o.id, of |-> o.metric, tick |-> tick,
                              taken |-> updated[e]])
    /\ next' = IF next = Len(operations) THEN 1 ELSE next + 1
    /\ reader' = IF next = Len(operations) THEN "none" ELSE reader
    /\ UNCHANGED <<clockVars, state, uncached, operations, armed, routeVars,
                   metricVars, replay, rebuilt, pauses>>

-----------------------------------------------------------------------------
(* Calls that control the acquisition.                                      *)

HardwareMarker(mark) ==    \* mutant: markers are stamped by the other clock
    [id |-> Marker, of |-> mark, tick |-> now + Offset, taken |-> now]
MarkerSample(mark) == [id |-> Marker, of |-> mark, tick |-> now, taken |-> now]

Pause ==
    /\ MayControl /\ state = "STARTED" /\ Room(1)
    /\ state' = "PAUSED" /\ pauses' = pauses \cup {now}
    /\ Deliver(MarkerSample("pause"))
    /\ UNCHANGED <<clockVars, uncached, collectorVars, passVars, routeVars, metricVars,
                   replay, rebuilt>>

Resume ==
    /\ MayControl /\ state = "PAUSED" /\ Room(1)
    /\ state' = "STARTED"
    /\ Deliver(MarkerSample("resume"))
    /\ UNCHANGED <<clockVars, uncached, collectorVars, passVars, routeVars, metricVars,
                   replay, rebuilt, pauses>>

\* The part of the store that is in the cache file; the rest is pending.  A stop flushes
\* the rest, and what a failed reset or an abandoned configuration leaves is in the file.
WholeBatchesOf(s) == SubSeq(s, 1, (Len(s) \div BatchSize) * BatchSize)
CacheFile ==
    IF state \in {"STOPPED", "UNCONFIGURED"} THEN store ELSE WholeBatchesOf(store)

Start ==
    /\ MayControl /\ state = "CONFIGURED" /\ operations # <<>>
    /\ state' = "STARTED"
    /\ seen' = NothingSeen
    /\ store' = CacheFile /\ replayed' = {}
    /\ UNCHANGED <<clockVars, uncached, operations, software, passVars, routeVars,
                   metricVars, queue, replay, rebuilt, pauses>>

\* Stop waits for the sampler, and flushes what is pending to the cache file.
Stop ==
    /\ MayControl /\ state \in Running /\ ~armed
    /\ state' = "STOPPED"
    /\ seen' = NothingSeen
    /\ UNCHANGED <<clockVars, uncached, operations, software, passVars, routeVars,
                   metricVars, queue, storeVars, replay, rebuilt, pauses>>

-----------------------------------------------------------------------------
(* A configuration: ConfigureMetricCollection, in one step, since nothing   *)
(* but calls of the C API could come between.                               *)

\* What is left of the state of the target when the requested operations are built:
\* all of it if another target is configured, nothing after a clean reset.
Base(others) ==
    IF others
    THEN [state |-> state, uncached |-> uncached, operations |-> operations, seen |-> seen,
          nextId |-> nextId, routes |-> routes, anchor |-> anchor, known |-> known,
          previous |-> previous, last |-> last, processed |-> processed,
          store |-> store, rebuilt |-> rebuilt, pauses |-> pauses]
    ELSE [state |-> "UNCONFIGURED", uncached |-> FALSE, operations |-> <<>>,
          seen |-> NothingSeen, nextId |-> 1, routes |-> NoId, anchor |-> NoId,
          known |-> {}, previous |-> [m \in Metrics |-> None],
          last |-> [m \in Metrics |-> None], processed |-> [m \in Metrics |-> <<>>],
          store |-> <<>>, rebuilt |-> FALSE, pauses |-> {}]

MayConfigure == MayControl /\ ~armed /\ state \notin Running

\* Bound: a configuration fails while there is time for another one and its samples.
MayFailToConfigure == MayConfigure /\ now < LastTime

MayFailToRemove == "remove" \in Faults /\ CacheFile # <<>>

\* The clean reset: an error to remove the cache file ends it before the metric
\* manager is told.
FailedReset ==
    /\ MayFailToConfigure /\ MayFailToRemove
    /\ state' = "UNCONFIGURED"
    /\ operations' = <<>> /\ seen' = NothingSeen
    /\ store' = CacheFile /\ replayed' = {}
    /\ processed' = [m \in Metrics |-> <<>>]
    /\ UNCHANGED <<clockVars, uncached, software, passVars, routeVars, known, previous, last,
                   queue, replay, rebuilt, pauses>>

OfCleanReset(base) == 1    \* mutant: ids start again beside another configuration
FirstId(base) == base.nextId

\* GetRequiredOperations builds and routes the operations of the first metrics of a
\* request.
OperationsOf(built, first) ==
    [k \in DOMAIN built |-> [id |-> first + k - 1, metric |-> built[k]]]

Routing(table, first, built) ==
    [i \in Ids |-> IF i - first + 1 \in DOMAIN built THEN built[i - first + 1] ELSE table[i]]

GetRequiredOperations(base, built) ==
    LET first == FirstId(base)
    IN  [base EXCEPT !.nextId = first + Len(built),
                     !.routes = Routing(@, first, built),
                     !.known = @ \cup {o \in Range(OperationsOf(built, first)) :
                                         Kind[o.metric] = "residency"}]

MayBuild(base, request) == base.nextId + Len(request) <= MaxId + 1

\* An error to build an operation, or of the collector, leaves what has been routed.
FailedConfigure(request, others, built) ==
    LET base == Base(others)
        got == GetRequiredOperations(base, built)
    IN  /\ MayFailToConfigure /\ MayBuild(base, request)
        /\ IF built = request THEN "collector" \in Faults ELSE "operations" \in Faults
        /\ state' = base.state /\ uncached' = base.uncached
        /\ operations' = IF built = request THEN <<>> ELSE base.operations
        /\ seen' = IF built = request THEN NothingSeen ELSE base.seen
        /\ nextId' = got.nextId /\ routes' = got.routes
        /\ replayRoutes' = Routing(replayRoutes, FirstId(base), built)
        /\ anchor' = base.anchor /\ known' = got.known
        /\ previous' = base.previous /\ last' = base.last /\ processed' = base.processed
        /\ store' = base.store
        /\ replayed' = {}
        /\ rebuilt' = base.rebuilt /\ pauses' = base.pauses
        /\ UNCHANGED <<clockVars, software, passVars, queue, replay>>

\* The hardware timestamp of an event is that of its last update, read now.
HardwareAnchor(m) == [raw |-> now, native |-> updated[EventOf[m]] + Offset]
SoftwareAnchor == [raw |-> 0, native |-> 0]

\* ClearStaleOperationStateForTarget: the operations of the request replace all
\* others, in the live routes and for replays; every metric is reset.
ClearStale(got, first, request) ==
    LET active == {i \in Ids : i - first + 1 \in DOMAIN request}
    IN  /\ routes' = [i \in Ids |-> IF i \in active THEN got.routes[i] ELSE None]
        /\ replayRoutes' = routes'
        /\ known' = {}
        /\ previous' = [m \in Metrics |-> None]
        /\ last' = [m \in Metrics |-> None]
        /\ processed' = [m \in Metrics |-> <<>>]

Configure(request, noCache, others, software2) ==
    LET base == Base(others)
        first == FirstId(base)
        got == GetRequiredOperations(base, request)
    IN  /\ MayConfigure /\ MayBuild(base, request)
        /\ software2 => "software" \in Faults
        /\ state' = "CONFIGURED" /\ uncached' = noCache
        /\ operations' = OperationsOf(request, first)
        /\ software' = software2 /\ seen' = NothingSeen
        /\ nextId' = got.nextId
        /\ ClearStale(got, first, request)
        /\ anchor' = [i \in Ids |->
                        IF i - first + 1 \in DOMAIN request
                        THEN IF software2 THEN SoftwareAnchor
                             ELSE HardwareAnchor(request[i - first + 1])
                        ELSE IF got.routes[i] # None THEN None ELSE base.anchor[i]]
        /\ store' = <<>> /\ replayed' = {} /\ rebuilt' = FALSE /\ pauses' = {}
        /\ UNCHANGED <<clockVars, passVars, queue, replay>>

\* The cache file of the configuration before cannot be removed, or the collector has no
\* snapshot of its clock to give: nothing remains of the new configuration.  The second
\* attempt to remove the file may work.
AbandonedConfigure(request, others, removed) ==
    LET base == Base(others)
        got == GetRequiredOperations(base, request)
    IN  /\ MayFailToConfigure /\ MayBuild(base, request)
        /\ \/ others /\ MayFailToRemove
           \/ removed /\ "clock" \in Faults
        /\ state' = "UNCONFIGURED" /\ uncached' = FALSE
        /\ operations' = <<>> /\ seen' = NothingSeen
        /\ nextId' = got.nextId
        /\ ClearStale(got, FirstId(base), <<>>)
        /\ anchor' = [i \in Ids |-> IF got.routes[i] # None THEN None ELSE base.anchor[i]]
        /\ store' = IF removed THEN <<>> ELSE CacheFile
        /\ pauses' = IF removed THEN {} ELSE pauses
        /\ replayed' = {} /\ rebuilt' = FALSE
        /\ UNCHANGED <<clockVars, software, passVars, queue, replay>>

-----------------------------------------------------------------------------
(* A replay of the raw samples: the batches of the cache file, then what is *)
(* pending, each through the queue.                                         *)

\* The reader of one metric visits its samples; the final outputs rebuild all metrics
\* once, and only if there is a cache file.
BeginReplay(M) ==
    /\ MayCall /\ store # <<>>
    /\ replayed = {}    \* bound: one replay of what is stored
    /\ IF OneOf(M) THEN UNCHANGED rebuilt
       ELSE ~rebuilt /\ CacheFile # <<>> /\ state \notin Running /\ rebuilt' = TRUE
    /\ replay' = [of |-> M, from |-> 0, failed |-> FALSE]
    /\ replayed' = replayed \ M
    /\ ResetMetrics(M)
    /\ UNCHANGED <<clockVars, state, uncached, collectorVars, passVars, routeVars,
                   queue, store, pauses>>

OfTheFile == Len(CacheFile)    \* mutant: what is pending is forgotten
ReplayEnd == Len(store)

\* A rejected sample ends the replay: for all metrics after the samples before it, for
\* one metric at once.
LoadBatch ==
    /\ replay # Quiet /\ ~replay.failed /\ queue = {} /\ replay.from < ReplayEnd
    /\ LET until == IF replay.from + BatchSize <= ReplayEnd
                    THEN replay.from + BatchSize ELSE ReplayEnd
           input == Enqueued(SubSeq(store, replay.from + 1, until), replay.of)
       IN  /\ queue' = IF input.failed /\ OneOf(replay.of) THEN {} ELSE input.entries
           /\ replay' = [replay EXCEPT !.from = until, !.failed = input.failed]
    /\ UNCHANGED <<clockVars, state, uncached, collectorVars, passVars, routeVars,
                   metricVars, storeVars, rebuilt, pauses>>

EndReplay ==
    /\ replay # Quiet /\ queue = {} /\ (replay.failed \/ replay.from = ReplayEnd)
    /\ replay' = Quiet
    /\ replayed' = IF replay.failed THEN replayed ELSE replayed \cup replay.of
    /\ UNCHANGED <<clockVars, state, uncached, collectorVars, passVars, routeVars,
                   metricVars, queue, store, rebuilt, pauses>>

-----------------------------------------------------------------------------
Next ==
    \/ Tick
    \/ \E e \in Events : FirmwareUpdate(e)
    \/ Wake \/ BeginPass \/ CallerRead \/ ReadOperation
    \/ Pause \/ Resume \/ Start \/ Stop
    \/ FailedReset
    \/ \E request \in Requests :
         \/ \E others \in BOOLEAN :
              \/ \E k \in 0..Len(request) : FailedConfigure(request, others, SubSeq(request, 1, k))
              \/ \E noCache, software2 \in BOOLEAN : Configure(request, noCache, others, software2)
              \/ \E removed \in BOOLEAN : AbandonedConfigure(request, others, removed)
    \/ \E M \in {{m} : m \in Metrics} \cup {Metrics} : BeginReplay(M)
    \/ LoadBatch \/ EndReplay
    \/ \E e \in queue : Dispatch(e)

Spec == Init /\ [][Next]_vars

-----------------------------------------------------------------------------
(* Properties.                                                              *)

TypeOK ==
    /\ now \in Time /\ updated \in [Events -> Time]
    /\ state \in States /\ uncached \in BOOLEAN
    /\ operations \in Seq(Operation) /\ software \in BOOLEAN
    /\ seen \in [Events -> Int \cup {None}]
    /\ armed \in BOOLEAN /\ reader \in {"none", "sampler", "caller"}
    /\ next \in Nat \ {0}
    /\ nextId \in Nat \ {0}
    /\ routes \in [Ids -> Metrics \cup {None}] /\ replayRoutes \in [Ids -> Metrics \cup {None}]
    /\ anchor \in [Ids -> Anchor \cup {None}]
    /\ known \subseteq Operation
    /\ previous \in [Metrics -> Held \cup {None}]
    /\ last \in [Metrics -> Int \cup {None}]
    /\ processed \in [Metrics -> Seq(Sunk)]
    /\ queue \subseteq Entry /\ store \in Seq(Sample)
    /\ replay \in [of: SUBSET Metrics, from: Nat, failed: BOOLEAN]
    /\ rebuilt \in BOOLEAN /\ pauses \subseteq Time /\ replayed \subseteq Metrics

\* The processed samples of a metric are in the order of time, whatever order the raw
\* samples were delivered, queued and replayed in.
SamplesInOrder ==
    \A m \in Metrics : \A i, j \in DOMAIN processed[m] :
        i < j => processed[m][i].at <= processed[m][j].at

\* With software timestamps no delta or rate is taken over an interval with a pause in
\* it, however late the marker is processed.  Hardware timestamps run ahead of the
\* markers by the age of the update they were correlated with: see PauseSplitsDeltas.
NoDeltaAcrossPause ==
    (\A i \in Ids : anchor[i] \in {None, SoftwareAnchor}) =>
        \A m \in Metrics : \A i \in DOMAIN processed[m] : \A p \in pauses :
            ~(processed[m][i].since < p /\ p < processed[m][i].at)

\* The intervals of a metric leave nothing out but pauses: where one does not begin at
\* the end of the one before, there was a pause between them.
DeltasJoin ==
    \A m \in Metrics : Kind[m] \in {"delta", "rate"} =>
        \A i \in 1..(Len(processed[m]) - 1) :
            LET end == processed[m][i].at
                begin == processed[m][i + 1].since
            IN  end = begin \/ \E p \in pauses : end <= p /\ p <= begin

\* A raw sample that is kept is never given to another metric than the one it was read
\* for, although ids are given out again and configurations fail half way; and none is
\* without its metric and its correlation while there is a configuration.
RoutedRight ==
    \A i \in DOMAIN store : store[i].id # Marker =>
        /\ routes[store[i].id] \in {store[i].of, None}
        /\ routes = NoId => replayRoutes[store[i].id] \in {store[i].of, None}
        /\ state # "UNCONFIGURED" =>
             routes[store[i].id] # None /\ anchor[store[i].id] # None

\* A metric that holds a replay of the store leaves out no reading without a reason.
Readings(m) == {i \in DOMAIN store : store[i].of = m}
BatchOf(i) == (i - 1) \div BatchSize
At(i) == IF store[i].id = Marker THEN store[i].tick ELSE Normalised(store[i])
Overtaken(i, m) ==
    \E j \in DOMAIN store :
        /\ store[j].of \in {m, "pause"} /\ BatchOf(j) < BatchOf(i) /\ At(j) > At(i)
Shown(i, m) ==
    \/ \E k \in DOMAIN processed[m] : At(i) \in {processed[m][k].since, processed[m][k].at}
    \/ previous[m] # None /\ previous[m].at = At(i)
\* The only reading between two pauses, or before the first.
Alone(i, m) == \E j \in DOMAIN store : store[j].of = "pause" /\ At(j) >= At(i)

ReplayIsComplete ==
    state # "UNCONFIGURED" => \A m \in replayed : \A i \in Readings(m) :
        Overtaken(i, m) \/ Shown(i, m) \/ (Kind[m] # "value" /\ Alone(i, m))

\* A residency metric knows the operations whose samples it receives.
ResidencyIsKnown ==
    \A e \in queue :
        Kind[e.metric] = "residency" /\ e.id # Marker =>
            [id |-> e.id, metric |-> e.metric] \in known

\* delta_metric.cpp:91 - the first sample after a resume starts a fresh delta window: none
\* is taken from a sample delivered before a pause to one delivered after the resume.
PauseSplitsDeltas ==
    state # "UNCONFIGURED" => \A m \in replayed : Kind[m] \in {"delta", "rate"} =>
        \A i, k \in Readings(m) : \A p, q \in DOMAIN store :
            /\ i < p /\ p < q /\ q < k /\ store[p].of = "pause" /\ store[q].of = "resume"
            /\ At(i) # At(p)    \* samples of one time may be sorted either way
            => \A n \in DOMAIN processed[m] :
                 processed[m][n] # [since |-> At(i), at |-> At(k)]
=============================================================================
