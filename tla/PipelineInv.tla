----------------------------- MODULE PipelineInv -----------------------------
(***************************************************************************)
(* What makes the properties of MetricPipeline inductive: where a sampling *)
(* pass, the routes and the correlations stand, what a metric has sunk,    *)
(* for software timestamps what every pause separates, and what a replay   *)
(* has dealt with so far.                                                  *)
(***************************************************************************)
EXTENDS MetricPipeline

\* A sampling pass is at one of the operations.
Passes ==
    /\ reader = "none" => next = 1
    /\ reader # "none" => next \in DOMAIN operations
    /\ armed => state \in Running
    /\ state \in Running => operations # <<>>

\* The operations of the collector have their ids to themselves.
Owned ==
    \A k \in DOMAIN operations :
        LET o == operations[k]
        IN  /\ o.id < nextId
            /\ routes[o.id] = o.metric /\ replayRoutes[o.id] = o.metric
            /\ anchor[o.id] # None

\* The readings in the store go to their metric or, after a failed configuration,
\* to none.
Routed(s) ==
    s.id # Marker =>
        /\ s.id < nextId
        /\ routes[s.id] \in {s.of, None} /\ replayRoutes[s.id] \in {s.of, None}
        /\ state # "UNCONFIGURED" => routes[s.id] # None /\ anchor[s.id] # None
Kept == \A i \in DOMAIN store : Routed(store[i])

\* What a metric has sunk is not later than its last timestamp.
Bounded ==
    \A m \in Metrics : \A i \in DOMAIN processed[m] :
        last[m] # None /\ processed[m][i].at <= last[m]
InOrder == Bounded /\ SamplesInOrder

IInv ==
    /\ TypeOK /\ Passes
    /\ Owned /\ Kept
    /\ InOrder

-----------------------------------------------------------------------------
(* Intervals join, but for pauses.                                          *)

\* The markers of pauses, queued or stored, have their times.
MarkersArePauses ==
    /\ \A e \in queue : e.id = Marker => e.at \in pauses
    /\ \A i \in DOMAIN store : store[i].of = "pause" => store[i].tick \in pauses

\* What a metric has sunk ends at its previous sample, or there was a pause since.
Joined(m) ==
    Kind[m] \in {"delta", "rate"} /\ processed[m] # <<>> =>
        LET end == processed[m][Len(processed[m])].at
        IN  IF previous[m] = None
            THEN last[m] # None /\ \E p \in pauses : end <= p /\ p <= last[m]
            ELSE \/ previous[m].at = end
                 \/ \E p \in pauses : end <= p /\ p <= previous[m].at

JoinInv == MarkersArePauses /\ (\A m \in Metrics : Joined(m)) /\ DeltasJoin

-----------------------------------------------------------------------------
(* Software timestamps, and what a pause separates.                         *)

Soft == \A i \in Ids : anchor[i] \in {None, SoftwareAnchor}
SoftReading(s) == s.id # Marker /\ anchor[s.id] = SoftwareAnchor

\* Nothing has happened later than now: neither updates and pauses, nor what has a
\* software timestamp.
EventsArePast == (\A e \in Events : updated[e] <= now) /\ (\A p \in pauses : p <= now)
SoftwareIsRead ==
    \A k \in DOMAIN operations :
        anchor[operations[k].id] = SoftwareAnchor => software \/ Offset = 0
StoreIsPast == \A i \in DOMAIN store : SoftReading(store[i]) => store[i].tick <= now
MetricsArePast ==
    Soft => /\ \A m \in Metrics : last[m] # None => last[m] <= now
            /\ \A e \in queue : e.at <= now
Past == EventsArePast /\ SoftwareIsRead /\ StoreIsPast /\ MetricsArePast

\* Who processes the queue, and what may be in it.
QueueIsDue ==
    /\ queue # {} => uncached \/ replay # Quiet
    /\ replay # Quiet => ~uncached /\ \A e \in queue : e.metric \in replay.of
    /\ replay = Quiet => \A e, f \in queue : e = f \/ (e.id = Marker /\ f.id = Marker)
    /\ uncached => store = <<>>
    /\ state = "CONFIGURED" => pauses = {}

\* A metric has its previous sample from its last timestamp.
PreviousIsLast ==
    \A m \in Metrics : previous[m] # None =>
        Kind[m] # "value" /\ last[m] = previous[m].at

\* A pause cuts the store at its marker, or behind all that is left: what is before the
\* cut is not later than the pause.
Cuts(p, c) ==
    /\ IF c \in DOMAIN store THEN store[c].of = "pause" /\ store[c].tick = p
       ELSE uncached \/ operations = <<>>
    /\ \A i \in 1..(c - 1) : SoftReading(store[i]) => store[i].tick <= p
PausesCut == \A p \in pauses : \E c \in 1..(Len(store) + 1) : Cuts(p, c)

\* A pause is still to come for a metric: nothing of the metric comes before its cut
\* but what is not later than the pause.
Ahead(m, p) ==
    IF replay = Quiet
    THEN \A k \in DOMAIN operations : operations[k].metric # m
    ELSE \/ replay.failed \/ m \notin RoutedMetrics(replay.of)
         \/ \E c \in 1..(Len(store) + 1) : Cuts(p, c) /\ c > replay.from

\* A metric has met a pause when it is about to, or beyond it, or will.
Meets(m, p) ==
    \/ \E e \in queue : e.id = Marker /\ e.metric = m /\ e.at = p
    \/ last[m] # None /\ p <= last[m]
    \/ /\ \A e \in queue : e.metric = m /\ e.id # Marker => e.at <= p
       /\ Ahead(m, p)
PausesMet ==
    Soft /\ (uncached \/ replay # Quiet) => \A m \in Metrics, p \in pauses : Meets(m, p)

PauseInv ==
    /\ Past /\ QueueIsDue /\ PreviousIsLast /\ PausesCut /\ PausesMet
    /\ NoDeltaAcrossPause

-----------------------------------------------------------------------------
(* What a replay has shown so far.                                          *)

\* A reading that a replay has dealt with, and one of the batch in hand that waits in
\* the queue.
Accounted(i, m) == Overtaken(i, m) \/ Shown(i, m) \/ (Kind[m] # "value" /\ Alone(i, m))
Due(i, m) ==
    /\ BatchOf(i) = BatchOf(replay.from)
    /\ \E e \in queue : e.metric = m /\ e.id # Marker /\ e.at = At(i)

\* An entry is of a reading or a marker of the batch in hand.
FromStore(e) ==
    \E i \in 1..replay.from :
        /\ store[i].of = (IF e.id = Marker THEN "pause" ELSE e.metric)
        /\ At(i) = e.at /\ BatchOf(i) = BatchOf(replay.from)

\* An entry that would be late has been overtaken in an earlier batch.
LateIsOvertaken(e) ==
    last[e.metric] # None /\ e.at < last[e.metric] =>
        \E j \in DOMAIN store :
            /\ store[j].of \in {e.metric, "pause"}
            /\ BatchOf(j) < BatchOf(replay.from) /\ At(j) > e.at

\* Where a replay of a metric stands: its last timestamp is of the store, and it has
\* dealt with all that was loaded, but for what is in the queue.
LastIsLoaded(m) ==
    last[m] # None =>
        \E j \in 1..replay.from : store[j].of \in {m, "pause"} /\ At(j) = last[m]
QueueIsLoaded(m) == \A e \in queue : e.metric = m => FromStore(e) /\ LateIsOvertaken(e)
LoadedIsShown(m) ==
    \A i \in 1..replay.from : store[i].of = m => Accounted(i, m) \/ Due(i, m)
Unknown(m) == \A o \in known : o.metric # m
Going(m) == LastIsLoaded(m) /\ QueueIsLoaded(m) /\ LoadedIsShown(m) /\ Unknown(m)

WholeBatches ==
    /\ replay.from \in 0..Len(store)
    /\ replay.from = Len(store) \/ \E k \in 0..Len(store) : replay.from = k * BatchSize

ReplayInv ==
    /\ replay # Quiet => replayed = {}
    /\ WholeBatches
    /\ state # "UNCONFIGURED" /\ ~replay.failed => \A m \in replay.of : Going(m)
    /\ ReplayIsComplete
=============================================================================
