------------------------ MODULE MetricPipelineProofs ------------------------
(***************************************************************************)
(* Theorems about MetricPipeline, for any metrics, events, counters,       *)
(* faults and bounds.  That samples stay in order needs that no metric has *)
(* sunk anything later than its last timestamp (Bounded).  That they stay  *)
(* with their metric needs that the operations of the collector have ids   *)
(* that were given out, with their routes and correlations (Owned): then   *)
(* the next reading is right, and no later configuration gives out an id   *)
(* that is in the store.  That intervals join needs where each metric      *)
(* stands between them (Joined).  That a pause separates them needs that   *)
(* every metric meets it, in the queue, in what is still to be replayed,   *)
(* or behind its last timestamp (PausesMet), and for that where the pause  *)
(* cuts the store (PausesCut) and that nothing is later than now (Past).   *)
(* That a replay is complete needs that what it has loaded is shown, has   *)
(* been overtaken, or waits in the queue for its turn (Going).             *)
(***************************************************************************)
EXTENDS PipelineInv, SequenceTheorems, TLAPS

\* A configuration, however it ends.
Configuring(request) ==
    \/ \E others \in BOOLEAN :
         \/ \E k \in 0..Len(request) : FailedConfigure(request, others, SubSeq(request, 1, k))
         \/ \E noCache, software2 \in BOOLEAN : Configure(request, noCache, others, software2)
         \/ \E removed \in BOOLEAN : AbandonedConfigure(request, others, removed)

-----------------------------------------------------------------------------
(* What the operators of the actions return.                                *)

\* What the assumption says of the constants, in the form the proofs use.
LEMMA ConstantFacts ==
    ASSUME PipelineAssumption
    PROVE  /\ None \notin Metrics /\ None \notin Ids /\ None \notin Int
           /\ Marks \cap Metrics = {} /\ Marker \notin Ids
           /\ \A m \in Metrics : EventOf[m] \in Events
           /\ LastTime \in Nat /\ Offset \in Nat /\ MaxId \in Nat /\ BatchSize \in Nat \ {0}
           /\ \A request \in Requests : request \in Seq(Metrics) /\ request # <<>>
BY DEF PipelineAssumption, Ids, Marker

\* Whole batches are no more than what there is.
LEMMA RoundedDown ==
    ASSUME NEW a \in Nat, NEW b \in Nat \ {0}
    PROVE  (a \div b) * b \in Nat /\ (a \div b) * b <= a
<1>1. a \div b \in Nat
  OBVIOUS
<1>2. (a \div b) * b <= a
  OBVIOUS
<1> QED BY <1>1, <1>2

\* What remains of the store when the pending samples are gone.
LEMMA CacheFileType ==
    ASSUME PipelineAssumption, TypeOK
    PROVE  /\ CacheFile \in Seq(Sample)
           /\ DOMAIN CacheFile \subseteq DOMAIN store
           /\ \A i \in DOMAIN CacheFile : CacheFile[i] = store[i]
<1> DEFINE n == (Len(store) \div BatchSize) * BatchSize
<1>1. Len(store) \in Nat /\ BatchSize \in Nat \ {0} /\ store \in Seq(Sample)
  BY ConstantFacts DEF TypeOK
<1>3. n \in Nat /\ n <= Len(store)
  BY <1>1, RoundedDown
<1>4. \A i \in 1..n : store[i] \in Sample
  BY <1>1, <1>3
<1> HIDE DEF n
<1>5. /\ SubSeq(store, 1, n) \in Seq(Sample)
      /\ Len(SubSeq(store, 1, n)) = n
      /\ \A i \in 1..n : SubSeq(store, 1, n)[i] = store[i]
  BY <1>3, <1>4, SubSeqProperties
<1>6. CacheFile = store \/ CacheFile = SubSeq(store, 1, n)
  BY DEF CacheFile, WholeBatchesOf, n
<1>7. CASE CacheFile = store
  BY <1>1, <1>7
<1>8. CASE CacheFile = SubSeq(store, 1, n)
  BY SMTT(60), <1>1, <1>3, <1>5, <1>8
<1> QED BY <1>6, <1>7, <1>8

\* A batch of the store, and the request up to where it failed.
LEMMA PartType ==
    ASSUME NEW S, NEW s \in Seq(S), NEW a \in Nat \ {0}, NEW b \in Nat, b <= Len(s)
    PROVE  /\ SubSeq(s, a, b) \in Seq(S)
           /\ a = 1 => Len(SubSeq(s, a, b)) = b
<1>1. \A i \in a..b : s[i] \in S
  OBVIOUS
<1> QED BY <1>1, SubSeqProperties

\* A sample is a reading of a metric or a marker.
LEMMA SampleTypes ==
    ASSUME PipelineAssumption, NEW s \in Sample
    PROVE  /\ s.tick \in Int /\ s.taken \in Time
           /\ s.id # Marker => s.id \in Ids /\ s.of \in Metrics
           /\ s.id = Marker => s.of \in Marks
           /\ s.id # Marker => s.of \notin Marks
<1>1. Marker \notin Ids /\ Marks \cap Metrics = {} /\ LastTime \in Nat
  BY ConstantFacts
<1>2. CASE s \in [id: Ids, of: Metrics, tick: Int, taken: Time]
  BY ONLY <1>1, <1>2 DEF Time
<1>3. CASE s \in [id: {Marker}, of: Marks, tick: Time, taken: Time]
  BY ONLY <1>1, <1>3 DEF Time
<1> QED BY <1>2, <1>3 DEF Sample

\* A sample that is not rejected becomes entries of metrics.
LEMMA EntriesType ==
    ASSUME PipelineAssumption, TypeOK, NEW s \in Sample, NEW pos \in Nat,
           NEW M \in SUBSET Metrics, ~Rejected(s, M)
    PROVE  Entries(s, pos, M) \subseteq Entry
<1>1. CASE s.of = "pause"
  <2>1. RoutedMetrics(M) \subseteq Metrics
    BY DEF RoutedMetrics, TypeOK
  <2>2. s.tick \in Int /\ s.taken \in Time
    BY SampleTypes
  <2>3. Entries(s, pos, M) = [id: {Marker}, metric: RoutedMetrics(M), at: {s.tick},
                              taken: {s.taken}, pos: {pos}]
    BY <1>1 DEF Entries
  <2> QED BY SMTT(60), <2>1, <2>2, <2>3 DEF Entry
<1>2. CASE s.of = "resume"
  BY <1>2 DEF Entries
<1>3. CASE s.of \notin Marks
  <2>1. s.id # Marker /\ s.id \in Ids /\ s.tick \in Int /\ s.taken \in Time
    BY <1>3, SampleTypes
  <2>2. Table(M)[s.id] \in Metrics /\ anchor[s.id] \in Anchor
    BY SMTT(60), <2>1 DEF Rejected, Table, TypeOK
  <2>3. Normalised(s) \in Int
    <3>1. anchor[s.id].raw \in Int /\ anchor[s.id].native \in Int
      BY <2>2 DEF Anchor
    <3> QED BY SMTT(60), <2>1, <3>1 DEF Normalised
  <2>4. Entries(s, pos, M) = {[id |-> s.id, metric |-> Table(M)[s.id], at |-> Normalised(s),
                               taken |-> s.taken, pos |-> pos]}
    BY <1>3 DEF Entries, Marks
  <2> QED BY <2>1, <2>2, <2>3, <2>4 DEF Entry
<1> QED BY <1>1, <1>2, <1>3 DEF Marks

\* Whatever samples are processed, the queue holds entries only.
LEMMA EnqueuedType ==
    ASSUME PipelineAssumption, TypeOK, NEW samples \in Seq(Sample), NEW M \in SUBSET Metrics
    PROVE  /\ Enqueued(samples, M).entries \subseteq Entry
           /\ Enqueued(samples, M).failed \in BOOLEAN
<1> DEFINE own == {i \in DOMAIN samples : Selected(samples[i], M)}
           bad == {i \in own : Rejected(samples[i], M)}
           good == {i \in own : \A k \in bad : i < k}
           entries == IF Table(M) = NoId THEN {}
                      ELSE UNION {Entries(samples[i], i, M) : i \in good}
           failed == Table(M) = NoId \/ bad # {}
<1>1. \A i \in good : Entries(samples[i], i, M) \subseteq Entry
  <2>1. TAKE i \in good
  <2>2. i \in Nat /\ samples[i] \in Sample
    OBVIOUS
  <2>3. i \notin bad
    BY <2>2
  <2> QED BY <2>2, <2>3, EntriesType
<1>2. Enqueued(samples, M) = [entries |-> entries, failed |-> failed]
  BY Zenon DEF Enqueued
<1>3. failed \in BOOLEAN
  OBVIOUS
<1> HIDE DEF good
<1>4. \A x \in UNION {Entries(samples[i], i, M) : i \in good} : x \in Entry
  <2>1. SUFFICES ASSUME NEW x, x \in UNION {Entries(samples[i], i, M) : i \in good}
                 PROVE  x \in Entry
    OBVIOUS
  <2>2. PICK E \in {Entries(samples[i], i, M) : i \in good} : x \in E
    BY <2>1
  <2>3. PICK i \in good : E = Entries(samples[i], i, M)
    BY <2>2
  <2> QED BY <1>1, <2>2, <2>3
<1>5. \A x \in entries : x \in Entry
  BY <1>4, Zenon
<1> HIDE DEF entries, failed
<1> QED BY <1>2, <1>3, <1>5

\* What a delivery leaves in the queue and in the store.
LEMMA DeliverType ==
    ASSUME PipelineAssumption, TypeOK, NEW s \in Sample, Deliver(s)
    PROVE  queue' \subseteq Entry /\ store' \in Seq(Sample) /\ replayed' \subseteq Metrics
<1>0. store \in Seq(Sample) /\ queue \subseteq Entry /\ replayed \subseteq Metrics
  BY DEF TypeOK
<1>1. CASE uncached
  <2>1. <<s>> \in Seq(Sample)
    OBVIOUS
  <2>2. Enqueued(<<s>>, Metrics).entries \subseteq Entry
    BY <2>1, EnqueuedType
  <2>3. queue' = Enqueued(<<s>>, Metrics).entries /\ store' = store /\ replayed' = replayed
    BY <1>1 DEF Deliver, storeVars
  <2> QED BY <1>0, <2>2, <2>3
<1>2. CASE ~uncached
  <2>1. store' = Append(store, s) /\ replayed' = {} /\ queue' = queue
    BY <1>2 DEF Deliver
  <2>2. Append(store, s) \in Seq(Sample)
    BY <1>0, AppendProperties
  <2> QED BY <1>0, <2>1, <2>2
<1> QED BY <1>1, <1>2

-----------------------------------------------------------------------------
(* Every step keeps the types.                                              *)

\* Time, the firmware and the begin of a pass keep the types.
LEMMA WorldTypes ==
    ASSUME PipelineAssumption, TypeOK,
           Tick \/ (\E e \in Events : FirmwareUpdate(e)) \/ Wake \/ BeginPass \/ CallerRead
    PROVE  TypeOK'
<1> USE DEF TypeOK, clockVars, collectorVars, passVars, routeVars, metricVars, storeVars
<1>1. CASE Tick
  <2>1. now + 1 \in Time
    BY <1>1, ConstantFacts DEF Tick, Time
  <2> QED BY <1>1, <2>1 DEF Tick
<1>2. ASSUME NEW e \in Events, FirmwareUpdate(e) PROVE TypeOK'
  BY <1>2 DEF FirmwareUpdate
<1>3. CASE Wake
  BY <1>3 DEF Wake
<1>4. CASE BeginPass
  BY <1>4 DEF BeginPass
<1>5. CASE CallerRead
  BY SMTT(60), <1>5 DEF CallerRead
<1> QED BY <1>1, <1>2, <1>3, <1>4, <1>5

\* The operation that is read, and what is delivered for it.
LEMMA Reading ==
    ASSUME PipelineAssumption, TypeOK, Passes, ReadOperation
    PROVE  LET o == operations[next]
           IN  /\ next \in DOMAIN operations
               /\ o.id \in Ids /\ o.metric \in Metrics
               /\ \/ UNCHANGED <<queue, storeVars>>
                  \/ \E s \in Sample : s.id = o.id /\ s.of = o.metric /\ Deliver(s)
               /\ software' \in BOOLEAN /\ seen' \in [Events -> Int \cup {None}]
<1> DEFINE o == operations[next]
           e == EventOf[o.metric]
           tick(falls) == IF software \/ falls THEN now ELSE updated[e] + Offset
           before(falls) == IF falls THEN NothingSeen ELSE seen
           s(falls) == [id |-> o.id, of |-> o.metric, tick |-> tick(falls), taken |-> updated[e]]
<1>1. PICK falls \in BOOLEAN :
        /\ software' = (software \/ falls)
        /\ seen' = [before(falls) EXCEPT ![e] = tick(falls)]
        /\ \/ UNCHANGED <<queue, storeVars>>
           \/ Deliver(s(falls))
  BY DEF ReadOperation
<1>2. next \in DOMAIN operations /\ o.id \in Ids /\ o.metric \in Metrics /\ e \in Events
  <2>1. operations \in Seq(Operation) /\ next \in DOMAIN operations
    BY DEF ReadOperation, Passes, TypeOK
  <2>2. o \in Operation
    BY <2>1
  <2>3. o.id \in Ids /\ o.metric \in Metrics
    BY <2>2 DEF Operation
  <2> QED BY <2>1, <2>3, ConstantFacts
<1>3. tick(falls) \in Int /\ updated[e] \in Time
  <2> HIDE DEF e
  <2>1. updated[e] \in Time /\ now \in Time /\ Offset \in Nat
    BY <1>2, ConstantFacts DEF TypeOK
  <2> QED BY <2>1 DEF Time
<1> HIDE DEF o, e, tick
<1>4. s(falls) \in Sample /\ s(falls).id = o.id /\ s(falls).of = o.metric
  BY <1>2, <1>3 DEF Sample
<1> HIDE DEF s
<1>5. seen' \in [Events -> Int \cup {None}]
  BY <1>1, <1>2, <1>3 DEF TypeOK, NothingSeen
<1>6. software' \in BOOLEAN
  BY <1>1 DEF TypeOK
<1> QED BY <1>1, <1>2, <1>4, <1>5, <1>6 DEF o

\* A reading keeps the types.
LEMMA ReadTypes ==
    ASSUME PipelineAssumption, TypeOK, Passes, ReadOperation
    PROVE  TypeOK'
<1>1. queue' \subseteq Entry /\ store' \in Seq(Sample) /\ replayed' \subseteq Metrics
  <2>1. CASE UNCHANGED <<queue, storeVars>>
    BY <2>1 DEF TypeOK, storeVars
  <2>2. ASSUME NEW s \in Sample, Deliver(s)
        PROVE  queue' \subseteq Entry /\ store' \in Seq(Sample) /\ replayed' \subseteq Metrics
    BY <2>2, DeliverType
  <2> QED BY <2>1, <2>2, Reading
<1>2. software' \in BOOLEAN /\ seen' \in [Events -> Int \cup {None}]
  BY Reading
<1>3. next' \in Nat \ {0} /\ reader' \in {"none", "sampler", "caller"}
  BY DEF ReadOperation, TypeOK
<1> QED
  BY <1>1, <1>2, <1>3
  DEF ReadOperation, TypeOK, clockVars, routeVars, metricVars

\* A pause and a resume keep the types.
LEMMA MarkerTypes ==
    ASSUME PipelineAssumption, TypeOK, Pause \/ Resume
    PROVE  TypeOK'
<1>1. MarkerSample("pause") \in Sample /\ MarkerSample("resume") \in Sample
  BY DEF MarkerSample, Sample, Marks, TypeOK
<1>2. Deliver(MarkerSample("pause")) \/ Deliver(MarkerSample("resume"))
  BY DEF Pause, Resume
<1>3. queue' \subseteq Entry /\ store' \in Seq(Sample) /\ replayed' \subseteq Metrics
  BY <1>1, <1>2, DeliverType
<1>4. state' \in States /\ pauses' \subseteq Time
  BY SMTT(60) DEF Pause, Resume, States, Running, TypeOK
<1> QED
  BY ZenonT(60), <1>3, <1>4
  DEF Pause, Resume, TypeOK, clockVars, collectorVars, passVars, routeVars, metricVars

\* A start, a stop and a clean reset that fails keep the types.
LEMMA StopTypes ==
    ASSUME PipelineAssumption, TypeOK, Start \/ Stop \/ FailedReset
    PROVE  TypeOK'
<1>0. CacheFile \in Seq(Sample)
  BY CacheFileType
<1>1. NothingSeen \in [Events -> Int \cup {None}]
  BY DEF NothingSeen
<1>2. [m \in Metrics |-> <<>>] \in [Metrics -> Seq(Sunk)]
  OBVIOUS
<1> USE DEF TypeOK, clockVars, collectorVars, passVars, routeVars, metricVars, storeVars
<1>3. CASE Start
  BY <1>0, <1>1, <1>3 DEF Start, States, Running
<1>4. CASE Stop
  BY SMTT(60), <1>1, <1>4 DEF Stop, States
<1>5. CASE FailedReset
  BY SMTT(60), <1>0, <1>1, <1>2, <1>5 DEF FailedReset, States
<1> QED BY <1>3, <1>4, <1>5

\* The state a configuration starts from, and what its operations make of it.
LEMMA BaseTypes ==
    ASSUME PipelineAssumption, TypeOK, NEW others \in BOOLEAN
    PROVE  LET base == Base(others)
           IN  /\ base.state \in States /\ base.uncached \in BOOLEAN
               /\ base.operations \in Seq(Operation)
               /\ base.seen \in [Events -> Int \cup {None}]
               /\ base.nextId \in Nat \ {0}
               /\ base.routes \in [Ids -> Metrics \cup {None}]
               /\ base.anchor \in [Ids -> Anchor \cup {None}]
               /\ base.known \subseteq Operation
               /\ base.previous \in [Metrics -> Held \cup {None}]
               /\ base.last \in [Metrics -> Int \cup {None}]
               /\ base.processed \in [Metrics -> Seq(Sunk)]
               /\ base.store \in Seq(Sample)
               /\ base.rebuilt \in BOOLEAN /\ base.pauses \subseteq Time
<1>1. CASE others
  BY <1>1 DEF Base, TypeOK
<1>2. CASE ~others
  <2>1. [m \in Metrics |-> <<>>] \in [Metrics -> Seq(Sunk)]
    OBVIOUS
  <2>2. <<>> \in Seq(Operation) /\ <<>> \in Seq(Sample)
    OBVIOUS
  <2> QED BY <1>2, <2>1, <2>2 DEF Base, NothingSeen, NoId, States
<1> QED BY <1>1, <1>2

\* The ids given out to a request are ids.
LEMMA IdInRange ==
    ASSUME PipelineAssumption, NEW first \in Nat \ {0}, NEW n \in Nat, first + n <= MaxId + 1,
           NEW k \in 1..n
    PROVE  first + k - 1 \in Ids /\ (first + k - 1) - first + 1 = k /\ first + k - 1 < first + n
BY ConstantFacts DEF Ids

\* The operations of a request get the ids from the next one on, and their routes.
LEMMA Building ==
    ASSUME PipelineAssumption, NEW first \in Nat \ {0}, NEW built \in Seq(Metrics),
           first + Len(built) <= MaxId + 1
    PROVE  LET new == OperationsOf(built, first)
           IN  /\ new \in Seq(Operation) /\ Len(new) = Len(built)
               /\ \A k \in DOMAIN new : new[k] = [id |-> first + k - 1, metric |-> built[k]]
<1>1. \A k \in 1..Len(built) : [id |-> first + k - 1, metric |-> built[k]] \in Operation
  <2>1. TAKE k \in 1..Len(built)
  <2>2. built[k] \in Metrics
    BY ONLY built \in Seq(Metrics), k \in 1..Len(built)
  <2>3. first + k - 1 \in Ids
    BY <2>1, ConstantFacts DEF Ids
  <2> QED BY <2>2, <2>3 DEF Operation
<1> DEFINE new == [k \in 1..Len(built) |-> [id |-> first + k - 1, metric |-> built[k]]]
<1>2. OperationsOf(built, first) = new
  BY SMTT(60) DEF OperationsOf
<1>3. /\ new \in [1..Len(built) -> Operation] /\ DOMAIN new = 1..Len(built)
      /\ \A k \in 1..Len(built) : new[k] = [id |-> first + k - 1, metric |-> built[k]]
  BY <1>1
<1>4. Len(built) \in Nat
  OBVIOUS
<1> HIDE DEF new
<1>5. new \in Seq(Operation)
  <2>1. [1..Len(built) -> Operation] \in {[1..n -> Operation] : n \in Nat}
    BY <1>4
  <2>2. new \in UNION {[1..n -> Operation] : n \in Nat}
    BY <1>3, <2>1, Zenon
  <2> QED BY <2>2, SeqDef, Zenon
<1>6. Len(new) = Len(built)
  BY <1>3, <1>4, <1>5, LenProperties
<1> QED BY <1>2, <1>3, <1>5, <1>6

\* Adding routes to a table gives a table.
LEMMA RoutingType ==
    ASSUME NEW table \in [Ids -> Metrics \cup {None}], NEW first \in Nat \ {0},
           NEW built \in Seq(Metrics)
    PROVE  Routing(table, first, built) \in [Ids -> Metrics \cup {None}]
BY DEF Routing, Ids

\* The state after the operations of a request are built.
LEMMA GotTypes ==
    ASSUME PipelineAssumption, TypeOK, NEW others \in BOOLEAN, NEW built \in Seq(Metrics),
           Base(others).nextId + Len(built) <= MaxId + 1
    PROVE  LET base == Base(others)
               got == GetRequiredOperations(base, built)
           IN  /\ got.nextId = base.nextId + Len(built)
               /\ got.nextId \in Nat \ {0}
               /\ got.routes = Routing(base.routes, base.nextId, built)
               /\ got.routes \in [Ids -> Metrics \cup {None}]
               /\ got.known \subseteq Operation
<1> DEFINE base == Base(others)
           first == base.nextId
           added == {o \in Range(OperationsOf(built, first)) : Kind[o.metric] = "residency"}
           routing == Routing(base.routes, first, built)
           new == first + Len(built)
           got == [base EXCEPT !.nextId = new, !.routes = routing, !.known = @ \cup added]
<1>1. base.nextId \in Nat \ {0} /\ base.known \subseteq Operation
  BY BaseTypes
<1>2. OperationsOf(built, first) \in Seq(Operation)
  BY <1>1, Building
<1>3. added \subseteq Operation
  BY <1>2 DEF Range
<1>4. GetRequiredOperations(base, built) = got
  BY Zenon DEF GetRequiredOperations, FirstId
<1>5. {"nextId", "routes", "known"} \subseteq DOMAIN base
  BY DEF Base
<1>6. new \in Nat \ {0} /\ routing \in [Ids -> Metrics \cup {None}]
  <2>1. base.routes \in [Ids -> Metrics \cup {None}]
    BY BaseTypes
  <2> HIDE DEF base
  <2>2. routing \in [Ids -> Metrics \cup {None}]
    BY <1>1, <2>1, RoutingType
  <2>3. new \in Nat \ {0}
    <3>1. Len(built) \in Nat
      BY LenProperties
    <3>2. \A n \in Nat \ {0}, l \in Nat : n + l \in Nat \ {0}
      BY SMTT(60)
    <3> QED BY <1>1, <3>1, <3>2
  <2> QED BY <2>2, <2>3
<1> HIDE DEF base, first, added, routing, new
<1>7. got.nextId = new /\ got.routes = routing /\ got.known = base.known \cup added
  BY <1>5
<1>8. got.known \subseteq Operation
  BY <1>1, <1>3, <1>7
<1> HIDE DEF got
<1> QED BY <1>4, <1>6, <1>7, <1>8, Zenon DEF base, first, routing, new

\* A configuration that succeeds, with either answer to what it asks.
ConfigureAnyway(request) ==
    \E others, noCache, software2 \in BOOLEAN : Configure(request, noCache, others, software2)

\* A configuration that succeeds keeps the types.
LEMMA ConfigureTypes ==
    ASSUME PipelineAssumption, TypeOK, NEW request \in Requests, ConfigureAnyway(request)
    PROVE  TypeOK'
<1>0. PICK others \in BOOLEAN, noCache \in BOOLEAN, software2 \in BOOLEAN :
             Configure(request, noCache, others, software2)
  BY DEF ConfigureAnyway
<1> DEFINE base == Base(others)
           got == GetRequiredOperations(base, request)
<1>1. request \in Seq(Metrics) /\ Len(request) \in Nat
  BY ConstantFacts
<1>2. base.nextId + Len(request) <= MaxId + 1
  BY <1>0 DEF Configure, MayBuild
<1>3. base.nextId \in Nat \ {0} /\ base.routes \in [Ids -> Metrics \cup {None}]
      /\ base.anchor \in [Ids -> Anchor \cup {None}]
  BY BaseTypes
<1>4. /\ got.nextId = base.nextId + Len(request)
      /\ got.routes \in [Ids -> Metrics \cup {None}]
  BY <1>1, <1>2, GotTypes
<1>5. operations' \in Seq(Operation)
  BY <1>0, <1>1, <1>2, <1>3, Building DEF Configure, FirstId
<1>6. anchor' \in [Ids -> Anchor \cup {None}]
  <2>1. SoftwareAnchor \in Anchor
    BY DEF SoftwareAnchor, Anchor
  <2>2. \A m \in Metrics : HardwareAnchor(m) \in Anchor
    BY SMTT(60), ConstantFacts DEF HardwareAnchor, Anchor, TypeOK, Time
  <2>3. anchor' = [i \in Ids |->
                     IF i - base.nextId + 1 \in DOMAIN request
                     THEN IF software2 THEN SoftwareAnchor
                          ELSE HardwareAnchor(request[i - base.nextId + 1])
                     ELSE IF got.routes[i] # None THEN None ELSE base.anchor[i]]
    BY <1>0, Zenon DEF Configure, FirstId
  <2>4. \A k \in DOMAIN request : request[k] \in Metrics
    BY <1>1
  <2> HIDE DEF base, got
  <2> QED BY <1>3, <2>1, <2>2, <2>3, <2>4
<1>7. nextId' \in Nat \ {0}
  <2>1. nextId' = got.nextId
    BY <1>0, Zenon DEF Configure
  <2> HIDE DEF base, got
  <2> QED BY SMTT(60), <1>1, <1>3, <1>4, <2>1
<1>8. /\ routes' \in [Ids -> Metrics \cup {None}] /\ replayRoutes' = routes'
      /\ known' \subseteq Operation
      /\ previous' \in [Metrics -> Held \cup {None}] /\ last' \in [Metrics -> Int \cup {None}]
      /\ processed' \in [Metrics -> Seq(Sunk)]
  <2>1. ClearStale(got, base.nextId, request)
    BY <1>0, Zenon DEF Configure, FirstId
  <2>2. [m \in Metrics |-> <<>>] \in [Metrics -> Seq(Sunk)]
    OBVIOUS
  <2> HIDE DEF base, got
  <2> QED BY <1>4, <2>1, <2>2 DEF ClearStale
<1>9. /\ state' \in States /\ uncached' \in BOOLEAN /\ software' \in BOOLEAN
      /\ seen' \in [Events -> Int \cup {None}]
      /\ store' \in Seq(Sample) /\ replayed' \subseteq Metrics
      /\ rebuilt' \in BOOLEAN /\ pauses' \subseteq Time
  <2>1. <<>> \in Seq(Sample)
    OBVIOUS
  <2> QED BY <1>0, <2>1 DEF Configure, States, NothingSeen
<1>10. UNCHANGED <<clockVars, passVars, queue, replay>>
  BY <1>0 DEF Configure
<1> QED
  BY <1>5, <1>6, <1>7, <1>8, <1>9, <1>10 DEF TypeOK, clockVars, passVars

\* A configuration that fails half way keeps the types.
LEMMA FailedConfigureTypes ==
    ASSUME PipelineAssumption, TypeOK, NEW request \in Requests, NEW others \in BOOLEAN,
           NEW k \in 0..Len(request), FailedConfigure(request, others, SubSeq(request, 1, k))
    PROVE  TypeOK'
<1> DEFINE built == SubSeq(request, 1, k)
           base == Base(others)
           got == GetRequiredOperations(base, built)
<1>1. request \in Seq(Metrics) /\ Len(request) \in Nat /\ k \in Nat /\ k <= Len(request)
  BY ConstantFacts
<1>2. built \in Seq(Metrics) /\ Len(built) = k
  BY ONLY <1>1, PartType, SMTT(60)
<1>3. base.nextId \in Nat \ {0} /\ base.nextId + Len(request) <= MaxId + 1
  BY BaseTypes DEF FailedConfigure, MayBuild
<1> HIDE DEF built
<1>4. base.nextId + Len(built) <= MaxId + 1
  <2> HIDE DEF base
  <2>1. MaxId \in Nat
    BY ConstantFacts
  <2> QED BY ONLY <1>1, <1>2, <1>3, <2>1
<1>5. /\ got.nextId \in Nat \ {0} /\ got.routes \in [Ids -> Metrics \cup {None}]
      /\ got.known \subseteq Operation
  BY <1>2, <1>4, GotTypes
<1>6. /\ base.state \in States /\ base.uncached \in BOOLEAN
      /\ base.operations \in Seq(Operation) /\ base.seen \in [Events -> Int \cup {None}]
      /\ base.anchor \in [Ids -> Anchor \cup {None}]
      /\ base.previous \in [Metrics -> Held \cup {None}]
      /\ base.last \in [Metrics -> Int \cup {None}]
      /\ base.processed \in [Metrics -> Seq(Sunk)]
      /\ base.store \in Seq(Sample)
      /\ base.rebuilt \in BOOLEAN /\ base.pauses \subseteq Time
  BY BaseTypes
<1>7. /\ state' = base.state /\ uncached' = base.uncached
      /\ operations' = IF built = request THEN <<>> ELSE base.operations
      /\ seen' = IF built = request THEN NothingSeen ELSE base.seen
      /\ nextId' = got.nextId /\ routes' = got.routes
      /\ replayRoutes' = Routing(replayRoutes, base.nextId, built)
      /\ anchor' = base.anchor /\ known' = got.known
      /\ previous' = base.previous /\ last' = base.last /\ processed' = base.processed
      /\ store' = base.store /\ replayed' = {}
      /\ rebuilt' = base.rebuilt /\ pauses' = base.pauses
      /\ UNCHANGED <<clockVars, software, passVars, queue, replay>>
  BY Zenon DEF FailedConfigure, FirstId, built
<1> HIDE DEF base, got
<1>8. replayRoutes' \in [Ids -> Metrics \cup {None}]
  BY <1>2, <1>3, <1>7, RoutingType DEF TypeOK
<1>9. operations' \in Seq(Operation) /\ seen' \in [Events -> Int \cup {None}]
  BY SMTT(60), <1>6, <1>7 DEF NothingSeen
<1> QED
  BY <1>5, <1>6, <1>7, <1>8, <1>9 DEF TypeOK, clockVars, passVars

\* A configuration that is given up, with either answer to what it asks.
AbandonAnyway(request) ==
    \E others, removed \in BOOLEAN : AbandonedConfigure(request, others, removed)

\* A configuration that is given up keeps the types.
LEMMA AbandonedConfigureTypes ==
    ASSUME PipelineAssumption, TypeOK, NEW request \in Requests, AbandonAnyway(request)
    PROVE  TypeOK'
<1>0. PICK others \in BOOLEAN, removed \in BOOLEAN :
             AbandonedConfigure(request, others, removed)
  BY DEF AbandonAnyway
<1> DEFINE base == Base(others)
           got == GetRequiredOperations(base, request)
<1>1. request \in Seq(Metrics) /\ Len(request) \in Nat
  BY ConstantFacts
<1>2. base.nextId + Len(request) <= MaxId + 1
  BY <1>0 DEF AbandonedConfigure, MayBuild
<1>3. got.nextId \in Nat \ {0} /\ got.routes \in [Ids -> Metrics \cup {None}]
  BY <1>1, <1>2, GotTypes
<1>4. /\ state' = "UNCONFIGURED" /\ uncached' = FALSE
      /\ operations' = <<>> /\ seen' = NothingSeen
      /\ nextId' = got.nextId
      /\ ClearStale(got, base.nextId, <<>>)
      /\ anchor' = [i \in Ids |-> IF got.routes[i] # None THEN None ELSE base.anchor[i]]
      /\ store' = IF removed THEN <<>> ELSE CacheFile
      /\ pauses' = IF removed THEN {} ELSE pauses
      /\ replayed' = {} /\ rebuilt' = FALSE
      /\ UNCHANGED <<clockVars, software, passVars, queue, replay>>
  BY <1>0, Zenon DEF AbandonedConfigure, FirstId
<1> HIDE DEF got
<1>5. /\ routes' \in [Ids -> Metrics \cup {None}] /\ replayRoutes' = routes'
      /\ known' \subseteq Operation
      /\ previous' \in [Metrics -> Held \cup {None}] /\ last' \in [Metrics -> Int \cup {None}]
      /\ processed' \in [Metrics -> Seq(Sunk)]
  <2>1. [m \in Metrics |-> <<>>] \in [Metrics -> Seq(Sunk)]
    OBVIOUS
  <2> QED BY <1>3, <1>4, <2>1 DEF ClearStale
<1>6. store' \in Seq(Sample) /\ pauses' \subseteq Time
  <2>1. CacheFile \in Seq(Sample) /\ pauses \subseteq Time
    BY CacheFileType DEF TypeOK
  <2> QED BY <1>4, <2>1
<1>7. anchor' \in [Ids -> Anchor \cup {None}]
  BY <1>4, BaseTypes
<1>8. state' \in States /\ operations' \in Seq(Operation) /\ seen' \in [Events -> Int \cup {None}]
  BY <1>4 DEF States, NothingSeen
<1> QED
  BY <1>3, <1>4, <1>5, <1>6, <1>7, <1>8 DEF TypeOK, clockVars, passVars

\* A replay keeps the types.
LEMMA ReplayTypes ==
    ASSUME PipelineAssumption, TypeOK,
           \/ \E M \in {{m} : m \in Metrics} \cup {Metrics} : BeginReplay(M)
           \/ LoadBatch \/ EndReplay
    PROVE  TypeOK'
<1> DEFINE Replays == [of: SUBSET Metrics, from: Nat, failed: BOOLEAN]
<1>1. ASSUME NEW M \in {{m} : m \in Metrics} \cup {Metrics}, BeginReplay(M) PROVE TypeOK'
  <2>1. M \subseteq Metrics
    OBVIOUS
  <2>2. [of |-> M, from |-> 0, failed |-> FALSE] \in Replays
    BY <2>1
  <2>3. /\ known' \subseteq Operation
        /\ previous' \in [Metrics -> Held \cup {None}]
        /\ last' \in [Metrics -> Int \cup {None}]
        /\ processed' \in [Metrics -> Seq(Sunk)]
    <3>1. <<>> \in Seq(Sunk)
      OBVIOUS
    <3> QED BY <1>1, <3>1 DEF BeginReplay, ResetMetrics, TypeOK
  <2> QED
    BY <1>1, <2>2, <2>3
    DEF BeginReplay, TypeOK, clockVars, collectorVars, passVars, routeVars
<1>2. CASE LoadBatch
  <2> DEFINE until == IF replay.from + BatchSize <= Len(store) THEN replay.from + BatchSize
                      ELSE Len(store)
             part == SubSeq(store, replay.from + 1, until)
             input == Enqueued(part, replay.of)
  <2>1. replay \in Replays /\ store \in Seq(Sample) /\ Len(store) \in Nat
    BY SMTT(60) DEF TypeOK
  <2>2. replay.from \in Nat /\ replay.of \in SUBSET Metrics
    BY <2>1
  <2>3. until \in Nat /\ until <= Len(store)
    BY <2>1, <2>2, ConstantFacts
  <2>4. /\ queue' = IF input.failed /\ OneOf(replay.of) THEN {} ELSE input.entries
        /\ replay' = [replay EXCEPT !.from = until, !.failed = input.failed]
    BY <1>2, Zenon DEF LoadBatch, ReplayEnd
  <2> HIDE DEF until
  <2>5. part \in Seq(Sample)
    BY SMTT(60), <2>1, <2>2, <2>3, PartType
  <2> HIDE DEF part
  <2>6. input.entries \subseteq Entry /\ input.failed \in BOOLEAN
    BY <2>2, <2>5, EnqueuedType
  <2> HIDE DEF input
  <2>7. queue' \subseteq Entry /\ replay' \in Replays
    BY <2>1, <2>3, <2>4, <2>6
  <2> QED
    BY <1>2, <2>7
    DEF LoadBatch, TypeOK, clockVars, collectorVars, passVars, routeVars, metricVars, storeVars
<1>3. CASE EndReplay
  <2>1. Quiet \in Replays /\ replay \in Replays
    BY DEF Quiet, TypeOK
  <2>2. replay' \in Replays /\ replayed' \subseteq Metrics
    BY <1>3, <2>1 DEF EndReplay, TypeOK
  <2> QED
    BY <1>3, <2>2
    DEF EndReplay, TypeOK, clockVars, collectorVars, passVars, routeVars, metricVars
<1> QED BY <1>1, <1>2, <1>3

\* What a metric sinks for a reading: nothing, or one sample of the time of the reading.
LEMMA SinksType ==
    ASSUME PipelineAssumption, TypeOK, NEW e \in queue
    PROVE  /\ e.metric \in Metrics /\ e.at \in Int /\ [at |-> e.at, taken |-> e.taken] \in Held
           /\ Sinks(e) = <<>> \/ \E since \in Int : Sinks(e) = <<[since |-> since, at |-> e.at]>>
<1>1. e \in Entry
  BY DEF TypeOK
<1>2. e.metric \in Metrics /\ e.at \in Int /\ e.taken \in Time
  BY <1>1 DEF Entry
<1>3. previous[e.metric] # None => previous[e.metric].at \in Int
  BY <1>2 DEF TypeOK, Held
<1>4. Sinks(e) = <<>> \/ \E since \in Int : Sinks(e) = <<[since |-> since, at |-> e.at]>>
  BY <1>2, <1>3 DEF Sinks
<1> QED BY <1>2, <1>4 DEF Held

\* A round of the loop leaves the metrics alone or gives the entry to its metric.
LEMMA Dispatched ==
    ASSUME NEW e \in queue, Dispatch(e)
    PROVE  /\ queue' \subseteq queue
           /\ \/ replay' = replay \/ replay' = [replay EXCEPT !.failed = TRUE]
           /\ \/ reader' = reader /\ next' = next
              \/ reader' = "none" /\ next' = 1
           /\ \/ UNCHANGED <<previous, processed, last>>
              \/ /\ ~IsTimestampRegression(e)
                 /\ last' = [last EXCEPT ![e.metric] = e.at]
                 /\ \/ processed' = processed
                    \/ processed' = [processed EXCEPT ![e.metric] = @ \o Sinks(e)]
                 /\ \/ previous' = previous
                    \/ previous' = [previous EXCEPT ![e.metric] = None]
                    \/ previous' = [previous EXCEPT ![e.metric] = [at |-> e.at, taken |-> e.taken]]
           /\ UNCHANGED <<clockVars, state, uncached, collectorVars, armed, routeVars, known,
                          storeVars, rebuilt, pauses>>
<1>1. queue' \subseteq queue
  BY DEF Dispatch
<1>2. replay' = replay \/ replay' = [replay EXCEPT !.failed = TRUE]
  BY Zenon DEF Dispatch
<1>3. (reader' = reader /\ next' = next) \/ (reader' = "none" /\ next' = 1)
  BY Zenon DEF Dispatch
<1>4. CASE IsTimestampRegression(e) \/ (e.id # Marker /\ Fails(e))
  <2>1. UNCHANGED <<previous, processed, last>>
    BY <1>4, Zenon DEF Dispatch
  <2> QED BY <1>1, <1>2, <1>3, <2>1, Zenon DEF Dispatch
<1>5. CASE ~IsTimestampRegression(e) /\ (e.id = Marker \/ ~Fails(e))
  <2>1. /\ last' = [last EXCEPT ![e.metric] = e.at]
        /\ IF e.id = Marker THEN ProcessPauseSample(e) ELSE ReceiveRawSample(e)
    BY <1>5, Zenon DEF Dispatch
  <2>2. \/ processed' = processed
        \/ processed' = [processed EXCEPT ![e.metric] = @ \o Sinks(e)]
    BY <2>1, Zenon DEF ProcessPauseSample, ReceiveRawSample
  <2>3. \/ previous' = previous
        \/ previous' = [previous EXCEPT ![e.metric] = None]
        \/ previous' = [previous EXCEPT ![e.metric] = [at |-> e.at, taken |-> e.taken]]
    BY <2>1, Zenon DEF ProcessPauseSample, ReceiveRawSample
  <2> QED BY <1>1, <1>2, <1>3, <1>5, <2>1, <2>2, <2>3, Zenon DEF Dispatch
<1> QED BY <1>4, <1>5, Zenon

\* A round of the loop over the queue keeps the types.
LEMMA DispatchTypes ==
    ASSUME PipelineAssumption, TypeOK, NEW e \in queue, Dispatch(e)
    PROVE  TypeOK'
<1> DEFINE Replays == [of: SUBSET Metrics, from: Nat, failed: BOOLEAN]
<1>1. e.metric \in Metrics /\ e.at \in Int /\ [at |-> e.at, taken |-> e.taken] \in Held
  BY SinksType
<1>2. queue' \subseteq Entry
  BY Dispatched DEF TypeOK
<1>3. replay' \in Replays
  <2>1. replay' = replay \/ replay' = [replay EXCEPT !.failed = TRUE]
    BY Dispatched, Zenon
  <2> QED BY <2>1 DEF TypeOK
<1>4. reader' \in {"none", "sampler", "caller"} /\ next' \in Nat \ {0}
  <2>1. (reader' = reader /\ next' = next) \/ (reader' = "none" /\ next' = 1)
    BY Dispatched, Zenon
  <2> QED BY SMTT(60), <2>1 DEF TypeOK
<1>5. last' \in [Metrics -> Int \cup {None}]
  <2>1. last' = last \/ last' = [last EXCEPT ![e.metric] = e.at]
    BY Dispatched, Zenon
  <2> QED BY <1>1, <2>1 DEF TypeOK
<1>6. previous' \in [Metrics -> Held \cup {None}]
  <2>1. \/ previous' = previous
        \/ previous' = [previous EXCEPT ![e.metric] = None]
        \/ previous' = [previous EXCEPT ![e.metric] = [at |-> e.at, taken |-> e.taken]]
    BY Dispatched, Zenon
  <2> DEFINE h == [at |-> e.at, taken |-> e.taken]
  <2>2. h \in Held /\ previous \in [Metrics -> Held \cup {None}]
    BY <1>1 DEF TypeOK
  <2>3. \/ previous' = previous
        \/ previous' = [previous EXCEPT ![e.metric] = None]
        \/ previous' = [previous EXCEPT ![e.metric] = h]
    BY <2>1, Zenon
  <2> HIDE DEF h
  <2> QED BY ZenonT(60), <2>2, <2>3
<1>7. processed' \in [Metrics -> Seq(Sunk)]
  <2>1. Sinks(e) \in Seq(Sunk)
    <3>1. \A since \in Int : <<[since |-> since, at |-> e.at]>> \in Seq(Sunk)
      BY <1>1 DEF Sunk
    <3>2. CASE Sinks(e) = <<>>
      BY <3>2
    <3>3. ASSUME NEW since \in Int, Sinks(e) = <<[since |-> since, at |-> e.at]>>
          PROVE  Sinks(e) \in Seq(Sunk)
      BY <3>1, <3>3
    <3> QED BY <3>2, <3>3, SinksType
  <2>2. processed[e.metric] \o Sinks(e) \in Seq(Sunk)
    BY <1>1, <2>1, ConcatProperties DEF TypeOK
  <2>3. processed' = processed \/ processed' = [processed EXCEPT ![e.metric] = @ \o Sinks(e)]
    BY Dispatched, Zenon
  <2>4. processed \in [Metrics -> Seq(Sunk)]
    BY DEF TypeOK
  <2> DEFINE more == processed[e.metric] \o Sinks(e)
  <2>5. processed' = processed \/ processed' = [processed EXCEPT ![e.metric] = more]
    BY <2>3
  <2>6. more \in Seq(Sunk)
    BY <2>2
  <2> HIDE DEF more
  <2> QED BY ZenonT(60), <2>4, <2>5, <2>6
<1>8. UNCHANGED <<clockVars, state, uncached, collectorVars, armed, routeVars, known,
                  storeVars, rebuilt, pauses>>
  BY Dispatched, Zenon
<1> QED
  BY <1>2, <1>3, <1>4, <1>5, <1>6, <1>7, <1>8
  DEF TypeOK, clockVars, collectorVars, routeVars, storeVars

\* Every step of the pipeline keeps the types.
LEMMA TypeStep ==
    ASSUME PipelineAssumption, TypeOK, Passes, Next
    PROVE  TypeOK'
<1>1. CASE Tick \/ (\E e \in Events : FirmwareUpdate(e)) \/ Wake \/ BeginPass \/ CallerRead
  BY <1>1, WorldTypes
<1>2. CASE ReadOperation
  BY <1>2, ReadTypes
<1>3. CASE Pause \/ Resume
  BY <1>3, MarkerTypes
<1>4. CASE Start \/ Stop \/ FailedReset
  BY <1>4, StopTypes
<1>5. CASE \E request \in Requests : Configuring(request)
  <2>1. PICK request \in Requests : Configuring(request)
    BY <1>5
  <2>2. ASSUME NEW others \in BOOLEAN, NEW k \in 0..Len(request),
               FailedConfigure(request, others, SubSeq(request, 1, k))
        PROVE  TypeOK'
    BY <2>2, FailedConfigureTypes, Zenon
  <2>3. ASSUME ConfigureAnyway(request) PROVE TypeOK'
    BY <2>3, ConfigureTypes, ZenonT(60)
  <2>4. ASSUME AbandonAnyway(request) PROVE TypeOK'
    BY <2>4, AbandonedConfigureTypes, Zenon
  <2> QED
    BY <2>1, <2>2, <2>3, <2>4, Zenon DEF Configuring, ConfigureAnyway, AbandonAnyway
<1>6. CASE \/ \E M \in {{m} : m \in Metrics} \cup {Metrics} : BeginReplay(M)
           \/ LoadBatch \/ EndReplay
  BY <1>6, ReplayTypes
<1>7. CASE \E e \in queue : Dispatch(e)
  BY <1>7, DispatchTypes
<1> QED BY <1>1, <1>2, <1>3, <1>4, <1>5, <1>6, <1>7, Zenon DEF Next, Configuring

-----------------------------------------------------------------------------
(* A sampling pass never goes past the operations of the collector.         *)

\* Every step leaves a pass at an operation, or ends it.
LEMMA PassesStep ==
    ASSUME PipelineAssumption, TypeOK, Passes, Next
    PROVE  Passes'
<1> USE DEF Passes, clockVars, collectorVars, passVars, routeVars, metricVars, storeVars
<1>1. CASE \/ Tick \/ (\E e \in Events : FirmwareUpdate(e))
           \/ (\E M \in {{m} : m \in Metrics} \cup {Metrics} : BeginReplay(M))
           \/ LoadBatch \/ EndReplay
  <2>1. UNCHANGED <<state, operations, armed, reader, next>>
    BY <1>1 DEF Tick, FirmwareUpdate, BeginReplay, LoadBatch, EndReplay
  <2> QED BY <2>1
<1>2. CASE Wake
  BY <1>2 DEF Wake, Running
<1>3. CASE BeginPass
  BY <1>3 DEF BeginPass, MayControl, TypeOK
<1>4. CASE CallerRead
  BY <1>4 DEF CallerRead, MayControl, TypeOK
<1>5. CASE ReadOperation
  BY SMTT(60), <1>5 DEF ReadOperation, TypeOK
<1>6. CASE Pause \/ Resume
  BY <1>6 DEF Pause, Resume, Running
<1>7. CASE Start
  BY <1>7 DEF Start, Running
<1>8. CASE Stop \/ FailedReset
  BY <1>8 DEF Stop, FailedReset, MayFailToConfigure, MayConfigure, MayControl, Running
<1>9. CASE \E request \in Requests : Configuring(request)
  <2>1. PICK request \in Requests : Configuring(request)
    BY <1>9
  <2>2. MayConfigure /\ UNCHANGED passVars /\ state' \notin Running
    <3>1. ASSUME NEW others \in BOOLEAN, NEW k \in 0..Len(request),
                 FailedConfigure(request, others, SubSeq(request, 1, k))
          PROVE  MayConfigure /\ UNCHANGED passVars /\ state' \notin Running
      <4>1. MayConfigure /\ UNCHANGED passVars /\ state' = Base(others).state
        BY <3>1, Zenon DEF FailedConfigure, MayFailToConfigure
      <4> QED BY <4>1 DEF Base, MayConfigure, Running
    <3>2. ASSUME NEW others \in BOOLEAN, NEW noCache \in BOOLEAN, NEW software2 \in BOOLEAN,
                 Configure(request, noCache, others, software2)
          PROVE  MayConfigure /\ UNCHANGED passVars /\ state' \notin Running
      BY <3>2 DEF Configure, Running
    <3>3. ASSUME NEW others \in BOOLEAN, NEW removed \in BOOLEAN,
                 AbandonedConfigure(request, others, removed)
          PROVE  MayConfigure /\ UNCHANGED passVars /\ state' \notin Running
      BY <3>3 DEF AbandonedConfigure, MayFailToConfigure, Running
    <3> QED BY <2>1, <3>1, <3>2, <3>3, Zenon DEF Configuring
  <2> QED BY <2>2 DEF MayConfigure, MayControl
<1>10. CASE \E e \in queue : Dispatch(e)
  <2>1. PICK e \in queue : Dispatch(e)
    BY <1>10
  <2>2. (reader' = reader /\ next' = next) \/ (reader' = "none" /\ next' = 1)
    BY <2>1, Dispatched, Zenon
  <2>3. UNCHANGED <<state, collectorVars, armed>>
    BY <2>1, Zenon DEF Dispatch
  <2> QED BY <2>2, <2>3
<1> HIDE DEF Passes
<1> QED
  BY <1>1, <1>2, <1>3, <1>4, <1>5, <1>6, <1>7, <1>8, <1>9, <1>10, Zenon
  DEF Next, Configuring

-----------------------------------------------------------------------------
(* Readings stay with their metric.                                         *)

\* Operations and kept readings have ids.
LEMMA IdsInUse ==
    ASSUME PipelineAssumption, TypeOK
    PROVE  /\ \A n \in DOMAIN operations : operations[n].id \in Ids
           /\ \A i \in DOMAIN store : store[i].id # Marker => store[i].id \in Ids
<1>1. \A n \in DOMAIN operations : operations[n] \in Operation
  BY DEF TypeOK
<1>2. \A i \in DOMAIN store : store[i] \in Sample
  BY DEF TypeOK
<1>3. \A s \in Sample : s.id # Marker => s.id \in Ids
  BY SampleTypes
<1> QED BY <1>1, <1>2, <1>3 DEF Operation

\* Who touches neither operations nor routes keeps Owned.
LEMMA StillOwned ==
    ASSUME Owned, UNCHANGED <<operations, routeVars>>
    PROVE  Owned'
BY DEF Owned, routeVars

\* Who touches no route keeps the readings there were, and adds routed ones.
LEMMA StillKept ==
    ASSUME Kept, UNCHANGED routeVars, state' # "UNCONFIGURED" => state # "UNCONFIGURED",
           \A i \in DOMAIN store' :
               \/ i \in DOMAIN store /\ store'[i] = store[i]
               \/ Routed(store'[i])
    PROVE  Kept'
BY DEF Kept, Routed, routeVars

\* A delivery adds at most the sample to the store.
LEMMA Delivered ==
    ASSUME TypeOK, NEW s \in Sample, Deliver(s)
    PROVE  \A i \in DOMAIN store' :
               \/ i \in DOMAIN store /\ store'[i] = store[i]
               \/ store'[i] = s
<1>1. CASE store' = store
  BY <1>1
<1>2. CASE store' = Append(store, s)
  <2>1. store \in Seq(Sample)
    BY DEF TypeOK
  <2>2. /\ Len(store') = Len(store) + 1 /\ DOMAIN store' = 1..Len(store')
        /\ \A i \in 1..Len(store) : store'[i] = store[i]
        /\ store'[Len(store) + 1] = s
    BY <1>2, <2>1, AppendProperties
  <2> QED BY <2>1, <2>2
<1> QED BY <1>1, <1>2 DEF Deliver, storeVars

\* A reading is routed as its operation is.
LEMMA ReadKeeps ==
    ASSUME PipelineAssumption, TypeOK, Passes, Owned, Kept, ReadOperation
    PROVE  Kept'
<1> DEFINE o == operations[next]
<1>1. next \in DOMAIN operations /\ o.id \in Ids /\ o.metric \in Metrics
  BY Reading
<1>2. /\ o.id < nextId /\ routes[o.id] = o.metric /\ replayRoutes[o.id] = o.metric
      /\ routes[o.id] # None /\ anchor[o.id] # None
  BY <1>1, ConstantFacts DEF Owned
<1>3. UNCHANGED <<routeVars, state>>
  BY DEF ReadOperation
<1>4. CASE UNCHANGED <<queue, storeVars>>
  BY <1>3, <1>4, StillKept DEF storeVars
<1>5. ASSUME NEW s \in Sample, s.id = o.id, s.of = o.metric, Deliver(s) PROVE Kept'
  <2>1. Routed(s)
    BY <1>2, <1>5 DEF Routed
  <2>2. \A i \in DOMAIN store' :
            \/ i \in DOMAIN store /\ store'[i] = store[i]
            \/ Routed(store'[i])
    BY <1>5, <2>1, Delivered
  <2> QED BY <1>3, <2>2, StillKept
<1> QED BY <1>4, <1>5, Reading

\* A marker needs no route.
LEMMA MarkerKeeps ==
    ASSUME PipelineAssumption, TypeOK, Kept, Pause \/ Resume
    PROVE  Kept'
<1> DEFINE s(mark) == MarkerSample(mark)
<1>1. PICK mark \in Marks : Deliver(s(mark))
  BY DEF Pause, Resume, Marks
<1>2. s(mark) \in Sample
  BY DEF MarkerSample, Sample, TypeOK
<1>3. Routed(s(mark))
  BY DEF MarkerSample, Routed
<1>4. UNCHANGED routeVars /\ state # "UNCONFIGURED"
  BY DEF Pause, Resume
<1> HIDE DEF s
<1>5. \A i \in DOMAIN store' :
          \/ i \in DOMAIN store /\ store'[i] = store[i]
          \/ Routed(store'[i])
  BY <1>1, <1>2, <1>3, Delivered
<1> QED BY <1>4, <1>5, StillKept

\* A complete configuration routes its operations, with nothing in the store.
LEMMA ConfigureKeeps ==
    ASSUME PipelineAssumption, TypeOK, NEW request \in Requests, ConfigureAnyway(request)
    PROVE  Owned' /\ Kept'
<1>0. PICK others \in BOOLEAN, noCache \in BOOLEAN, software2 \in BOOLEAN :
             Configure(request, noCache, others, software2)
  BY DEF ConfigureAnyway
<1> DEFINE base == Base(others)
           first == base.nextId
           got == GetRequiredOperations(base, request)
<1>1. request \in Seq(Metrics) /\ Len(request) \in Nat
  BY ConstantFacts
<1>2. first + Len(request) <= MaxId + 1
  BY <1>0 DEF Configure, MayBuild
<1>3. first \in Nat \ {0} /\ base.routes \in [Ids -> Metrics \cup {None}]
  BY BaseTypes
<1>4. got.nextId = first + Len(request) /\ got.routes = Routing(base.routes, first, request)
  BY <1>1, <1>2, GotTypes
<1>5. /\ operations' = OperationsOf(request, first) /\ nextId' = got.nextId
      /\ routes' = [i \in Ids |-> IF i - first + 1 \in DOMAIN request THEN got.routes[i]
                                  ELSE None]
      /\ replayRoutes' = routes'
      /\ anchor' = [i \in Ids |->
                      IF i - first + 1 \in DOMAIN request
                      THEN IF software2 THEN SoftwareAnchor
                           ELSE HardwareAnchor(request[i - first + 1])
                      ELSE IF got.routes[i] # None THEN None ELSE base.anchor[i]]
      /\ store' = <<>>
  BY <1>0, Zenon DEF Configure, ClearStale, FirstId
<1> HIDE DEF got, first, base
<1>6. SoftwareAnchor # None /\ \A m \in Metrics : HardwareAnchor(m) # None
  <2>1. SoftwareAnchor \in Anchor
    BY DEF SoftwareAnchor, Anchor
  <2>2. \A m \in Metrics : HardwareAnchor(m) \in Anchor
    BY ConstantFacts DEF HardwareAnchor, Anchor, TypeOK, Time
  <2>3. None \notin Anchor
    BY DEF PipelineAssumption, Anchor
  <2> QED BY SMTT(60), <2>1, <2>2, <2>3
<1>7. ASSUME NEW k \in DOMAIN operations'
      PROVE  LET o == operations'[k]
             IN  /\ o.id < nextId'
                 /\ routes'[o.id] = o.metric /\ replayRoutes'[o.id] = o.metric
                 /\ anchor'[o.id] # None
  <2> DEFINE new == OperationsOf(request, first)
             id == first + k - 1
  <2>0. new \in Seq(Operation) /\ Len(new) = Len(request)
        /\ \A n \in DOMAIN new : new[n] = [id |-> first + n - 1, metric |-> request[n]]
    <3>1. first \in Nat \ {0} /\ request \in Seq(Metrics) /\ first + Len(request) <= MaxId + 1
      BY <1>1, <1>2, <1>3
    <3>2. new \in Seq(Operation) /\ Len(new) = Len(request)
      BY ONLY PipelineAssumption, <3>1, Building, Zenon
    <3>3. \A n \in DOMAIN new : new[n] = [id |-> first + n - 1, metric |-> request[n]]
      BY ONLY TRUE DEF OperationsOf
    <3> QED BY <3>2, <3>3
  <2>1. k \in 1..Len(request) /\ operations'[k] = [id |-> id, metric |-> request[k]]
    <3> HIDE DEF new
    <3> QED BY <1>5, <1>7, <2>0, SMTT(60) DEF new
  <2>2. id \in Ids /\ id - first + 1 = k /\ id < first + Len(request)
    BY <1>1, <1>2, <1>3, <2>1, IdInRange
  <2>3. k \in DOMAIN request /\ request[k] \in Metrics
    BY <1>1, <2>1
  <2> HIDE DEF id
  <2>4. got.routes[id] = request[k]
    BY <1>4, <2>2, <2>3 DEF Routing
  <2>5. routes'[id] = request[k] /\ replayRoutes'[id] = request[k] /\ anchor'[id] # None
    BY <1>5, <1>6, <2>2, <2>3, <2>4
  <2> QED BY <1>4, <1>5, <2>1, <2>2, <2>5 DEF id
<1>8. Owned'
  BY <1>7, Zenon DEF Owned
<1>9. Kept'
  BY <1>5 DEF Kept
<1> QED BY <1>8, <1>9

\* A configuration that fails half way keeps the routes of the operations there were,
\* or there is no operation left and no sample.
LEMMA FailedConfigureKeeps ==
    ASSUME PipelineAssumption, TypeOK, Owned, Kept,
           NEW request \in Requests, NEW others \in BOOLEAN,
           NEW k \in 0..Len(request), FailedConfigure(request, others, SubSeq(request, 1, k))
    PROVE  Owned' /\ Kept'
<1> DEFINE built == SubSeq(request, 1, k)
           base == Base(others)
           got == GetRequiredOperations(base, built)
<1>1. request \in Seq(Metrics) /\ Len(request) \in Nat /\ k \in Nat /\ k <= Len(request)
  BY ConstantFacts
<1>2. built \in Seq(Metrics) /\ Len(built) = k
  BY ONLY <1>1, PartType, SMTT(60)
<1>3. base.nextId \in Nat \ {0} /\ base.nextId + Len(request) <= MaxId + 1
  BY BaseTypes DEF FailedConfigure, MayBuild
<1> HIDE DEF built
<1>4. base.nextId + Len(built) <= MaxId + 1
  <2> HIDE DEF base
  <2>1. MaxId \in Nat
    BY ConstantFacts
  <2> QED BY ONLY <1>1, <1>2, <1>3, <2>1
<1>5. /\ got.nextId = base.nextId + Len(built)
      /\ got.routes = Routing(base.routes, base.nextId, built)
  BY <1>2, <1>4, GotTypes
<1>6. /\ state' = base.state
      /\ operations' = IF built = request THEN <<>> ELSE base.operations
      /\ nextId' = got.nextId /\ routes' = got.routes
      /\ replayRoutes' = Routing(replayRoutes, base.nextId, built)
      /\ anchor' = base.anchor /\ store' = base.store
  BY Zenon DEF FailedConfigure, FirstId, built
<1>7. CASE others
  <2>1. /\ base.state = state /\ base.operations = operations /\ base.nextId = nextId
        /\ base.routes = routes /\ base.anchor = anchor /\ base.store = store
    BY <1>7 DEF Base
  <2> HIDE DEF base, got
  <2>2. nextId \in Nat /\ nextId' = nextId + k
    BY <1>2, <1>3, <1>5, <1>6, <2>1
  <2>3. ASSUME NEW i \in Ids, i < nextId
        PROVE  routes'[i] = routes[i] /\ replayRoutes'[i] = replayRoutes[i] /\ i < nextId'
    <3>1. i - nextId + 1 \notin DOMAIN built
      BY SMTT(60), <1>2, <2>2, <2>3 DEF Ids
    <3>2. i < nextId'
      BY <1>1, <2>2, <2>3 DEF Ids
    <3> QED BY <1>5, <1>6, <2>1, <3>1, <3>2 DEF Routing
  <2>4. Owned'
    <3>1. operations' = <<>> \/ operations' = operations
      BY <1>6, <2>1
    <3>2. anchor' = anchor
      BY <1>6, <2>1
    <3>3. CASE operations' = <<>>
      BY <3>3 DEF Owned
    <3>4. CASE operations' = operations
      <4>1. SUFFICES ASSUME NEW n \in DOMAIN operations
                     PROVE  LET o == operations[n]
                            IN  /\ o.id < nextId'
                                /\ routes'[o.id] = o.metric /\ replayRoutes'[o.id] = o.metric
                                /\ anchor'[o.id] # None
        BY <3>4, Zenon DEF Owned
      <4>2. operations[n].id \in Ids
        BY IdsInUse
      <4> QED BY <2>3, <3>2, <4>2 DEF Owned
    <3> QED BY <3>1, <3>3, <3>4
  <2>5. Kept'
    <3>1. store' = store /\ state' = state /\ anchor' = anchor
      BY <1>6, <2>1
    <3> QED BY <2>3, <3>1, IdsInUse DEF Kept, Routed
  <2> QED BY <2>4, <2>5
<1>8. CASE ~others
  <2>1. operations' = <<>> /\ store' = <<>>
    BY <1>6, <1>8 DEF Base
  <2> QED BY <2>1 DEF Owned, Kept
<1> QED BY <1>7, <1>8

\* A configuration that is given up leaves no operation and no route.
LEMMA AbandonedConfigureKeeps ==
    ASSUME PipelineAssumption, TypeOK, Kept, NEW request \in Requests, AbandonAnyway(request)
    PROVE  Owned' /\ Kept'
<1>0. PICK others \in BOOLEAN, removed \in BOOLEAN :
             AbandonedConfigure(request, others, removed)
  BY DEF AbandonAnyway
<1> DEFINE base == Base(others)
           got == GetRequiredOperations(base, request)
<1>1. request \in Seq(Metrics) /\ Len(request) \in Nat
  BY ConstantFacts
<1>2. base.nextId + Len(request) <= MaxId + 1
  BY <1>0 DEF AbandonedConfigure, MayBuild
<1>3. got.nextId = base.nextId + Len(request)
  BY <1>1, <1>2, GotTypes
<1>4. /\ state' = "UNCONFIGURED" /\ operations' = <<>> /\ nextId' = got.nextId
      /\ ClearStale(got, base.nextId, <<>>)
      /\ store' = IF removed THEN <<>> ELSE CacheFile
  BY <1>0, Zenon DEF AbandonedConfigure, FirstId
<1>5. ~removed => base.nextId = nextId
  BY <1>0 DEF AbandonedConfigure, Base
<1> HIDE DEF got, base
<1>6. \A i \in Ids : routes'[i] = None /\ replayRoutes'[i] = None
  BY <1>4 DEF ClearStale
<1>7. Owned'
  BY <1>4 DEF Owned
<1>8. CASE removed
  BY <1>4, <1>7, <1>8 DEF Kept
<1>9. CASE ~removed
  <2>1. \A i \in DOMAIN store' : i \in DOMAIN store /\ store'[i] = store[i]
    <3>1. store' = CacheFile
      BY <1>4, <1>9
    <3> QED BY <3>1, CacheFileType, Zenon
  <2>2. ASSUME NEW i \in DOMAIN store, store[i].id # Marker
        PROVE  store[i].id \in Ids /\ store[i].id < nextId'
    <3>1. store[i].id \in Ids /\ store[i].id < nextId
      BY <2>2, IdsInUse DEF Kept, Routed
    <3>2. nextId \in Nat /\ nextId' = nextId + Len(request)
      BY <1>3, <1>4, <1>5, <1>9 DEF TypeOK
    <3>3. store[i].id \in Nat /\ Len(request) \in Nat
      BY ONLY <1>1, <3>1 DEF Ids
    <3> QED BY ONLY <3>1, <3>2, <3>3
  <2>3. Kept'
    BY <1>4, <1>6, <2>1, <2>2 DEF Kept, Routed
  <2> QED BY <1>7, <2>3
<1> QED BY <1>8, <1>9

\* Every step keeps operations and readings routed.
LEMMA RoutesStep ==
    ASSUME PipelineAssumption, TypeOK, Passes, Owned, Kept, Next
    PROVE  Owned' /\ Kept'
<1>1. CASE \/ Tick \/ (\E e \in Events : FirmwareUpdate(e)) \/ Wake \/ BeginPass \/ CallerRead
           \/ Stop \/ (\E M \in {{m} : m \in Metrics} \cup {Metrics} : BeginReplay(M))
           \/ LoadBatch \/ EndReplay \/ (\E e \in queue : Dispatch(e))
  <2>1. UNCHANGED <<operations, routeVars, store>>
        /\ (state' # "UNCONFIGURED" => state # "UNCONFIGURED")
    BY <1>1
    DEF Tick, FirmwareUpdate, Wake, BeginPass, CallerRead, Stop, BeginReplay, LoadBatch,
        EndReplay, Dispatch, collectorVars, storeVars, Running
  <2> QED BY <2>1, StillOwned, StillKept
<1>2. CASE ReadOperation
  <2>1. UNCHANGED <<operations, routeVars>>
    BY <1>2 DEF ReadOperation
  <2> QED BY <1>2, <2>1, ReadKeeps, StillOwned
<1>3. CASE Pause \/ Resume
  <2>1. UNCHANGED <<operations, routeVars>>
    BY <1>3 DEF Pause, Resume, collectorVars
  <2> QED BY <1>3, <2>1, MarkerKeeps, StillOwned
<1>4. CASE Start
  <2>1. UNCHANGED <<operations, routeVars>> /\ store' = CacheFile /\ state # "UNCONFIGURED"
    BY <1>4 DEF Start
  <2> QED BY <2>1, CacheFileType, StillOwned, StillKept
<1>5. CASE FailedReset
  <2>1. UNCHANGED routeVars /\ store' = CacheFile /\ state' = "UNCONFIGURED" /\ operations' = <<>>
    BY <1>5 DEF FailedReset
  <2>2. Owned'
    BY <2>1 DEF Owned
  <2> QED BY <2>1, <2>2, CacheFileType, StillKept
<1>6. CASE \E request \in Requests : Configuring(request)
  <2>1. PICK request \in Requests : Configuring(request)
    BY <1>6
  <2>2. ASSUME NEW others \in BOOLEAN, NEW k \in 0..Len(request),
               FailedConfigure(request, others, SubSeq(request, 1, k))
        PROVE  Owned' /\ Kept'
    BY <2>2, FailedConfigureKeeps, Zenon
  <2>3. ASSUME ConfigureAnyway(request) PROVE Owned' /\ Kept'
    BY <2>3, ConfigureKeeps, ZenonT(60)
  <2>4. ASSUME AbandonAnyway(request) PROVE Owned' /\ Kept'
    BY <2>4, AbandonedConfigureKeeps, Zenon
  <2> QED
    BY <2>1, <2>2, <2>3, <2>4, Zenon DEF Configuring, ConfigureAnyway, AbandonAnyway
<1> QED BY <1>1, <1>2, <1>3, <1>4, <1>5, <1>6, Zenon DEF Next, Configuring

-----------------------------------------------------------------------------
(* Samples stay in order.                                                   *)

\* Metrics that have sunk nothing, beside metrics that are left alone.
LEMMA StillInOrder ==
    ASSUME InOrder,
           \A m \in Metrics :
               \/ processed'[m] = processed[m] /\ last'[m] = last[m]
               \/ processed'[m] = <<>>
    PROVE  InOrder'
<1>1. Bounded'
  BY DEF InOrder, Bounded
<1>2. SamplesInOrder'
  BY DEF InOrder, SamplesInOrder
<1> QED BY <1>1, <1>2 DEF InOrder

\* A sample that is not earlier than those before it may be added.
LEMMA AppendInOrder ==
    ASSUME NEW s \in Seq(Sunk), NEW x \in Sunk,
           \A i \in DOMAIN s : s[i].at <= x.at,
           \A i, j \in DOMAIN s : i < j => s[i].at <= s[j].at
    PROVE  LET t == Append(s, x)
           IN  /\ \A i \in DOMAIN t : t[i].at <= x.at
               /\ \A i, j \in DOMAIN t : i < j => t[i].at <= t[j].at
<1> DEFINE t == Append(s, x)
           l == Len(s)
<1>1. /\ l \in Nat /\ DOMAIN s = 1..l /\ DOMAIN t = 1..(l + 1)
      /\ \A i \in 1..l : t[i] = s[i]
      /\ t[l + 1] = x
  BY AppendProperties
<1>2. x.at \in Int
  BY DEF Sunk
<1> HIDE DEF t, l
<1>3. \A i \in DOMAIN t : t[i].at <= x.at
  <2>1. TAKE i \in DOMAIN t
  <2>2. i \in 1..l \/ i = l + 1
    BY <1>1
  <2> QED BY <1>1, <1>2, <2>2
<1>4. ASSUME NEW i \in DOMAIN t, NEW j \in DOMAIN t, i < j
      PROVE  t[i].at <= t[j].at
  <2>1. i \in 1..l
    BY <1>1, <1>4
  <2>2. j \in 1..l \/ j = l + 1
    BY <1>1
  <2> QED BY <1>1, <1>4, <2>1, <2>2
<1> QED BY <1>3, <1>4 DEF t

\* The loop over the queue drops what is late.
LEMMA DispatchInOrder ==
    ASSUME PipelineAssumption, TypeOK, InOrder, NEW e \in queue, Dispatch(e)
    PROVE  InOrder'
<1> DEFINE n == e.metric
           old == processed[n]
<1>1. n \in Metrics /\ e.at \in Int
  BY SinksType
<1>2. /\ processed \in [Metrics -> Seq(Sunk)] /\ last \in [Metrics -> Int \cup {None}]
      /\ old \in Seq(Sunk)
  BY <1>1 DEF TypeOK
<1>3. CASE UNCHANGED <<previous, processed, last>>
  BY <1>3, StillInOrder
<1>4. CASE /\ ~IsTimestampRegression(e)
           /\ last' = [last EXCEPT ![n] = e.at]
           /\ processed' = processed \/ processed' = [processed EXCEPT ![n] = @ \o Sinks(e)]
  <2>1. last'[n] = e.at /\ \A m \in Metrics \ {n} : last'[m] = last[m] /\ processed'[m] = processed[m]
    BY <1>1, <1>2, <1>4
  <2>2. ASSUME NEW i \in DOMAIN old
        PROVE  old[i].at <= e.at
    <3>1. last[n] # None /\ last[n] \in Int /\ old[i].at <= last[n]
      BY <1>1, <1>2, <2>2 DEF InOrder, Bounded
    <3>2. last[n] <= e.at
      BY SMTT(60), <1>1, <1>4, <3>1 DEF IsTimestampRegression
    <3>3. old[i].at \in Int
      <4>1. old[i] \in Sunk
        BY SMTT(60), <1>2, <2>2
      <4> QED BY <4>1 DEF Sunk
    <3> QED BY <1>1, <3>1, <3>2, <3>3, SMTT(60)
  <2>3. \/ processed'[n] = old
        \/ \E since \in Int : processed'[n] = Append(old, [since |-> since, at |-> e.at])
    <3>1. CASE processed' = processed
      BY <3>1
    <3>2. CASE processed' = [processed EXCEPT ![n] = @ \o Sinks(e)]
      <4>1. processed'[n] = old \o Sinks(e)
        BY <1>1, <1>2, <3>2
      <4>2. CASE Sinks(e) = <<>>
        BY <1>2, <4>1, <4>2, ConcatEmptySeq
      <4>3. ASSUME NEW since \in Int, Sinks(e) = <<[since |-> since, at |-> e.at]>>
            PROVE  processed'[n] = Append(old, [since |-> since, at |-> e.at])
        BY <1>2, <4>1, <4>3, SMTT(60)
      <4> QED BY <4>2, <4>3, SinksType
    <3> QED BY <1>4, <3>1, <3>2
  <2>4. /\ \A i \in DOMAIN processed'[n] : processed'[n][i].at <= e.at
        /\ \A i, j \in DOMAIN processed'[n] :
             i < j => processed'[n][i].at <= processed'[n][j].at
    <3>1. \A i, j \in DOMAIN old : i < j => old[i].at <= old[j].at
      BY <1>1 DEF InOrder, SamplesInOrder
    <3>2. CASE processed'[n] = old
      BY <2>2, <3>1, <3>2
    <3>3. ASSUME NEW since \in Int, processed'[n] = Append(old, [since |-> since, at |-> e.at])
          PROVE  /\ \A i \in DOMAIN processed'[n] : processed'[n][i].at <= e.at
                 /\ \A i, j \in DOMAIN processed'[n] :
                      i < j => processed'[n][i].at <= processed'[n][j].at
      <4> DEFINE x == [since |-> since, at |-> e.at]
      <4>1. x \in Sunk /\ x.at = e.at
        BY <1>1 DEF Sunk
      <4> HIDE DEF x
      <4>2. processed'[n] = Append(old, x)
        BY <3>3 DEF x
      <4> HIDE DEF old
      <4> QED BY <1>2, <2>2, <3>1, <4>1, <4>2, AppendInOrder
    <3> QED BY <2>3, <3>2, <3>3
  <2>5. e.at # None
    BY <1>1, ConstantFacts
  <2>6. Bounded'
    BY <1>1, <2>1, <2>4, <2>5 DEF InOrder, Bounded
  <2>7. SamplesInOrder'
    BY <1>1, <2>1, <2>4 DEF InOrder, SamplesInOrder
  <2> QED BY <2>6, <2>7 DEF InOrder
<1> QED BY <1>3, <1>4, Dispatched, Zenon

\* Every step keeps the samples in order.
LEMMA OrderStep ==
    ASSUME PipelineAssumption, TypeOK, InOrder, Next
    PROVE  InOrder'
<1>1. CASE \/ Tick \/ (\E e \in Events : FirmwareUpdate(e)) \/ Wake \/ BeginPass \/ CallerRead
           \/ ReadOperation \/ Pause \/ Resume \/ Start \/ Stop \/ LoadBatch \/ EndReplay
  <2>1. UNCHANGED <<processed, last>>
    BY <1>1
    DEF Tick, FirmwareUpdate, Wake, BeginPass, CallerRead, ReadOperation, Pause, Resume, Start,
        Stop, LoadBatch, EndReplay, metricVars
  <2> QED BY SMTT(60), <2>1, StillInOrder
<1>2. CASE FailedReset
  <2>1. \A m \in Metrics : processed'[m] = <<>>
    BY <1>2 DEF FailedReset
  <2> QED BY <2>1, StillInOrder
<1>3. CASE \E request \in Requests : Configuring(request)
  <2>1. PICK request \in Requests : Configuring(request)
    BY <1>3
  <2>2. ASSUME NEW others \in BOOLEAN, NEW k \in 0..Len(request),
               FailedConfigure(request, others, SubSeq(request, 1, k))
        PROVE  InOrder'
    <3>1. processed' = Base(others).processed /\ last' = Base(others).last
      BY <2>2, Zenon DEF FailedConfigure
    <3>2. \A m \in Metrics :
              \/ processed'[m] = processed[m] /\ last'[m] = last[m]
              \/ processed'[m] = <<>>
      BY <3>1 DEF Base
    <3> QED BY <3>2, StillInOrder
  <2>3. ASSUME NEW others \in BOOLEAN,
               \E noCache, software2 \in BOOLEAN : Configure(request, noCache, others, software2)
        PROVE  InOrder'
    <3>1. processed' = [m \in Metrics |-> <<>>]
      BY <2>3, Zenon DEF Configure, ClearStale
    <3> QED BY <3>1, StillInOrder
  <2>4. ASSUME NEW others \in BOOLEAN, NEW removed \in BOOLEAN,
               AbandonedConfigure(request, others, removed)
        PROVE  InOrder'
    <3>1. processed' = [m \in Metrics |-> <<>>]
      BY <2>4, Zenon DEF AbandonedConfigure, ClearStale
    <3> QED BY <3>1, StillInOrder
  <2> QED BY <2>1, <2>2, <2>3, <2>4, Zenon DEF Configuring, ConfigureAnyway
<1>4. CASE \E M \in {{m} : m \in Metrics} \cup {Metrics} : BeginReplay(M)
  <2>1. PICK M : ResetMetrics(M)
    BY <1>4 DEF BeginReplay
  <2>2. \A m \in Metrics :
            \/ processed'[m] = processed[m] /\ last'[m] = last[m]
            \/ processed'[m] = <<>>
    BY <2>1 DEF ResetMetrics
  <2> QED BY <2>2, StillInOrder
<1>5. CASE \E e \in queue : Dispatch(e)
  BY <1>5, DispatchInOrder
<1> QED BY <1>1, <1>2, <1>3, <1>4, <1>5, Zenon DEF Next, Configuring

-----------------------------------------------------------------------------
(* The inductive invariant, and what follows from it.                       *)

\* The invariant holds at first.
LEMMA PipelineInit == PipelineAssumption /\ Init => IInv
<1> SUFFICES ASSUME PipelineAssumption, Init PROVE IInv
  OBVIOUS
<1>1. TypeOK
  <2>1. <<>> \in Seq(Operation) /\ <<>> \in Seq(Sample)
        /\ [m \in Metrics |-> <<>>] \in [Metrics -> Seq(Sunk)]
    OBVIOUS
  <2>2. Quiet \in [of: SUBSET Metrics, from: Nat, failed: BOOLEAN]
    BY DEF Quiet
  <2>3. now \in Time /\ updated \in [Events -> Time]
    BY ConstantFacts DEF Init, Time
  <2>4. /\ seen \in [Events -> Int \cup {None}] /\ routes \in [Ids -> Metrics \cup {None}]
        /\ replayRoutes \in [Ids -> Metrics \cup {None}]
        /\ anchor \in [Ids -> Anchor \cup {None}]
        /\ previous \in [Metrics -> Held \cup {None}]
        /\ last \in [Metrics -> Int \cup {None}]
    BY DEF Init, NothingSeen, NoId
  <2>5. /\ operations \in Seq(Operation) /\ store \in Seq(Sample)
        /\ processed \in [Metrics -> Seq(Sunk)]
        /\ replay \in [of: SUBSET Metrics, from: Nat, failed: BOOLEAN]
    BY <2>1, <2>2, Zenon DEF Init
  <2>6. /\ uncached \in BOOLEAN /\ software \in BOOLEAN /\ armed \in BOOLEAN
        /\ rebuilt \in BOOLEAN
    BY Zenon DEF Init
  <2>7. /\ state \in States /\ reader \in {"none", "sampler", "caller"}
        /\ next \in Nat \ {0} /\ nextId \in Nat \ {0}
    BY DEF Init, States
  <2>8. /\ known \subseteq Operation /\ queue \subseteq Entry
        /\ pauses \subseteq Time /\ replayed \subseteq Metrics
    BY DEF Init
  <2> QED BY <2>3, <2>4, <2>5, <2>6, <2>7, <2>8 DEF TypeOK
<1>2. Passes
  BY DEF Init, Passes, Running
<1>3. Owned /\ Kept
  BY DEF Init, Owned, Kept
<1>4. InOrder
  BY DEF Init, InOrder, Bounded, SamplesInOrder
<1> QED BY <1>1, <1>2, <1>3, <1>4 DEF IInv

\* Every step keeps the invariant.
LEMMA PipelineStep == PipelineAssumption /\ IInv /\ [Next]_vars => IInv'
<1> SUFFICES ASSUME PipelineAssumption, IInv, [Next]_vars PROVE IInv'
  OBVIOUS
<1>1. CASE Next
  BY <1>1, TypeStep, PassesStep, RoutesStep, OrderStep DEF IInv
<1>2. CASE UNCHANGED vars
  BY ZenonT(60), <1>2
  DEF IInv, TypeOK, Passes, Owned, Kept, Routed, InOrder, Bounded, SamplesInOrder, vars,
      clockVars, collectorVars, passVars, routeVars, metricVars, storeVars
<1> QED BY <1>1, <1>2

\* The invariant holds in every state of every behaviour.
LEMMA PipelineInvariant == Spec => []IInv
<1>1. Init => IInv
  BY PipelineInit, PipelineAssumption
<1>2. IInv /\ [Next]_vars => IInv'
  BY PipelineStep, PipelineAssumption
<1> QED BY <1>1, <1>2, PTL DEF Spec

\* Every variable of the pipeline keeps its type: what reaches the queue is an entry of
\* a metric, normalised with a correlation there was.
THEOREM PipelineTypes == Spec => []TypeOK
<1>1. IInv => TypeOK
  BY DEF IInv
<1> QED BY <1>1, PipelineInvariant, PTL

\* The samples a metric sinks are in the order of time, whatever the sampler, the calls,
\* the replays and the failures of configurations do, and whatever the counters show.
THEOREM PipelineInOrder == Spec => []SamplesInOrder
<1>1. IInv => SamplesInOrder
  BY DEF IInv, InOrder
<1> QED BY <1>1, PipelineInvariant, PTL

\* A raw sample that is kept goes to the metric it was read for, or to none, however
\* often ids are given out again.
THEOREM PipelineRoutes == Spec => []RoutedRight
<1>1. IInv => RoutedRight
  BY DEF IInv, Kept, Routed, RoutedRight
<1> QED BY <1>1, PipelineInvariant, PTL

-----------------------------------------------------------------------------
(* What gets into the queue, and what configurations do.                    *)

\* An entry is of a pause, for a routed metric, or of a reading, for its metric.
OfPause(e, s, M) ==
    /\ s.of = "pause" /\ s.id = Marker
    /\ e.id = Marker /\ e.metric \in RoutedMetrics(M) /\ e.at = s.tick
OfReading(e, s, M) ==
    /\ s.id # Marker
    /\ e.id = s.id /\ e.metric = Table(M)[s.id] /\ e.at = Normalised(s)

\* A pause, and the marker of one for a metric.
IsPause(s) == s.of = "pause"
MarkerOf(e, s, m) == e.id = Marker /\ e.metric = m /\ e.at = s.tick

\* A pause has a marker for each routed metric.
LEMMA PauseEntries ==
    ASSUME NEW s \in Sample, IsPause(s), NEW pos \in Nat,
           NEW M \in SUBSET Metrics, NEW m \in RoutedMetrics(M)
    PROVE  \E e \in Entries(s, pos, M) : MarkerOf(e, s, m)
<1> USE DEF IsPause, MarkerOf
<1> DEFINE e == [id |-> Marker, metric |-> m, at |-> s.tick, taken |-> s.taken, pos |-> pos]
<1>1. Entries(s, pos, M) =
        [id: {Marker}, metric: RoutedMetrics(M), at: {s.tick}, taken: {s.taken}, pos: {pos}]
  BY DEF Entries
<1>2. e \in Entries(s, pos, M) /\ e.id = Marker /\ e.metric = m /\ e.at = s.tick
  BY <1>1
<1> HIDE DEF e
<1> QED BY <1>2

\* There are no other entries but the one of a reading.
LEMMA EntriesOf ==
    ASSUME PipelineAssumption, NEW s \in Sample, NEW pos \in Nat, NEW M \in SUBSET Metrics
    PROVE  /\ \A e \in Entries(s, pos, M) : OfPause(e, s, M) \/ OfReading(e, s, M)
           /\ s.of # "pause" => \A e, f \in Entries(s, pos, M) : e = f
<1> USE DEF OfPause, OfReading
<1>1. CASE s.of = "pause"
  <2>1. s.id = Marker
    BY <1>1, SampleTypes DEF Marks
  <2>2. Entries(s, pos, M) =
          [id: {Marker}, metric: RoutedMetrics(M), at: {s.tick}, taken: {s.taken}, pos: {pos}]
    BY <1>1 DEF Entries
  <2> QED BY <1>1, <2>1, <2>2
<1>2. CASE s.of = "resume"
  BY <1>2 DEF Entries
<1>3. CASE s.of \notin Marks
  <2>1. s.id # Marker
    BY <1>3, SampleTypes
  <2>2. Entries(s, pos, M) =
          {[id |-> s.id, metric |-> Table(M)[s.id], at |-> Normalised(s),
            taken |-> s.taken, pos |-> pos]}
    BY <1>3 DEF Entries, Marks
  <2> QED BY <1>3, <2>1, <2>2 DEF Marks
<1> QED BY <1>1, <1>2, <1>3 DEF Marks

\* A sample that ends the processing, for the metrics M.
Ends(s, M) == Selected(s, M) /\ Rejected(s, M)

\* The queue has the entries of the samples before the first that is rejected.
LEMMA EnqueuedFrom ==
    ASSUME NEW samples, NEW M
    PROVE  LET input == Enqueued(samples, M)
           IN  /\ input.failed = (Table(M) = NoId \/ \E k \in DOMAIN samples : Ends(samples[k], M))
               /\ \A e \in input.entries : \E i \in DOMAIN samples :
                    /\ Selected(samples[i], M) /\ e \in Entries(samples[i], i, M)
                    /\ \A k \in DOMAIN samples : Ends(samples[k], M) => i < k
               /\ \A i \in DOMAIN samples :
                    /\ Table(M) # NoId /\ Selected(samples[i], M)
                    /\ \A k \in DOMAIN samples : Ends(samples[k], M) => i < k
                    => Entries(samples[i], i, M) \subseteq input.entries
<1> DEFINE own == {i \in DOMAIN samples : Selected(samples[i], M)}
           bad == {i \in own : Rejected(samples[i], M)}
           good == {i \in own : \A k \in bad : i < k}
           all == UNION {Entries(samples[i], i, M) : i \in good}
           entries == IF Table(M) = NoId THEN {} ELSE all
           failed == Table(M) = NoId \/ bad # {}
<1>1. Enqueued(samples, M) = [entries |-> entries, failed |-> failed]
  BY Zenon DEF Enqueued
<1>2. bad = {k \in DOMAIN samples : Ends(samples[k], M)}
  BY DEF Ends
<1>3. failed = (Table(M) = NoId \/ \E k \in DOMAIN samples : Ends(samples[k], M))
  <2> HIDE DEF bad
  <2> QED BY <1>2
<1>4. good = {i \in DOMAIN samples : /\ Selected(samples[i], M)
                                     /\ \A k \in DOMAIN samples : Ends(samples[k], M) => i < k}
  BY <1>2
<1> HIDE DEF good, bad, own
<1>5. \A e \in entries : \E i \in good : e \in Entries(samples[i], i, M)
  <2>1. \A e \in all : \E i \in good : e \in Entries(samples[i], i, M)
    BY Zenon
  <2> HIDE DEF all
  <2> QED BY <2>1
<1>6. Table(M) # NoId => \A i \in good : Entries(samples[i], i, M) \subseteq entries
  <2>1. ASSUME NEW i \in good PROVE Entries(samples[i], i, M) \subseteq all
    BY Zenon
  <2> HIDE DEF all
  <2> QED BY <2>1
<1> HIDE DEF entries, failed
<1>7. Enqueued(samples, M).entries = entries /\ Enqueued(samples, M).failed = failed
  BY <1>1
<1>8. \A e \in entries : \E i \in DOMAIN samples :
         /\ Selected(samples[i], M) /\ e \in Entries(samples[i], i, M)
         /\ \A k \in DOMAIN samples : Ends(samples[k], M) => i < k
  BY <1>4, <1>5
<1>9. \A i \in DOMAIN samples :
         /\ Table(M) # NoId /\ Selected(samples[i], M)
         /\ \A k \in DOMAIN samples : Ends(samples[k], M) => i < k
         => Entries(samples[i], i, M) \subseteq entries
  BY <1>4, <1>6
<1> QED BY <1>3, <1>7, <1>8, <1>9, Zenon

\* The positions in a sequence that has got longer by one.
LEMMA OneMore ==
    \A n \in Nat : /\ \A i \in 1..(n + 1) : i \in 1..n \/ i = n + 1
                   /\ \A i \in 1..n : i \in 1..(n + 1)
OBVIOUS

\* What a delivery puts into an empty queue, or into the store.
LEMMA DeliveredTo ==
    ASSUME PipelineAssumption, TypeOK, NEW s \in Sample, Deliver(s)
    PROVE  \/ /\ uncached /\ store' = store
              /\ \A e \in queue' : e \in Entries(s, 1, Metrics)
           \/ /\ ~uncached /\ queue' = queue
              /\ Len(store') = Len(store) + 1
              /\ \A i \in DOMAIN store : i \in DOMAIN store' /\ store'[i] = store[i]
              /\ store'[Len(store) + 1] = s
              /\ DOMAIN store' = 1..(Len(store) + 1)
<1>1. CASE uncached
  <2>1. queue' = Enqueued(<<s>>, Metrics).entries /\ store' = store
    BY <1>1 DEF Deliver, storeVars
  <2>2. ASSUME NEW e \in queue' PROVE e \in Entries(s, 1, Metrics)
    <3>1. PICK i \in DOMAIN <<s>> : e \in Entries(<<s>>[i], i, Metrics)
      BY <2>1, EnqueuedFrom
    <3>2. i = 1 /\ <<s>>[i] = s
      BY ONLY i \in DOMAIN <<s>>
    <3> QED BY <3>1, <3>2
  <2> QED BY <1>1, <2>1, <2>2
<1>2. CASE ~uncached
  <2>1. store' = Append(store, s) /\ queue' = queue
    BY <1>2 DEF Deliver
  <2>2. store \in Seq(Sample) /\ Len(store) \in Nat /\ DOMAIN store = 1..Len(store)
    BY DEF TypeOK
  <2>3. /\ Len(store') = Len(store) + 1 /\ DOMAIN store' = 1..(Len(store) + 1)
        /\ \A i \in 1..Len(store) : store'[i] = store[i]
        /\ store'[Len(store) + 1] = s
    BY <2>1, <2>2, AppendProperties
  <2> QED BY <1>2, <2>1, <2>2, <2>3, OneMore
<1> QED BY <1>1, <1>2

\* Every metric is reset, and the history of pauses begins anew with an empty store.
Afresh ==
    /\ pauses' = {} /\ store' = <<>>
    /\ \A m \in Metrics : previous'[m] = None /\ last'[m] = None /\ processed'[m] = <<>>

\* Nothing is left but what had reached the cache file.
GivenUp ==
    /\ pauses' = pauses /\ store' = CacheFile /\ operations' = <<>>
    /\ state' = "UNCONFIGURED" /\ uncached' = FALSE /\ software' = software
    /\ \A i \in Ids : anchor'[i] \in {None, anchor[i]}
    /\ \A m \in Metrics : previous'[m] = None /\ last'[m] = None /\ processed'[m] = <<>>

\* The target stays as it was, but its collector may have no operations any more.
LeftAlone ==
    /\ UNCHANGED <<state, uncached, software, anchor, previous, last, processed, store, pauses>>
    /\ operations' = operations \/ operations' = <<>>

\* A configuration begins anew, gives up, or leaves everything as it was.
LEMMA Configurations ==
    ASSUME NEW request, Configuring(request)
    PROVE  /\ MayConfigure /\ UNCHANGED <<clockVars, queue, replay>>
           /\ Afresh \/ GivenUp \/ LeftAlone
<1>1. ASSUME NEW others \in BOOLEAN, NEW k \in 0..Len(request),
             FailedConfigure(request, others, SubSeq(request, 1, k))
      PROVE  /\ MayConfigure /\ UNCHANGED <<clockVars, queue, replay>>
             /\ Afresh \/ GivenUp \/ LeftAlone
  <2> DEFINE base == Base(others)
  <2>1. /\ MayConfigure
        /\ state' = base.state /\ uncached' = base.uncached
        /\ operations' = base.operations \/ operations' = <<>>
        /\ anchor' = base.anchor
        /\ previous' = base.previous /\ last' = base.last /\ processed' = base.processed
        /\ store' = base.store /\ pauses' = base.pauses
        /\ UNCHANGED <<clockVars, software, queue, replay>>
    BY <1>1, Zenon DEF FailedConfigure, MayFailToConfigure
  <2>2. CASE others
    BY <2>1, <2>2 DEF Base, LeftAlone
  <2>3. CASE ~others
    BY <2>1, <2>3 DEF Base, Afresh
  <2> QED BY <2>1, <2>2, <2>3
<1>2. ASSUME NEW others \in BOOLEAN, NEW noCache \in BOOLEAN, NEW software2 \in BOOLEAN,
             Configure(request, noCache, others, software2)
      PROVE  /\ MayConfigure /\ UNCHANGED <<clockVars, queue, replay>>
             /\ Afresh \/ GivenUp \/ LeftAlone
  <2>1. /\ MayConfigure /\ UNCHANGED <<clockVars, queue, replay>>
        /\ previous' = [m \in Metrics |-> None] /\ last' = [m \in Metrics |-> None]
        /\ processed' = [m \in Metrics |-> <<>>]
        /\ store' = <<>> /\ pauses' = {}
    BY <1>2, Zenon DEF Configure, ClearStale
  <2> QED BY <2>1 DEF Afresh
<1>3. ASSUME NEW others \in BOOLEAN, NEW removed \in BOOLEAN,
             AbandonedConfigure(request, others, removed)
      PROVE  /\ MayConfigure /\ UNCHANGED <<clockVars, queue, replay>>
             /\ Afresh \/ GivenUp \/ LeftAlone
  <2> DEFINE base == Base(others)
             got == GetRequiredOperations(base, request)
  <2>1. /\ MayConfigure /\ UNCHANGED <<clockVars, software, queue, replay>>
        /\ state' = "UNCONFIGURED" /\ uncached' = FALSE /\ operations' = <<>>
        /\ previous' = [m \in Metrics |-> None] /\ last' = [m \in Metrics |-> None]
        /\ processed' = [m \in Metrics |-> <<>>]
        /\ anchor' = [i \in Ids |-> IF got.routes[i] # None THEN None ELSE base.anchor[i]]
        /\ store' = IF removed THEN <<>> ELSE CacheFile
        /\ pauses' = IF removed THEN {} ELSE pauses
    BY <1>3, Zenon DEF AbandonedConfigure, MayFailToConfigure, ClearStale
  <2>2. ~removed => base.anchor = anchor
    BY <1>3 DEF AbandonedConfigure, Base
  <2> HIDE DEF got, base
  <2>3. CASE removed
    BY <2>1, <2>3 DEF Afresh
  <2>4. CASE ~removed
    BY <2>1, <2>2, <2>4 DEF GivenUp
  <2> QED BY <2>3, <2>4
<1> QED BY <1>1, <1>2, <1>3, Zenon DEF Configuring

\* The positions in a part of a sequence.
LEMMA PartOf ==
    ASSUME NEW S, NEW s \in Seq(S), NEW a \in Nat, NEW b \in Nat, a < b, b <= Len(s)
    PROVE  /\ b - a \in Nat /\ DOMAIN SubSeq(s, a + 1, b) = 1..(b - a)
           /\ \A i \in 1..(b - a) : SubSeq(s, a + 1, b)[i] = s[a + i]
OBVIOUS

\* Where they come from.
LEMMA Shifted ==
    ASSUME NEW a \in Nat, NEW b \in Nat, NEW n \in Nat, a < b, b <= n
    PROVE  /\ \A i \in 1..(b - a) : a + i \in 1..n /\ a < a + i /\ a + i <= b /\ i \in Nat
           /\ \A k \in 1..n : a < k /\ k <= b =>
                k - a \in 1..(b - a) /\ a + (k - a) = k /\ k - a \in Nat
OBVIOUS

\* A batch that is loaded: the queue has the entries of its samples, up to the first that
\* is rejected, or nothing when the replay has failed.
LEMMA Loaded ==
    ASSUME PipelineAssumption, TypeOK, LoadBatch
    PROVE  \E until \in Nat :
             /\ replay.from < until /\ until <= Len(store)
             /\ replay' = [replay EXCEPT !.from = until, !.failed = replay'.failed]
             /\ \A e \in queue' : \E j \in DOMAIN store, pos \in Nat :
                  /\ replay.from < j /\ j <= until /\ store[j] \in Sample
                  /\ Selected(store[j], replay.of) /\ e \in Entries(store[j], pos, replay.of)
                  /\ \A k \in DOMAIN store :
                       replay.from < k /\ k <= until /\ Ends(store[k], replay.of) => j < k
             /\ \A j \in DOMAIN store :
                  /\ replay.from < j /\ j <= until /\ Selected(store[j], replay.of)
                  => \/ \E pos \in Nat : Entries(store[j], pos, replay.of) \subseteq queue'
                     \/ replay'.failed /\ queue' = {}
                     \/ /\ replay'.failed
                        /\ \E k \in DOMAIN store :
                             /\ replay.from < k /\ k <= j /\ Ends(store[k], replay.of)
<1> DEFINE M == replay.of
           from == replay.from
           until == IF from + BatchSize <= Len(store) THEN from + BatchSize ELSE Len(store)
           part == SubSeq(store, from + 1, until)
           input == Enqueued(part, M)
           Own(k) == from < k /\ k <= until
<1>1. /\ queue' = IF input.failed /\ OneOf(M) THEN {} ELSE input.entries
      /\ replay' = [replay EXCEPT !.from = until, !.failed = input.failed]
      /\ from < Len(store)
  BY Zenon DEF LoadBatch, ReplayEnd
<1>2. /\ store \in Seq(Sample) /\ Len(store) \in Nat /\ DOMAIN store = 1..Len(store)
      /\ from \in Nat /\ BatchSize \in Nat \ {0}
      /\ replay \in [of: SUBSET Metrics, from: Nat, failed: BOOLEAN]
  BY SMTT(60), ConstantFacts DEF TypeOK
<1>3. until \in Nat /\ from < until /\ until <= Len(store)
  BY <1>1, <1>2
<1> HIDE DEF until
<1> HIDE DEF from
<1>4. /\ DOMAIN part = 1..(until - from)
      /\ \A i \in DOMAIN part : part[i] = store[from + i]
      /\ until - from \in Nat
  BY ONLY <1>2, <1>3, PartOf, SMTT(40)
<1>5. replay' = [replay EXCEPT !.from = until, !.failed = replay'.failed]
      /\ replay'.failed = input.failed
  BY <1>1, <1>2
<1> HIDE DEF part, M, from
<1>6. \A i \in DOMAIN part : from + i \in DOMAIN store /\ Own(from + i) /\ i \in Nat
  BY <1>2, <1>3, <1>4, Shifted
<1>7. \A k \in DOMAIN store : Own(k) =>
         k - from \in DOMAIN part /\ from + (k - from) = k /\ k - from \in Nat
  BY SMTT(60), <1>2, <1>3, <1>4, Shifted
<1>8. ASSUME NEW e \in queue'
      PROVE  \E j \in DOMAIN store, pos \in Nat :
               /\ Own(j) /\ store[j] \in Sample
               /\ Selected(store[j], M) /\ e \in Entries(store[j], pos, M)
               /\ \A k \in DOMAIN store : Own(k) /\ Ends(store[k], M) => j < k
  <2>1. e \in input.entries
    BY <1>1, <1>8
  <2>2. PICK i \in DOMAIN part :
           /\ Selected(part[i], M) /\ e \in Entries(part[i], i, M)
           /\ \A k \in DOMAIN part : Ends(part[k], M) => i < k
    BY <2>1, EnqueuedFrom
  <2>3. /\ from + i \in DOMAIN store /\ Own(from + i) /\ i \in Nat
        /\ part[i] = store[from + i]
    BY <1>4, <1>6
  <2>4. ASSUME NEW k \in DOMAIN store, Own(k), Ends(store[k], M) PROVE from + i < k
    <3>1. k - from \in DOMAIN part /\ part[k - from] = store[k]
      BY <1>4, <1>7, <2>4
    <3>2. i < k - from
      BY <2>2, <2>4, <3>1
    <3> QED BY SMTT(60), <1>2, <2>3, <3>2
  <2>5. store[from + i] \in Sample
    BY <1>2, <2>3
  <2> QED BY <2>2, <2>3, <2>4, <2>5
<1>9. ASSUME NEW j \in DOMAIN store, Own(j), Selected(store[j], M)
      PROVE  \/ \E pos \in Nat : Entries(store[j], pos, M) \subseteq queue'
             \/ replay'.failed /\ queue' = {}
             \/ /\ replay'.failed
                /\ \E k \in DOMAIN store : from < k /\ k <= j /\ Ends(store[k], M)
  <2> DEFINE i == j - from
  <2>1. i \in DOMAIN part /\ part[i] = store[j] /\ i \in Nat
    BY <1>4, <1>7, <1>9
  <2>2. CASE Table(M) = NoId
    <3>1. input.failed
      BY <2>2, EnqueuedFrom
    <3>2. input.entries = {}
      BY <2>2 DEF Enqueued
    <3> QED BY <1>1, <1>5, <3>1, <3>2
  <2>3. CASE \E k \in DOMAIN part : Ends(part[k], M) /\ ~(i < k)
    <3>1. PICK k \in DOMAIN part : Ends(part[k], M) /\ ~(i < k)
      BY <2>3
    <3>2. input.failed
      BY <3>1, EnqueuedFrom
    <3>3. from + k \in DOMAIN store /\ from < from + k /\ from + k <= j /\ Ends(store[from + k], M)
      BY SMTT(60), <1>2, <1>4, <1>6, <2>1, <3>1
    <3> QED BY <1>5, <3>2, <3>3
  <2>4. CASE Table(M) # NoId /\ \A k \in DOMAIN part : Ends(part[k], M) => i < k
    <3>1. Entries(part[i], i, M) \subseteq input.entries
      BY <1>9, <2>1, <2>4, EnqueuedFrom
    <3>2. CASE input.failed /\ OneOf(M)
      BY <1>1, <1>5, <3>2
    <3>3. CASE ~(input.failed /\ OneOf(M))
      BY <1>1, <2>1, <3>1, <3>3
    <3> QED BY <3>2, <3>3
  <2> QED BY <2>2, <2>3, <2>4
<1> HIDE DEF input
<1> QED BY <1>3, <1>5, <1>8, <1>9 DEF M, from

\* An entry that is loaded is of a stored sample that does not end the replay.
LEMMA LoadedEntry ==
    ASSUME PipelineAssumption, TypeOK, LoadBatch, NEW e \in queue'
    PROVE  \E j \in DOMAIN store, pos \in Nat :
             /\ store[j] \in Sample /\ e \in Entries(store[j], pos, replay.of)
             /\ Selected(store[j], replay.of) /\ ~Ends(store[j], replay.of)
<1>1. PICK until \in Nat :
         \A f \in queue' : \E j \in DOMAIN store, pos \in Nat :
           /\ replay.from < j /\ j <= until /\ store[j] \in Sample
           /\ Selected(store[j], replay.of) /\ f \in Entries(store[j], pos, replay.of)
           /\ \A k \in DOMAIN store :
                replay.from < k /\ k <= until /\ Ends(store[k], replay.of) => j < k
  BY Loaded
<1>2. PICK j \in DOMAIN store, pos \in Nat :
         /\ replay.from < j /\ j <= until /\ store[j] \in Sample
         /\ Selected(store[j], replay.of) /\ e \in Entries(store[j], pos, replay.of)
         /\ Ends(store[j], replay.of) => j < j
  BY <1>1
<1>3. ~(j < j)
  BY DEF TypeOK
<1> QED BY SMTT(60), <1>2, <1>3

-----------------------------------------------------------------------------
(* Intervals join.                                                          *)

\* A delivered sample that is no new pause leaves the markers with their pauses.
LEMMA DeliveryMarked ==
    ASSUME PipelineAssumption, TypeOK, MarkersArePauses, NEW s \in Sample, Deliver(s),
           pauses \subseteq pauses', s.of = "pause" => s.tick \in pauses'
    PROVE  MarkersArePauses'
<1>1. CASE uncached /\ store' = store /\ \A e \in queue' : e \in Entries(s, 1, Metrics)
  <2>1. ASSUME NEW e \in queue', e.id = Marker PROVE e.at \in pauses'
    <3>1. e \in Entries(s, 1, Metrics)
      BY <1>1
    <3>2. OfPause(e, s, Metrics) \/ OfReading(e, s, Metrics)
      BY <3>1, EntriesOf
    <3> QED BY <2>1, <3>2 DEF OfPause, OfReading
  <2> QED BY <1>1, <2>1 DEF MarkersArePauses
<1>2. CASE /\ ~uncached /\ queue' = queue
           /\ Len(store') = Len(store) + 1
           /\ \A i \in DOMAIN store : i \in DOMAIN store' /\ store'[i] = store[i]
           /\ store'[Len(store) + 1] = s
           /\ DOMAIN store' = 1..(Len(store) + 1)
  <2>1. \A i \in DOMAIN store' : i \in DOMAIN store \/ i = Len(store) + 1
    <3>1. Len(store) \in Nat /\ DOMAIN store = 1..Len(store)
      BY DEF TypeOK
    <3> QED BY <1>2, <3>1, OneMore
  <2> QED BY <1>2, <2>1 DEF MarkersArePauses
<1> QED BY <1>1, <1>2, DeliveredTo

\* Every step leaves the markers with their pauses.
LEMMA MarkersStep ==
    ASSUME PipelineAssumption, TypeOK, Passes, MarkersArePauses, Next
    PROVE  MarkersArePauses'
<1> USE DEF storeVars
<1>1. CASE \/ Tick \/ (\E e \in Events : FirmwareUpdate(e)) \/ Wake \/ BeginPass \/ CallerRead
           \/ Stop \/ (\E M \in {{m} : m \in Metrics} \cup {Metrics} : BeginReplay(M))
           \/ EndReplay \/ (\E e \in queue : Dispatch(e))
  <2>1. queue' \subseteq queue /\ UNCHANGED <<store, pauses>>
    <3>1. ASSUME NEW e \in queue, Dispatch(e)
          PROVE  queue' \subseteq queue /\ UNCHANGED <<store, pauses>>
      BY <3>1, Dispatched
    <3> QED
      BY <1>1, <3>1
      DEF Tick, FirmwareUpdate, Wake, BeginPass, CallerRead, Stop, BeginReplay, EndReplay
  <2> QED BY <2>1 DEF MarkersArePauses
<1>2. CASE ReadOperation
  <2>1. pauses' = pauses
    BY <1>2 DEF ReadOperation
  <2>2. CASE UNCHANGED <<queue, storeVars>>
    BY <2>1, <2>2 DEF MarkersArePauses
  <2>3. ASSUME NEW s \in Sample, s.of \in Metrics, Deliver(s) PROVE MarkersArePauses'
    <3>1. s.of # "pause"
      BY <2>3, ConstantFacts DEF Marks
    <3> QED BY <2>1, <2>3, <3>1, DeliveryMarked
  <2>4. operations[next].metric \in Metrics
    BY <1>2, Reading
  <2> QED BY <1>2, <2>2, <2>3, <2>4, Reading
<1>3. CASE Pause \/ Resume
  <2>1. MarkerSample("pause") \in Sample /\ MarkerSample("resume") \in Sample
    BY DEF MarkerSample, Sample, Marks, TypeOK
  <2>2. CASE Pause
    <3>1. pauses' = pauses \cup {now} /\ Deliver(MarkerSample("pause"))
      BY <2>2 DEF Pause
    <3>2. MarkerSample("pause").tick \in pauses'
      BY <3>1 DEF MarkerSample
    <3> QED BY <2>1, <3>1, <3>2, DeliveryMarked
  <2>3. CASE Resume
    <3>1. pauses' = pauses /\ Deliver(MarkerSample("resume"))
      BY <2>3 DEF Resume
    <3>2. MarkerSample("resume").of # "pause"
      BY DEF MarkerSample
    <3> QED BY <2>1, <3>1, <3>2, DeliveryMarked
  <2> QED BY <1>3, <2>2, <2>3
<1>4. CASE Start \/ FailedReset
  <2>1. UNCHANGED <<queue, pauses>> /\ store' = CacheFile
    BY <1>4 DEF Start, FailedReset
  <2> QED BY <2>1, CacheFileType DEF MarkersArePauses
<1>5. CASE \E request \in Requests : Configuring(request)
  <2>1. MayConfigure /\ queue' = queue /\ (Afresh \/ GivenUp \/ LeftAlone)
    BY <1>5, Configurations
  <2>2. queue' = {}
    BY <2>1 DEF MayConfigure, MayControl, Settled
  <2>3. CASE Afresh
    BY <2>2, <2>3 DEF Afresh, MarkersArePauses
  <2>4. CASE GivenUp
    BY <2>2, <2>4, CacheFileType DEF GivenUp, MarkersArePauses
  <2>5. CASE LeftAlone
    BY <2>2, <2>5 DEF LeftAlone, MarkersArePauses
  <2> QED BY <2>1, <2>3, <2>4, <2>5
<1>6. CASE LoadBatch
  <2>1. UNCHANGED <<store, pauses>>
    BY <1>6 DEF LoadBatch
  <2>2. ASSUME NEW e \in queue', e.id = Marker PROVE e.at \in pauses
    <3>1. PICK j \in DOMAIN store, pos \in Nat :
              store[j] \in Sample /\ e \in Entries(store[j], pos, replay.of)
      BY <1>6, Loaded, Zenon
    <3>2. OfPause(e, store[j], replay.of) \/ OfReading(e, store[j], replay.of)
      <4>1. replay.of \in SUBSET Metrics
        BY DEF TypeOK
      <4> QED BY <3>1, <4>1, EntriesOf
    <3> QED BY <2>2, <3>2 DEF MarkersArePauses, OfPause, OfReading
  <2> QED BY <2>1, <2>2 DEF MarkersArePauses
<1> QED BY <1>1, <1>2, <1>3, <1>4, <1>5, <1>6, Zenon DEF Next, Configuring

\* A round of the loop: the entry is late, or ends the loop, or goes to its metric.
LEMMA Rounds ==
    ASSUME NEW e \in queue, Dispatch(e)
    PROVE  \/ /\ IsTimestampRegression(e) /\ queue' = queue \ {e}
              /\ UNCHANGED <<previous, processed, last, replay>>
           \/ /\ e.id # Marker /\ queue' = {}
              /\ UNCHANGED <<previous, processed, last>>
              /\ IF replay # Quiet THEN replay' = [replay EXCEPT !.failed = TRUE]
                                   ELSE replay' = replay
           \/ /\ ~IsTimestampRegression(e) /\ queue' = queue \ {e} /\ replay' = replay
              /\ last' = [last EXCEPT ![e.metric] = e.at]
              /\ \/ e.id = Marker /\ ProcessPauseSample(e)
                 \/ e.id # Marker /\ ~Fails(e) /\ ReceiveRawSample(e)
<1>1. CASE IsTimestampRegression(e)
  BY <1>1, Zenon DEF Dispatch
<1>2. CASE ~IsTimestampRegression(e) /\ e.id # Marker /\ Fails(e)
  <2>1. /\ queue' = {} /\ UNCHANGED <<previous, processed, last>>
        /\ IF replay # Quiet
           THEN replay' = [replay EXCEPT !.failed = TRUE] /\ UNCHANGED <<reader, next>>
           ELSE reader' = "none" /\ next' = 1 /\ UNCHANGED replay
    BY <1>2, Zenon DEF Dispatch
  <2>2. IF replay # Quiet THEN replay' = [replay EXCEPT !.failed = TRUE] ELSE replay' = replay
    BY <2>1, Zenon
  <2> QED BY <1>2, <2>1, <2>2, Zenon
<1>3. CASE ~IsTimestampRegression(e) /\ (e.id = Marker \/ ~Fails(e))
  <2>1. /\ queue' = queue \ {e} /\ replay' = replay
        /\ IF e.id = Marker THEN ProcessPauseSample(e) ELSE ReceiveRawSample(e)
        /\ last' = [last EXCEPT ![e.metric] = e.at]
    BY <1>3, Zenon DEF Dispatch
  <2> QED BY <1>3, <2>1, Zenon
<1> QED BY <1>1, <1>2, <1>3, Zenon

\* A sequence that has got longer by one.
LEMMA AppendFacts ==
    ASSUME NEW S, NEW s \in Seq(S), NEW x \in S
    PROVE  /\ Len(Append(s, x)) = Len(s) + 1 /\ Append(s, x) # <<>>
           /\ \A i \in 1..Len(s) : Append(s, x)[i] = s[i]
           /\ Append(s, x)[Len(s) + 1] = x
BY AppendProperties

\* Sinking one sample appends it.
LEMMA SinkOne ==
    ASSUME NEW s \in Seq(Sunk), NEW x \in Sunk
    PROVE  s \o <<x>> = Append(s, x)
OBVIOUS

\* What a metric that takes differences sinks: the interval since its previous sample.
LEMMA DeltaSinks ==
    ASSUME NEW e, Kind[e.metric] \in {"delta", "rate"}
    PROVE  Sinks(e) = IF previous[e.metric] = None THEN <<>>
                      ELSE <<[since |-> previous[e.metric].at, at |-> e.at]>>
<1>1. CASE previous[e.metric] = None
  BY <1>1 DEF Sinks
<1>2. CASE previous[e.metric] # None
  BY <1>2 DEF Sinks
<1> QED BY <1>1, <1>2

\* Metrics that have sunk nothing, beside metrics that are left alone.
LEMMA StillJoined ==
    ASSUME \A m \in Metrics : Joined(m), DeltasJoin,
           \A m \in Metrics :
               \/ processed'[m] = <<>>
               \/ /\ processed'[m] = processed[m] /\ previous'[m] = previous[m]
                  /\ last'[m] = last[m] /\ pauses \subseteq pauses'
    PROVE  (\A m \in Metrics : Joined(m)') /\ DeltasJoin'
<1>1. ASSUME NEW m \in Metrics PROVE Joined(m)'
  BY DEF Joined
<1>2. DeltasJoin'
  <2>1. SUFFICES ASSUME NEW m \in Metrics, (Kind[m] \in {"delta", "rate"})'
                 PROVE  \A i \in 1..(Len(processed'[m]) - 1) :
                            LET end == processed'[m][i].at
                                begin == processed'[m][i + 1].since
                            IN  end = begin \/ \E p \in pauses' : end <= p /\ p <= begin
    BY DEF DeltasJoin
  <2>2. CASE processed'[m] = <<>>
    <3>1. 1..(Len(processed'[m]) - 1) = {}
      BY <2>2
    <3> QED BY <3>1
  <2>3. CASE processed'[m] = processed[m] /\ pauses \subseteq pauses'
    BY <2>1, <2>3 DEF DeltasJoin
  <2> QED BY <2>2, <2>3
<1> QED BY <1>1, <1>2

\* The loop over the queue joins the next interval to the one before.
LEMMA DispatchJoins ==
    ASSUME PipelineAssumption, TypeOK, Bounded, JoinInv, NEW e \in queue, Dispatch(e)
    PROVE  (\A m \in Metrics : Joined(m)') /\ DeltasJoin'
<1> DEFINE n == e.metric
           old == processed[n]
           l == Len(old)
<1>1. n \in Metrics /\ e.at \in Int /\ e.at # None
  BY SinksType, ConstantFacts
<1>2. /\ processed \in [Metrics -> Seq(Sunk)] /\ last \in [Metrics -> Int \cup {None}]
      /\ previous \in [Metrics -> Held \cup {None}]
      /\ old \in Seq(Sunk) /\ l \in Nat /\ DOMAIN old = 1..l
  <2>1. /\ processed \in [Metrics -> Seq(Sunk)] /\ last \in [Metrics -> Int \cup {None}]
        /\ previous \in [Metrics -> Held \cup {None}]
    BY DEF TypeOK
  <2>2. old \in Seq(Sunk)
    BY <1>1, <2>1
  <2> HIDE DEF old
  <2> QED BY SMTT(60), <2>1, <2>2
<1>3. pauses' = pauses /\ pauses \subseteq Int
  <2>1. pauses' = pauses
    BY Dispatched, Zenon
  <2> QED BY <2>1, ConstantFacts DEF TypeOK, Time
<1>4. CASE UNCHANGED <<previous, processed, last>>
  BY <1>3, <1>4, StillJoined DEF JoinInv
<1>5. ASSUME last' = [last EXCEPT ![n] = e.at], ~IsTimestampRegression(e),
             e.id = Marker, ProcessPauseSample(e)
      PROVE  (\A m \in Metrics : Joined(m)') /\ DeltasJoin'
  <2>1. /\ processed' = processed /\ previous'[n] = None /\ last'[n] = e.at
        /\ \A m \in Metrics \ {n} : previous'[m] = previous[m] /\ last'[m] = last[m]
    BY SMTT(60), <1>1, <1>2, <1>5 DEF ProcessPauseSample
  <2>2. e.at \in pauses'
    BY <1>3, <1>5 DEF JoinInv, MarkersArePauses
  <2>3. ASSUME old # <<>> PROVE old[l].at <= e.at
    <3>1. l \in DOMAIN old
      BY <1>2, <2>3
    <3>2. last[n] # None /\ old[l].at <= last[n] /\ last[n] \in Int
      BY <1>1, <1>2, <3>1 DEF Bounded
    <3>3. last[n] <= e.at
      BY SMTT(60), <1>1, <1>5, <3>2 DEF IsTimestampRegression
    <3>4. old[l].at \in Int
      <4>1. old[l] \in Sunk
        BY SMTT(60), <1>2, <3>1
      <4> QED BY <4>1 DEF Sunk
    <3> QED BY ONLY <1>1, <3>2, <3>3, <3>4
  <2>4. Joined(n)'
    BY SMTT(60), <1>1, <2>1, <2>2, <2>3 DEF Joined
  <2>5. \A m \in Metrics \ {n} : Joined(m)'
    BY ZenonT(60), <1>3, <2>1 DEF JoinInv, Joined
  <2>6. DeltasJoin'
    BY <1>3, <2>1 DEF JoinInv, DeltasJoin
  <2> QED BY <2>4, <2>5, <2>6
<1>6. ASSUME last' = [last EXCEPT ![n] = e.at], ~IsTimestampRegression(e),
             ReceiveRawSample(e)
      PROVE  (\A m \in Metrics : Joined(m)') /\ DeltasJoin'
  <2>1. /\ last'[n] = e.at
        /\ \A m \in Metrics \ {n} : /\ previous'[m] = previous[m] /\ last'[m] = last[m]
                                    /\ processed'[m] = processed[m]
        /\ processed'[n] = old \o Sinks(e)
    BY <1>1, <1>2, <1>6 DEF ReceiveRawSample
  <2>2. \A m \in Metrics \ {n} : Joined(m)'
    BY ZenonT(60), <1>3, <2>1 DEF JoinInv, Joined
  <2>3. ASSUME Kind[n] \in {"delta", "rate"}
        PROVE  /\ Joined(n)'
               /\ \A i \in 1..(Len(processed'[n]) - 1) :
                    LET end == processed'[n][i].at
                        begin == processed'[n][i + 1].since
                    IN  end = begin \/ \E p \in pauses' : end <= p /\ p <= begin
    <3>1. previous'[n] # None /\ previous'[n].at = e.at
      <4> DEFINE h == [at |-> e.at, taken |-> e.taken]
      <4>1. previous' = [previous EXCEPT ![n] = h]
        BY <1>6, <2>3 DEF ReceiveRawSample
      <4>2. h \in Held /\ h.at = e.at
        BY SinksType
      <4>3. None \notin Held
        BY DEF PipelineAssumption, Held, Time
      <4> HIDE DEF h
      <4> QED BY <1>1, <1>2, <4>1, <4>2, <4>3
    <3>2. CASE previous[n] = None
      <4>1. processed'[n] = old
        <5>1. Sinks(e) = <<>>
          BY <2>3, <3>2, DeltaSinks
        <5> QED BY <1>2, <2>1, <5>1, ConcatEmptySeq
      <4>2. ASSUME old # <<>>
            PROVE  \E p \in pauses' : old[l].at <= p /\ p <= e.at
        <5>1. PICK p \in pauses : last[n] # None /\ old[l].at <= p /\ p <= last[n]
          BY <1>1, <2>3, <3>2, <4>2 DEF JoinInv, Joined
        <5>2. last[n] \in Int /\ last[n] <= e.at
          <6>1. last[n] \in Int
            BY <1>1, <1>2, <5>1
          <6>2. ~(last[n] # None /\ e.at < last[n])
            BY <1>6 DEF IsTimestampRegression
          <6> QED BY ONLY <1>1, <5>1, <6>1, <6>2
        <5>3. p \in Int /\ p \in pauses'
          BY <1>3
        <5>4. p <= e.at
          BY SMTT(60), <1>1, <5>1, <5>2, <5>3
        <5> QED BY <5>1, <5>3, <5>4
      <4>3. Joined(n)'
        BY <3>1, <4>1, <4>2 DEF Joined
      <4> QED BY <1>1, <1>3, <2>3, <4>1, <4>3 DEF JoinInv, DeltasJoin
    <3>3. CASE previous[n] # None
      <4> DEFINE x == [since |-> previous[n].at, at |-> e.at]
      <4>1. processed'[n] = Append(old, x)
        <5>1. Sinks(e) = <<x>>
          BY <2>3, <3>3, DeltaSinks
        <5>2. x \in Sunk
          <6>1. previous[n].at \in Int
            BY <1>1, <1>2, <3>3 DEF Held
          <6> QED BY <1>1, <6>1 DEF Sunk
        <5> HIDE DEF x
        <5>3. processed'[n] = old \o <<x>> /\ old \in Seq(Sunk)
          BY <1>2, <2>1, <5>1
        <5> QED BY ONLY <5>2, <5>3, SinkOne
      <4>2. x.since = previous[n].at /\ x.at = e.at
        OBVIOUS
      <4> HIDE DEF x
      <4>3. /\ Len(processed'[n]) = l + 1 /\ processed'[n] # <<>>
            /\ \A i \in 1..l : processed'[n][i] = old[i]
            /\ processed'[n][l + 1] = x
        <5>1. x \in Sunk
          <6>1. previous[n].at \in Int
            BY <1>1, <1>2, <3>3 DEF Held
          <6> QED BY <1>1, <6>1 DEF Sunk, x
        <5> HIDE DEF old
        <5> QED BY SMTT(60), <1>2, <4>1, <5>1, AppendFacts
      <4>4. Joined(n)'
        BY <3>1, <4>2, <4>3 DEF Joined
      <4>5. ASSUME NEW i \in 1..l
            PROVE  LET end == processed'[n][i].at
                       begin == processed'[n][i + 1].since
                   IN  end = begin \/ \E p \in pauses' : end <= p /\ p <= begin
        <5>1. CASE i = l
          <6>1. processed'[n][i] = old[l] /\ processed'[n][i + 1] = x /\ old # <<>>
            <7>1. old # <<>>
              <8>1. l >= 1
                BY SMTT(60), <1>2
              <8>2. Len(<<>>) = 0
                OBVIOUS
              <8> QED BY <8>1, <8>2
            <7> HIDE DEF l, old
            <7>2. processed'[n][i] = old[l] /\ processed'[n][i + 1] = x
              BY <4>3, <5>1
            <7> QED BY <7>1, <7>2
          <6>2. \/ previous[n].at = old[l].at
                \/ \E p \in pauses : old[l].at <= p /\ p <= previous[n].at
            BY <1>1, <2>3, <3>3, <6>1 DEF JoinInv, Joined
          <6> QED BY <1>3, <4>2, <6>1, <6>2
        <5>2. CASE i # l
          <6>1. i \in 1..(l - 1) /\ i + 1 \in 1..l
            BY SMTT(60), <1>2, <5>2
          <6>2. processed'[n][i] = old[i] /\ processed'[n][i + 1] = old[i + 1]
            BY <4>3, <6>1
          <6> QED BY <1>1, <1>3, <2>3, <6>1, <6>2 DEF JoinInv, DeltasJoin
        <5> QED BY <5>1, <5>2
      <4>6. Len(processed'[n]) - 1 = l
        BY <1>2, <4>3
      <4> QED BY <4>4, <4>5, <4>6
    <3> QED BY <3>2, <3>3
  <2>4. Joined(n)'
    BY <2>3 DEF Joined
  <2>5. DeltasJoin'
    <3>1. ASSUME NEW m \in Metrics, Kind[m] \in {"delta", "rate"}
          PROVE  \A i \in 1..(Len(processed'[m]) - 1) :
                    LET end == processed'[m][i].at
                        begin == processed'[m][i + 1].since
                    IN  end = begin \/ \E p \in pauses' : end <= p /\ p <= begin
      <4>1. CASE m = n
        BY <2>3, <3>1, <4>1
      <4>2. CASE m # n
        BY <1>3, <2>1, <3>1, <4>2 DEF JoinInv, DeltasJoin
      <4> QED BY <4>1, <4>2
    <3> QED BY <3>1 DEF DeltasJoin
  <2> QED BY <2>2, <2>4, <2>5
<1> QED BY <1>4, <1>5, <1>6, Rounds, Zenon

\* Every step joins the intervals.
LEMMA JoinStep ==
    ASSUME PipelineAssumption, TypeOK, Passes, Bounded, JoinInv, Next
    PROVE  JoinInv'
<1>0. MarkersArePauses'
  BY MarkersStep DEF JoinInv
<1> SUFFICES (\A m \in Metrics : Joined(m)') /\ DeltasJoin'
  BY <1>0 DEF JoinInv
<1>1. (\A m \in Metrics : Joined(m)) /\ DeltasJoin
  BY DEF JoinInv
<1>2. CASE \/ Tick \/ (\E e \in Events : FirmwareUpdate(e)) \/ Wake \/ BeginPass \/ CallerRead
           \/ ReadOperation \/ Pause \/ Resume \/ Start \/ Stop \/ LoadBatch \/ EndReplay
  <2>1. UNCHANGED <<processed, previous, last>> /\ pauses \subseteq pauses'
    BY <1>2
    DEF Tick, FirmwareUpdate, Wake, BeginPass, CallerRead, ReadOperation, Pause, Resume, Start,
        Stop, LoadBatch, EndReplay, metricVars
  <2> QED BY SMTT(60), <1>1, <2>1, StillJoined
<1>3. CASE FailedReset
  <2>1. \A m \in Metrics : processed'[m] = <<>>
    BY <1>3 DEF FailedReset
  <2> QED BY <1>1, <2>1, StillJoined
<1>4. CASE \E request \in Requests : Configuring(request)
  <2>1. Afresh \/ GivenUp \/ LeftAlone
    BY <1>4, Configurations
  <2>2. \A m \in Metrics :
            \/ processed'[m] = <<>>
            \/ /\ processed'[m] = processed[m] /\ previous'[m] = previous[m]
               /\ last'[m] = last[m] /\ pauses \subseteq pauses'
    BY <2>1 DEF Afresh, GivenUp, LeftAlone
  <2> QED BY <1>1, <2>2, StillJoined
<1>5. CASE \E M \in {{m} : m \in Metrics} \cup {Metrics} : BeginReplay(M)
  <2>1. PICK M : ResetMetrics(M) /\ pauses' = pauses
    BY <1>5 DEF BeginReplay
  <2>2. \A m \in Metrics :
            \/ processed'[m] = <<>>
            \/ /\ processed'[m] = processed[m] /\ previous'[m] = previous[m]
               /\ last'[m] = last[m] /\ pauses \subseteq pauses'
    BY <2>1 DEF ResetMetrics
  <2> QED BY <1>1, <2>2, StillJoined
<1>6. CASE \E e \in queue : Dispatch(e)
  BY <1>6, DispatchJoins
<1> QED BY <1>2, <1>3, <1>4, <1>5, <1>6, Zenon DEF Next, Configuring

-----------------------------------------------------------------------------
(* Nothing is later than now.                                               *)

\* The software anchor is an anchor, and a reading with it has its own time.
LEMMA SoftTime ==
    ASSUME PipelineAssumption
    PROVE  /\ SoftwareAnchor # None
           /\ \A s \in Sample : SoftReading(s) => Normalised(s) = s.tick
<1>1. SoftwareAnchor \in Anchor /\ None \notin Anchor
  BY DEF SoftwareAnchor, Anchor, PipelineAssumption
<1>2. ASSUME NEW s \in Sample, SoftReading(s) PROVE Normalised(s) = s.tick
  <2>1. s.tick \in Int
    BY SampleTypes
  <2>2. Normalised(s) = 0 + s.tick - 0
    BY <1>2 DEF Normalised, SoftReading, SoftwareAnchor
  <2> QED BY <2>1, <2>2
<1> QED BY <1>1, <1>2

\* A reading with a software timestamp is not later than now.
LEMMA ReadIsPast ==
    ASSUME PipelineAssumption, TypeOK, Passes, Past, ReadOperation
    PROVE  LET o == operations[next]
           IN  \/ UNCHANGED <<queue, storeVars>>
               \/ \E s \in Sample : /\ s.id = o.id /\ s.of = o.metric /\ Deliver(s)
                                    /\ SoftReading(s) => s.tick <= now
<1> DEFINE o == operations[next]
           e == EventOf[o.metric]
           tick(falls) == IF software \/ falls THEN now ELSE updated[e] + Offset
           s(falls) == [id |-> o.id, of |-> o.metric, tick |-> tick(falls), taken |-> updated[e]]
<1>1. PICK falls \in BOOLEAN : UNCHANGED <<queue, storeVars>> \/ Deliver(s(falls))
  BY DEF ReadOperation
<1>2. next \in DOMAIN operations /\ o.id \in Ids /\ o.metric \in Metrics /\ e \in Events
  BY Reading, ConstantFacts
<1>3. updated[e] \in Time /\ now \in Time /\ Offset \in Nat /\ updated[e] <= now
  <2> HIDE DEF e
  <2> QED BY <1>2, ConstantFacts DEF TypeOK, Past, EventsArePast
<1>4. tick(falls) \in Int
  <2> HIDE DEF e
  <2> QED BY SMTT(60), <1>3 DEF Time
<1>5. anchor[o.id] = SoftwareAnchor => tick(falls) <= now
  <2>1. anchor[o.id] = SoftwareAnchor => software \/ Offset = 0
    BY <1>2 DEF Past, SoftwareIsRead
  <2> HIDE DEF e
  <2> QED BY <1>3, <2>1 DEF Time
<1> HIDE DEF o, e, tick
<1>6. /\ s(falls) \in Sample /\ s(falls).id = o.id /\ s(falls).of = o.metric
      /\ s(falls).tick = tick(falls)
  BY <1>2, <1>3, <1>4 DEF Sample
<1>7. SoftReading(s(falls)) => s(falls).tick <= now
  BY <1>5, <1>6 DEF SoftReading
<1> HIDE DEF s
<1> QED BY <1>1, <1>6, <1>7 DEF o

\* The operations of a configuration with software timestamps read the software clock.
LEMMA ConfiguredClock ==
    ASSUME PipelineAssumption, TypeOK, Past, NEW request \in Requests, Configuring(request)
    PROVE  SoftwareIsRead'
<1>1. ASSUME NEW others \in BOOLEAN, NEW k \in 0..Len(request),
             FailedConfigure(request, others, SubSeq(request, 1, k))
      PROVE  SoftwareIsRead'
  <2>1. /\ operations' = Base(others).operations \/ operations' = <<>>
        /\ anchor' = Base(others).anchor /\ software' = software
    BY <1>1, Zenon DEF FailedConfigure
  <2> QED BY SMTT(60), <2>1 DEF Base, Past, SoftwareIsRead
<1>2. ASSUME NEW others \in BOOLEAN, NEW removed \in BOOLEAN,
             AbandonedConfigure(request, others, removed)
      PROVE  SoftwareIsRead'
  <2>1. operations' = <<>>
    BY <1>2, Zenon DEF AbandonedConfigure
  <2> QED BY <2>1 DEF SoftwareIsRead
<1>3. ASSUME NEW others \in BOOLEAN, NEW noCache \in BOOLEAN, NEW software2 \in BOOLEAN,
             Configure(request, noCache, others, software2)
      PROVE  SoftwareIsRead'
  <2> DEFINE base == Base(others)
             first == base.nextId
             got == GetRequiredOperations(base, request)
             new == OperationsOf(request, first)
  <2>1. request \in Seq(Metrics) /\ Len(request) \in Nat
    BY ConstantFacts
  <2>2. first + Len(request) <= MaxId + 1
    BY <1>3 DEF Configure, MayBuild
  <2>3. first \in Nat \ {0}
    BY BaseTypes
  <2>4. /\ operations' = new /\ software' = software2
        /\ anchor' = [i \in Ids |->
                        IF i - first + 1 \in DOMAIN request
                        THEN IF software2 THEN SoftwareAnchor
                             ELSE HardwareAnchor(request[i - first + 1])
                        ELSE IF got.routes[i] # None THEN None ELSE base.anchor[i]]
    BY <1>3, Zenon DEF Configure, FirstId
  <2> HIDE DEF got, first, base
  <2>5. new \in Seq(Operation) /\ Len(new) = Len(request)
        /\ \A n \in DOMAIN new : new[n] = [id |-> first + n - 1, metric |-> request[n]]
    <3>1. new \in Seq(Operation) /\ Len(new) = Len(request)
      BY ONLY PipelineAssumption, <2>1, <2>2, <2>3, Building, Zenon
    <3>2. \A n \in DOMAIN new : new[n] = [id |-> first + n - 1, metric |-> request[n]]
      BY ONLY TRUE DEF OperationsOf
    <3> QED BY <3>1, <3>2
  <2> HIDE DEF new
  <2>6. ASSUME NEW k \in DOMAIN operations', anchor'[operations'[k].id] = SoftwareAnchor,
               ~software2
        PROVE  Offset = 0
    <3> DEFINE id == first + k - 1
    <3>1. k \in 1..Len(request) /\ operations'[k].id = id
      <4>1. k \in DOMAIN new /\ operations'[k] = new[k]
        BY <2>4, <2>6
      <4>2. DOMAIN new = 1..Len(request)
        BY ONLY <2>5
      <4> QED BY <2>5, <4>1, <4>2
    <3>2. id \in Ids /\ id - first + 1 = k
      BY <2>1, <2>2, <2>3, <3>1, IdInRange
    <3>3. k \in DOMAIN request /\ request[k] \in Metrics
      BY SMTT(60), <2>1, <3>1
    <3> HIDE DEF id
    <3>4. anchor'[id] = HardwareAnchor(request[k])
      BY <2>4, <2>6, <3>2, <3>3
    <3>5. updated[EventOf[request[k]]] + Offset = 0
      BY ONLY <2>6, <3>1, <3>4 DEF HardwareAnchor, SoftwareAnchor
    <3>6. updated[EventOf[request[k]]] \in Time
      BY <3>3, ConstantFacts DEF TypeOK
    <3>7. Offset \in Nat /\ LastTime \in Nat
      BY ConstantFacts
    <3> QED BY ONLY <3>5, <3>6, <3>7 DEF Time
  <2> QED BY <2>4, <2>6 DEF SoftwareIsRead
<1> QED BY <1>1, <1>2, <1>3, Zenon DEF Configuring

\* What is delivered leaves nothing in the store or in the queue that is later than now.
LEMMA DeliveredPast ==
    ASSUME PipelineAssumption, TypeOK, Past, NEW s \in Sample, Deliver(s),
           UNCHANGED <<clockVars, operations, anchor, last>>,
           software => software', \A p \in pauses' : p <= now,
           SoftReading(s) => s.tick <= now,
           s.id = Marker => s.tick <= now, s.id # Marker => anchor[s.id] # None
    PROVE  Past'
<1>1. EventsArePast'
  BY DEF Past, EventsArePast, clockVars
<1>2. SoftwareIsRead'
  BY DEF Past, SoftwareIsRead
<1>3. StoreIsPast'
  <2>1. \A i \in DOMAIN store' : (i \in DOMAIN store /\ store'[i] = store[i]) \/ store'[i] = s
    BY Delivered
  <2> QED BY <2>1 DEF Past, StoreIsPast, SoftReading, clockVars
<1>4. MetricsArePast'
  <2>1. SUFFICES ASSUME Soft, NEW e \in queue' PROVE e.at <= now
    BY DEF Past, MetricsArePast, Soft, clockVars
  <2>2. CASE queue' = queue
    BY <2>1, <2>2 DEF Past, MetricsArePast
  <2>3. CASE \A f \in queue' : f \in Entries(s, 1, Metrics)
    <3>1. OfPause(e, s, Metrics) \/ OfReading(e, s, Metrics)
      BY <2>1, <2>3, EntriesOf
    <3>2. CASE OfPause(e, s, Metrics)
      BY <3>2 DEF OfPause
    <3>3. CASE OfReading(e, s, Metrics)
      <4>1. s.id # Marker /\ s.id \in Ids
        BY <3>3, SampleTypes DEF OfReading
      <4>2. SoftReading(s)
        BY <2>1, <4>1 DEF Soft, SoftReading
      <4> QED BY <3>3, <4>2, SoftTime DEF OfReading
    <3> QED BY <3>1, <3>2, <3>3
  <2> QED BY <2>2, <2>3, DeliveredTo
<1> QED BY <1>1, <1>2, <1>3, <1>4 DEF Past

\* Every step leaves nothing that is later than now.
LEMMA PastStep ==
    ASSUME PipelineAssumption, TypeOK, Passes, Owned, MarkersArePauses, Past, Next
    PROVE  Past'
<1> USE DEF clockVars, routeVars, metricVars, storeVars
<1>1. CASE Wake \/ BeginPass \/ CallerRead \/ Stop \/ EndReplay
  <2>1. UNCHANGED <<clockVars, operations, anchor, software, store, last, queue, pauses>>
    BY <1>1 DEF Wake, BeginPass, CallerRead, Stop, EndReplay, collectorVars
  <2> QED
    BY <2>1
    DEF Past, EventsArePast, SoftwareIsRead, StoreIsPast, MetricsArePast, Soft, SoftReading
<1>2. CASE Tick
  <2>1. /\ now' = now + 1 /\ updated' = updated
        /\ UNCHANGED <<operations, anchor, software, store, last, queue, pauses>>
    BY <1>2 DEF Tick, collectorVars
  <2>2. now \in Int /\ \A n \in Int : n <= now => n <= now'
    BY <2>1, ConstantFacts DEF TypeOK, Time
  <2>3. /\ \A e \in Events : updated[e] \in Int
        /\ \A p \in pauses : p \in Int
        /\ \A i \in DOMAIN store : store[i].tick \in Int
        /\ \A m \in Metrics : last[m] # None => last[m] \in Int
        /\ \A e \in queue : e.at \in Int
    <3>1. (\A e \in Events : updated[e] \in Int) /\ (\A p \in pauses : p \in Int)
      BY ConstantFacts DEF TypeOK, Time
    <3>2. \A i \in DOMAIN store : store[i] \in Sample
      BY DEF TypeOK
    <3>3. \A m \in Metrics : last[m] # None => last[m] \in Int
      BY DEF TypeOK
    <3>4. \A e \in queue : e.at \in Int
      BY DEF TypeOK, Entry
    <3> QED BY <3>1, <3>2, <3>3, <3>4, SampleTypes
  <2>4. EventsArePast' /\ SoftwareIsRead'
    BY <2>1, <2>2, <2>3 DEF Past, EventsArePast, SoftwareIsRead
  <2>5. StoreIsPast' /\ MetricsArePast'
    BY <2>1, <2>2, <2>3 DEF Past, StoreIsPast, MetricsArePast, Soft, SoftReading
  <2> QED BY <2>4, <2>5 DEF Past
<1>3. ASSUME NEW e \in Events, FirmwareUpdate(e) PROVE Past'
  <2>1. /\ now' = now /\ updated' = [updated EXCEPT ![e] = now]
        /\ UNCHANGED <<operations, anchor, software, store, last, queue, pauses>>
    BY <1>3 DEF FirmwareUpdate, collectorVars
  <2>2. \A f \in Events : updated'[f] <= now
    BY <2>1, ConstantFacts DEF Past, EventsArePast, TypeOK, Time
  <2> QED
    BY SMTT(60), <2>1, <2>2
    DEF Past, EventsArePast, SoftwareIsRead, StoreIsPast, MetricsArePast, Soft, SoftReading
<1>4. CASE ReadOperation
  <2>1. UNCHANGED <<clockVars, operations, anchor, last, pauses>> /\ (software => software')
    BY <1>4 DEF ReadOperation
  <2>2. CASE UNCHANGED <<queue, storeVars>>
    <3>1. EventsArePast' /\ StoreIsPast' /\ MetricsArePast'
      BY <2>1, <2>2 DEF Past, EventsArePast, StoreIsPast, MetricsArePast, Soft, SoftReading
    <3>2. SoftwareIsRead'
      BY <2>1 DEF Past, SoftwareIsRead
    <3> QED BY <3>1, <3>2 DEF Past
  <2>3. ASSUME NEW s \in Sample, s.id = operations[next].id, Deliver(s),
               SoftReading(s) => s.tick <= now
        PROVE  Past'
    <3>1. anchor[s.id] # None /\ s.id # Marker
      BY <1>4, <2>3, Reading, ConstantFacts DEF Owned
    <3>2. \A p \in pauses' : p <= now
      BY <2>1 DEF Past, EventsArePast
    <3> QED BY <2>1, <2>3, <3>1, <3>2, DeliveredPast
  <2> QED BY SMTT(60), <1>4, <2>2, <2>3, ReadIsPast
<1>5. CASE Pause \/ Resume
  <2>1. PICK mark \in Marks : Deliver(MarkerSample(mark))
    BY <1>5 DEF Pause, Resume, Marks
  <2>2. /\ UNCHANGED <<clockVars, operations, anchor, last>> /\ software' = software
        /\ pauses' = pauses \/ pauses' = pauses \cup {now}
    BY <1>5 DEF Pause, Resume, collectorVars
  <2>3. /\ MarkerSample(mark) \in Sample /\ MarkerSample(mark).id = Marker
        /\ MarkerSample(mark).tick = now
    BY DEF MarkerSample, Sample, TypeOK
  <2>4. now <= now
    BY ConstantFacts DEF TypeOK, Time
  <2>5. \A p \in pauses' : p <= now
    BY <2>2, <2>4 DEF Past, EventsArePast
  <2> QED BY <2>1, <2>2, <2>3, <2>4, <2>5, DeliveredPast DEF SoftReading
<1>6. CASE Start \/ FailedReset
  <2>1. /\ UNCHANGED <<clockVars, anchor, software, last, queue, pauses>> /\ store' = CacheFile
        /\ operations' = operations \/ operations' = <<>>
    BY <1>6 DEF Start, FailedReset
  <2>2. EventsArePast' /\ SoftwareIsRead' /\ MetricsArePast'
    BY <2>1 DEF Past, EventsArePast, SoftwareIsRead, MetricsArePast, Soft
  <2>3. StoreIsPast'
    BY <2>1, CacheFileType DEF Past, StoreIsPast, SoftReading
  <2> QED BY <2>2, <2>3 DEF Past
<1>7. CASE \E request \in Requests : Configuring(request)
  <2>1. PICK request \in Requests : Configuring(request)
    BY <1>7
  <2>2. /\ MayConfigure /\ UNCHANGED <<clockVars, queue, replay>>
        /\ Afresh \/ GivenUp \/ LeftAlone
    BY <2>1, Configurations
  <2>3. SoftwareIsRead'
    BY <2>1, ConfiguredClock
  <2>4. queue' = {}
    BY <2>2 DEF MayConfigure, MayControl, Settled
  <2>5. CASE Afresh
    BY SMTT(60), <2>2, <2>3, <2>4, <2>5
    DEF Afresh, Past, EventsArePast, StoreIsPast, MetricsArePast
  <2>6. CASE GivenUp
    <3>1. StoreIsPast'
      <4>1. \A i \in DOMAIN store : store[i].id # Marker => store[i].id \in Ids
        BY IdsInUse
      <4>2. store' = CacheFile /\ now' = now /\ \A i \in Ids : anchor'[i] \in {None, anchor[i]}
        BY <2>2, <2>6 DEF GivenUp, clockVars
      <4>3. ASSUME NEW i \in DOMAIN store', SoftReading(store[i])'
            PROVE  (store[i].tick <= now)'
        <5>1. i \in DOMAIN store /\ store'[i] = store[i]
          BY <4>2, CacheFileType
        <5>2. store[i].id \in Ids /\ anchor[store[i].id] = SoftwareAnchor
          BY <4>1, <4>2, <4>3, <5>1, SoftTime DEF SoftReading
        <5> QED BY <4>1, <4>2, <4>3, <5>1, <5>2 DEF Past, StoreIsPast, SoftReading
      <4> QED BY <4>3 DEF StoreIsPast
    <3> QED
      BY <2>2, <2>3, <2>4, <2>6, <3>1 DEF GivenUp, Past, EventsArePast, MetricsArePast
  <2>7. CASE LeftAlone
    BY <2>2, <2>3, <2>4, <2>7
    DEF LeftAlone, Past, EventsArePast, StoreIsPast, MetricsArePast, Soft, SoftReading
  <2> QED BY <2>2, <2>5, <2>6, <2>7
<1>8. CASE \E M \in {{m} : m \in Metrics} \cup {Metrics} : BeginReplay(M)
  <2>1. PICK M : BeginReplay(M)
    BY <1>8
  <2>2. /\ UNCHANGED <<clockVars, operations, anchor, software, store, queue, pauses>>
        /\ \A m \in Metrics : last'[m] \in {None, last[m]}
    BY <2>1 DEF BeginReplay, ResetMetrics, collectorVars
  <2> QED
    BY <2>2
    DEF Past, EventsArePast, SoftwareIsRead, StoreIsPast, MetricsArePast, Soft, SoftReading
<1>9. CASE LoadBatch
  <2>1. UNCHANGED <<clockVars, operations, anchor, software, store, last, pauses>>
    BY <1>9 DEF LoadBatch, collectorVars
  <2>2. ASSUME Soft, NEW e \in queue' PROVE e.at <= now
    <3>1. PICK j \in DOMAIN store, pos \in Nat :
             /\ store[j] \in Sample /\ e \in Entries(store[j], pos, replay.of)
             /\ ~Ends(store[j], replay.of) /\ Selected(store[j], replay.of)
      BY <1>9, LoadedEntry
    <3>2. OfPause(e, store[j], replay.of) \/ OfReading(e, store[j], replay.of)
      BY <3>1, EntriesOf DEF TypeOK
    <3>3. CASE OfPause(e, store[j], replay.of)
      BY <3>3 DEF OfPause, MarkersArePauses, Past, EventsArePast
    <3>4. CASE OfReading(e, store[j], replay.of)
      <4>1. SoftReading(store[j])
        BY <2>2, <3>1, <3>4, SampleTypes DEF OfReading, Ends, Rejected, Soft, SoftReading
      <4> QED BY <3>1, <3>4, <4>1, SoftTime DEF OfReading, Past, StoreIsPast
    <3> QED BY <3>2, <3>3, <3>4
  <2> QED
    BY <2>1, <2>2
    DEF Past, EventsArePast, SoftwareIsRead, StoreIsPast, MetricsArePast, Soft, SoftReading
<1>10. ASSUME NEW e \in queue, Dispatch(e) PROVE Past'
  <2>1. /\ UNCHANGED <<clockVars, operations, anchor, software, store, pauses>>
        /\ queue' \subseteq queue
        /\ last' = last \/ last' = [last EXCEPT ![e.metric] = e.at]
    BY <1>10, Dispatched DEF collectorVars
  <2>2. \A m \in Metrics : last'[m] = last[m] \/ last'[m] = e.at
    BY <2>1 DEF TypeOK
  <2> QED
    BY <2>1, <2>2
    DEF Past, EventsArePast, SoftwareIsRead, StoreIsPast, MetricsArePast, Soft, SoftReading
<1> QED
  BY <1>1, <1>2, <1>3, <1>4, <1>5, <1>6, <1>7, <1>8, <1>9, <1>10, Zenon DEF Next, Configuring

-----------------------------------------------------------------------------
(* Who processes the queue.                                                 *)

\* A replay that goes on or has failed is under way.
LEMMA UnderWay ==
    ASSUME TypeOK, NEW r,
           \/ r = [replay EXCEPT !.failed = TRUE]
           \/ \E from \in Nat, failed \in BOOLEAN :
                from # 0 /\ r = [replay EXCEPT !.from = from, !.failed = failed]
    PROVE  r # Quiet /\ r.of = replay.of /\ (r = [replay EXCEPT !.failed = TRUE] => r.failed)
<1>1. replay \in [of: SUBSET Metrics, from: Nat, failed: BOOLEAN]
  BY DEF TypeOK
<1>2. Quiet.from = 0 /\ Quiet.failed = FALSE
  BY DEF Quiet
<1>3. CASE r = [replay EXCEPT !.failed = TRUE]
  <2>1. r.failed = TRUE /\ r.of = replay.of
    BY <1>1, <1>3
  <2> QED
    BY <1>2, <2>1
<1>4. CASE \E from \in Nat, failed \in BOOLEAN :
             from # 0 /\ r = [replay EXCEPT !.from = from, !.failed = failed]
  <2>1. PICK from \in Nat, failed \in BOOLEAN :
          from # 0 /\ r = [replay EXCEPT !.from = from, !.failed = failed]
    BY <1>4
  <2>2. r.from = from /\ r.of = replay.of /\ r.failed = failed
    BY <1>1, <2>1
  <2>3. r # Quiet
    BY <1>2, <2>1, <2>2
  <2>4. ASSUME r = [replay EXCEPT !.failed = TRUE]
        PROVE  r.failed
    BY <1>1, <2>4
  <2> QED
    BY <2>2, <2>3, <2>4
<1> QED
  BY <1>3, <1>4

\* A delivery finds an empty queue and leaves a reading there, or markers.
LEMMA DeliveredDue ==
    ASSUME PipelineAssumption, TypeOK, QueueIsDue, Settled, NEW s \in Sample, Deliver(s),
           UNCHANGED <<uncached, replay>>
    PROVE  /\ queue' # {} => uncached' \/ replay' # Quiet
           /\ replay' = Quiet
           /\ \A e, f \in queue' : e = f \/ (e.id = Marker /\ f.id = Marker)
           /\ uncached' => store' = <<>>
<1>1. queue = {} /\ replay' = Quiet
  BY DEF Settled
<1>2. ASSUME uncached, \A e \in queue' : e \in Entries(s, 1, Metrics),
             NEW e \in queue', NEW f \in queue'
      PROVE  e = f \/ (e.id = Marker /\ f.id = Marker)
  <2>1. e \in Entries(s, 1, Metrics) /\ f \in Entries(s, 1, Metrics)
    BY <1>2
  <2>2. CASE s.of # "pause"
    BY <2>1, <2>2, EntriesOf
  <2>3. CASE s.of = "pause"
    <3>1. s.id = Marker
      BY <2>3, SampleTypes DEF Marks
    <3>2. /\ OfPause(e, s, Metrics) \/ OfReading(e, s, Metrics)
          /\ OfPause(f, s, Metrics) \/ OfReading(f, s, Metrics)
      BY <2>1, EntriesOf
    <3> QED BY <3>1, <3>2 DEF OfPause, OfReading
  <2> QED BY <2>2, <2>3
<1>3. uncached => store = <<>>
  BY DEF QueueIsDue
<1> QED BY <1>1, <1>2, <1>3, DeliveredTo

\* An entry that is loaded is of a metric of the replay.
LEMMA LoadedForMetric ==
    ASSUME PipelineAssumption, TypeOK, LoadBatch, NEW e \in queue'
    PROVE  e.metric \in replay.of
<1> DEFINE M == replay.of
<1>1. M \in SUBSET Metrics
  BY DEF TypeOK
<1>2. PICK j \in DOMAIN store, pos \in Nat :
         /\ store[j] \in Sample /\ e \in Entries(store[j], pos, M)
         /\ Selected(store[j], M) /\ ~Ends(store[j], M)
  BY LoadedEntry
<1>3. OfPause(e, store[j], M) \/ OfReading(e, store[j], M)
  BY <1>1, <1>2, EntriesOf
<1>4. RoutedMetrics(M) \subseteq M
  <2>1. CASE OneOf(M)
    BY <2>1 DEF RoutedMetrics
  <2>2. CASE ~OneOf(M)
    BY <2>2 DEF RoutedMetrics, OneOf, TypeOK
  <2> QED BY <2>1, <2>2
<1>5. CASE OfReading(e, store[j], M)
  <2>1. store[j].id \in Ids /\ store[j].id # Marker /\ e.metric = Table(M)[store[j].id]
    BY <1>2, <1>5, SampleTypes DEF OfReading
  <2>2. OneOf(M) => e.metric \in M
    BY <1>2, <2>1 DEF Selected
  <2>3. e.metric # None
    BY <1>2, <2>1 DEF Ends, Rejected
  <2>4. Table(M)[store[j].id] \in Metrics \cup {None}
    BY <2>1 DEF Table, TypeOK
  <2> QED BY <2>1, <2>2, <2>3, <2>4 DEF OneOf
<1> QED BY <1>3, <1>4, <1>5 DEF OfPause

\* Every step leaves a queue that is due.
LEMMA QueueStep ==
    ASSUME PipelineAssumption, TypeOK, Passes, QueueIsDue, Next
    PROVE  QueueIsDue'
<1> USE DEF clockVars, routeVars, metricVars, storeVars
<1>1. CASE \/ Tick \/ (\E e \in Events : FirmwareUpdate(e)) \/ Wake \/ BeginPass \/ CallerRead
           \/ Stop
  <2>1. /\ UNCHANGED <<queue, uncached, replay, store, pauses>>
        /\ state' = state \/ state' = "STOPPED"
    BY <1>1 DEF Tick, FirmwareUpdate, Wake, BeginPass, CallerRead, Stop
  <2> QED BY <2>1 DEF QueueIsDue
<1>2. CASE ReadOperation \/ Pause \/ Resume
  <2>1. /\ UNCHANGED <<uncached, replay>> /\ Settled
        /\ state' = "CONFIGURED" => state = "CONFIGURED" /\ pauses' = pauses
    BY <1>2 DEF ReadOperation, Pause, Resume, MayControl
  <2>2. state' = "CONFIGURED" => pauses' = {}
    BY <2>1 DEF QueueIsDue
  <2>3. CASE UNCHANGED <<queue, storeVars>>
    BY <2>1, <2>2, <2>3 DEF QueueIsDue
  <2>4. ASSUME NEW s \in Sample, Deliver(s) PROVE QueueIsDue'
    <3>1. /\ queue' # {} => uncached' \/ replay' # Quiet
          /\ replay' = Quiet
          /\ \A e, f \in queue' : e = f \/ (e.id = Marker /\ f.id = Marker)
          /\ uncached' => store' = <<>>
      BY <2>1, <2>4, DeliveredDue
    <3> QED BY <2>2, <3>1 DEF QueueIsDue, Quiet
  <2>5. CASE ReadOperation
    BY <2>3, <2>4, <2>5, Reading
  <2>6. CASE Pause \/ Resume
    <3>1. MarkerSample("pause") \in Sample /\ MarkerSample("resume") \in Sample
      BY DEF MarkerSample, Sample, Marks, TypeOK
    <3> QED BY <2>4, <2>6, <3>1 DEF Pause, Resume
  <2> QED BY SMTT(60), <1>2, <2>5, <2>6
<1>3. CASE Start \/ FailedReset
  <2>1. /\ UNCHANGED <<queue, uncached, replay>> /\ store' = CacheFile
        /\ state' # "CONFIGURED"
    BY <1>3 DEF Start, FailedReset
  <2>2. store = <<>> => CacheFile = <<>>
    <3>1. ASSUME store = <<>> PROVE DOMAIN CacheFile = {} /\ CacheFile \in Seq(Sample)
      <4>1. DOMAIN store = {}
        BY <3>1
      <4> QED BY <4>1, CacheFileType
    <3> QED BY <3>1
  <2> QED BY <2>1, <2>2 DEF QueueIsDue
<1>4. CASE \E request \in Requests : Configuring(request)
  <2>1. MayConfigure /\ UNCHANGED <<queue, replay>> /\ (Afresh \/ GivenUp \/ LeftAlone)
    BY <1>4, Configurations
  <2>2. queue' = {} /\ replay' = Quiet
    BY <2>1 DEF MayConfigure, MayControl, Settled
  <2>3. CASE Afresh
    BY <2>2, <2>3 DEF Afresh, QueueIsDue
  <2>4. CASE GivenUp
    BY <2>2, <2>4 DEF GivenUp, QueueIsDue
  <2>5. CASE LeftAlone
    BY <2>2, <2>5 DEF LeftAlone, QueueIsDue
  <2> QED BY <2>1, <2>3, <2>4, <2>5
<1>5. CASE (\E M \in {{m} : m \in Metrics} \cup {Metrics} : BeginReplay(M)) \/ EndReplay
  <2>1. /\ UNCHANGED <<queue, uncached, store, state, pauses>> /\ queue = {}
        /\ store # <<>> \/ replay' = Quiet
    BY <1>5 DEF BeginReplay, EndReplay, MayCall, Settled
  <2> QED BY <2>1 DEF QueueIsDue
<1>6. CASE LoadBatch
  <2>1. UNCHANGED <<uncached, store, state, pauses>> /\ replay # Quiet
    BY SMTT(60), <1>6 DEF LoadBatch
  <2>2. PICK until \in Nat :
             /\ replay.from < until
             /\ replay' = [replay EXCEPT !.from = until, !.failed = replay'.failed]
    BY <1>6, Loaded
  <2>3. replay' # Quiet /\ replay'.of = replay.of
    <3>1. until # 0
      BY <2>2 DEF TypeOK
    <3>2. TypeOK'
      BY <1>6, ReplayTypes
    <3>3. replay'.failed \in BOOLEAN
      BY <3>2 DEF TypeOK
    <3>4. \E from \in Nat, failed \in BOOLEAN :
             from # 0 /\ replay' = [replay EXCEPT !.from = from, !.failed = failed]
      BY <2>2, <3>1, <3>3
    <3> QED BY <3>4, UnderWay, Zenon
  <2>4. \A e \in queue' : e.metric \in replay.of
    BY <1>6, LoadedForMetric
  <2> QED BY <2>1, <2>3, <2>4 DEF QueueIsDue
<1>7. ASSUME NEW e \in queue, Dispatch(e) PROVE QueueIsDue'
  <2>1. UNCHANGED <<uncached, store, state, pauses>> /\ queue' \subseteq queue
    BY <1>7, Dispatched
  <2>2. \/ replay' = replay
        \/ replay # Quiet /\ replay' # Quiet /\ replay'.of = replay.of
    <3>1. \/ replay' = replay
          \/ replay # Quiet /\ replay' = [replay EXCEPT !.failed = TRUE]
      BY <1>7, Rounds
    <3> QED BY <3>1, UnderWay
  <2> QED BY <2>1, <2>2 DEF QueueIsDue
<1> QED BY <1>1, <1>2, <1>3, <1>4, <1>5, <1>6, <1>7, Zenon DEF Next, Configuring

-----------------------------------------------------------------------------
(* Previous samples.                                                        *)

\* Every step leaves a metric its previous sample from its last timestamp.
LEMMA PreviousStep ==
    ASSUME PipelineAssumption, TypeOK, PreviousIsLast, Next
    PROVE  PreviousIsLast'
<1> USE DEF clockVars, routeVars, metricVars, storeVars
<1>1. CASE \/ Tick \/ (\E e \in Events : FirmwareUpdate(e)) \/ Wake \/ BeginPass \/ CallerRead
           \/ ReadOperation \/ Pause \/ Resume \/ Start \/ Stop \/ FailedReset \/ LoadBatch
           \/ EndReplay
  <2>1. UNCHANGED <<previous, last>>
    BY <1>1
    DEF Tick, FirmwareUpdate, Wake, BeginPass, CallerRead, ReadOperation, Pause, Resume, Start,
        Stop, FailedReset, LoadBatch, EndReplay
  <2> QED BY SMTT(60), <2>1 DEF PreviousIsLast
<1>2. CASE \E request \in Requests : Configuring(request)
  <2>1. Afresh \/ GivenUp \/ LeftAlone
    BY <1>2, Configurations
  <2> QED BY <2>1 DEF Afresh, GivenUp, LeftAlone, PreviousIsLast
<1>3. CASE \E M \in {{m} : m \in Metrics} \cup {Metrics} : BeginReplay(M)
  <2>1. PICK M : ResetMetrics(M)
    BY <1>3 DEF BeginReplay
  <2> QED BY <2>1 DEF ResetMetrics, PreviousIsLast
<1>4. ASSUME NEW e \in queue, Dispatch(e) PROVE PreviousIsLast'
  <2>1. e.metric \in Metrics
    BY SinksType
  <2>2. previous \in [Metrics -> Held \cup {None}] /\ last \in [Metrics -> Int \cup {None}]
    BY DEF TypeOK
  <2>3. CASE UNCHANGED <<previous, last>>
    BY <2>3 DEF PreviousIsLast
  <2>4. ASSUME last' = [last EXCEPT ![e.metric] = e.at], ProcessPauseSample(e)
        PROVE  PreviousIsLast'
    BY <2>1, <2>2, <2>4 DEF ProcessPauseSample, PreviousIsLast
  <2>5. ASSUME last' = [last EXCEPT ![e.metric] = e.at], ReceiveRawSample(e)
        PROVE  PreviousIsLast'
    <3>1. CASE Kind[e.metric] = "value"
      <4>1. previous' = previous /\ previous[e.metric] = None
        BY <2>1, <2>5, <3>1 DEF ReceiveRawSample, PreviousIsLast
      <4> QED BY SMTT(60), <2>1, <2>2, <2>5, <4>1 DEF PreviousIsLast
    <3>2. CASE Kind[e.metric] # "value"
      <4> DEFINE h == [at |-> e.at, taken |-> e.taken]
      <4>1. previous' = [previous EXCEPT ![e.metric] = h]
        BY <2>5, <3>2 DEF ReceiveRawSample
      <4>2. h.at = e.at
        OBVIOUS
      <4> HIDE DEF h
      <4> QED BY <2>1, <2>2, <2>5, <3>2, <4>1, <4>2 DEF PreviousIsLast
    <3> QED BY <3>1, <3>2
  <2> QED BY <1>4, <2>3, <2>4, <2>5, Rounds, Zenon
<1> QED BY <1>1, <1>2, <1>3, <1>4, Zenon DEF Next, Configuring

-----------------------------------------------------------------------------
(* Where a pause cuts the store.                                            *)

\* A position behind a first part of a sequence is behind all of it.
LEMMA BeyondAll ==
    ASSUME NEW n \in Nat, NEW k \in Nat, k <= n, NEW c \in 1..(n + 1), c \notin 1..k
    PROVE  /\ k + 1 \in 1..(k + 1) /\ k + 1 \notin 1..k
           /\ \A i \in 1..((k + 1) - 1) : i \in 1..(c - 1) /\ i \in 1..k
OBVIOUS

\* The positions before a cut are in the store.
LEMMA BeforeCut ==
    ASSUME NEW n \in Nat, NEW c \in 1..(n + 1)
    PROVE  /\ \A i \in 1..(c - 1) : i \in 1..n /\ i < c
           /\ c \in 1..n \/ c = n + 1
           /\ c \in 1..n => c \in 1..(n + 1)
           /\ c \in 1..((n + 1) + 1)
           /\ n + 1 \in 1..((n + 1) + 1) /\ n + 1 \in 1..(n + 1) /\ n + 1 \notin 1..n
           /\ \A i \in 1..((n + 1) - 1) : i \in 1..n
OBVIOUS

\* What a cut is after a step, for a position and a time that do not change with it.
LEMMA IsCut ==
    ASSUME NEW p, NEW c,
           IF c \in DOMAIN store' THEN store'[c].of = "pause" /\ store'[c].tick = p
           ELSE uncached' \/ operations' = <<>>,
           \A i \in 1..(c - 1) : SoftReading(store[i])' => store'[i].tick <= p
    PROVE  Cuts(p, c)'
BY DEF Cuts

\* The cuts stay where they are in a store that stays.
LEMMA StillCut ==
    ASSUME PausesCut, UNCHANGED <<pauses, store, anchor, uncached>>,
           operations' = operations \/ operations' = <<>>
    PROVE  PausesCut'
<1>1. \A p \in pauses : \A c \in 1..(Len(store) + 1) : Cuts(p, c) => Cuts(p, c)'
  BY DEF Cuts, SoftReading
<1> QED BY <1>1 DEF PausesCut

\* In what is left of the cache file a pause cuts where it did, or behind all of it.
LEMMA CutShort ==
    ASSUME PipelineAssumption, TypeOK, PausesCut, pauses' = pauses, store' = CacheFile,
           operations' = <<>>, \A i \in Ids : anchor'[i] \in {None, anchor[i]}
    PROVE  PausesCut'
<1>0. PICK n, k : n = Len(store) /\ k = Len(store')
  OBVIOUS
<1>1. /\ store' \in Seq(Sample) /\ k \in Nat /\ DOMAIN store' = 1..k
      /\ n \in Nat /\ DOMAIN store = 1..n
      /\ \A i \in 1..k : i \in 1..n /\ store'[i] = store[i]
  <2>1. store \in Seq(Sample) /\ n \in Nat /\ DOMAIN store = 1..n
    BY <1>0 DEF TypeOK
  <2>2. store' \in Seq(Sample) /\ k \in Nat /\ DOMAIN store' = 1..k
    <3>1. store' \in Seq(Sample)
      BY CacheFileType
    <3> QED BY <1>0, <3>1
  <2> QED BY <2>1, <2>2, CacheFileType
<1>2. k <= n
  BY <1>1
<1>3. \A i \in 1..k : SoftReading(store[i])' => SoftReading(store[i])
  <2>1. \A i \in DOMAIN store : store[i].id # Marker => store[i].id \in Ids
    BY IdsInUse
  <2> QED BY ZenonT(60), <1>1, <2>1, SoftTime DEF SoftReading
<1>4. ASSUME NEW p \in pauses PROVE \E c \in 1..(k + 1) : Cuts(p, c)'
  <2>1. PICK c \in 1..(n + 1) : Cuts(p, c)
    BY <1>0 DEF PausesCut
  <2>2. CASE c \in 1..k
    <3>1. /\ store'[c].of = "pause" /\ store'[c].tick = p
      BY <1>1, <2>1, <2>2 DEF Cuts
    <3>2. \A i \in 1..(c - 1) : i \in 1..k
      BY <1>1, <2>2
    <3>3. \A i \in 1..(c - 1) : SoftReading(store[i])' => store'[i].tick <= p
      BY <1>1, <1>3, <2>1, <3>2 DEF Cuts
    <3>4. Cuts(p, c)'
      BY SMTT(60), <1>1, <2>2, <3>1, <3>3, IsCut
    <3> QED BY <1>1, <2>2, <3>4, OneMore
  <2>3. CASE c \notin 1..k
    <3>1. /\ k + 1 \in 1..(k + 1) /\ k + 1 \notin 1..k
          /\ \A i \in 1..((k + 1) - 1) : i \in 1..(c - 1) /\ i \in 1..k
      BY <1>1, <1>2, <2>3, BeyondAll
    <3>2. \A i \in 1..((k + 1) - 1) : SoftReading(store[i])' => store'[i].tick <= p
      BY <1>1, <1>3, <2>1, <3>1 DEF Cuts
    <3>3. k + 1 \notin DOMAIN store' /\ operations' = <<>>
      BY <1>1, <3>1
    <3>4. Cuts(p, k + 1)'
      BY <3>2, <3>3, IsCut
    <3> QED BY <3>1, <3>4
  <2> QED BY <2>2, <2>3
<1> QED BY <1>0, <1>4 DEF PausesCut

\* Behind the cuts there were, and for a pause of now at its marker, samples come in.
LEMMA CutDelivered ==
    ASSUME PipelineAssumption, TypeOK, Past, QueueIsDue, PausesCut, operations # <<>>,
           NEW s \in Sample, Deliver(s), UNCHANGED <<uncached, operations, anchor>>,
           \/ pauses' = pauses
           \/ pauses' = pauses \cup {now} /\ s.of = "pause" /\ s.tick = now
    PROVE  PausesCut'
<1>00. PICK n, t : n = Len(store) /\ t = now
  OBVIOUS
<1>0. store \in Seq(Sample) /\ n \in Nat /\ DOMAIN store = 1..n
  BY <1>00 DEF TypeOK
<1>1. CASE uncached /\ store' = store
  <2>1. store = <<>> /\ DOMAIN store = {}
    BY <1>1 DEF QueueIsDue
  <2>2. ASSUME NEW p PROVE Cuts(p, 1)'
    <3>1. 1 \notin DOMAIN store' /\ uncached' /\ 1..(1 - 1) = {}
      BY <1>1, <2>1
    <3> QED BY <3>1, IsCut
  <2>3. 1 \in 1..(Len(store') + 1)
    BY <1>1, <2>1
  <2> QED BY <2>2, <2>3 DEF PausesCut
<1>2. CASE /\ ~uncached /\ Len(store') = n + 1
           /\ \A i \in DOMAIN store : i \in DOMAIN store' /\ store'[i] = store[i]
           /\ store'[n + 1] = s
           /\ DOMAIN store' = 1..(n + 1)
  <2>1. \A i \in 1..n : SoftReading(store[i])' = SoftReading(store[i])
    BY <1>0, <1>2 DEF SoftReading
  <2>2. ASSUME NEW p \in pauses PROVE \E c \in 1..(Len(store') + 1) : Cuts(p, c)'
    <3>1. PICK c \in 1..(n + 1) : Cuts(p, c)
      BY <1>0 DEF PausesCut
    <3>2. c \in 1..n
      <4>1. c \in DOMAIN store
        BY <1>2, <3>1 DEF Cuts
      <4> QED BY <1>0, <4>1
    <3>3. \A i \in 1..(c - 1) : i \in 1..n
      BY <1>0, BeforeCut
    <3>4. \A i \in 1..(c - 1) : SoftReading(store[i])' => store'[i].tick <= p
      BY <1>0, <1>2, <2>1, <3>1, <3>3 DEF Cuts
    <3>5. store'[c].of = "pause" /\ store'[c].tick = p /\ c \in DOMAIN store'
      BY SMTT(60), <1>0, <1>2, <3>1, <3>2 DEF Cuts
    <3>6. Cuts(p, c)'
      BY <3>4, <3>5, IsCut
    <3>7. c \in 1..((n + 1) + 1)
      BY <1>0, BeforeCut
    <3> QED BY <1>2, <3>6, <3>7
  <2>3. ASSUME s.of = "pause", s.tick = now PROVE \E c \in 1..(Len(store') + 1) : Cuts(t, c)'
    <3>1. \A i \in 1..((n + 1) - 1) : i \in 1..n
      BY <1>0
    <3>2. \A i \in 1..((n + 1) - 1) : SoftReading(store[i])' => store'[i].tick <= t
      BY <1>00, <1>0, <1>2, <2>1, <3>1 DEF Past, StoreIsPast
    <3>3. n + 1 \in DOMAIN store' /\ n + 1 \in 1..((n + 1) + 1)
      BY <1>0, <1>2
    <3>4. Cuts(t, n + 1)'
      BY <1>00, <1>2, <2>3, <3>2, <3>3, IsCut
    <3> QED BY <1>2, <3>3, <3>4
  <2>4. \A p \in pauses' : p \in pauses \/ (p = t /\ s.of = "pause" /\ s.tick = now)
    BY <1>00
  <2>5. \A p \in pauses' : \E c \in 1..(Len(store') + 1) : Cuts(p, c)'
    BY <2>2, <2>3, <2>4
  <2> QED BY <2>5 DEF PausesCut
<1> QED BY <1>00, <1>1, <1>2, DeliveredTo

\* Every step leaves the pauses their cuts.
LEMMA CutStep ==
    ASSUME PipelineAssumption, TypeOK, Passes, Past, QueueIsDue, PausesCut, Next
    PROVE  PausesCut'
<1> USE DEF clockVars, collectorVars, routeVars, metricVars, storeVars
<1>1. CASE \/ Tick \/ (\E e \in Events : FirmwareUpdate(e)) \/ Wake \/ BeginPass \/ CallerRead
           \/ Stop \/ (\E M \in {{m} : m \in Metrics} \cup {Metrics} : BeginReplay(M))
           \/ LoadBatch \/ EndReplay
  <2>1. UNCHANGED <<pauses, store, anchor, uncached, operations>>
    BY <1>1
    DEF Tick, FirmwareUpdate, Wake, BeginPass, CallerRead, Stop, BeginReplay, LoadBatch, EndReplay
  <2> QED BY <2>1, StillCut
<1>2. CASE ReadOperation
  <2>1. UNCHANGED <<pauses, uncached, operations, anchor>>
    BY <1>2 DEF ReadOperation
  <2>2. operations # <<>>
    <3>1. next \in DOMAIN operations
      BY <1>2, Reading
    <3> QED BY <3>1
  <2>3. CASE UNCHANGED <<queue, storeVars>>
    BY <2>1, <2>3, StillCut
  <2>4. ASSUME NEW s \in Sample, Deliver(s) PROVE PausesCut'
    BY <2>1, <2>2, <2>4, CutDelivered
  <2> QED BY <1>2, <2>3, <2>4, Reading
<1>3. CASE Pause \/ Resume
  <2>1. /\ UNCHANGED <<uncached, operations, anchor>> /\ state \in Running
        /\ \/ pauses' = pauses
           \/ pauses' = pauses \cup {now} /\ Deliver(MarkerSample("pause"))
        /\ Deliver(MarkerSample("pause")) \/ Deliver(MarkerSample("resume"))
    BY <1>3 DEF Pause, Resume, Running
  <2>2. operations # <<>>
    BY <2>1 DEF Passes
  <2>3. /\ MarkerSample("pause") \in Sample /\ MarkerSample("resume") \in Sample
        /\ MarkerSample("pause").of = "pause" /\ MarkerSample("pause").tick = now
    BY DEF MarkerSample, Sample, Marks, TypeOK
  <2> HIDE DEF clockVars, collectorVars, routeVars, metricVars, storeVars
  <2> QED BY <2>1, <2>2, <2>3, CutDelivered
<1>4. CASE Start
  <2>1. pauses' = {}
    BY <1>4 DEF Start, QueueIsDue
  <2> QED BY <2>1 DEF PausesCut
<1>5. CASE FailedReset
  <2>1. UNCHANGED <<pauses, anchor>> /\ store' = CacheFile /\ operations' = <<>>
    BY <1>5 DEF FailedReset
  <2> QED BY <2>1, CutShort
<1>6. CASE \E request \in Requests : Configuring(request)
  <2>1. Afresh \/ GivenUp \/ LeftAlone
    BY <1>6, Configurations
  <2>2. CASE Afresh
    BY <2>2 DEF Afresh, PausesCut
  <2>3. CASE GivenUp
    <3>1. /\ pauses' = pauses /\ store' = CacheFile /\ operations' = <<>>
          /\ \A i \in Ids : anchor'[i] \in {None, anchor[i]}
      BY <2>3 DEF GivenUp
    <3> QED BY <3>1, CutShort
  <2>4. CASE LeftAlone
    <3>1. /\ UNCHANGED <<pauses, store, anchor, uncached>>
          /\ operations' = operations \/ operations' = <<>>
      BY <2>4 DEF LeftAlone
    <3> QED BY <3>1, StillCut
  <2> QED BY <2>1, <2>2, <2>3, <2>4
<1>7. CASE \E e \in queue : Dispatch(e)
  <2>1. UNCHANGED <<pauses, store, anchor, uncached, operations>>
    BY <1>7, Dispatched
  <2> QED BY <2>1, StillCut
<1> QED BY <1>1, <1>2, <1>3, <1>4, <1>5, <1>6, <1>7, Zenon DEF Next, Configuring

-----------------------------------------------------------------------------
(* Metrics meet the pauses.                                                 *)

\* What is ahead of a metric stays ahead when nothing changes but the queue and the
\* metrics, or the collector loses its operations.
LEMMA StillAhead ==
    ASSUME UNCHANGED <<replay, routes, store, anchor, uncached>>,
           operations' = operations \/ operations' = <<>>,
           NEW m, NEW p, Ahead(m, p)
    PROVE  Ahead(m, p)'
<1>1. \A c \in 1..(Len(store) + 1) : Cuts(p, c) => Cuts(p, c)'
  BY DEF Cuts, SoftReading
<1>2. RoutedMetrics(replay.of)' = RoutedMetrics(replay.of)
  BY DEF RoutedMetrics
<1> QED BY <1>1, <1>2 DEF Ahead

\* A metric meets what it met when its last timestamp stays and nothing of it comes into
\* an empty queue but markers.
LEMMA StillMeets ==
    ASSUME NEW m, NEW p, Meets(m, p), queue = {}, last' = last,
           \A e \in queue' : e.metric = m =>
               e.id = Marker \/ \E k \in DOMAIN operations : operations[k].metric = m,
           replay = Quiet, UNCHANGED <<replay, routes, store, anchor, uncached>>,
           operations' = operations \/ operations' = <<>>
    PROVE  Meets(m, p)'
<1>1. CASE last[m] # None /\ p <= last[m]
  BY <1>1 DEF Meets
<1>2. CASE Ahead(m, p)
  <2>1. Ahead(m, p)'
    BY <1>2, StillAhead
  <2>2. \A e \in queue' : e.metric = m => e.id = Marker
    BY <1>2 DEF Ahead
  <2> QED BY <2>1, <2>2 DEF Meets
<1> QED BY <1>1, <1>2 DEF Meets

\* A round of the loop takes a metric no further than to the pause, or beyond it for good.
LEMMA DispatchMeets ==
    ASSUME PipelineAssumption, TypeOK, QueueIsDue, NEW e \in queue, Dispatch(e),
           NEW m \in Metrics, NEW p \in pauses, Meets(m, p)
    PROVE  Meets(m, p)'
<1> DEFINE n == e.metric
<1>1. /\ UNCHANGED <<operations, routes, store, anchor, uncached>>
      /\ queue' \subseteq queue
  BY Dispatched DEF collectorVars, routeVars, storeVars
<1>2. /\ n \in Metrics /\ e.at \in Int /\ p \in Int
      /\ last \in [Metrics -> Int \cup {None}]
      /\ None \notin Int
  <2>1. n \in Metrics /\ e.at \in Int /\ None \notin Int
    BY SinksType, ConstantFacts
  <2>2. pauses \subseteq Int
    BY ConstantFacts DEF TypeOK, Time
  <2>3. last \in [Metrics -> Int \cup {None}]
    BY DEF TypeOK
  <2> QED BY <2>1, <2>2, <2>3
<1>3. ASSUME replay' = replay, Ahead(m, p),
             \A f \in queue : f.metric = m /\ f.id # Marker => f.at <= p
      PROVE  Meets(m, p)'
  <2>1. Ahead(m, p)'
    BY <1>1, <1>3, StillAhead
  <2>2. \A f \in queue' : f.metric = m /\ f.id # Marker => f.at <= p
    BY <1>1, <1>3
  <2> QED BY <2>1, <2>2 DEF Meets
<1>4. ASSUME IsTimestampRegression(e), queue' = queue \ {e}, UNCHANGED <<last, replay>>
      PROVE  Meets(m, p)'
  <2>1. ASSUME NEW f \in queue, f.id = Marker, f.metric = m, f.at = p PROVE Meets(m, p)'
    <3>1. CASE f # e
      BY <1>4, <2>1, <3>1 DEF Meets
    <3>2. CASE f = e
      <4>1. last[m] # None /\ p <= last[m]
        BY SMTT(60), <1>2, <1>4, <2>1, <3>2 DEF IsTimestampRegression
      <4> QED BY <1>4, <4>1 DEF Meets
    <3> QED BY <3>1, <3>2
  <2>2. CASE last[m] # None /\ p <= last[m]
    BY <1>4, <2>2 DEF Meets
  <2> QED BY <1>3, <1>4, <2>1, <2>2 DEF Meets
<1>5. ASSUME e.id # Marker, queue' = {}, last' = last,
             IF replay # Quiet THEN replay' = [replay EXCEPT !.failed = TRUE]
                               ELSE replay' = replay
      PROVE  Meets(m, p)'
  <2>1. CASE replay # Quiet
    <3>1. replay' # Quiet /\ replay'.failed
      BY <1>5, <2>1, UnderWay
    <3>2. Ahead(m, p)'
      BY <3>1 DEF Ahead
    <3> QED BY <1>5, <3>2 DEF Meets
  <2>2. CASE replay = Quiet
    <3>1. \A f \in queue : f = e
      BY <1>5, <2>2 DEF QueueIsDue
    <3>2. CASE last[m] # None /\ p <= last[m]
      BY <1>5, <3>2 DEF Meets
    <3> QED BY <1>3, <1>5, <2>2, <3>1, <3>2 DEF Meets
  <2> QED BY <2>1, <2>2
<1>6. ASSUME ~IsTimestampRegression(e), queue' = queue \ {e}, replay' = replay,
             last' = [last EXCEPT ![n] = e.at]
      PROVE  Meets(m, p)'
  <2>1. last'[n] = e.at /\ last'[n] # None
    BY <1>2, <1>6
  <2>2. ASSUME NEW f \in queue, f.id = Marker, f.metric = m, f.at = p PROVE Meets(m, p)'
    <3>1. CASE f # e
      BY <1>6, <2>2, <3>1 DEF Meets
    <3>2. CASE f = e
      <4>1. last'[m] # None /\ p <= last'[m]
        BY SMTT(60), <1>2, <2>1, <2>2, <3>2
      <4> QED BY <4>1 DEF Meets
    <3> QED BY <3>1, <3>2
  <2>3. ASSUME last[m] # None, p <= last[m] PROVE Meets(m, p)'
    <3>1. CASE m # n
      <4>1. last'[m] = last[m]
        BY <1>2, <1>6, <3>1
      <4> QED BY <2>3, <4>1 DEF Meets
    <3>2. CASE m = n
      <4>1. last[n] \in Int /\ last[n] <= e.at
        BY SMTT(60), <1>2, <1>6, <2>3, <3>2 DEF IsTimestampRegression
      <4>2. last'[m] # None /\ p <= last'[m]
        BY SMTT(60), <1>2, <2>1, <2>3, <3>2, <4>1
      <4> QED BY <4>2 DEF Meets
    <3> QED BY <3>1, <3>2
  <2> QED BY <1>3, <1>6, <2>2, <2>3 DEF Meets
<1> QED BY <1>4, <1>5, <1>6, Rounds

\* An entry that is loaded is of a routed metric.
LEMMA LoadedRouted ==
    ASSUME PipelineAssumption, TypeOK, LoadBatch, NEW e \in queue'
    PROVE  e.metric \in RoutedMetrics(replay.of)
<1> DEFINE M == replay.of
<1>1. CASE OneOf(M)
  BY <1>1, LoadedForMetric DEF RoutedMetrics
<1>2. CASE ~OneOf(M)
  <2>1. M \in SUBSET Metrics
    BY DEF TypeOK
  <2>2. PICK j \in DOMAIN store, pos \in Nat :
           /\ store[j] \in Sample /\ e \in Entries(store[j], pos, M)
           /\ Selected(store[j], M) /\ ~Ends(store[j], M)
    BY LoadedEntry
  <2>3. CASE OfPause(e, store[j], M)
    BY <2>3 DEF OfPause
  <2>4. CASE OfReading(e, store[j], M)
    <3>1. store[j].id \in Ids /\ store[j].id # Marker /\ e.metric = Table(M)[store[j].id]
      BY <2>2, <2>4, SampleTypes DEF OfReading
    <3>2. e.metric # None
      BY <2>2, <3>1 DEF Ends, Rejected
    <3>3. e.metric = routes[store[j].id]
      BY <1>2, <3>1 DEF Table
    <3> QED BY <1>2, <3>1, <3>2, <3>3 DEF RoutedMetrics
  <2> QED BY <2>1, <2>2, <2>3, <2>4, EntriesOf
<1> QED BY <1>1, <1>2

\* A batch that is loaded ends before the cut of a pause or brings its marker.
LEMMA LoadMeets ==
    ASSUME PipelineAssumption, TypeOK, PausesCut, Soft, LoadBatch,
           NEW m \in Metrics, NEW p \in pauses, Meets(m, p)
    PROVE  Meets(m, p)'
<1>1. /\ UNCHANGED <<operations, routes, store, anchor, uncached, last>>
      /\ queue = {} /\ replay # Quiet /\ ~replay.failed
  BY DEF LoadBatch, collectorVars, routeVars, metricVars, storeVars
<1> PICK M : M = replay.of
  BY ONLY TRUE
<1>2. M \in SUBSET Metrics
  BY SMTT(60) DEF TypeOK
<1>3. PICK until \in Nat :
         /\ replay.from < until /\ until <= Len(store)
         /\ replay' = [replay EXCEPT !.from = until, !.failed = replay'.failed]
         /\ \A e \in queue' : \E j \in DOMAIN store, pos \in Nat :
              /\ replay.from < j /\ j <= until /\ store[j] \in Sample
              /\ Selected(store[j], M) /\ e \in Entries(store[j], pos, M)
              /\ \A k \in DOMAIN store :
                   replay.from < k /\ k <= until /\ Ends(store[k], M) => j < k
         /\ \A j \in DOMAIN store :
              /\ replay.from < j /\ j <= until /\ Selected(store[j], M)
              => \/ \E pos \in Nat : Entries(store[j], pos, M) \subseteq queue'
                 \/ replay'.failed /\ queue' = {}
                 \/ /\ replay'.failed
                    /\ \E k \in DOMAIN store :
                         /\ replay.from < k /\ k <= j /\ Ends(store[k], M)
  BY Loaded
<1>4. /\ replay' # Quiet /\ replay'.of = M /\ replay'.from = until
  <2>1. until # 0
    BY SMTT(60), <1>3 DEF TypeOK
  <2>2. TypeOK'
    BY ReplayTypes
  <2>3. replay'.failed \in BOOLEAN
    BY <2>2 DEF TypeOK
  <2>4. \E from \in Nat, failed \in BOOLEAN :
           from # 0 /\ replay' = [replay EXCEPT !.from = from, !.failed = failed]
    BY <1>3, <2>1, <2>3
  <2>5. replay' # Quiet /\ replay'.of = replay.of
    BY <2>4, UnderWay, Zenon
  <2>6. replay'.from = until
    BY <1>3 DEF TypeOK
  <2> QED BY <2>5, <2>6
<1>5. RoutedMetrics(replay.of)' = RoutedMetrics(M)
  BY <1>1, <1>4 DEF RoutedMetrics
<1>6. Len(store) \in Nat /\ DOMAIN store = 1..Len(store) /\ replay.from \in Nat
  BY DEF TypeOK
<1>7. ASSUME NEW c \in 1..(Len(store) + 1), Cuts(p, c),
             NEW e \in queue', e.id # Marker,
             \/ c > until
             \/ \E k \in DOMAIN store :
                  replay.from < k /\ k <= c /\ k <= until /\ Ends(store[k], M)
      PROVE  e.at <= p
  <2>1. PICK j \in DOMAIN store, pos \in Nat :
           /\ replay.from < j /\ j <= until /\ store[j] \in Sample
           /\ Selected(store[j], M) /\ e \in Entries(store[j], pos, M)
           /\ \A k \in DOMAIN store :
                replay.from < k /\ k <= until /\ Ends(store[k], M) => j < k
    BY <1>3
  <2>2. OfReading(e, store[j], M)
    <3>1. OfPause(e, store[j], M) \/ OfReading(e, store[j], M)
      BY <1>2, <2>1, EntriesOf
    <3> QED BY <1>7, <3>1 DEF OfPause
  <2>3. ~Ends(store[j], M)
    <3>1. ~(j < j)
      BY <1>6
    <3> QED BY <2>1, <3>1
  <2>4. SoftReading(store[j])
    BY <2>1, <2>2, <2>3, SampleTypes DEF OfReading, Ends, Rejected, Soft, SoftReading
  <2>5. j \in 1..(c - 1)
    <3>1. j < c
      <4>1. CASE c > until
        BY <1>3, <1>6, <2>1, <4>1
      <4>2. CASE \E k \in DOMAIN store :
                   replay.from < k /\ k <= c /\ k <= until /\ Ends(store[k], M)
        <5>1. PICK k \in DOMAIN store :
                 replay.from < k /\ k <= c /\ k <= until /\ Ends(store[k], M)
          BY <4>2
        <5>2. j < k
          BY <2>1, <5>1
        <5> QED BY <1>6, <5>1, <5>2
      <4> QED BY <1>7, <4>1, <4>2
    <3> QED BY <1>6, <3>1
  <2>6. store[j].tick <= p
    BY <1>7, <2>4, <2>5 DEF Cuts
  <2> QED BY <2>1, <2>2, <2>4, <2>6, SoftTime DEF OfReading
<1>8. CASE last[m] # None /\ p <= last[m]
  BY <1>1, <1>8 DEF Meets
<1>9. CASE m \notin RoutedMetrics(M)
  <2>1. \A e \in queue' : e.metric # m
    <3>1. \A e \in queue' : e.metric \in RoutedMetrics(replay.of)
      BY LoadedRouted
    <3> QED BY <1>9, <3>1
  <2>2. Ahead(m, p)'
    BY <1>4, <1>5, <1>9 DEF Ahead
  <2> QED BY <2>1, <2>2 DEF Meets
<1>10. ASSUME m \in RoutedMetrics(M), NEW c \in 1..(Len(store) + 1), Cuts(p, c), c > replay.from
       PROVE  Meets(m, p)'
  <2>1. Cuts(p, c)'
    BY <1>1, <1>10 DEF Cuts, SoftReading
  <2>2. CASE c > until
    <3>1. \A e \in queue' : e.metric = m /\ e.id # Marker => e.at <= p
      BY <1>7, <1>10, <2>2
    <3>2. Ahead(m, p)'
      BY <1>1, <1>4, <1>10, <2>1, <2>2 DEF Ahead
    <3> QED BY <3>1, <3>2 DEF Meets
  <2>3. CASE ~(c > until)
    <3>1. c <= until /\ c \in DOMAIN store /\ replay.from < c
      BY SMTT(60), <1>3, <1>6, <1>10, <2>3
    <3>2. store[c].of = "pause" /\ store[c].tick = p /\ store[c] \in Sample
      BY SMTT(60), <1>10, <3>1 DEF Cuts, TypeOK
    <3>3. Selected(store[c], M)
      BY <3>2, SampleTypes DEF Selected, Marks
    <3>4. ASSUME NEW pos \in Nat, Entries(store[c], pos, M) \subseteq queue'
          PROVE  Meets(m, p)'
      <4>1. PICK e \in Entries(store[c], pos, M) :
               MarkerOf(e, store[c], m)
        <5>1. IsPause(store[c])
          BY <3>2 DEF IsPause
        <5> QED BY <1>2, <1>10, <3>2, <5>1, PauseEntries
      <4>2. e \in queue' /\ e.id = Marker /\ e.metric = m /\ e.at = p
        BY <3>2, <3>4, <4>1 DEF MarkerOf
      <4> QED BY <4>2 DEF Meets
    <3>5. ASSUME replay'.failed, \A e \in queue' : e.id # Marker => e.at <= p
          PROVE  Meets(m, p)'
      <4>1. Ahead(m, p)'
        BY <1>4, <3>5 DEF Ahead
      <4> QED BY <3>5, <4>1 DEF Meets
    <3>6. ASSUME NEW k \in DOMAIN store, replay.from < k, k <= c, Ends(store[k], M)
          PROVE  \A e \in queue' : e.id # Marker => e.at <= p
      <4>1. k <= until
        BY <1>6, <3>1, <3>6
      <4> QED BY <1>7, <1>10, <3>6, <4>1
    <3>7. \/ \E pos \in Nat : Entries(store[c], pos, M) \subseteq queue'
          \/ replay'.failed /\ queue' = {}
          \/ /\ replay'.failed
             /\ \E k \in DOMAIN store :
                  /\ replay.from < k /\ k <= c /\ Ends(store[k], M)
      BY <1>3, <3>1, <3>3
    <3> QED BY <3>4, <3>5, <3>6, <3>7
  <2> QED BY <2>2, <2>3
<1>11. CASE Ahead(m, p)
  BY <1>1, <1>9, <1>10, <1>11 DEF Ahead
<1> QED BY <1>1, <1>8, <1>11 DEF Meets

\* A pause that is delivered at once reaches every routed metric.
LEMMA PauseGiven ==
    ASSUME PipelineAssumption, TypeOK, uncached, NEW s \in Sample, IsPause(s), Deliver(s),
           NEW m \in RoutedMetrics(Metrics)
    PROVE  \E e \in queue' : MarkerOf(e, s, m)
<1>1. queue' = Enqueued(<<s>>, Metrics).entries
  BY DEF Deliver
<1>2. s.id = Marker
  BY SampleTypes DEF IsPause, Marks
<1>3. ~OneOf(Metrics)
  BY DEF OneOf
<1>4. Table(Metrics) # NoId
  <2>1. PICK i \in Ids : routes[i] # None
    BY <1>3 DEF RoutedMetrics
  <2> QED BY <1>3, <2>1 DEF Table, NoId
<1>5. Selected(s, Metrics) /\ ~Ends(s, Metrics)
  BY <1>2, <1>3 DEF Selected, Ends, Rejected
<1>6. 1 \in DOMAIN <<s>> /\ \A k \in DOMAIN <<s>> : k = 1 /\ <<s>>[k] = s
  OBVIOUS
<1>7. Entries(s, 1, Metrics) \subseteq queue'
  <2>1. /\ Table(Metrics) # NoId /\ Selected(<<s>>[1], Metrics)
        /\ \A k \in DOMAIN <<s>> : Ends(<<s>>[k], Metrics) => 1 < k
    BY <1>4, <1>5, <1>6
  <2>2. Entries(<<s>>[1], 1, Metrics) \subseteq queue'
    BY <1>1, <1>6, <2>1, EnqueuedFrom
  <2> QED BY <1>6, <2>2
<1>8. PICK e \in Entries(s, 1, Metrics) : MarkerOf(e, s, m)
  BY PauseEntries
<1> QED BY <1>7, <1>8

\* What a metric meets it meets after a step that leaves the queue and the metrics alone.
LEMMA UnchangedMeets ==
    ASSUME UNCHANGED <<queue, last, replay, operations, routes, store, anchor, uncached>>,
           NEW m, NEW p, Meets(m, p)
    PROVE  Meets(m, p)'
<1>1. Ahead(m, p) => Ahead(m, p)'
  BY StillAhead
<1> QED BY <1>1 DEF Meets

\* A reading is no matter of a metric that has no operation.
LEMMA ReadMeets ==
    ASSUME PipelineAssumption, TypeOK, Passes, Owned, ReadOperation,
           NEW m \in Metrics, NEW p, Meets(m, p)
    PROVE  uncached => Meets(m, p)'
<1>1. /\ store' = store \/ ~uncached
      /\ queue = {} /\ replay = Quiet
      /\ UNCHANGED <<last, replay, operations, routes, anchor, uncached>>
  <2>1. /\ queue = {} /\ replay = Quiet
        /\ UNCHANGED <<replay, operations, anchor, routes, uncached>>
    BY DEF ReadOperation, Settled, routeVars
  <2>2. last' = last
    BY DEF ReadOperation, metricVars
  <2>3. store' = store \/ ~uncached
    <3>1. ASSUME NEW s \in Sample, Deliver(s) PROVE store' = store \/ ~uncached
      BY SMTT(60), <3>1, DeliveredTo
    <3> QED BY <3>1, Reading DEF storeVars
  <2> QED BY <2>1, <2>2, <2>3
<1>2. SUFFICES ASSUME uncached PROVE Meets(m, p)'
  OBVIOUS
<1>3. CASE UNCHANGED <<queue, storeVars>>
  BY <1>1, <1>2, <1>3, UnchangedMeets
<1>4. ASSUME NEW s \in Sample, s.id = operations[next].id, s.of = operations[next].metric,
             Deliver(s)
      PROVE  Meets(m, p)'
  <2>1. next \in DOMAIN operations /\ s.id \in Ids /\ s.id # Marker
    BY <1>4, Reading, ConstantFacts
  <2>2. routes[s.id] = operations[next].metric
    BY <1>4, <2>1 DEF Owned
  <2>3. ASSUME NEW e \in queue' PROVE e.metric = operations[next].metric
    <3>1. e \in Entries(s, 1, Metrics)
      BY <1>2, <1>4, DeliveredTo
    <3>2. OfPause(e, s, Metrics) \/ OfReading(e, s, Metrics)
      BY <3>1, EntriesOf
    <3>3. e.metric = Table(Metrics)[s.id]
      BY <2>1, <3>2 DEF OfPause, OfReading
    <3> QED BY <2>2, <3>3 DEF Table, OneOf
  <2>4. \A e \in queue' : e.metric = m =>
           e.id = Marker \/ \E k \in DOMAIN operations : operations[k].metric = m
    BY <2>1, <2>3
  <2> QED BY <1>1, <1>2, <2>4, StillMeets
<1> QED BY <1>3, <1>4, Reading

\* A pause or a resume leaves a metric what it met; a pause gives it its marker, if it has
\* an operation.
LEMMA MarkersMeet ==
    ASSUME PipelineAssumption, TypeOK, Owned, Pause \/ Resume,
           NEW m \in Metrics, NEW p \in pauses', p \in pauses => Meets(m, p)
    PROVE  uncached => Meets(m, p)'
<1> SUFFICES ASSUME uncached PROVE Meets(m, p)'
  OBVIOUS
<1>1. /\ UNCHANGED <<last, replay, operations, routes, anchor, uncached>>
      /\ queue = {} /\ replay = Quiet
      /\ \/ pauses' = pauses
         \/ pauses' = pauses \cup {now} /\ Deliver(MarkerSample("pause"))
      /\ Deliver(MarkerSample("pause")) \/ Deliver(MarkerSample("resume"))
  BY DEF Pause, Resume, MayControl, Settled, collectorVars, routeVars, metricVars
<1>2. /\ MarkerSample("pause") \in Sample /\ MarkerSample("resume") \in Sample
      /\ MarkerSample("pause").id = Marker /\ MarkerSample("resume").id = Marker
      /\ MarkerSample("pause").of = "pause" /\ MarkerSample("pause").tick = now
  BY DEF MarkerSample, Sample, Marks, TypeOK
<1>3. store' = store /\ \A e \in queue' : e.id = Marker
  <2>1. ASSUME NEW s \in Sample, s.id = Marker, Deliver(s)
        PROVE  store' = store /\ \A e \in queue' : e.id = Marker
    <3>1. store' = store /\ \A e \in queue' : e \in Entries(s, 1, Metrics)
      BY <2>1, DeliveredTo
    <3>2. \A e \in Entries(s, 1, Metrics) : OfPause(e, s, Metrics) \/ OfReading(e, s, Metrics)
      BY EntriesOf
    <3> QED BY <2>1, <3>1, <3>2 DEF OfPause, OfReading
  <2> QED BY <1>1, <1>2, <2>1
<1>4. CASE p \in pauses
  BY <1>1, <1>3, <1>4, StillMeets
<1>5. CASE p = now /\ Deliver(MarkerSample("pause"))
  <2>1. CASE m \in RoutedMetrics(Metrics)
    <3>1. IsPause(MarkerSample("pause"))
      BY <1>2 DEF IsPause
    <3>2. PICK e \in queue' : MarkerOf(e, MarkerSample("pause"), m)
      BY <1>2, <1>5, <2>1, <3>1, PauseGiven
    <3>3. e.id = Marker /\ e.metric = m /\ e.at = p
      BY <1>2, <1>5, <3>2 DEF MarkerOf
    <3> QED BY <3>3 DEF Meets
  <2>2. CASE m \notin RoutedMetrics(Metrics)
    <3>1. \A k \in DOMAIN operations : operations[k].metric # m
      <4>1. ASSUME NEW k \in DOMAIN operations, operations[k].metric = m PROVE FALSE
        <5>1. operations[k].id \in Ids /\ routes[operations[k].id] = m
          BY <4>1, IdsInUse DEF Owned
        <5> QED BY <2>2, <5>1, ConstantFacts DEF RoutedMetrics, OneOf
      <4> QED BY <4>1
    <3>2. Ahead(m, p)'
      BY <1>1, <3>1 DEF Ahead
    <3> QED BY <1>3, <3>2 DEF Meets
  <2> QED BY <2>1, <2>2
<1> QED BY <1>1, <1>4, <1>5

\* Every step leaves the metrics the pauses they meet.
LEMMA MetStep ==
    ASSUME PipelineAssumption, TypeOK, Passes, Owned, QueueIsDue, PausesCut, PausesMet, Next
    PROVE  PausesMet'
<1> SUFFICES ASSUME Soft', uncached' \/ replay' # Quiet, NEW m \in Metrics, NEW p \in pauses'
             PROVE  Meets(m, p)'
  BY DEF PausesMet
<1>1. CASE \/ Tick \/ (\E e \in Events : FirmwareUpdate(e)) \/ Wake \/ BeginPass \/ CallerRead
           \/ Stop
  <2>1. UNCHANGED <<queue, last, replay, operations, routes, store, anchor, uncached, pauses>>
    BY <1>1
    DEF Tick, FirmwareUpdate, Wake, BeginPass, CallerRead, Stop, collectorVars, routeVars,
        metricVars, storeVars
  <2>2. Soft
    BY <2>1 DEF Soft
  <2> QED BY <2>1, <2>2, UnchangedMeets DEF PausesMet
<1>2. CASE ReadOperation
  <2>1. UNCHANGED <<anchor, uncached, replay, pauses>> /\ replay = Quiet
    BY <1>2 DEF ReadOperation, routeVars, Settled
  <2>2. Soft /\ uncached
    BY <2>1 DEF Soft
  <2>3. Meets(m, p)
    BY <2>1, <2>2 DEF PausesMet
  <2> QED BY <1>2, <2>2, <2>3, ReadMeets
<1>3. CASE Pause \/ Resume
  <2>1. UNCHANGED <<anchor, uncached, replay>> /\ replay = Quiet
    BY <1>3 DEF Pause, Resume, routeVars, MayControl, Settled
  <2>2. Soft /\ uncached
    BY <2>1 DEF Soft
  <2>3. p \in pauses => Meets(m, p)
    BY <2>2 DEF PausesMet
  <2> QED BY <1>3, <2>2, <2>3, MarkersMeet
<1>4. CASE Start
  BY <1>4 DEF Start, QueueIsDue
<1>5. CASE FailedReset
  <2>1. uncached' = uncached /\ replay' = Quiet /\ CacheFile # <<>>
    BY <1>5 DEF FailedReset, MayFailToConfigure, MayConfigure, MayControl, Settled, MayFailToRemove
  <2>2. store # <<>>
    <3>1. ASSUME store = <<>> PROVE CacheFile = <<>>
      <4>1. DOMAIN store = {}
        BY <3>1
      <4>2. DOMAIN CacheFile = {} /\ CacheFile \in Seq(Sample)
        BY <4>1, CacheFileType
      <4> QED BY <4>2
    <3> QED BY <2>1, <3>1
  <2> QED BY <2>1, <2>2 DEF QueueIsDue
<1>6. CASE \E request \in Requests : Configuring(request)
  <2>1. MayConfigure /\ UNCHANGED <<queue, replay>> /\ (Afresh \/ GivenUp \/ LeftAlone)
    BY <1>6, Configurations
  <2>2. queue = {} /\ replay = Quiet
    BY <2>1 DEF MayConfigure, MayControl, Settled
  <2>3. CASE Afresh
    BY <2>3 DEF Afresh
  <2>4. CASE GivenUp
    BY <2>1, <2>2, <2>4 DEF GivenUp
  <2>5. CASE LeftAlone /\ uncached
    <3>1. Soft /\ pauses' = pauses
      BY <2>5 DEF LeftAlone, Soft
    <3>2. Meets(m, p)
      BY <2>5, <3>1 DEF PausesMet
    <3>3. CASE Ahead(m, p)
      <4>1. \A k \in DOMAIN operations : operations[k].metric # m
        BY <2>2, <3>3 DEF Ahead
      <4>2. \A k \in DOMAIN operations' : operations'[k].metric # m
        BY <2>5, <4>1 DEF LeftAlone
      <4>3. Ahead(m, p)'
        BY <2>1, <2>2, <4>2 DEF Ahead
      <4> QED BY <2>1, <2>2, <4>3 DEF Meets
    <3>4. CASE last[m] # None /\ p <= last[m]
      BY <2>5, <3>4 DEF LeftAlone, Meets
    <3> QED BY <2>2, <3>2, <3>3, <3>4 DEF Meets
  <2>6. CASE LeftAlone /\ ~uncached
    BY <2>1, <2>2, <2>6 DEF LeftAlone
  <2> QED BY <2>1, <2>3, <2>4, <2>5, <2>6
<1>7. CASE \E M \in {{n} : n \in Metrics} \cup {Metrics} : BeginReplay(M)
  <2>1. PICK M : BeginReplay(M)
    BY <1>7
  <2>2. /\ UNCHANGED <<queue, operations, routes, store, anchor, uncached, pauses>>
        /\ queue = {} /\ store # <<>>
        /\ replay' = [of |-> M, from |-> 0, failed |-> FALSE]
    BY <2>1 DEF BeginReplay, MayCall, Settled, collectorVars, routeVars
  <2>3. replay' # Quiet /\ replay'.from = 0
    BY <2>2 DEF QueueIsDue
  <2>4. PICK c \in 1..(Len(store) + 1) : Cuts(p, c)
    BY <2>2 DEF PausesCut
  <2>5. Cuts(p, c)' /\ c > 0 /\ c \in 1..(Len(store') + 1)
    <3>1. Len(store) \in Nat
      BY DEF TypeOK
    <3>2. Cuts(p, c)'
      BY <2>2, <2>4 DEF Cuts, SoftReading
    <3>3. c > 0
      BY <3>1
    <3> QED BY <2>2, <3>2, <3>3
  <2>6. Ahead(m, p)'
    BY <2>3, <2>5 DEF Ahead
  <2> QED BY <2>2, <2>6 DEF Meets
<1>8. CASE LoadBatch
  <2>1. UNCHANGED <<anchor, pauses>> /\ replay # Quiet
    BY <1>8 DEF LoadBatch, routeVars
  <2>2. Soft
    BY <2>1 DEF Soft
  <2>3. Meets(m, p)
    BY <2>1, <2>2 DEF PausesMet
  <2> QED BY <1>8, <2>1, <2>2, <2>3, LoadMeets
<1>9. CASE EndReplay
  <2>1. replay # Quiet /\ replay' = Quiet /\ uncached' = uncached
    BY <1>9 DEF EndReplay
  <2> QED BY <2>1 DEF QueueIsDue
<1>10. ASSUME NEW e \in queue, Dispatch(e) PROVE Meets(m, p)'
  <2>1. UNCHANGED <<anchor, pauses, uncached>>
    BY <1>10, Dispatched DEF routeVars
  <2>2. Soft /\ (uncached \/ replay # Quiet)
    BY <2>1 DEF Soft, QueueIsDue
  <2>3. Meets(m, p)
    BY <2>1, <2>2 DEF PausesMet
  <2> QED BY <1>10, <2>1, <2>3, DispatchMeets
<1> QED
  BY <1>1, <1>2, <1>3, <1>4, <1>5, <1>6, <1>7, <1>8, <1>9, <1>10, Zenon DEF Next, Configuring

-----------------------------------------------------------------------------
(* No delta across a pause.                                                 *)

\* A pause separates what a metric has sunk.
Separated(m, p) ==
    \A i \in DOMAIN processed[m] :
        ~(processed[m][i].since < p /\ p < processed[m][i].at)

\* The interval a metric sinks begins at its last timestamp or is a point in time.
LEMMA SinksSince ==
    ASSUME PipelineAssumption, TypeOK, PreviousIsLast, NEW e \in queue
    PROVE  \/ Sinks(e) = <<>>
           \/ Sinks(e) = <<[since |-> e.at, at |-> e.at]>>
           \/ Sinks(e) = <<[since |-> last[e.metric], at |-> e.at]>> /\ last[e.metric] # None
<1>1. CASE Kind[e.metric] = "value"
  BY <1>1 DEF Sinks
<1>2. CASE Kind[e.metric] \in {"delta", "rate"}
  <2>1. CASE previous[e.metric] = None
    BY <1>2, <2>1, DeltaSinks
  <2>2. CASE previous[e.metric] # None
    <3>1. e.metric \in Metrics
      BY SinksType
    <3>2. last[e.metric] = previous[e.metric].at
      BY <2>2, <3>1 DEF PreviousIsLast
    <3>3. previous[e.metric].at \in Int
      BY <2>2, <3>1 DEF TypeOK, Held
    <3>4. Sinks(e) = <<[since |-> previous[e.metric].at, at |-> e.at]>>
      BY <1>2, <2>2, DeltaSinks
    <3> QED BY <3>2, <3>3, <3>4, ConstantFacts
  <2> QED BY <2>1, <2>2
<1>3. CASE Kind[e.metric] \notin {"value", "delta", "rate"}
  BY <1>3 DEF Sinks
<1> QED BY <1>1, <1>2, <1>3

\* An entry whose turn it is is not beyond a pause its metric has not reached.
LEMMA TurnBeforePause ==
    ASSUME PipelineAssumption, TypeOK, NEW e \in queue, InTurn(e), e.id # Marker,
           NEW p \in Int, Meets(e.metric, p)
    PROVE  e.at <= p \/ (last[e.metric] # None /\ p <= last[e.metric])
<1>1. e.metric \in Metrics /\ e.at \in Int /\ Rank[e.metric] \in Nat
  BY SinksType DEF PipelineAssumption
<1>2. ASSUME NEW f \in queue, f.id = Marker, f.metric = e.metric, f.at = p
      PROVE  e.at <= p
  <2>1. Rank[e.metric] < Rank[f.metric] \/ (e.metric = f.metric /\ e.at <= f.at)
    BY DEF InTurn
  <2>2. ~(Rank[e.metric] < Rank[f.metric])
    BY <1>1, <1>2
  <2> QED BY <1>2, <2>1, <2>2
<1> QED BY <1>2 DEF Meets

\* The loop over the queue takes no delta across a pause.
LEMMA DispatchSeparates ==
    ASSUME PipelineAssumption, TypeOK, Past, QueueIsDue, PreviousIsLast, PausesMet, Soft,
           NEW e \in queue, Dispatch(e), NEW m \in Metrics, NEW p \in pauses, Separated(m, p)
    PROVE  Separated(m, p)'
<1> DEFINE n == e.metric
<1>1. n \in Metrics /\ e.at \in Int /\ p \in Int
  <2>1. pauses \subseteq Int
    BY ConstantFacts DEF TypeOK, Time
  <2> QED BY <2>1, SinksType
<1>2. processed \in [Metrics -> Seq(Sunk)] /\ last \in [Metrics -> Int \cup {None}]
  BY DEF TypeOK
<1>3. CASE processed' = processed
  BY <1>3 DEF Separated
<1>4. ASSUME processed' = [processed EXCEPT ![n] = @ \o Sinks(e)], e.id # Marker
      PROVE  Separated(m, p)'
  <2>1. CASE m # n
    <3>1. processed'[m] = processed[m]
      BY <1>1, <1>2, <1>4, <2>1
    <3> QED BY <3>1 DEF Separated
  <2>2. CASE m = n
    <3> DEFINE old == processed[n]
    <3>1. old \in Seq(Sunk) /\ processed'[n] = old \o Sinks(e)
      BY <1>1, <1>2, <1>4
    <3>2. CASE Sinks(e) = <<>>
      <4>1. processed'[n] = old
        BY <3>1, <3>2, ConcatEmptySeq
      <4> QED BY <2>2, <4>1 DEF Separated
    <3>3. ASSUME NEW x \in Sunk, Sinks(e) = <<x>>, ~(x.since < p /\ p < x.at)
          PROVE  Separated(m, p)'
      <4> HIDE DEF old
      <4>1. processed'[n] = Append(old, x)
        BY <3>1, <3>3
      <4>2. \A i \in DOMAIN processed'[n] :
               (i \in DOMAIN old /\ processed'[n][i] = old[i]) \/ processed'[n][i] = x
        <5>1. /\ DOMAIN old = 1..Len(old) /\ Len(old) \in Nat
              /\ DOMAIN Append(old, x) = 1..(Len(old) + 1)
              /\ \A i \in 1..Len(old) : Append(old, x)[i] = old[i]
              /\ Append(old, x)[Len(old) + 1] = x
          BY SMTT(60), <3>1, AppendProperties
        <5> QED BY <4>1, <5>1, OneMore
      <4> QED BY <2>2, <3>3, <4>2 DEF Separated, old
    <3>4. CASE Sinks(e) = <<[since |-> e.at, at |-> e.at]>>
      <4> DEFINE x == [since |-> e.at, at |-> e.at]
      <4>1. x \in Sunk /\ ~(x.since < p /\ p < x.at)
        BY SMTT(60), <1>1 DEF Sunk
      <4> QED BY <3>3, <3>4, <4>1
    <3>5. CASE Sinks(e) = <<[since |-> last[n], at |-> e.at]>> /\ last[n] # None
      <4> DEFINE x == [since |-> last[n], at |-> e.at]
      <4>1. last[n] \in Int
        BY <1>1, <1>2, <3>5
      <4>2. Meets(n, p)
        BY <1>1 DEF PausesMet, QueueIsDue
      <4>3. InTurn(e)
        BY Zenon DEF Dispatch
      <4>4. e.at <= p \/ p <= last[n]
        BY <1>1, <1>4, <4>2, <4>3, TurnBeforePause
      <4>5. x \in Sunk /\ ~(x.since < p /\ p < x.at)
        BY SMTT(60), <1>1, <4>1, <4>4 DEF Sunk
      <4> QED BY <3>3, <3>5, <4>5
    <3> QED BY <1>1, <3>2, <3>4, <3>5, SinksSince
  <2> QED BY <2>1, <2>2
<1>5. \/ processed' = processed
      \/ processed' = [processed EXCEPT ![n] = @ \o Sinks(e)] /\ e.id # Marker
  BY Rounds, Zenon DEF ProcessPauseSample, ReceiveRawSample
<1> QED BY <1>3, <1>4, <1>5

\* Every step separates the deltas of a metric by the pauses.
LEMMA SeparateStep ==
    ASSUME PipelineAssumption, TypeOK, Bounded, Past, QueueIsDue, PreviousIsLast, PausesMet,
           NoDeltaAcrossPause, Next
    PROVE  NoDeltaAcrossPause'
<1> USE DEF clockVars, collectorVars, routeVars, metricVars, storeVars
<1>1. (Soft => \A m \in Metrics, p \in pauses : Separated(m, p)) = NoDeltaAcrossPause
  BY DEF NoDeltaAcrossPause, Soft, Separated
<1>2. (Soft => \A m \in Metrics, p \in pauses : Separated(m, p))' => NoDeltaAcrossPause'
  BY DEF NoDeltaAcrossPause, Soft, Separated
<1> SUFFICES ASSUME Soft', NEW m \in Metrics, NEW p \in pauses' PROVE Separated(m, p)'
  BY <1>2
<1>3. ASSUME processed'[m] = <<>> PROVE Separated(m, p)'
  BY <1>3 DEF Separated
<1>4. ASSUME UNCHANGED anchor, processed'[m] = processed[m], pauses' \subseteq pauses
      PROVE  Separated(m, p)'
  <2>1. Soft
    BY <1>4 DEF Soft
  <2>2. Separated(m, p)
    BY <1>1, <1>4, <2>1
  <2> QED BY <1>4, <2>2 DEF Separated
<1>5. CASE \/ Tick \/ (\E e \in Events : FirmwareUpdate(e)) \/ Wake \/ BeginPass \/ CallerRead
           \/ ReadOperation \/ Resume \/ Start \/ Stop \/ LoadBatch \/ EndReplay
  <2>1. UNCHANGED <<anchor, processed, pauses>>
    BY <1>5
    DEF Tick, FirmwareUpdate, Wake, BeginPass, CallerRead, ReadOperation, Resume, Start, Stop,
        LoadBatch, EndReplay
  <2> QED BY <1>4, <2>1
<1>6. CASE Pause
  <2>1. UNCHANGED <<anchor, processed>> /\ pauses' = pauses \cup {now}
    BY <1>6 DEF Pause
  <2>2. Soft
    BY <2>1 DEF Soft
  <2>3. CASE p \in pauses
    <3>1. Separated(m, p)
      BY <1>1, <2>2, <2>3
    <3> QED BY <2>1, <3>1 DEF Separated
  <2>4. CASE p = now
    <3>1. ASSUME NEW i \in DOMAIN processed[m] PROVE ~(p < processed[m][i].at)
      <4>1. last[m] # None /\ processed[m][i].at <= last[m]
        BY <3>1 DEF Bounded
      <4>2. last[m] <= now
        BY <2>2, <4>1 DEF Past, MetricsArePast
      <4>3. last[m] \in Int /\ now \in Int
        BY <4>1, ConstantFacts DEF TypeOK, Time
      <4>4. processed[m][i].at \in Int
        <5>1. processed[m][i] \in Sunk
          BY <3>1 DEF TypeOK
        <5> QED BY <5>1 DEF Sunk
      <4> QED BY SMTT(60), <2>4, <4>1, <4>2, <4>3, <4>4
    <3> QED BY <2>1, <3>1 DEF Separated
  <2> QED BY <2>1, <2>3, <2>4
<1>7. CASE FailedReset
  BY <1>3, <1>7 DEF FailedReset
<1>8. CASE \E request \in Requests : Configuring(request)
  <2>1. Afresh \/ GivenUp \/ LeftAlone
    BY <1>8, Configurations
  <2> QED BY <1>3, <1>4, <2>1 DEF Afresh, GivenUp, LeftAlone
<1>9. CASE \E M \in {{n} : n \in Metrics} \cup {Metrics} : BeginReplay(M)
  <2>1. PICK M : ResetMetrics(M) /\ UNCHANGED <<anchor, pauses>>
    BY <1>9 DEF BeginReplay
  <2>2. processed'[m] = <<>> \/ processed'[m] = processed[m]
    BY <2>1 DEF ResetMetrics
  <2> QED BY <1>3, <1>4, <2>1, <2>2
<1>10. ASSUME NEW e \in queue, Dispatch(e) PROVE Separated(m, p)'
  <2>1. UNCHANGED <<anchor, pauses>>
    BY <1>10, Dispatched
  <2>2. Soft
    BY <2>1 DEF Soft
  <2>3. Separated(m, p)
    BY <1>1, <2>1, <2>2
  <2> QED BY <1>10, <2>1, <2>2, <2>3, DispatchSeparates
<1> QED
  BY <1>5, <1>6, <1>7, <1>8, <1>9, <1>10, Zenon DEF Next, Configuring

-----------------------------------------------------------------------------
(* What is invariant with the pauses.                                       *)

\* Intervals join at first.
LEMMA JoinInit == PipelineAssumption /\ Init => JoinInv
BY DEF Init, JoinInv, MarkersArePauses, Joined, DeltasJoin

\* They join after every step.
LEMMA JoinNext == PipelineAssumption /\ IInv /\ JoinInv /\ [Next]_vars => JoinInv'
<1> SUFFICES ASSUME PipelineAssumption, IInv, JoinInv, [Next]_vars PROVE JoinInv'
  OBVIOUS
<1>1. CASE Next
  BY <1>1, JoinStep DEF IInv, InOrder
<1>2. CASE UNCHANGED vars
  BY <1>2
  DEF JoinInv, MarkersArePauses, Joined, DeltasJoin, vars, metricVars, storeVars
<1> QED BY <1>1, <1>2

\* The pauses are met at first.
LEMMA PauseInit == PipelineAssumption /\ Init => PauseInv
<1> SUFFICES ASSUME PipelineAssumption, Init PROVE PauseInv
  OBVIOUS
<1>1. Past
  <2>1. 0 <= 0
    OBVIOUS
  <2> QED
    BY <2>1
    DEF Init, Past, EventsArePast, SoftwareIsRead, StoreIsPast, MetricsArePast
<1>2. QueueIsDue
  BY DEF Init, QueueIsDue
<1>3. PreviousIsLast /\ PausesCut /\ PausesMet /\ NoDeltaAcrossPause
  BY DEF Init, PreviousIsLast, PausesCut, PausesMet, NoDeltaAcrossPause
<1> QED BY <1>1, <1>2, <1>3 DEF PauseInv

\* They are met after every step.
LEMMA PauseNext ==
    PipelineAssumption /\ IInv /\ JoinInv /\ PauseInv /\ [Next]_vars => PauseInv'
<1> SUFFICES ASSUME PipelineAssumption, IInv, JoinInv, PauseInv, [Next]_vars PROVE PauseInv'
  OBVIOUS
<1>1. CASE Next
  <2>1. /\ TypeOK /\ Passes /\ Owned /\ Bounded /\ MarkersArePauses
        /\ Past /\ QueueIsDue /\ PreviousIsLast /\ PausesCut /\ PausesMet /\ NoDeltaAcrossPause
    BY DEF IInv, InOrder, JoinInv, PauseInv
  <2>2. Past'
    BY <1>1, <2>1, PastStep
  <2>3. QueueIsDue' /\ PreviousIsLast'
    BY <1>1, <2>1, QueueStep, PreviousStep
  <2>4. PausesCut'
    BY <1>1, <2>1, CutStep
  <2>5. PausesMet'
    BY <1>1, <2>1, MetStep
  <2>6. NoDeltaAcrossPause'
    BY <1>1, <2>1, SeparateStep
  <2> QED BY <2>2, <2>3, <2>4, <2>5, <2>6 DEF PauseInv
<1>2. CASE UNCHANGED vars
  <2> USE DEF vars, clockVars, collectorVars, passVars, routeVars, metricVars, storeVars
  <2>1. Past'
    BY <1>2
    DEF PauseInv, Past, EventsArePast, SoftwareIsRead, StoreIsPast, MetricsArePast, Soft,
        SoftReading
  <2>2. QueueIsDue' /\ PreviousIsLast' /\ NoDeltaAcrossPause'
    BY <1>2 DEF PauseInv, QueueIsDue, PreviousIsLast, NoDeltaAcrossPause
  <2>3. PausesCut'
    BY <1>2, StillCut DEF PauseInv
  <2>4. PausesMet'
    <3>1. \A m \in Metrics, p \in pauses : Meets(m, p) => Meets(m, p)'
      BY <1>2, UnchangedMeets
    <3>2. Soft' = Soft
      BY <1>2 DEF Soft
    <3> QED BY <1>2, <3>1, <3>2 DEF PauseInv, PausesMet
  <2> QED BY <2>1, <2>2, <2>3, <2>4 DEF PauseInv
<1> QED BY <1>1, <1>2

\* What a metric has sunk ends at its previous sample, or there was a pause since: every
\* interval begins where the one before ends, unless a marker came between (the processing
\* queue and the delta metrics).
THEOREM JoinInvariance == Spec => []JoinInv
<1>1. Init => JoinInv
  BY JoinInit, PipelineAssumption
<1>2. IInv /\ JoinInv /\ [Next]_vars => JoinInv'
  BY JoinNext, PipelineAssumption
<1> QED BY <1>1, <1>2, PipelineInvariant, PTL DEF Spec

\* The intervals of delta and rate metrics leave nothing out but pauses.
THEOREM IntervalsJoin == Spec => []DeltasJoin
<1>1. JoinInv => DeltasJoin
  BY DEF JoinInv
<1> QED BY <1>1, JoinInvariance, PTL

\* With software timestamps every metric meets every pause before it processes anything
\* later, live and in every replay, whatever is delivered late, lost or rejected.
THEOREM PauseInvariance == Spec => []PauseInv
<1>1. Init => PauseInv
  BY PauseInit, PipelineAssumption
<1>2. IInv /\ JoinInv /\ PauseInv /\ [Next]_vars => PauseInv'
  BY PauseNext, PipelineAssumption
<1> QED BY <1>1, <1>2, PipelineInvariant, JoinInvariance, PTL DEF Spec

\* With software timestamps no delta or rate is taken over an interval with a pause in it.
THEOREM PausesSeparate == Spec => []NoDeltaAcrossPause
<1>1. PauseInv => NoDeltaAcrossPause
  BY DEF PauseInv
<1> QED BY <1>1, PauseInvariance, PTL

-----------------------------------------------------------------------------
(* A replay is complete.                                                    *)

\* The reasons to leave out a reading depend on the store and the correlations only.
LEMMA SameStore ==
    ASSUME UNCHANGED <<store, anchor>>, NEW i, NEW m
    PROVE  /\ At(i)' = At(i) /\ (Overtaken(i, m) => Overtaken(i, m)')
           /\ (Alone(i, m) => Alone(i, m)')
<1>1. \A j : At(j)' = At(j)
  BY DEF At, Normalised
<1> QED BY <1>1 DEF Overtaken, Alone

\* What has been shown of metrics that are left alone.
LEMMA SameShown ==
    ASSUME UNCHANGED <<store, anchor>>, NEW i, NEW m,
           processed'[m] = processed[m], previous'[m] = previous[m]
    PROVE  (Shown(i, m) => Shown(i, m)') /\ (Accounted(i, m) => Accounted(i, m)')
<1>1. At(i)' = At(i)
  BY SameStore
<1>2. Shown(i, m) => Shown(i, m)'
  BY <1>1 DEF Shown
<1> QED BY <1>2, SameStore DEF Accounted

\* A kept reading is routed to its metric while there is a configuration.
LEMMA StoredRoute ==
    ASSUME PipelineAssumption, TypeOK, Kept, state # "UNCONFIGURED", NEW M,
           NEW i \in DOMAIN store, store[i].id # Marker
    PROVE  Table(M)[store[i].id] = store[i].of /\ store[i].of \in Metrics
<1>1. store[i].id \in Ids /\ store[i].of \in Metrics
  <2>1. store[i] \in Sample
    BY DEF TypeOK
  <2> QED BY <2>1, SampleTypes
<1>2. routes[store[i].id] = store[i].of
  BY DEF Kept, Routed
<1>3. routes # NoId
  BY <1>1, <1>2, ConstantFacts DEF NoId
<1> QED BY <1>1, <1>2, <1>3 DEF Table

\* Positions and their batches.
LEMMA BatchNumber ==
    ASSUME NEW b \in Nat \ {0}, NEW k \in Nat, NEW i \in Nat, k * b < i, i <= k * b + b
    PROVE  (i - 1) \div b = k
<1> DEFINE q == (i - 1) \div b
<1>1. i - 1 \in Nat /\ k * b \in Nat
  OBVIOUS
<1>2. q \in Nat /\ q * b <= i - 1 /\ i - 1 < q * b + b
  BY <1>1
<1> HIDE DEF q
<1>3. ~(q < k)
  <2> SUFFICES ASSUME q + 1 <= k PROVE FALSE
    BY <1>2
  <2>1. (q + 1) * b <= k * b
    BY <1>2
  <2>2. (q + 1) * b = q * b + b
    BY <1>2
  <2> QED BY <1>1, <1>2, <2>1, <2>2
<1>4. ~(k < q)
  <2> SUFFICES ASSUME k + 1 <= q PROVE FALSE
    BY <1>2
  <2>1. (k + 1) * b <= q * b
    BY <1>2
  <2>2. (k + 1) * b = k * b + b
    OBVIOUS
  <2> QED BY <1>1, <1>2, <2>1, <2>2
<1> QED BY <1>2, <1>3, <1>4 DEF q

\* What comes before a batch is in earlier ones.
LEMMA EarlierBatch ==
    ASSUME NEW b \in Nat \ {0}, NEW k \in Nat, NEW i \in Nat, 0 < i, i <= k * b
    PROVE  (i - 1) \div b < k
<1> DEFINE q == (i - 1) \div b
<1>1. i - 1 \in Nat /\ k * b \in Nat
  OBVIOUS
<1>2. q \in Nat /\ q * b <= i - 1
  BY <1>1
<1> HIDE DEF q
<1>3. ~(k <= q)
  <2> SUFFICES ASSUME k <= q PROVE FALSE
    OBVIOUS
  <2>1. k * b <= q * b
    BY <1>2
  <2> QED BY <1>1, <1>2, <2>1
<1> QED BY <1>2, <1>3 DEF q

\* There are no more batches than samples in them.
LEMMA Batches ==
    ASSUME NEW b \in Nat \ {0}, NEW k \in Nat
    PROVE  k <= k * b
<1>1. k * b = k + k * (b - 1) /\ b - 1 \in Nat
  OBVIOUS
<1>2. k * (b - 1) \in Nat
  BY SMTT(60), <1>1
<1> QED BY <1>1, <1>2

\* The batch that is loaded, and those before it.
LEMMA LoadedBatch ==
    ASSUME PipelineAssumption, TypeOK, WholeBatches, LoadBatch
    PROVE  /\ WholeBatches' /\ replay.from < replay'.from /\ replay'.from <= Len(store)
           /\ \A i \in DOMAIN store : i <= replay.from => BatchOf(i) < BatchOf(replay'.from)
           /\ \A i \in DOMAIN store : replay.from < i /\ i <= replay'.from =>
                BatchOf(i) = BatchOf(replay'.from)
<1> DEFINE until == IF replay.from + BatchSize <= Len(store)
                    THEN replay.from + BatchSize ELSE Len(store)
<1>1. /\ Len(store) \in Nat /\ DOMAIN store = 1..Len(store) /\ BatchSize \in Nat \ {0}
      /\ replay.from \in Nat /\ replay.from < Len(store) /\ store' = store
  BY SMTT(60), ConstantFacts DEF TypeOK, LoadBatch, ReplayEnd, storeVars
<1>2. replay'.from = until
  <2>1. \E f : replay' = [replay EXCEPT !.from = until, !.failed = f]
    BY Zenon DEF LoadBatch, ReplayEnd
  <2> QED BY <2>1 DEF TypeOK
<1>3. PICK k \in 0..Len(store) : replay.from = k * BatchSize
  BY <1>1 DEF WholeBatches
<1>4. k \in Nat
  BY <1>1
<1>5. PICK a, n, u : a = replay.from /\ n = Len(store) /\ u = until
  OBVIOUS
<1>6. /\ n \in Nat /\ a \in Nat /\ a = k * BatchSize /\ a < n /\ BatchSize \in Nat \ {0}
      /\ u = IF a + BatchSize <= n THEN a + BatchSize ELSE n
  BY <1>1, <1>3, <1>5
<1> HIDE DEF until
<1>7. /\ u \in Nat /\ a < u /\ u <= n /\ u <= a + BatchSize
      /\ u = n \/ u = a + BatchSize
  <2>1. \A c \in Nat, l \in Nat, b \in Nat \ {0} : \A v :
           c < l /\ v = (IF c + b <= l THEN c + b ELSE l)
           => v \in Nat /\ c < v /\ v <= l /\ v <= c + b /\ (v = l \/ v = c + b)
    OBVIOUS
  <2> QED BY ZenonT(60), <1>6, <2>1
<1>8. ASSUME NEW i \in 1..n, a < i, i <= u PROVE BatchOf(i) = k
  <2>1. i \in Nat /\ k * BatchSize < i /\ i <= k * BatchSize + BatchSize
    BY <1>6, <1>7, <1>8
  <2> QED BY <1>4, <1>6, <2>1, BatchNumber DEF BatchOf
<1>9. ASSUME NEW i \in 1..n, i <= a PROVE BatchOf(i) < k
  <2>1. i \in Nat /\ 0 < i /\ i <= k * BatchSize
    BY <1>6, <1>9
  <2>2. BatchSize \in Nat \ {0}
    BY <1>6
  <2>3. (i - 1) \div BatchSize < k
    BY ONLY <1>4, <2>1, <2>2, EarlierBatch
  <2> QED BY ONLY <2>3, Zenon DEF BatchOf
<1>10. BatchOf(u) = k
  <2>1. u \in 1..n
    <3>1. \A c \in Nat, l \in Nat, v \in Nat : c < v /\ v <= l => v \in 1..l
      OBVIOUS
    <3> QED BY <1>6, <1>7, <3>1, Zenon
  <2> QED BY <1>7, <1>8, <2>1
<1>11. u = n \/ \E j \in 0..n : u = j * BatchSize
  <2> SUFFICES ASSUME u = a + BatchSize PROVE \E j \in 0..n : u = j * BatchSize
    BY <1>7
  <2>1. (k + 1) * BatchSize = k * BatchSize + BatchSize /\ k + 1 \in Nat
    BY <1>4, <1>6
  <2>2. u = (k + 1) * BatchSize
    BY <1>6, <2>1
  <2>3. k + 1 <= (k + 1) * BatchSize
    BY <1>6, <2>1, Batches
  <2>4. k + 1 \in 0..n
    BY <1>6, <1>7, <2>1, <2>2, <2>3
  <2> QED BY <2>2, <2>4
<1>12. replay'.from = u
  BY <1>2, <1>5
<1>13. WholeBatches'
  <2>1. u \in 0..n
    BY <1>6, <1>7
  <2> QED BY <1>1, <1>5, <1>11, <1>12, <2>1 DEF WholeBatches
<1> QED BY <1>1, <1>5, <1>7, <1>8, <1>9, <1>10, <1>12, <1>13

\* A batch is loaded: its readings are due, and what is late in it has been overtaken.
LEMMA LoadGoing ==
    ASSUME PipelineAssumption, TypeOK, Kept, WholeBatches, LoadBatch, state # "UNCONFIGURED",
           NEW m \in replay.of, Going(m), ~replay'.failed
    PROVE  Going(m)'
<1>1. /\ UNCHANGED <<state, routes, anchor, known, previous, last, processed, store>>
      /\ queue = {} /\ replay.of \in SUBSET Metrics
  BY SMTT(60) DEF LoadBatch, routeVars, metricVars, storeVars, TypeOK
<1>2. PICK until \in Nat :
         /\ replay.from < until /\ until <= Len(store)
         /\ replay' = [replay EXCEPT !.from = until, !.failed = replay'.failed]
         /\ \A e \in queue' : \E j \in DOMAIN store, pos \in Nat :
              /\ replay.from < j /\ j <= until /\ store[j] \in Sample
              /\ Selected(store[j], replay.of) /\ e \in Entries(store[j], pos, replay.of)
              /\ \A k \in DOMAIN store :
                   replay.from < k /\ k <= until /\ Ends(store[k], replay.of) => j < k
         /\ \A j \in DOMAIN store :
              /\ replay.from < j /\ j <= until /\ Selected(store[j], replay.of)
              => \/ \E pos \in Nat : Entries(store[j], pos, replay.of) \subseteq queue'
                 \/ replay'.failed /\ queue' = {}
                 \/ /\ replay'.failed
                    /\ \E k \in DOMAIN store :
                         /\ replay.from < k /\ k <= j /\ Ends(store[k], replay.of)
  BY Loaded
<1>3. replay'.from = until
  BY <1>2 DEF TypeOK
<1>4. /\ Len(store) \in Nat /\ DOMAIN store = 1..Len(store) /\ replay.from \in Nat
      /\ m \in Metrics /\ \A j \in DOMAIN store : store[j] \in Sample
  BY SMTT(60), <1>1 DEF TypeOK
<1>5. /\ \A i \in DOMAIN store : i <= replay.from => BatchOf(i) < BatchOf(until)
      /\ \A i \in DOMAIN store : replay.from < i /\ i <= until => BatchOf(i) = BatchOf(until)
  BY <1>3, LoadedBatch
<1>6. \A i : At(i)' = At(i)
  BY <1>1, SameStore
<1>7. LastIsLoaded(m)'
  <2>1. 1..replay.from \subseteq 1..until
    BY SMTT(60), <1>2, <1>4
  <2> QED BY <1>1, <1>3, <1>6, <2>1 DEF Going, LastIsLoaded
<1>8. ASSUME NEW e \in queue', e.metric = m
      PROVE  FromStore(e)' /\ LateIsOvertaken(e)'
  <2>1. PICK j \in DOMAIN store, pos \in Nat :
           /\ replay.from < j /\ j <= until /\ e \in Entries(store[j], pos, replay.of)
    BY <1>2
  <2>2. OfPause(e, store[j], replay.of) \/ OfReading(e, store[j], replay.of)
    BY <1>1, <1>4, <2>1, EntriesOf
  <2>3. /\ store[j].of = (IF e.id = Marker THEN "pause" ELSE e.metric)
        /\ At(j) = e.at
    <3>1. CASE OfPause(e, store[j], replay.of)
      BY <3>1 DEF OfPause, At
    <3>2. CASE OfReading(e, store[j], replay.of)
      BY <3>2, StoredRoute DEF OfReading, At
    <3> QED BY <2>2, <3>1, <3>2
  <2>4. j \in 1..until /\ BatchOf(j) = BatchOf(until)
    BY <1>4, <1>5, <2>1
  <2>5. FromStore(e)'
    BY <1>1, <1>3, <1>6, <2>3, <2>4 DEF FromStore, BatchOf
  <2>6. ASSUME last[m] # None, e.at < last[m]
        PROVE  \E i \in DOMAIN store : /\ store[i].of \in {m, "pause"}
                                       /\ BatchOf(i) < BatchOf(until) /\ At(i) > e.at
    <3>1. PICK i \in 1..replay.from : store[i].of \in {m, "pause"} /\ At(i) = last[m]
      BY <2>6 DEF Going, LastIsLoaded
    <3>2. i \in DOMAIN store /\ i <= replay.from
      BY SMTT(60), <1>2, <1>4
    <3> QED BY <1>5, <2>6, <3>1, <3>2
  <2>7. LateIsOvertaken(e)'
    BY <1>1, <1>3, <1>6, <1>8, <2>6 DEF LateIsOvertaken, BatchOf
  <2> QED BY <2>5, <2>7
<1>9. ASSUME NEW i \in 1..until, store[i].of = m
      PROVE  Accounted(i, m)' \/ Due(i, m)'
  <2>1. i \in DOMAIN store
    BY <1>2, <1>4
  <2>2. CASE i <= replay.from
    <3>1. Accounted(i, m)
      BY SMTT(60), <1>1, <1>4, <1>9, <2>1, <2>2 DEF Going, LoadedIsShown, Due
    <3> QED BY <1>1, <3>1, SameShown
  <2>3. CASE ~(i <= replay.from)
    <3>1. replay.from < i /\ i <= until
      BY SMTT(60), <1>4, <2>1, <2>3
    <3>2. store[i].id # Marker
      BY <1>4, <1>9, <2>1, SampleTypes, ConstantFacts
    <3>3. Table(replay.of)[store[i].id] = m
      BY <1>9, <2>1, <3>2, StoredRoute
    <3>4. Selected(store[i], replay.of)
      BY <3>3 DEF Selected
    <3>5. PICK pos \in Nat : Entries(store[i], pos, replay.of) \subseteq queue'
      BY <1>2, <2>1, <3>1, <3>4
    <3> DEFINE e == [id |-> store[i].id, metric |-> Table(replay.of)[store[i].id],
                     at |-> Normalised(store[i]), taken |-> store[i].taken, pos |-> pos]
    <3>6. Entries(store[i], pos, replay.of) = {e}
      <4>1. store[i].of # "pause" /\ store[i].of # "resume"
        BY <1>4, <1>9, ConstantFacts DEF Marks
      <4> QED BY <4>1 DEF Entries
    <3>7. e \in queue' /\ e.metric = m /\ e.id # Marker /\ e.at = At(i)
      BY <3>2, <3>3, <3>5, <3>6 DEF At
    <3> HIDE DEF e
    <3>8. BatchOf(i) = BatchOf(until)
      BY <1>5, <2>1, <3>1
    <3> QED BY <1>3, <1>6, <3>7, <3>8 DEF Due, BatchOf
  <2> QED BY <2>2, <2>3
<1>10. QueueIsLoaded(m)'
  BY <1>8 DEF QueueIsLoaded
<1>11. LoadedIsShown(m)'
  BY <1>1, <1>3, <1>9 DEF LoadedIsShown
<1>12. Unknown(m)'
  BY <1>1 DEF Going, Unknown
<1> QED BY <1>7, <1>10, <1>11, <1>12 DEF Going

\* What has been sunk remains, and the last is new.
LEMMA SunkPositions ==
    ASSUME NEW s \in Seq(Sunk), NEW x \in Sunk
    PROVE  LET t == Append(s, x)
           IN  /\ \A k \in DOMAIN s : k \in DOMAIN t /\ t[k] = s[k]
               /\ \E k \in DOMAIN t : t[k] = x
<1> DEFINE t == Append(s, x)
<1>1. /\ DOMAIN s = 1..Len(s) /\ DOMAIN t = 1..Len(t) /\ Len(s) \in Nat /\ Len(t) = Len(s) + 1
      /\ \A k \in 1..Len(s) : t[k] = s[k]
      /\ t[Len(s) + 1] = x
  <2>1. t \in Seq(Sunk)
    BY AppendProperties
  <2> QED BY <2>1, AppendFacts
<1> HIDE DEF t
<1>2. Len(s) + 1 \in DOMAIN t /\ \A k \in DOMAIN s : k \in DOMAIN t
  BY <1>1
<1> QED BY <1>1, <1>2 DEF t

\* An entry that its metric takes shows a reading, or leaves one alone before a pause.
LEMMA TakenShown ==
    ASSUME PipelineAssumption, TypeOK, PreviousIsLast, WholeBatches, NEW e \in queue,
           ~IsTimestampRegression(e), FromStore(e), Unknown(e.metric),
           UNCHANGED <<store, anchor>>,
           \/ e.id = Marker /\ ProcessPauseSample(e)
           \/ e.id # Marker /\ ~Fails(e) /\ ReceiveRawSample(e),
           NEW i \in DOMAIN store
    PROVE  /\ Accounted(i, e.metric) => Accounted(i, e.metric)'
           /\ e.id # Marker /\ e.at = At(i) => Accounted(i, e.metric)'
<1> DEFINE n == e.metric
           old == processed[n]
<1>1. n \in Metrics /\ e.at \in Int /\ e.at # None
  BY SinksType, ConstantFacts
<1>2. /\ processed \in [Metrics -> Seq(Sunk)] /\ last \in [Metrics -> Int \cup {None}]
      /\ previous \in [Metrics -> Held \cup {None}] /\ old \in Seq(Sunk) /\ Kind[n] \in Kinds
  <2>1. /\ processed \in [Metrics -> Seq(Sunk)] /\ last \in [Metrics -> Int \cup {None}]
        /\ previous \in [Metrics -> Held \cup {None}]
    BY DEF TypeOK
  <2>2. Kind[n] \in Kinds
    BY <1>1 DEF PipelineAssumption
  <2> QED BY SMTT(60), <1>1, <2>1, <2>2
<1>3. At(i)' = At(i) /\ (Overtaken(i, n) => Overtaken(i, n)') /\ (Alone(i, n) => Alone(i, n)')
  BY SameStore
<1>4. ASSUME Shown(i, n), e.id = Marker, ProcessPauseSample(e)
      PROVE  Accounted(i, n)'
  <2>1. processed' = processed
    BY <1>4 DEF ProcessPauseSample
  <2>2. CASE \E k \in DOMAIN old : At(i) \in {old[k].since, old[k].at}
    BY <1>3, <2>1, <2>2 DEF Shown, Accounted
  <2>3. CASE previous[n] # None /\ previous[n].at = At(i)
    <3>1. Kind[n] # "value" /\ last[n] = At(i) /\ last[n] \in Int
      <4>1. Kind[n] # "value" /\ last[n] = At(i)
        BY <1>1, <2>3 DEF PreviousIsLast
      <4>2. previous[n].at \in Int
        BY SMTT(60), <1>1, <1>2, <2>3 DEF Held
      <4> QED BY <2>3, <4>1, <4>2
    <3>2. At(i) <= e.at
      BY SMTT(60), <1>1, <3>1, ConstantFacts DEF IsTimestampRegression
    <3>3. PICK j \in 1..replay.from : store[j].of = "pause" /\ At(j) = e.at
      BY <1>4 DEF FromStore
    <3>4. j \in DOMAIN store
      BY DEF TypeOK, WholeBatches
    <3>5. Alone(i, n)
      BY <3>2, <3>3, <3>4 DEF Alone
    <3> QED BY <1>3, <3>1, <3>5 DEF Accounted
  <2> QED BY <1>4, <2>2, <2>3 DEF Shown
<1>5. ASSUME e.id # Marker, ~Fails(e), ReceiveRawSample(e)
      PROVE  /\ Shown(i, n) => Shown(i, n)'
             /\ e.at = At(i) => Shown(i, n)'
  <2>1. processed'[n] = old \o Sinks(e)
    BY <1>1, <1>2, <1>5 DEF ReceiveRawSample
  <2>2. CASE Kind[n] = "value"
    <3> DEFINE x == [since |-> e.at, at |-> e.at]
    <3>1. previous' = previous /\ previous[n] = None
      BY SMTT(60), <1>1, <1>5, <2>2 DEF ReceiveRawSample, PreviousIsLast
    <3>2. x \in Sunk /\ x.at = e.at
      BY <1>1 DEF Sunk
    <3>3. Sinks(e) = <<x>>
      BY <2>2 DEF Sinks
    <3> HIDE DEF x
    <3>5. processed'[n] = Append(old, x)
      <4>1. processed'[n] = old \o <<x>> /\ old \in Seq(Sunk)
        BY <1>2, <2>1, <3>3
      <4> QED BY ONLY <3>2, <4>1, SinkOne
    <3> HIDE DEF old
    <3>4. /\ \A k \in DOMAIN old : k \in DOMAIN processed'[n] /\ processed'[n][k] = old[k]
          /\ \E k \in DOMAIN processed'[n] : processed'[n][k] = x
      <4>1. old \in Seq(Sunk)
        BY <1>2
      <4>2. /\ \A k \in DOMAIN old : k \in DOMAIN Append(old, x) /\ Append(old, x)[k] = old[k]
            /\ \E k \in DOMAIN Append(old, x) : Append(old, x)[k] = x
        BY ONLY <4>1, <3>2, SunkPositions
      <4> QED BY <3>5, <4>2
    <3> QED BY <1>3, <3>1, <3>2, <3>4 DEF Shown, old
  <2>3. CASE Kind[n] # "value"
    <3> DEFINE h == [at |-> e.at, taken |-> e.taken]
    <3>1. previous' = [previous EXCEPT ![n] = h]
      BY <1>5, <2>3 DEF ReceiveRawSample
    <3>2. h \in Held /\ h.at = e.at
      BY SinksType
    <3>3. None \notin Held
      BY DEF PipelineAssumption, Held, Time
    <3> HIDE DEF h
    <3>4. previous'[n] # None /\ previous'[n].at = e.at
      BY <1>1, <1>2, <3>1, <3>2, <3>3
    <3>5. Kind[n] \in {"delta", "rate"}
      <4>1. Kind[n] # "residency"
        <5>1. [id |-> e.id, metric |-> n] \notin known
          BY DEF Unknown
        <5> QED BY <1>5, <5>1 DEF Fails
      <4> QED BY <1>2, <2>3, <4>1 DEF Kinds
    <3>6. CASE previous[n] = None
      <4>1. Sinks(e) = <<>>
        BY <3>5, <3>6, DeltaSinks
      <4>2. processed'[n] = old
        BY <1>2, <2>1, <4>1, ConcatEmptySeq
      <4> QED BY <1>3, <3>4, <3>6, <4>2 DEF Shown
    <3>7. CASE previous[n] # None
      <4> DEFINE x == [since |-> previous[n].at, at |-> e.at]
      <4>1. Sinks(e) = <<x>>
        BY <3>5, <3>7, DeltaSinks
      <4>2. x \in Sunk /\ x.since = previous[n].at /\ x.at = e.at
        <5>1. previous[n].at \in Int
          BY <1>1, <1>2, <3>7 DEF Held
        <5> QED BY <1>1, <5>1 DEF Sunk
      <4> HIDE DEF x
      <4>3. processed'[n] = Append(old, x)
        <5>1. processed'[n] = old \o <<x>> /\ old \in Seq(Sunk)
          BY <1>2, <2>1, <4>1
        <5> QED BY ONLY <4>2, <5>1, SinkOne
      <4> HIDE DEF old
      <4>4. /\ \A k \in DOMAIN old : k \in DOMAIN processed'[n] /\ processed'[n][k] = old[k]
            /\ \E k \in DOMAIN processed'[n] : processed'[n][k] = x
        <5>1. old \in Seq(Sunk)
          BY <1>2
        <5>2. /\ \A k \in DOMAIN old : k \in DOMAIN Append(old, x) /\ Append(old, x)[k] = old[k]
              /\ \E k \in DOMAIN Append(old, x) : Append(old, x)[k] = x
          BY ONLY <5>1, <4>2, SunkPositions
        <5> QED BY SMTT(60), <4>3, <5>2
      <4> QED BY <1>3, <3>4, <4>2, <4>4 DEF Shown, old
    <3> QED BY <3>6, <3>7
  <2> QED BY <2>2, <2>3
<1>6. CASE e.id = Marker /\ ProcessPauseSample(e)
  BY <1>3, <1>4, <1>6 DEF Accounted
<1>7. CASE e.id # Marker /\ ~Fails(e) /\ ReceiveRawSample(e)
  BY <1>3, <1>5, <1>7 DEF Accounted
<1> QED BY <1>6, <1>7

\* A round of the loop leaves a replay where it was, but for one entry.
LEMMA DispatchGoing ==
    ASSUME PipelineAssumption, TypeOK, PreviousIsLast, WholeBatches,
           NEW e \in queue, Dispatch(e), NEW m \in replay.of, Going(m), ~replay'.failed
    PROVE  Going(m)'
<1>1. UNCHANGED <<store, anchor, known>> /\ InTurn(e)
  BY DEF Dispatch, storeVars, routeVars
<1>2. /\ e.metric \in Metrics /\ e.at \in Int /\ e.at # None /\ m \in Metrics
      /\ \A f \in queue : f.at \in Int
  <2>1. queue \subseteq Entry /\ m \in Metrics
    BY DEF TypeOK
  <2> QED BY <2>1, ConstantFacts DEF Entry
<1>3. /\ \A i : At(i)' = At(i) /\ (Overtaken(i, m) => Overtaken(i, m)')
      /\ Unknown(m)'
  BY <1>1, SameStore DEF Going, Unknown
<1>4. CASE IsTimestampRegression(e) /\ queue' = queue \ {e}
           /\ UNCHANGED <<previous, processed, last, replay>>
  <2>1. LastIsLoaded(m)'
    BY <1>1, <1>3, <1>4 DEF Going, LastIsLoaded
  <2>2. QueueIsLoaded(m)'
    BY <1>1, <1>3, <1>4 DEF Going, QueueIsLoaded, FromStore, LateIsOvertaken, BatchOf
  <2>3. ASSUME NEW i \in 1..replay.from, store[i].of = m
        PROVE  Accounted(i, m)' \/ Due(i, m)'
    <3>1. CASE Accounted(i, m)
      BY <1>1, <1>4, <3>1, SameShown
    <3>2. CASE Due(i, m)
      <4>1. PICK f \in queue : f.metric = m /\ f.id # Marker /\ f.at = At(i)
        BY <3>2 DEF Due
      <4>2. BatchOf(i) = BatchOf(replay.from)
        BY <3>2 DEF Due
      <4>3. CASE f # e
        BY <1>3, <1>4, <4>1, <4>2, <4>3 DEF Due, BatchOf
      <4>4. CASE f = e
        <5>1. LateIsOvertaken(e) /\ last[m] # None /\ e.at < last[m]
          BY <1>4, <4>1, <4>4 DEF Going, QueueIsLoaded, IsTimestampRegression
        <5>2. Overtaken(i, m)
          BY <4>1, <4>2, <4>4, <5>1 DEF LateIsOvertaken, Overtaken
        <5> QED BY <1>3, <5>2 DEF Accounted
      <4> QED BY <4>3, <4>4
    <3> QED BY <2>3, <3>1, <3>2 DEF Going, LoadedIsShown
  <2>4. LoadedIsShown(m)'
    BY <1>1, <1>4, <2>3 DEF LoadedIsShown
  <2> QED BY <1>3, <2>1, <2>2, <2>4 DEF Going
<1>5. CASE e.id # Marker /\ queue' = {} /\ UNCHANGED <<previous, processed, last>>
           /\ IF replay # Quiet THEN replay' = [replay EXCEPT !.failed = TRUE]
                                ELSE replay' = replay
  <2>1. replay # Quiet
    BY DEF Quiet
  <2>2. replay'.failed = TRUE
    BY <1>5, <2>1 DEF TypeOK
  <2> QED BY <2>2
<1>6. ASSUME ~IsTimestampRegression(e), queue' = queue \ {e}, replay' = replay,
             last' = [last EXCEPT ![e.metric] = e.at],
             \/ e.id = Marker /\ ProcessPauseSample(e)
             \/ e.id # Marker /\ ~Fails(e) /\ ReceiveRawSample(e)
      PROVE  Going(m)'
  <2>1. /\ processed \in [Metrics -> Seq(Sunk)] /\ last \in [Metrics -> Int \cup {None}]
        /\ previous \in [Metrics -> Held \cup {None}]
    BY DEF TypeOK
  <2>2. CASE e.metric # m
    <3>1. last'[m] = last[m]
      BY <1>2, <1>6, <2>1, <2>2
    <3>2. processed'[m] = processed[m] /\ previous'[m] = previous[m]
      BY ZenonT(60), <1>2, <1>6, <2>1, <2>2 DEF ProcessPauseSample, ReceiveRawSample
    <3>3. LastIsLoaded(m)'
      BY <1>1, <1>3, <1>6, <3>1 DEF Going, LastIsLoaded
    <3>4. QueueIsLoaded(m)'
      BY <1>1, <1>3, <1>6, <3>1
      DEF Going, QueueIsLoaded, FromStore, LateIsOvertaken, BatchOf
    <3>5. \A i : (Accounted(i, m) => Accounted(i, m)') /\ (Due(i, m) => Due(i, m)')
      <4> TAKE i
      <4>1. Accounted(i, m) => Accounted(i, m)'
        BY <1>1, <3>2, SameShown
      <4>2. Due(i, m) => Due(i, m)'
        BY <1>3, <1>6, <2>2 DEF Due, BatchOf
      <4> QED BY <4>1, <4>2
    <3>6. LoadedIsShown(m)'
      BY <1>1, <1>6, <3>5 DEF Going, LoadedIsShown
    <3> QED BY <1>3, <3>3, <3>4, <3>6 DEF Going
  <2>3. CASE e.metric = m
    <3>1. FromStore(e) /\ Unknown(m) /\ last'[m] = e.at
      BY <1>2, <1>6, <2>1, <2>3 DEF Going, QueueIsLoaded
    <3>2. LastIsLoaded(m)'
      <4>1. PICK j \in 1..replay.from : /\ At(j) = e.at
                                        /\ store[j].of \in {m, "pause"}
        BY <2>3, <3>1 DEF FromStore
      <4> QED BY <1>1, <1>3, <1>6, <3>1, <4>1 DEF LastIsLoaded
    <3>3. ASSUME NEW f \in queue', f.metric = m
          PROVE  FromStore(f)' /\ LateIsOvertaken(f)'
      <4>1. f \in queue /\ FromStore(f)
        BY <1>6, <3>3 DEF Going, QueueIsLoaded
      <4>2. FromStore(f)'
        BY <1>1, <1>3, <1>6, <4>1 DEF FromStore, BatchOf
      <4>3. Rank[m] \in Nat
        BY <1>2 DEF PipelineAssumption
      <4>4. e.at <= f.at
        BY SMTT(60), <1>1, <2>3, <3>3, <4>1, <4>3 DEF InTurn
      <4>5. ~(f.at < last'[m])
        <5>1. e.at \in Int /\ f.at \in Int
          BY <1>1, <4>1 DEF TypeOK, Entry
        <5> QED BY ONLY <3>1, <4>4, <5>1
      <4> QED BY <3>3, <4>2, <4>5 DEF LateIsOvertaken
    <3>4. ASSUME NEW i \in 1..replay.from, store[i].of = m
          PROVE  Accounted(i, m)' \/ Due(i, m)'
      <4>1. i \in DOMAIN store
        BY DEF TypeOK, WholeBatches
      <4>2. /\ Accounted(i, m) => Accounted(i, m)'
            /\ e.id # Marker /\ e.at = At(i) => Accounted(i, m)'
        BY <1>1, <1>6, <2>3, <3>1, <4>1, TakenShown
      <4>3. CASE Due(i, m)
        <5>1. PICK f \in queue : f.metric = m /\ f.id # Marker /\ f.at = At(i)
          BY <4>3 DEF Due
        <5>2. CASE f = e
          BY <4>2, <5>1, <5>2
        <5>3. CASE f # e
          BY <1>3, <1>6, <4>3, <5>1, <5>3 DEF Due, BatchOf
        <5> QED BY <5>2, <5>3
      <4> QED BY <3>4, <4>2, <4>3 DEF Going, LoadedIsShown
    <3>5. QueueIsLoaded(m)'
      BY <3>3 DEF QueueIsLoaded
    <3>6. LoadedIsShown(m)'
      BY <1>1, <1>6, <3>4 DEF LoadedIsShown
    <3> QED BY <1>3, <3>2, <3>5, <3>6 DEF Going
  <2> QED BY <2>2, <2>3
<1> QED BY <1>4, <1>5, <1>6, Rounds, Zenon

\* What is complete stays complete as long as nothing of it changes.
LEMMA StillComplete ==
    ASSUME ReplayIsComplete, UNCHANGED <<store, anchor, processed, previous, replayed>>,
           state' # "UNCONFIGURED" => state # "UNCONFIGURED"
    PROVE  ReplayIsComplete'
<1>1. \A i, m : Accounted(i, m) => Accounted(i, m)'
  BY SameShown
<1>2. \A m : Readings(m)' = Readings(m)
  BY DEF Readings
<1> QED BY <1>1, <1>2 DEF ReplayIsComplete, Accounted

\* Where nothing is replayed there is nothing to complete.
LEMMA NoneToShow == ASSUME replayed = {} PROVE ReplayIsComplete
BY DEF ReplayIsComplete

\* No replay is under way.
LEMMA QuietReplay ==
    ASSUME PipelineAssumption, TypeOK', replay' = Quiet, ReplayIsComplete'
    PROVE  ReplayInv'
<1>1. replay'.of = {} /\ replay'.from = 0
  BY DEF Quiet
<1>2. PICK n : n = Len(store')
  OBVIOUS
<1>3. n \in Nat
  BY <1>2 DEF TypeOK
<1>4. 0 * BatchSize = 0 /\ 0 \in 0..n
  BY <1>3, ConstantFacts
<1>5. WholeBatches'
  BY <1>1, <1>2, <1>4 DEF WholeBatches
<1> QED BY <1>1, <1>5 DEF ReplayInv

\* A sample that is delivered goes to the queue or ends what was complete.
LEMMA DeliveredAnew ==
    ASSUME NEW s, Deliver(s)
    PROVE  UNCHANGED <<store, replayed>> \/ replayed' = {}
BY DEF Deliver, storeVars

\* A step between replays changes nothing that has been replayed, or forgets it.
LEMMA BetweenReplays ==
    ASSUME PipelineAssumption, TypeOK, ReplayIsComplete,
           \/ Tick \/ (\E e \in Events : FirmwareUpdate(e)) \/ Wake \/ BeginPass \/ CallerRead
           \/ ReadOperation \/ Pause \/ Resume \/ Start \/ Stop \/ FailedReset
           \/ \E request \in Requests : Configuring(request)
    PROVE  replay' = Quiet /\ ReplayIsComplete'
<1> USE DEF Settled, MayCall, MayControl, MayConfigure, MayFailToConfigure, Running,
            clockVars, collectorVars, passVars, routeVars, metricVars, storeVars
<1>1. CASE \/ Tick \/ (\E e \in Events : FirmwareUpdate(e)) \/ Wake \/ BeginPass
           \/ CallerRead \/ Stop
  <2>1. /\ replay' = Quiet /\ UNCHANGED <<store, anchor, processed, previous, replayed>>
        /\ state' # "UNCONFIGURED" => state # "UNCONFIGURED"
    BY <1>1 DEF Tick, FirmwareUpdate, Wake, BeginPass, CallerRead, Stop
  <2> QED BY <2>1, StillComplete
<1>2. CASE ReadOperation \/ Pause \/ Resume
  <2>1. /\ replay' = Quiet /\ UNCHANGED <<anchor, processed, previous>>
        /\ state' # "UNCONFIGURED" => state # "UNCONFIGURED"
        /\ UNCHANGED <<store, replayed>> \/ replayed' = {}
    <3>1. CASE ReadOperation
      <4>1. UNCHANGED <<store, replayed>> \/ replayed' = {}
        BY ZenonT(60), <3>1, DeliveredAnew, Zenon DEF ReadOperation
      <4>2. replay' = Quiet /\ UNCHANGED <<state, anchor, processed, previous>>
        BY <3>1 DEF ReadOperation
      <4> QED BY <4>1, <4>2
    <3>2. CASE Pause \/ Resume
      <4>1. UNCHANGED <<store, replayed>> \/ replayed' = {}
        BY <3>2, DeliveredAnew DEF Pause, Resume
      <4>2. /\ replay' = Quiet /\ UNCHANGED <<anchor, processed, previous>>
            /\ state # "UNCONFIGURED"
        BY <3>2 DEF Pause, Resume
      <4> QED BY <4>1, <4>2
    <3> QED BY <1>2, <3>1, <3>2
  <2>2. CASE replayed' = {}
    BY <2>1, <2>2 DEF ReplayIsComplete
  <2>3. CASE UNCHANGED <<store, replayed>>
    BY <2>1, <2>3, StillComplete
  <2> QED BY <2>1, <2>2, <2>3
<1>3. CASE Start \/ FailedReset
  <2>1. replay' = Quiet /\ replayed' = {}
    BY <1>3 DEF Start, FailedReset
  <2> QED BY <2>1 DEF ReplayIsComplete
<1>4. CASE \E request \in Requests : Configuring(request)
  <2>1. PICK request \in Requests : Configuring(request)
    BY <1>4
  <2>2. ASSUME NEW others, NEW k, FailedConfigure(request, others, SubSeq(request, 1, k))
        PROVE  replay' = Quiet /\ replayed' = {}
    BY <2>2 DEF FailedConfigure
  <2>3. ASSUME NEW others, NEW noCache, NEW software2,
               Configure(request, noCache, others, software2)
        PROVE  replay' = Quiet /\ replayed' = {}
    BY <2>3 DEF Configure
  <2>4. ASSUME NEW others, NEW removed, AbandonedConfigure(request, others, removed)
        PROVE  replay' = Quiet /\ replayed' = {}
    BY <2>4 DEF AbandonedConfigure
  <2>5. replay' = Quiet /\ replayed' = {}
    BY <2>1, <2>2, <2>3, <2>4, Zenon DEF Configuring
  <2> QED BY <2>5 DEF ReplayIsComplete
<1> QED BY <1>1, <1>2, <1>3, <1>4

\* Every step of a replay keeps what it says of where the replay stands.
LEMMA ReplayNext ==
    PipelineAssumption /\ IInv /\ PauseInv /\ ReplayInv /\ [Next]_vars => ReplayInv'
<1> SUFFICES ASSUME PipelineAssumption, IInv, PauseInv, ReplayInv, [Next]_vars
             PROVE  ReplayInv'
  OBVIOUS
<1>1. /\ TypeOK /\ Kept /\ PreviousIsLast /\ QueueIsDue /\ WholeBatches /\ ReplayIsComplete
      /\ replay # Quiet => replayed = {}
      /\ state # "UNCONFIGURED" /\ ~replay.failed => \A m \in replay.of : Going(m)
  BY DEF IInv, PauseInv, ReplayInv
<1>2. TypeOK'
  BY PipelineStep DEF IInv
<1>3. CASE UNCHANGED vars
  <2>1. UNCHANGED <<state, routes, known, anchor, previous, last, processed, queue, store,
                    replayed, replay>>
    BY <1>3 DEF vars, routeVars, metricVars, storeVars
  <2>2. ReplayIsComplete'
    BY <1>1, <2>1, StillComplete
  <2>3. ASSUME NEW m, Going(m) PROVE Going(m)'
    <3>1. \A i : At(i)' = At(i)
      BY <2>1, SameStore
    <3>2. \A i : Accounted(i, m) => Accounted(i, m)'
      BY <2>1, SameShown
    <3>3. LastIsLoaded(m)'
      BY <2>1, <2>3, <3>1 DEF Going, LastIsLoaded
    <3>4. QueueIsLoaded(m)'
      BY <2>1, <2>3, <3>1 DEF Going, QueueIsLoaded, FromStore, LateIsOvertaken, BatchOf
    <3>5. LoadedIsShown(m)'
      BY <2>1, <2>3, <3>1, <3>2 DEF Going, LoadedIsShown, Due, BatchOf
    <3> QED BY <2>1, <2>3, <3>3, <3>4, <3>5 DEF Going, Unknown
  <2>4. WholeBatches'
    BY <1>1, <2>1 DEF WholeBatches
  <2> QED BY <1>1, <2>1, <2>2, <2>3, <2>4 DEF ReplayInv
<1>4. CASE \/ Tick \/ (\E e \in Events : FirmwareUpdate(e)) \/ Wake \/ BeginPass \/ CallerRead
           \/ ReadOperation \/ Pause \/ Resume \/ Start \/ Stop \/ FailedReset
           \/ \E request \in Requests : Configuring(request)
  <2>1. replay' = Quiet /\ ReplayIsComplete'
    BY <1>1, <1>4, BetweenReplays
  <2> QED BY <1>2, <2>1, QuietReplay
<1>5. CASE \E M \in {{m} : m \in Metrics} \cup {Metrics} : BeginReplay(M)
  <2>1. PICK M \in SUBSET Metrics : BeginReplay(M)
    BY <1>5
  <2>2. /\ queue' = {} /\ replayed' = {} /\ replay' = [of |-> M, from |-> 0, failed |-> FALSE]
        /\ ResetMetrics(M)
    BY <2>1 DEF BeginReplay, MayCall, Settled
  <2>3. \A m \in M : Going(m)'
    <3> TAKE m \in M
    <3>1. last'[m] = None /\ \A o \in known' : o.metric # m
      BY <2>2 DEF ResetMetrics
    <3>2. replay'.from = 0
      BY <2>2
    <3> QED BY <2>2, <3>1, <3>2
        DEF Going, LastIsLoaded, QueueIsLoaded, LoadedIsShown, Unknown
  <2>4. WholeBatches'
    <3>1. replay'.from = 0 /\ Len(store)' \in Nat
      BY <1>2, <2>2 DEF TypeOK
    <3>2. 0 * BatchSize = 0 /\ 0 \in 0..Len(store)'
      BY <3>1, ConstantFacts
    <3> QED BY <3>1, <3>2 DEF WholeBatches
  <2>5. ReplayIsComplete'
    BY <2>2 DEF ReplayIsComplete
  <2> QED BY <2>2, <2>3, <2>4, <2>5 DEF ReplayInv
<1>6. CASE LoadBatch
  <2>1. /\ replay'.of = replay.of /\ UNCHANGED <<state, replayed>> /\ ~replay.failed
        /\ replayed = {}
    BY <1>1, <1>6 DEF LoadBatch, storeVars, TypeOK
  <2>2. WholeBatches'
    BY <1>1, <1>6, LoadedBatch
  <2>3. ASSUME state' # "UNCONFIGURED", ~replay'.failed, NEW m \in replay.of
        PROVE  Going(m)'
    BY <1>1, <1>6, <2>1, <2>3, LoadGoing
  <2>4. ReplayIsComplete'
    BY <2>1 DEF ReplayIsComplete
  <2> QED BY <2>1, <2>2, <2>3, <2>4 DEF ReplayInv
<1>7. CASE EndReplay
  <2>1. /\ replay' = Quiet /\ replayed = {} /\ queue = {}
        /\ replay.failed \/ replay.from = Len(store)
        /\ replayed' = IF replay.failed THEN {} ELSE replay.of
        /\ UNCHANGED <<state, store, anchor, processed, previous>>
    BY <1>1, <1>7 DEF EndReplay, ReplayEnd, metricVars, routeVars
  <2>2. ASSUME state # "UNCONFIGURED", NEW m \in replayed', NEW i \in Readings(m)
        PROVE  Accounted(i, m)'
    <3>1. ~replay.failed /\ m \in replay.of /\ replay.from = Len(store)
      BY <2>1, <2>2
    <3>2. i \in 1..replay.from /\ store[i].of = m
      BY <1>1, <2>2, <3>1 DEF Readings, TypeOK
    <3>3. Accounted(i, m)
      BY <1>1, <2>1, <2>2, <3>1, <3>2 DEF Going, LoadedIsShown, Due
    <3> QED BY <2>1, <3>3, SameShown
  <2>3. ReplayIsComplete'
    BY <2>1, <2>2 DEF ReplayIsComplete, Accounted, Readings
  <2> QED BY <1>2, <2>1, <2>3, QuietReplay
<1>8. ASSUME NEW e \in queue, Dispatch(e) PROVE ReplayInv'
  <2>1. UNCHANGED <<state, store, anchor, replayed>>
    BY <1>8 DEF Dispatch, routeVars, storeVars
  <2>2. replay' = replay \/ (replay # Quiet /\ replay' = [replay EXCEPT !.failed = TRUE])
    BY <1>8, Rounds
  <2>3. replay'.of = replay.of /\ replay'.from = replay.from /\ (replay.failed => replay'.failed)
    BY SMTT(60), <1>1, <2>2 DEF TypeOK
  <2>4. replay' # Quiet => replay # Quiet
    BY <2>2
  <2>5. ReplayIsComplete'
    <3>1. CASE replay # Quiet
      BY <1>1, <2>1, <3>1 DEF ReplayIsComplete
    <3>2. CASE replay = Quiet
      <4>1. store = <<>>
        BY <1>1, <3>2 DEF QueueIsDue
      <4> QED BY <2>1, <4>1 DEF ReplayIsComplete, Readings
    <3> QED BY <3>1, <3>2
  <2>6. ASSUME state # "UNCONFIGURED", ~replay'.failed, NEW m \in replay.of
        PROVE  Going(m)'
    BY <1>1, <1>8, <2>3, <2>6, DispatchGoing
  <2> QED BY <1>1, <2>1, <2>3, <2>4, <2>5, <2>6 DEF ReplayInv, WholeBatches
<1> QED BY <1>3, <1>4, <1>5, <1>6, <1>7, <1>8, Zenon DEF Next, Configuring

-----------------------------------------------------------------------------
(* The theorems.                                                            *)

\* While a replay is under way, every reading of the batches it has loaded is shown,
\* overtaken, alone before a pause, or waits in the queue.
THEOREM ReplayInvariance == Spec => []ReplayInv
<1>1. Init => ReplayInv
  <2> SUFFICES ASSUME Init PROVE ReplayInv
    OBVIOUS
  <2>1. TypeOK
    BY PipelineInit, PipelineAssumption DEF IInv
  <2>2. replay = Quiet /\ ReplayIsComplete
    BY DEF Init, ReplayIsComplete
  <2>3. WholeBatches
    <3>1. replay.from = 0 /\ Len(store) \in Nat
      BY <2>1, <2>2 DEF Quiet, TypeOK
    <3>2. 0 * BatchSize = 0 /\ 0 \in 0..Len(store)
      BY <3>1, ConstantFacts, PipelineAssumption
    <3> QED BY <3>1, <3>2 DEF WholeBatches
  <2> QED BY <2>2, <2>3 DEF ReplayInv, Quiet
<1>2. IInv /\ PauseInv /\ ReplayInv /\ [Next]_vars => ReplayInv'
  BY ReplayNext, PipelineAssumption
<1> QED BY <1>1, <1>2, PipelineInvariant, PauseInvariance, PTL DEF Spec

\* A metric that holds a replay of the store leaves out no reading without a reason.
THEOREM ReplayComplete == Spec => []ReplayIsComplete
<1>1. ReplayInv => ReplayIsComplete
  BY DEF ReplayInv
<1> QED BY <1>1, ReplayInvariance, PTL
=============================================================================
