------------------------------ MODULE SampleLog ------------------------------
(***************************************************************************)
(* What the orchestrator promises of the raw samples of its targets        *)
(* (src/src/impl/orchestrator/orchestrator.hpp, SinkRawSamples and the     *)
(* collection operations): wherever they are, pending or in a file, each   *)
(* target has one log.  Samplers extend it, by later samples only.  A      *)
(* stop, a visit and an output leave it alone.  A configuration, and the   *)
(* beginning of a collection that comes to nothing, may cut off its end;   *)
(* only a crop takes samples out of the middle, and none reorders them.    *)
(***************************************************************************)
EXTENDS Naturals, SequencesExt, Subsequences

CONSTANT Targets

VARIABLES log,       \* the raw samples that a replay of each target reads
          phase,     \* the lifecycle state of each target
          open,      \* the targets whose collector accepts reads
          uncached   \* the targets that keep no raw samples

vars == <<log, phase, open, uncached>>

Init ==
    /\ log = [t \in Targets |-> <<>>]
    /\ phase = [t \in Targets |-> "UNCONFIGURED"]
    /\ open = {}
    /\ uncached = {}

Running == {"STARTING", "STARTED"}

Others(S) == \A t \in Targets \ S : log'[t] = log[t]

\* The logs of S lose their end, or all they have; the others stay.
Cut(S) == (\A t \in S : IsPrefix(log'[t], log[t])) /\ Others(S)

Move(t, from, to) == phase[t] = from /\ phase' = [phase EXCEPT ![t] = to]

\* A target that samples, and is cached, gets samples that are later than all it has.
Deliver(t) ==
    /\ t \in open /\ t \notin uncached
    /\ UNCHANGED <<phase, open, uncached>>
    /\ IsPrefix(log[t], log'[t]) /\ Others({t})
    /\ \A i \in DOMAIN log[t] : \A j \in DOMAIN log'[t] \ DOMAIN log[t] :
         log[t][i].tick < log'[t][j].tick

\* A configuration of t, while nothing runs.  It resets t alone or all targets; who
\* becomes configured starts with nothing, and nobody else samples or becomes uncached.
Configure(t) ==
    /\ \A u \in Targets : phase[u] \notin Running
    /\ \E S \in {{t}, Targets}, p \in {"CONFIGURED", "UNCONFIGURED"} :
         LET configured == {u \in {t} : p = "CONFIGURED"}
         IN  /\ phase' = [u \in Targets |-> IF u = t THEN p
                                            ELSE IF u \in S THEN "UNCONFIGURED"
                                            ELSE phase[u]]
             /\ open' = (open \ S) \cup configured
             /\ uncached' \subseteq uncached \cup configured
             /\ Cut(S)
             /\ p = "CONFIGURED" => log'[t] = <<>>

\* A collector stops, or drops its configuration.
Close(t) == open' = open \ {t} /\ UNCHANGED <<log, phase, uncached>>

BeginStart(t) ==
    Move(t, "CONFIGURED", "STARTING") /\ Cut({t}) /\ UNCHANGED <<open, uncached>>

\* What was sampled since the start began belongs to the collection.
EnterStarted(t) ==
    t \in open /\ Move(t, "STARTING", "STARTED") /\ UNCHANGED <<log, open, uncached>>

\* A start that is withdrawn, or cannot be.
AbandonStart(t) ==
    /\ \E to \in {"CONFIGURED", "STARTED"} : Move(t, "STARTING", to)
    /\ open' \in {open, open \ {t}} /\ Cut({t}) /\ UNCHANGED uncached

\* A rolled back target is configured as it was first, with nothing; if that fails it
\* stays started, but closed.
Rollback(t) ==
    /\ t \in open /\ open' = open \ {t}
    /\ \/ Move(t, "STARTED", "CONFIGURED") /\ log'[t] = <<>>
       \/ phase[t] = "STARTED" /\ UNCHANGED phase
    /\ Cut({t}) /\ UNCHANGED uncached

\* From the end of its sampler to the end of the stop a target loses nothing.
Stop(t) ==
    t \notin open /\ Move(t, "STARTED", "STOPPED") /\ UNCHANGED <<log, open, uncached>>

Crop(t) ==
    /\ phase[t] \notin Running
    /\ UNCHANGED <<phase, open, uncached>>
    /\ Others({t}) /\ log'[t] = Keep(log[t], Range(log'[t]))

\* Visits, flushes, outputs.
Look == UNCHANGED vars

Next ==
    \/ Look
    \/ \E t \in Targets :
         \/ Close(t) \/ Stop(t) \/ EnterStarted(t) \/ BeginStart(t) \/ AbandonStart(t)
         \/ Rollback(t)
         \/ Configure(t)
         \/ Deliver(t)
         \/ Crop(t)

Spec == Init /\ [][Next]_vars
=============================================================================
