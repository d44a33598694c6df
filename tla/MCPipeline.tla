------------------------------ MODULE MCPipeline ------------------------------
(***************************************************************************)
(* Constants for the runs of MetricPipeline: two metrics that read the     *)
(* same data event, together or one alone.                                 *)
(***************************************************************************)
EXTENDS PipelineInv

CONSTANTS a, d, r

OneEvent == [m \in {d, r} |-> a]
Order == [m \in {d, r} |-> IF m = d THEN 2 ELSE 1]
RateAndResidency == [m \in {d, r} |-> IF m = d THEN "rate" ELSE "residency"]
DeltaAndValue == [m \in {d, r} |-> IF m = d THEN "delta" ELSE "value"]
\* A counter that is set back in the end.
Resetting == [e \in {a} |-> [t \in 0..LastTime |-> IF t = LastTime THEN 1 ELSE t + 1]]
Rising == [e \in {a} |-> [t \in 0..LastTime |-> t]]
Either == {<<d, r>>, <<r>>}
JustOne == {<<d>>}
=============================================================================
