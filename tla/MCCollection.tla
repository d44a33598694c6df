---------------------------- MODULE MCCollection ----------------------------
(***************************************************************************)
(* Constants for the runs of Collection: the collectors of the targets.    *)
(***************************************************************************)
EXTENDS CollectionInv, TLC

CONSTANTS t1, t2   \* the targets of the runs

\* One target of each kind that matters: SCMI marks, restores and drops a refused
\* configuration; NUMA keeps it.
MixedBackend == [t \in Targets |-> IF t = t1 THEN "SCMI" ELSE "NUMA"]

\* The callers differ in nothing but their name, in the code and in the properties.
CallerSymmetry == Permutations(Callers)
=============================================================================
