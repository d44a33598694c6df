---------------------------- MODULE MCSampleStore ----------------------------
(***************************************************************************)
(* Constants for the runs of SampleStore.                                  *)
(***************************************************************************)
EXTENDS SampleStore

CONSTANTS t1, t2, value, delta   \* the targets and metrics of the runs

\* The second tick alone; all of time.
SecondTick == {[from |-> 2, to |-> 2]}
Always == {[from |-> 0, to |-> 0]}

\* One target is sampled three times, more than a batch; the other at most once.
Uneven == [t \in Targets |-> IF t = t1 THEN 3 ELSE 1]

\* The first target is cropped, until it has lifecycle events; the other never is.
OneCropped == [t \in Targets |-> IF t = t1 THEN 1 ELSE 0]
=============================================================================
