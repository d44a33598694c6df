----------------------------- MODULE Subsequences -----------------------------
(***************************************************************************)
(* Filters of sequences: what a loop over samples leaves in that keeps     *)
(* some of them in their order.                                            *)
(***************************************************************************)
EXTENDS Naturals, Sequences

\* The elements of s that are in the set S, in their order.
Keep(s, S) ==
    LET kept[i \in 0..Len(s)] ==
          IF i = 0 THEN <<>>
          ELSE IF s[i] \in S THEN Append(kept[i - 1], s[i]) ELSE kept[i - 1]
    IN  kept[Len(s)]
=============================================================================
