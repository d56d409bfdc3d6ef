--------------------------- MODULE MCThreadClaim ---------------------------
(* Instances of ThreadClaim: which of its model values are interchangeable. *)
EXTENDS ThreadClaim, TLC

Interchangeable ==
    UNION {Permutations(S) : S \in {Procs, Msgs, Appends, FlushTurns, Turns \ FlushTurns}}
=============================================================================
