-------------------------- MODULE MCReleasePipeline --------------------------
(***************************************************************************)
(* Two builds; each proof makes three calls that would be granted, one more  *)
(* than the budget, and one that is malformed before its last call.  The     *)
(* first job of the workflow records everything, or all but one result.      *)
(***************************************************************************)
EXTENDS ReleasePipeline, TLC

CONSTANTS b1, b2, c1, c2, c3, malformed, last, w1, w2

AllButOne == {BaseGate} \cup {BaseGate \ {g} : g \in BaseGate}

Symmetry == Permutations({b1, b2}) \cup Permutations({c1, c2, c3})
              \cup Permutations({w1, w2})
=============================================================================
