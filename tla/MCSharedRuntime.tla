-------------------------- MODULE MCSharedRuntime --------------------------
(***************************************************************************)
(* Model checking SharedRuntime on small instances.  Tabs and answers are  *)
(* interchangeable: no action tells two of them apart, so the safety runs  *)
(* may identify permutations of each.                                      *)
(*                                                                          *)
(* The liveness run bounds what tabs do of their own accord, which is under *)
(* no fairness: at most four calls (a start, two answers and a cancel, or   *)
(* two starts and an answer), none once the first owner is gone, which may  *)
(* go while one call is under way; and, tabs being interchangeable, a fixed *)
(* one opens first.                                                         *)
(***************************************************************************)
EXTENDS SharedRuntime, TLC

Calls(method) == Cardinality({r \in Issued : callOf[r].method = method})

FewCalls ==
  \/ /\ Calls("wizard.start") <= 1 /\ Calls("wizard.cancel") <= 1
     /\ Calls("wizard.next") <= 2
  \/ /\ Calls("wizard.start") <= 2 /\ Calls("wizard.cancel") = 0
     /\ Calls("wizard.next") <= 1

Bounded ==
  /\ Issued' # Issued => FewCalls' /\ ~OwnershipMoved
  /\ Cardinality(Issued') > 1 => ~OwnershipMoved'
  /\ page' # page => page'[CHOOSE t \in Tab : TRUE] # "unopened"

BoundedSpec == Init /\ [][Next /\ Bounded]_vars /\ Fairness

Symmetry == Permutations(Tab) \cup Permutations(Answer)

=============================================================================
