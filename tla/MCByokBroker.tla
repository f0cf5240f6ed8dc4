---------------------------- MODULE MCByokBroker ----------------------------
(***************************************************************************)
(* Model checking ByokBroker on small instances.  Callers, pollers and      *)
(* revokers are interchangeable.                                            *)
(***************************************************************************)
EXTENDS ByokBroker, TLC

Symmetry ==
  Permutations(Caller) \cup Permutations(Poller) \cup Permutations(Revoker)

=============================================================================
