-------------------------- MODULE MCSessionRegistry --------------------------
(* TLC instances of SessionRegistry.                                       *)
EXTENDS SessionRegistry, TLC

Symmetry == Permutations(Users) \cup Permutations(Requests)
=============================================================================
