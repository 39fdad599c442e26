--------------------------- MODULE MCAccountBarrier ---------------------------
(* TLC instances of AccountBarrier.                                        *)
EXTENDS AccountBarrier, TLC

Symmetry == Permutations(Workers) \cup Permutations(Tenants) \cup Permutations(Requests)
=============================================================================
