------------------------- MODULE MCDeletionLifecycle -------------------------
(* TLC instances of DeletionLifecycle and of its inductive invariant.      *)
EXTENDS DeletionInvariants, TLC

Symmetry == Permutations(Workers) \cup Permutations(Tenants)
=============================================================================
