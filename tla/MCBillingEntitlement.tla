------------------------- MODULE MCBillingEntitlement -------------------------
EXTENDS BillingEntitlement, TLC

Symmetric == Permutations(Subs) \cup Permutations(Handlers)
=============================================================================
