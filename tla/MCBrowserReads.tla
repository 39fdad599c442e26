----------------------------- MODULE MCBrowserReads -----------------------------
(* TLC instances of BrowserReads.                                          *)
EXTENDS BrowserReads, TLC

Symmetric == Permutations(Sites) \cup Permutations(Reads)
=============================================================================
