---------------------------- MODULE MCForjdClient ----------------------------
(* TLC instances of ForjdClient, with plausible slips of its code.          *)
EXTENDS ForjdClient
=============================================================================
