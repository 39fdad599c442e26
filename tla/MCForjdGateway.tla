---------------------------- MODULE MCForjdGateway ----------------------------
(* TLC instances of ForjdGateway: two accounts with a page each, one of    *)
(* them published, and the platform's page.                                *)
EXTENDS ForjdGateway

CONSTANTS a1, a2, p0, p1, p2

MCAccounts == {a1, a2}
MCPages == {p0, p1, p2}
MCOwner == [p \in MCPages |-> CASE p = p1 -> a1 [] p = p2 -> a2 [] p = p0 -> Platform]
MCPublished == {p0, p2}

(* FORJD_CUTOVER_PHASE 0, 1 and 2, and writes switched off.                *)
MCDeployments ==
  {[write |-> "dual", read |-> "off"], [write |-> "dual", read |-> "dual"],
   [write |-> "forjd", read |-> "forjd"], [write |-> "off", read |-> "forjd"]}
=============================================================================
