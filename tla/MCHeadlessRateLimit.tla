-------------------------- MODULE MCHeadlessRateLimit --------------------------
(* TLC instances of HeadlessRateLimit.                                     *)
EXTENDS HeadlessRateLimit, TLC

CONSTANTS r1, r2

(* Two requests with two scopes in common, and one scope that only one of  *)
(* them is counted in: consume_many takes any number of scopes, and with   *)
(* three of them a full bucket meets an empty one in the same request.     *)
Overlapping == (r1 :> {1, 2}) @@ (r2 :> {1, 2, 3})

=============================================================================
