------------------------------- MODULE ForjdCall -------------------------------
(***************************************************************************)
(* What a call of backend/forjd/client.py promises whoever makes it, with  *)
(* nothing of how: the call comes to one end, FORJD has applied a write at *)
(* most once by then, and the end that is reported says no more about      *)
(* FORJD than is so.                                                       *)
(*                                                                         *)
(*   ok         FORJD answered below 400                                   *)
(*   rejected   FORJD answered with another status below 500               *)
(*   failed     a status of 500 and above, no answer, an unreadable one:   *)
(*              FORJD may have seen the request, or not                    *)
(*   blocked    503 without a request: no configuration, an open circuit   *)
(*   refused    400 or 403 without a request: a foreign tenant, bad JSON   *)
(*   dropped    the caller went away                                       *)
(*                                                                         *)
(* ForjdClient implements this module; ForjdGateway is built on it.        *)
(***************************************************************************)
EXTENDS Naturals

CONSTANT Callers   \* who may have a call under way: one request each

VARIABLE call      \* the last call of each caller

Ends == {"ok", "rejected", "failed", "blocked", "refused", "dropped"}

Idle == [phase |-> "idle", write |-> FALSE, seen |-> 0]

(* seen is the number of times FORJD has taken the request; for a read,    *)
(* which changes nothing there, any number counts as one.                  *)
CallTypeOK ==
  call \in [Callers -> [phase : {"idle", "open"} \cup Ends,
                        write : BOOLEAN, seen : 0..1]]

CallInit == call = [p \in Callers |-> Idle]

Begin(p, write) ==
  /\ call[p].phase # "open"
  /\ call' = [call EXCEPT ![p] = [phase |-> "open", write |-> write, seen |-> 0]]

(* FORJD takes the request.                                                *)
Reach(p) ==
  /\ call[p].phase = "open"
  /\ call[p].seen = 0
  /\ call' = [call EXCEPT ![p] = [phase |-> "open", write |-> @.write, seen |-> 1]]

End(p, how) ==
  /\ call[p].phase = "open"
  /\ how \in {"ok", "rejected"} => call[p].seen = 1
  /\ how \in {"blocked", "refused"} => call[p].seen = 0
  /\ call' = [call EXCEPT ![p] = [phase |-> how, write |-> @.write, seen |-> @.seen]]

(* A call that never left the process.                                     *)
NeverSent(p, write, how) ==
  /\ call[p].phase # "open"
  /\ how \in {"blocked", "refused"}
  /\ call' = [call EXCEPT ![p] = [phase |-> how, write |-> write, seen |-> 0]]

Return(p) == \E how \in Ends : End(p, how)

CallNext ==
  \E p \in Callers :
    \/ \E write \in BOOLEAN : Begin(p, write)
    \/ Reach(p)
    \/ Return(p)
    \/ \E write \in BOOLEAN, how \in Ends : NeverSent(p, write, how)

(* Timeouts end every call.                                                *)
CallSpec ==
  /\ CallInit
  /\ [][CallNext]_call
  /\ \A p \in Callers : WF_call(Return(p))
=============================================================================
