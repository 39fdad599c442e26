------------------------------ MODULE ForjdClient ------------------------------
(***************************************************************************)
(* ForjdClient of backend/forjd/client.py: one HTTP call to FORJD with its *)
(* attempts, and the circuit breaker that all calls of a web process       *)
(* share, one for each class of routes.                                    *)
(*                                                                         *)
(* The calls run as coroutines of one process: they interleave wherever    *)
(* one awaits the network or sleeps before an attempt, and a circuit may   *)
(* open or close under a call that is already under way.  Time is counted  *)
(* in ticks of the cooldown only; timeouts are attempts that fail.         *)
(***************************************************************************)
EXTENDS Naturals

CONSTANTS
  Callers,           \* coroutines
  Classes,           \* classes of routes
  NoClass,           \* of a call that is over
  FailureThreshold,  \* _BREAKER_FAILURE_THRESHOLD
  Cooldown,          \* _BREAKER_COOLDOWN_SECONDS, in ticks
  ReadAttempts       \* FORJD_READ_RETRY_ATTEMPTS

ASSUME NoClassAssumption == NoClass \notin Classes
ASSUME FailureThresholdAssumption == FailureThreshold \in Nat \ {0}
ASSUME CooldownAssumption == Cooldown \in Nat \ {0}
ASSUME ReadAttemptsAssumption == ReadAttempts \in Nat \ {0}

VARIABLES
  failures,   \* _breaker_failures
  openFor,    \* _breaker_open_until, as ticks from now: 0 is closed
  slot,       \* the last call of each coroutine
  sinceGood   \* HISTORY: calls that failed since one got an answer, by class

breaker == <<failures, openFor>>
clientVars == <<failures, openFor, slot, sinceGood>>

Outcomes == {"ok", "rejected", "failed", "blocked", "refused", "dropped"}

(* What FORJD's status line can say: the retryable statuses below and from *)
(* 500 up (_RETRYABLE_STATUSES), and the others.                           *)
Statuses == {"2xx", "4xx", "busy", "5xx", "501"}
RetryableStatuses == {"busy", "5xx"}
ServerErrors == {"5xx", "501"}

(* A counter is only ever compared with the threshold: it stops there.     *)
Count(n) == IF n < FailureThreshold THEN n + 1 ELSE n

Slots ==
  [phase : {"idle", "sent", "handled", "backoff"} \cup Outcomes,
   write : BOOLEAN, class : Classes \cup {NoClass},
   attempt : 0..ReadAttempts, seen : 0..1]

NewSlot ==
  [phase |-> "idle", write |-> FALSE, class |-> NoClass, attempt |-> 0, seen |-> 0]

ClientTypeOK ==
  /\ failures \in [Classes -> 0..FailureThreshold]
  /\ openFor \in [Classes -> 0..Cooldown]
  /\ slot \in [Callers -> Slots]
  /\ sinceGood \in [Classes -> 0..FailureThreshold]

ClientInit ==
  /\ failures = [c \in Classes |-> 0]
  /\ openFor = [c \in Classes |-> 0]
  /\ slot = [p \in Callers |-> NewSlot]
  /\ sinceGood = [c \in Classes |-> 0]

-----------------------------------------------------------------------------
(* The breaker.                                                            *)

IsOpen(c) == openFor[c] > 0

(* Mutant: an answer closes the circuit and leaves the count.              *)
RecordSuccessKeepsCount(c) ==
  /\ openFor' = [openFor EXCEPT ![c] = 0]
  /\ sinceGood' = [sinceGood EXCEPT ![c] = 0]
  /\ UNCHANGED failures

RecordSuccess(c) ==
  /\ failures' = [failures EXCEPT ![c] = 0]
  /\ openFor' = [openFor EXCEPT ![c] = 0]
  /\ sinceGood' = [sinceGood EXCEPT ![c] = 0]

(* Past the threshold every failure starts the cooldown anew.              *)
RecordFailure(c) ==
  /\ failures' = [failures EXCEPT ![c] = Count(@)]
  /\ openFor' = [openFor EXCEPT ![c] =
                   IF Count(failures[c]) >= FailureThreshold THEN Cooldown ELSE @]
  /\ sinceGood' = [sinceGood EXCEPT ![c] = Count(@)]

(* The cooldown runs out without a word to the count of failures: the next *)
(* failure opens the circuit again.                                        *)
Tick(c) ==
  /\ IsOpen(c)
  /\ openFor' = [openFor EXCEPT ![c] = @ - 1]
  /\ UNCHANGED <<failures, slot, sinceGood>>

-----------------------------------------------------------------------------
(* A call.                                                                 *)

UnderWay == {"sent", "handled", "backoff"}
InFlight(p) == slot[p].phase \in UnderWay

(* The call of p is in this phase, on this attempt, and has been seen so   *)
(* often.                                                                  *)
Enter(p, phase, attempt, seen) ==
  slot' = [slot EXCEPT ![p] =
    [phase |-> phase, write |-> @.write, class |-> @.class,
     attempt |-> attempt, seen |-> seen]]

Backoff(p) ==
  /\ Enter(p, "backoff", slot[p].attempt, slot[p].seen)
  /\ UNCHANGED <<breaker, sinceGood>>

(* What is left of a call that has come to its end.                        *)
Finish(p, how) ==
  slot' = [slot EXCEPT ![p] =
    [phase |-> how, write |-> @.write, class |-> NoClass,
     attempt |-> 0, seen |-> @.seen]]

(* A call that ends before its first attempt.                              *)
Stop(p, write, how) ==
  /\ ~InFlight(p)
  /\ slot' = [slot EXCEPT ![p] =
       [phase |-> how, write |-> write, class |-> NoClass, attempt |-> 0, seen |-> 0]]
  /\ UNCHANGED <<breaker, sinceGood>>

(* _validate_configuration: the URL, and for a client with a credential    *)
(* the shape of its token and its tenant.  It precedes everything else.    *)
NotConfigured(p, write) == Stop(p, write, "blocked")

CircuitOpen(p, write) ==
  /\ \E c \in Classes : IsOpen(c)
  /\ Stop(p, write, "blocked")

(* _validate_request_tenants, _headers: a tenant in the query or anywhere  *)
(* in a JSON body that is not the credential's, a body that is not JSON, a *)
(* malformed path, query or request id.                                    *)
BadRequest(p, write) == Stop(p, write, "refused")

(* Mutant: calls do not ask the circuit.                                   *)
SendAnyway(p, write, class) ==
  /\ ~InFlight(p)
  /\ slot' = [slot EXCEPT ![p] =
       [phase |-> "sent", write |-> write, class |-> class, attempt |-> 1, seen |-> 0]]
  /\ UNCHANGED <<breaker, sinceGood>>

(* The first attempt, unless the circuit of the class is open.             *)
Send(p, write, class) ==
  /\ ~InFlight(p)
  /\ ~IsOpen(class)
  /\ slot' = [slot EXCEPT ![p] =
       [phase |-> "sent", write |-> write, class |-> class, attempt |-> 1, seen |-> 0]]
  /\ UNCHANGED <<breaker, sinceGood>>

(* FORJD takes the request of this attempt.  However often it takes a read, *)
(* which changes nothing there, counts as once.                            *)
Handle(p) ==
  /\ slot[p].phase = "sent"
  /\ Enter(p, "handled", slot[p].attempt, IF slot[p].write THEN slot[p].seen + 1 ELSE 1)
  /\ UNCHANGED <<breaker, sinceGood>>

(* Mutant: writes are repeated like reads.                                 *)
RetriesWrites(s) == s.attempt < ReadAttempts

(* Only reads have attempts left after the first.                          *)
Retries(s) == ~s.write /\ s.attempt < ReadAttempts

(* An answer arrives; a status of 500 and above may come from a proxy in   *)
(* front of FORJD.  A late answer counts whatever the circuit does by now. *)
Answer(p, status) ==
  LET s == slot[p] IN
    /\ \/ s.phase = "handled"
       \/ s.phase = "sent" /\ status \in ServerErrors
    /\ IF Retries(s) /\ status \in RetryableStatuses
         THEN Backoff(p)
         ELSE IF status \in ServerErrors
           THEN /\ Finish(p, "failed")
                /\ IF Retries(s)
                     THEN /\ UNCHANGED breaker
                          /\ sinceGood' = [sinceGood EXCEPT ![s.class] = Count(@)]
                     ELSE RecordFailure(s.class)
           ELSE /\ Finish(p, IF status = "2xx" THEN "ok" ELSE "rejected")
                /\ RecordSuccess(s.class)

(* The answer is fine for the breaker and no use to request_json: its body *)
(* is not JSON, or no object.                                              *)
Undecodable(p) ==
  /\ slot[p].phase = "handled"
  /\ Finish(p, "failed")
  /\ RecordSuccess(slot[p].class)

(* The body passes the response cap.  ForjdError leaves the loop at once   *)
(* and nothing is recorded.                                                *)
Oversized(p) ==
  /\ slot[p].phase = "handled"
  /\ Finish(p, "failed")
  /\ sinceGood' = [sinceGood EXCEPT ![slot[p].class] = Count(@)]
  /\ UNCHANGED breaker

(* The connection fails or the attempt times out, before or after FORJD    *)
(* has taken the request.                                                  *)
TransportFails(p) ==
  /\ slot[p].phase \in {"sent", "handled"}
  /\ IF Retries(slot[p])
       THEN Backoff(p)
       ELSE Finish(p, "failed") /\ RecordFailure(slot[p].class)

(* The circuit is not asked again.                                         *)
NextAttempt(p) ==
  /\ slot[p].phase = "backoff"
  /\ Enter(p, "sent", slot[p].attempt + 1, slot[p].seen)
  /\ UNCHANGED <<breaker, sinceGood>>

(* The coroutine is cancelled with its request; nothing is recorded.       *)
Cancelled(p) ==
  /\ InFlight(p)
  /\ Finish(p, "dropped")
  /\ UNCHANGED <<breaker, sinceGood>>

Goes(p) ==
  \/ \E status \in Statuses : Answer(p, status)
  \/ Undecodable(p)
  \/ Oversized(p)
  \/ TransportFails(p)
  \/ NextAttempt(p)

ClientNext ==
  \/ \E p \in Callers :
       \/ \E write \in BOOLEAN :
            \/ NotConfigured(p, write)
            \/ CircuitOpen(p, write)
            \/ BadRequest(p, write)
            \/ \E class \in Classes : Send(p, write, class)
       \/ Handle(p)
       \/ Goes(p)
       \/ Cancelled(p)
  \/ \E c \in Classes : Tick(c)

(* Every attempt has a timeout and every sleep an end; clocks go on.       *)
Fairness ==
  /\ \A p \in Callers : WF_clientVars(Goes(p))
  /\ \A c \in Classes : WF_clientVars(Tick(c))

ClientSpec == ClientInit /\ [][ClientNext]_clientVars /\ Fairness

-----------------------------------------------------------------------------
(* Properties.                                                             *)

(* A circuit is open only if as many calls of its class as the threshold   *)
(* says have failed since one was answered: the attempts of one call count *)
(* once, other classes do not count, an answer below 500 forgives all      *)
(* before it, wherever the calls overlap.                                  *)
OpensOnlyOnFailures ==
  \A c \in Classes :
    /\ failures[c] <= sinceGood[c]
    /\ IsOpen(c) => failures[c] = FailureThreshold

(* An open circuit closes: calls that were under way may fail and start    *)
(* the cooldown anew, but there are only so many of them.                  *)
CircuitCloses == \A c \in Classes : IsOpen(c) ~> ~IsOpen(c)

(* What the world sees of a call.                                          *)
View(s) ==
  [phase |-> IF s.phase \in UnderWay THEN "open" ELSE s.phase,
   write |-> s.write, seen |-> s.seen]

Promised == [p \in Callers |-> View(slot[p])]

(* The client implements ForjdCall: one end for each call, a write at FORJD *)
(* at most once, and an end that is true of what FORJD has seen.           *)
Promise == INSTANCE ForjdCall WITH call <- Promised

KeepsPromise == Promise!CallSpec
=============================================================================
