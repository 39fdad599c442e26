---------------------------- MODULE DeletionSaga ----------------------------
(***************************************************************************)
(* What account deletion promises, without saying how: the irreversible    *)
(* effects outside DEML happen in one order.  First the account is barred, *)
(* then the data of every FORJD tenant goes, then billing stops, then the  *)
(* Firebase identity goes, and only then do the account's own rows.        *)
(* DeletionLifecycle implements this with a leased, retried job.           *)
(***************************************************************************)
EXTENDS Naturals

CONSTANTS Tenants, Subscriptions

VARIABLES
  account,    \* "open", "barred" or "gone": the Django user and its rows
  data,       \* FORJD tenants that still hold data of the account
  billing,    \* Stripe subscriptions that still charge the customer
  identity    \* the Firebase identity exists

vars == <<account, data, billing, identity>>

TypeOK ==
  /\ account \in {"open", "barred", "gone"}
  /\ data \subseteq Tenants
  /\ billing \subseteq Subscriptions
  /\ identity \in BOOLEAN

Init ==
  /\ account = "open"
  /\ data \subseteq Tenants
  /\ billing \subseteq Subscriptions
  /\ identity = TRUE

Bar ==
  /\ account = "open"
  /\ account' = "barred"
  /\ UNCHANGED <<data, billing, identity>>

Erase(t) ==
  /\ account = "barred"
  /\ t \in data
  /\ data' = data \ {t}
  /\ UNCHANGED <<account, billing, identity>>

StopBilling(s) ==
  /\ account = "barred"
  /\ data = {}
  /\ s \in billing
  /\ billing' = billing \ {s}
  /\ UNCHANGED <<account, data, identity>>

DeleteIdentity ==
  /\ account = "barred"
  /\ data = {}
  /\ billing = {}
  /\ identity' = FALSE
  /\ UNCHANGED <<account, data, billing>>

Close ==
  /\ account = "barred"
  /\ data = {}
  /\ billing = {}
  /\ ~identity
  /\ account' = "gone"
  /\ UNCHANGED <<data, billing, identity>>

Next ==
  \/ Bar
  \/ \E t \in Tenants : Erase(t)
  \/ \E s \in Subscriptions : StopBilling(s)
  \/ DeleteIdentity
  \/ Close

Spec == Init /\ [][Next]_vars
=============================================================================
