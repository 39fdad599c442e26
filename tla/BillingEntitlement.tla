-------------------------- MODULE BillingEntitlement --------------------------
(***************************************************************************)
(* The Pro entitlement of one account: backend/billing/api.py (checkout,   *)
(* webhook, /sync), the daily sync_subscriptions sweep, and what the       *)
(* deletion saga does to the account's subscriptions.  Stripe keeps the    *)
(* truth; the profile row is a copy that five writers keep up to date,     *)
(* most of them without a lock and by saving the whole row they read.      *)
(*                                                                         *)
(* cancel-subscription and resume-subscription write nothing in DEML: what *)
(* they ask of Stripe arrives as a change of the subscription.             *)
(***************************************************************************)
EXTENDS Naturals, FiniteSets

CONSTANTS
  Subs,                \* subscriptions of the account, checkouts included
  NoSub,               \* no subscription, no customer
  Handlers,            \* web threads
  Gates,               \* what _PRO_CHECKOUT_ENABLED may be: {FALSE} as shipped
  MaxChanges,          \* BOUND: status changes Stripe makes by itself
  MaxFaults            \* BOUND: failed calls, crashes, lost acknowledgements

ASSUME SubsAssumption == NoSub \notin Subs
ASSUME GateAssumption == Gates \subseteq BOOLEAN
ASSUME BoundsAssumption == MaxChanges \in Nat /\ MaxFaults \in Nat

VARIABLES
  checkoutOpen,  \* _PRO_CHECKOUT_ENABLED
  account,   \* "live"; "barred" with a deletion job; "closed", rows deleted
  \* The profile row.
  pro,       \* tier is Pro and subscription_active
  subId,     \* stripe_subscription_id
  custId,    \* stripe_customer_id: customers are named by their first subscription
  \* Stripe.
  status,    \* of each subscription; "open" is an unpaid checkout session
  customer,  \* whose it is
  events,    \* webhook events not yet acknowledged
  \* Work in progress.
  work,      \* what each web thread is doing
  sweep,     \* sync_subscriptions
  saga,      \* the Stripe part of the deletion saga
  changes,
  faults

profile == <<pro, subId, custId>>
stripe  == <<status, customer, events>>
vars    == <<checkoutOpen, account, profile, stripe, work, sweep, saga, changes, faults>>

(* Statuses the code tells apart: what the webhook takes for paid but the  *)
(* sweep does not (incomplete, paused) counts as paused; unpaid counts as  *)
(* past_due, trialing as active.                                           *)
Billing == {"active", "paused", "past_due"}

Events ==
  [kind : {"checkout"}, sub : Subs, status : {"active"}]
    \cup [kind : {"changed"}, sub : Subs, status : Billing \cup {"canceled"}]

Ids == [sub : Subs \cup {NoSub}, cust : Subs \cup {NoSub}]

IdleWork == [stage |-> "idle"]

Works ==
  {IdleWork}
    \cup [stage : {"checkout", "sync"}, ids : Ids]
    \cup [stage : {"write"}, ids : Ids, found : Subs \cup {NoSub}]
    \cup [stage : {"cancel"}, event : Events]
    \cup [stage : {"apply"}, event : Events, ids : Ids]

Sweeps ==
  {IdleWork}
    \cup [stage : {"retrieve"}, sub : Subs \cup {NoSub}]
    \cup [stage : {"write"}, paid : BOOLEAN]

Sagas == {IdleWork, [stage |-> "stopped"]} \cup [stage : {"cancel", "persist"}, ids : Ids]

BillingTypeOK ==
  /\ checkoutOpen \in Gates
  /\ account \in {"live", "barred", "closed"}
  /\ pro \in BOOLEAN
  /\ subId \in Subs \cup {NoSub} /\ custId \in Subs \cup {NoSub}
  /\ status \in [Subs -> {"none", "open", "canceled"} \cup Billing]
  /\ customer \in [Subs -> Subs \cup {NoSub}]
  /\ events \subseteq Events
  /\ work \in [Handlers -> Works]
  /\ sweep \in Sweeps
  /\ saga \in Sagas
  /\ changes \in 0 .. MaxChanges /\ faults \in 0 .. MaxFaults

(* An active subscription, or a customer without one; and checkout         *)
(* sessions of that customer, or of nobody yet, that are still open.       *)
Init ==
  /\ checkoutOpen \in Gates
  /\ account = "live"
  /\ subId \in Subs \cup {NoSub} /\ custId \in Subs \cup {NoSub}
  /\ subId # NoSub => custId = subId
  /\ pro = (subId # NoSub)
  /\ \E late \in SUBSET (Subs \ {subId}) :
       /\ status = [s \in Subs |-> IF s = subId THEN "active"
                                   ELSE IF s \in late THEN "open" ELSE "none"]
       /\ customer = [s \in Subs |-> IF s \notin late \cup {subId} THEN NoSub
                                     ELSE IF custId = NoSub THEN s ELSE custId]
  /\ events = {}
  /\ work = [h \in Handlers |-> IdleWork]
  /\ sweep = IdleWork
  /\ saga = IdleWork
  /\ changes = 0
  /\ faults = 0

-----------------------------------------------------------------------------
(* Stripe.                                                                 *)

Changed(s, new) == [kind |-> "changed", sub |-> s, status |-> new]

(* A renewal fails or succeeds, a trial ends, a period runs out.           *)
ChangeStatus(s, new) ==
  /\ status[s] \in Billing /\ new \in (Billing \cup {"canceled"}) \ {status[s]}
  /\ changes < MaxChanges /\ changes' = changes + 1
  /\ status' = [status EXCEPT ![s] = new]
  /\ events' = events \cup {Changed(s, new)}
  /\ UNCHANGED <<checkoutOpen, account, profile, customer, work, sweep, saga, faults>>

(* The customer completes an open checkout session.                        *)
PayCheckout(s) ==
  /\ status[s] = "open"
  /\ status' = [status EXCEPT ![s] = "active"]
  /\ events' = events \cup {[kind |-> "checkout", sub |-> s, status |-> "active"]}
  /\ UNCHANGED <<checkoutOpen, account, profile, customer, work, sweep, saga, changes, faults>>

(* What Stripe does of Subscription.cancel: a subscription that is gone    *)
(* already counts as canceled (_stripe_resource_is_missing).               *)
Charging(S) == {s \in S : status[s] \in Billing}
Canceled(S) == [s \in Subs |-> IF s \in Charging(S) THEN "canceled" ELSE status[s]]
Notices(S)  == {Changed(s, "canceled") : s \in Charging(S)}

-----------------------------------------------------------------------------
(* The web threads.                                                        *)

Fault == faults < MaxFaults /\ faults' = faults + 1

Do(h, w) == work' = [work EXCEPT ![h] = w]
IsIdle(h) == work[h].stage = "idle"
Stored == [sub |-> subId, cust |-> custId]

(* The thread answers 200, and Stripe forgets the event unless the answer  *)
(* is lost; any other answer leaves the event to be sent again.            *)
Acknowledge(e, pending) ==
  \/ events' = pending \ {e} /\ UNCHANGED faults
  \/ Fault /\ events' = pending

(* create-checkout-session up to Session.create.                           *)
BeginCheckout(h) ==
  /\ IsIdle(h)
  /\ checkoutOpen /\ account = "live" /\ ~pro
  /\ Do(h, [stage |-> "checkout", ids |-> Stored])
  /\ UNCHANGED <<checkoutOpen, account, profile, stripe, sweep, saga, changes, faults>>

(* The session is for the customer on file when the request began; nobody  *)
(* need ever complete it.                                                  *)
CreateSession(h) ==
  /\ work[h].stage = "checkout"
  /\ \/ UNCHANGED <<status, customer>>
     \/ \E s \in Subs :
          /\ status[s] = "none"
          /\ status' = [status EXCEPT ![s] = "open"]
          /\ customer' = [customer EXCEPT ![s] = IF work[h].ids.cust = NoSub THEN s
                                                 ELSE work[h].ids.cust]
  /\ Do(h, IdleWork)
  /\ UNCHANGED <<checkoutOpen, account, profile, events, sweep, saga, changes, faults>>

(* Mutant: a late checkout is acknowledged first and canceled after.       *)
ReceiveCheckoutAckFirst(h, e) ==
  /\ IsIdle(h) /\ e \in events /\ e.kind = "checkout"
  /\ Do(h, [stage |-> "cancel", event |-> e])
  /\ Acknowledge(e, events)
  /\ UNCHANGED <<checkoutOpen, account, profile, status, customer, sweep, saga, changes>>

(* checkout.session.completed, decided under the locks of user and         *)
(* profile: either the subscription is taken into the profile, or it is    *)
(* late and must be canceled before the event is acknowledged.             *)
ReceiveCheckout(h, e) ==
  /\ IsIdle(h) /\ e \in events /\ e.kind = "checkout"
  /\ IF checkoutOpen /\ account = "live"
     THEN /\ pro' = TRUE /\ subId' = e.sub /\ custId' = customer[e.sub]
          /\ Acknowledge(e, events)
          /\ UNCHANGED work
     ELSE /\ pro' = (pro /\ ~(checkoutOpen /\ account = "barred"))
          /\ Do(h, [stage |-> "cancel", event |-> e])
          /\ UNCHANGED <<subId, custId, events, faults>>
  /\ UNCHANGED <<checkoutOpen, account, status, customer, sweep, saga, changes>>

(* Mutant: the answer is 200 even when the cancellation failed.            *)
CancelLateRegardless(h) ==
  /\ work[h].stage = "cancel"
  /\ LET e == work[h].event IN
       /\ \E S \in {{}, {e.sub}} : status' = Canceled(S)
       /\ events' = events \ {e} /\ UNCHANGED faults
  /\ Do(h, IdleWork)
  /\ UNCHANGED <<checkoutOpen, account, profile, customer, sweep, saga, changes>>

(* _cancel_tombstoned_subscription, then the answer.                       *)
CancelLate(h) ==
  /\ work[h].stage = "cancel"
  /\ LET e == work[h].event IN
       /\ status' = Canceled({e.sub})
       /\ Acknowledge(e, events \cup Notices({e.sub}))
  /\ Do(h, IdleWork)
  /\ UNCHANGED <<checkoutOpen, account, profile, customer, sweep, saga, changes>>

(* customer.subscription.updated and .deleted: the row of a live account   *)
(* that names the subscription, if there is one, ...                       *)
ReceiveChange(h, e) ==
  /\ IsIdle(h) /\ e \in events /\ e.kind = "changed"
  /\ IF account = "live" /\ subId = e.sub
     THEN /\ Do(h, [stage |-> "apply", event |-> e, ids |-> Stored])
          /\ UNCHANGED <<events, faults>>
     ELSE /\ Acknowledge(e, events)
          /\ UNCHANGED work
  /\ UNCHANGED <<checkoutOpen, account, profile, status, customer, sweep, saga, changes>>

(* ... is saved whole, without a lock.                                     *)
ApplyChange(h) ==
  /\ work[h].stage = "apply" /\ account # "closed"
  /\ LET e == work[h].event IN
       /\ pro' = (e.status \notin {"canceled", "past_due"})
       /\ subId' = work[h].ids.sub /\ custId' = work[h].ids.cust
       /\ Acknowledge(e, events)
  /\ Do(h, IdleWork)
  /\ UNCHANGED <<checkoutOpen, account, status, customer, sweep, saga, changes>>

(* _apply_active_subscription saves the whole row, _downgrade_to_standard  *)
(* the entitlement alone.                                                  *)
ApplyActive(s, cust) == pro' = TRUE /\ subId' = s /\ custId' = cust
Downgrade == pro' = FALSE /\ UNCHANGED <<subId, custId>>

(* /sync, which reads the profile, ...                                     *)
BeginSync(h) ==
  /\ IsIdle(h) /\ account = "live"
  /\ IF Stored = [sub |-> NoSub, cust |-> NoSub]
     THEN Downgrade /\ UNCHANGED work
     ELSE Do(h, [stage |-> "sync", ids |-> Stored]) /\ UNCHANGED profile
  /\ UNCHANGED <<checkoutOpen, account, stripe, sweep, saga, changes, faults>>

(* ... asks Stripe for the subscription on file, or else for one that is   *)
(* active for the customer on file, ...                                    *)
ActiveFor(ids) ==
  {s \in Subs : status[s] = "active"
                /\ IF ids.sub # NoSub THEN s = ids.sub ELSE customer[s] = ids.cust}

SyncRetrieve(h) ==
  /\ work[h].stage = "sync"
  /\ LET found == ActiveFor(work[h].ids) IN
       \E s \in IF found = {} THEN {NoSub} ELSE found :
         Do(h, [stage |-> "write", ids |-> work[h].ids, found |-> s])
  /\ UNCHANGED <<checkoutOpen, account, profile, stripe, sweep, saga, changes, faults>>

(* ... and writes what it found, again without a lock.                     *)
SyncWrite(h) ==
  /\ work[h].stage = "write" /\ account # "closed"
  /\ LET ids == work[h].ids
         s   == work[h].found
     IN IF s = NoSub THEN Downgrade
        ELSE ApplyActive(s, IF ids.cust # NoSub THEN ids.cust ELSE customer[s])
  /\ Do(h, IdleWork)
  /\ UNCHANGED <<checkoutOpen, account, stripe, sweep, saga, changes, faults>>

(* A handler stops short of what it was about to do: Stripe or the         *)
(* database fails it, the process dies, or the row is gone.                *)
HandlerFails(h) ==
  /\ ~IsIdle(h)
  /\ \/ Fault
     \/ /\ account = "closed" /\ work[h].stage \in {"apply", "write"}
        /\ UNCHANGED faults
  /\ Do(h, IdleWork)
  /\ UNCHANGED <<checkoutOpen, account, profile, stripe, sweep, saga, changes>>

-----------------------------------------------------------------------------
(* sync_subscriptions, once a day.                                         *)

(* Mutant: the sweep looks only at profiles that are Pro.                  *)
SweepReadProOnly ==
  /\ sweep.stage = "idle" /\ account = "live" /\ pro
  /\ sweep' = [stage |-> "retrieve", sub |-> subId]
  /\ UNCHANGED <<checkoutOpen, account, profile, stripe, work, saga, changes, faults>>

SweepRead ==
  /\ sweep.stage = "idle" /\ account = "live" /\ (pro \/ subId # NoSub)
  /\ sweep' = [stage |-> "retrieve", sub |-> subId]
  /\ UNCHANGED <<checkoutOpen, account, profile, stripe, work, saga, changes, faults>>

SweepRetrieve ==
  /\ sweep.stage = "retrieve"
  /\ sweep' = [stage |-> "write",
               paid |-> sweep.sub # NoSub /\ status[sweep.sub] = "active"]
  /\ UNCHANGED <<checkoutOpen, account, profile, stripe, work, saga, changes, faults>>

(* Under the profile's lock, and only for an account still live.           *)
SweepWrite ==
  /\ sweep.stage = "write"
  /\ pro' = IF account = "live" THEN sweep.paid ELSE pro
  /\ sweep' = IdleWork
  /\ UNCHANGED <<checkoutOpen, account, subId, custId, stripe, work, saga, changes, faults>>

SweepFails ==
  /\ sweep.stage # "idle" /\ Fault
  /\ sweep' = IdleWork
  /\ UNCHANGED <<checkoutOpen, account, profile, stripe, work, saga, changes>>

-----------------------------------------------------------------------------
(* The deletion saga, as far as billing goes; DeletionLifecycle has the    *)
(* rest.                                                                   *)

(* request_account_deletion.                                               *)
Bar ==
  /\ account = "live" /\ account' = "barred"
  /\ UNCHANGED <<checkoutOpen, profile, stripe, work, sweep, saga, changes, faults>>

SagaRead ==
  /\ account = "barred" /\ saga.stage = "idle"
  /\ saga' = IF Stored = [sub |-> NoSub, cust |-> NoSub] THEN [stage |-> "stopped"]
             ELSE [stage |-> "cancel", ids |-> Stored]
  /\ UNCHANGED <<checkoutOpen, account, profile, stripe, work, sweep, changes, faults>>

(* _active_stripe_subscription_ids and the cancellations.                  *)
SagaCancel ==
  /\ saga.stage = "cancel"
  /\ LET S == {s \in Subs : \/ s = saga.ids.sub
                            \/ saga.ids.cust # NoSub /\ customer[s] = saga.ids.cust}
     IN status' = Canceled(S) /\ events' = events \cup Notices(S)
  /\ saga' = [saga EXCEPT !.stage = "persist"]
  /\ UNCHANGED <<checkoutOpen, account, profile, customer, work, sweep, changes, faults>>

(* _persist_stripe_cancellation.                                           *)
SagaPersist ==
  /\ saga.stage = "persist"
  /\ pro' = FALSE /\ subId' = NoSub /\ custId' = NoSub
  /\ saga' = [stage |-> "stopped"]
  /\ UNCHANGED <<checkoutOpen, account, stripe, work, sweep, changes, faults>>

(* The user row and the profile are deleted.                               *)
Close ==
  /\ saga.stage = "stopped" /\ account = "barred"
  /\ account' = "closed"
  /\ pro' = FALSE /\ subId' = NoSub /\ custId' = NoSub
  /\ UNCHANGED <<checkoutOpen, stripe, work, sweep, saga, changes, faults>>

SagaFails ==
  /\ account = "barred" /\ saga.stage # "idle" /\ Fault
  /\ saga' = IdleWork
  /\ UNCHANGED <<checkoutOpen, account, profile, stripe, work, sweep, changes>>

-----------------------------------------------------------------------------
Proceed(h) ==
  \/ CreateSession(h)
  \/ CancelLate(h)
  \/ ApplyChange(h)
  \/ SyncRetrieve(h)
  \/ SyncWrite(h)
  \/ HandlerFails(h)

Receive(e) == \E h \in Handlers : ReceiveCheckout(h, e) \/ ReceiveChange(h, e)
Sweep == SweepRead \/ SweepRetrieve \/ SweepWrite \/ SweepFails
Saga == SagaRead \/ SagaCancel \/ SagaPersist \/ Close \/ SagaFails

(* What Stripe, the web threads and the sweep do.                          *)
Serve ==
  \/ \E s \in Subs : PayCheckout(s)
  \/ \E s \in Subs, new \in Billing \cup {"canceled"} : ChangeStatus(s, new)
  \/ \E e \in events : Receive(e)
  \/ \E h \in Handlers : BeginCheckout(h) \/ BeginSync(h) \/ Proceed(h)
  \/ Sweep

Next == Serve \/ Bar \/ Saga

Spec == Init /\ [][Next]_vars

(* Fairness: a request runs on and the sweep comes every day; nothing is   *)
(* asked of Stripe's webhooks.                                             *)
Running  == \A h \in Handlers : WF_vars(Proceed(h))
Sweeping == WF_vars(Sweep)

(* What follows says nothing of a barred account, and no fairness bars     *)
(* one: Bar and Saga are left out.                                         *)
SweepSpec == Init /\ [][Serve]_vars /\ Running /\ Sweeping

-----------------------------------------------------------------------------
(* Nobody whose account is gone is charged without the system knowing: a   *)
(* subscription that still bills has a completed-checkout event that will  *)
(* be delivered again until the subscription is canceled.                  *)
NoOrphanCharge ==
  account = "closed" =>
    \A s \in Charging(Subs) : \E e \in events : e.kind = "checkout" /\ e.sub = s

(* A completed checkout of a barred or deleted account is never            *)
(* acknowledged while its subscription bills (api.py: "Never acknowledge   *)
(* a late subscription until recurring billing is stopped").               *)
NeverAcknowledgedCharging ==
  [][\A e \in events \ events' :
       e.kind = "checkout" /\ account # "live" => status'[e.sub] \notin Billing]_vars

(* However webhooks, /sync and the sweep overwrite one another, what a     *)
(* live account may use comes to be what the subscription it has on file   *)
(* pays for.                                                               *)
EntitlementConverges ==
  <>[](account = "live" => (pro <=> subId # NoSub /\ status[subId] = "active"))
=============================================================================
