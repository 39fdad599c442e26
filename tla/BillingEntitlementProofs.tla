----------------------- MODULE BillingEntitlementProofs -----------------------
(***************************************************************************)
(* Proofs about BillingEntitlement, for any subscriptions and web threads  *)
(* and any number of changes and faults.                                   *)
(***************************************************************************)
EXTENDS BillingEntitlement, TLAPS

-----------------------------------------------------------------------------
(* Type correctness, one lemma for each part of the state.                 *)

(* What a thread that is at some stage has in hand.                        *)
LEMMA InHand ==
  ASSUME NEW w \in Works
  PROVE  /\ w.stage \in {"idle", "checkout", "sync", "write", "cancel", "apply"}
         /\ w.stage \in {"checkout", "sync", "write", "apply"} => w.ids \in Ids
         /\ w.stage = "write" => w.found \in Subs \cup {NoSub}
         /\ w.stage \in {"cancel", "apply"} => w.event \in Events
  BY DEF Works, IdleWork

LEMMA InSaga ==
  ASSUME NEW s \in Sagas, s.stage \in {"cancel", "persist"}
  PROVE  s.ids \in Ids
  BY DEF Sagas, IdleWork

ProfileTypeOK ==
  /\ checkoutOpen \in Gates
  /\ account \in {"live", "barred", "closed"}
  /\ pro \in BOOLEAN
  /\ subId \in Subs \cup {NoSub} /\ custId \in Subs \cup {NoSub}

StripeTypeOK ==
  /\ status \in [Subs -> {"none", "open", "canceled"} \cup Billing]
  /\ customer \in [Subs -> Subs \cup {NoSub}]
  /\ events \subseteq Events

WorkTypeOK ==
  /\ work \in [Handlers -> Works]
  /\ sweep \in Sweeps
  /\ saga \in Sagas

CountersTypeOK == changes \in 0 .. MaxChanges /\ faults \in 0 .. MaxFaults

(* The profile is written from an event, from what a thread has in hand,   *)
(* or cleared.                                                             *)
LEMMA ProfileTypeStep == ASSUME BillingTypeOK, [Next]_vars PROVE ProfileTypeOK'
<1> USE DEF BillingTypeOK, ProfileTypeOK
<1>1. ASSUME NEW h \in Handlers, NEW e \in events, ReceiveCheckout(h, e)
      PROVE ProfileTypeOK'
  <2>1. e.sub \in Subs
    BY DEF Events
  <2>2. customer[e.sub] \in Subs \cup {NoSub}
    BY <2>1
  <2>3. pro' \in BOOLEAN
    BY <1>1 DEF ReceiveCheckout
  <2> QED
    BY <1>1, <2>1, <2>2, <2>3 DEF ReceiveCheckout
<1>2. ASSUME NEW h \in Handlers, ApplyChange(h) PROVE ProfileTypeOK'
  <2>1. work[h].ids \in Ids
    BY <1>2, InHand DEF ApplyChange
  <2>2. work[h].ids.sub \in Subs \cup {NoSub} /\ work[h].ids.cust \in Subs \cup {NoSub}
    BY <2>1 DEF Ids
  <2>3. pro' \in BOOLEAN
    BY <1>2 DEF ApplyChange
  <2> QED
    BY <1>2, <2>2, <2>3 DEF ApplyChange
<1>3. ASSUME NEW h \in Handlers, BeginSync(h) PROVE ProfileTypeOK'
  BY <1>3 DEF BeginSync, Downgrade, profile
<1>4. ASSUME NEW h \in Handlers, SyncWrite(h) PROVE ProfileTypeOK'
  <2>1. work[h].ids \in Ids /\ work[h].found \in Subs \cup {NoSub}
    BY <1>4, InHand DEF SyncWrite, ApplyActive, Downgrade
  <2>2. work[h].ids.cust \in Subs \cup {NoSub}
    BY <2>1 DEF Ids
  <2>3. pro' \in BOOLEAN
    BY <1>4 DEF SyncWrite, ApplyActive, Downgrade
  <2> QED
    BY <1>4, <2>1, <2>2, <2>3 DEF SyncWrite, ApplyActive, Downgrade
<1>5. CASE SweepWrite
  <2>1. sweep.paid \in BOOLEAN
    BY <1>5 DEF SweepWrite, Sweeps, IdleWork
  <2> QED
    BY <1>5, <2>1 DEF SweepWrite
<1>6. CASE Bar \/ SagaPersist \/ Close
  BY <1>6 DEF Bar, SagaPersist, Close, profile
<1>7. CASE UNCHANGED <<checkoutOpen, account, profile>>
  BY <1>7 DEF profile
<1> QED
  BY <1>1, <1>2, <1>3, <1>4, <1>5, <1>6, <1>7
  DEF Next, Serve, Receive, Proceed, Sweep, Saga, vars, ChangeStatus, PayCheckout,
      BeginCheckout, CreateSession, CancelLate, ReceiveChange, SyncRetrieve,
      HandlerFails, SweepRead, SweepRetrieve, SweepFails, SagaRead, SagaCancel,
      SagaFails

(* Stripe's side.                                                          *)
LEMMA StripeTypeStep == ASSUME BillingTypeOK, [Next]_vars PROVE StripeTypeOK'
<1> USE DEF BillingTypeOK, StripeTypeOK
<1>1. ASSUME NEW S \in SUBSET Subs
      PROVE  /\ Canceled(S) \in [Subs -> {"none", "open", "canceled"} \cup Billing]
             /\ Notices(S) \subseteq Events
  BY DEF Canceled, Notices, Charging, Changed, Events
<1>2. ASSUME NEW s \in Subs, NEW new \in Billing \cup {"canceled"}, ChangeStatus(s, new)
      PROVE StripeTypeOK'
  BY <1>2 DEF ChangeStatus, Changed, Events
<1>3. ASSUME NEW s \in Subs, PayCheckout(s) PROVE StripeTypeOK'
  BY <1>3 DEF PayCheckout, Events, Billing
<1>4. ASSUME NEW h \in Handlers, CreateSession(h) PROVE StripeTypeOK'
  <2>1. work[h].ids.cust \in Subs \cup {NoSub}
    BY <1>4, InHand DEF CreateSession, Ids
  <2> QED
    BY <1>4, <2>1 DEF CreateSession
<1>5. ASSUME NEW h \in Handlers, CancelLate(h) PROVE StripeTypeOK'
  <2>1. work[h].event \in Events
    BY <1>5, InHand DEF CancelLate
  <2>2. {work[h].event.sub} \in SUBSET Subs
    BY <2>1 DEF Events
  <2> QED
    BY <1>1, <1>5, <2>2 DEF CancelLate, Acknowledge
<1>6. ASSUME NEW h \in Handlers, NEW e \in events,
             ReceiveCheckout(h, e) \/ ReceiveChange(h, e)
      PROVE StripeTypeOK'
  BY <1>6 DEF ReceiveCheckout, ReceiveChange, Acknowledge
<1>7. ASSUME NEW h \in Handlers, ApplyChange(h) PROVE StripeTypeOK'
  BY <1>7 DEF ApplyChange, Acknowledge
<1>8. CASE SagaCancel
  <2>1. {s \in Subs : \/ s = saga.ids.sub
                      \/ saga.ids.cust # NoSub /\ customer[s] = saga.ids.cust}
          \in SUBSET Subs
    OBVIOUS
  <2> QED
    BY <1>1, <1>8, <2>1 DEF SagaCancel
<1>9. CASE UNCHANGED stripe
  BY <1>9 DEF stripe
<1> QED
  BY <1>2, <1>3, <1>4, <1>5, <1>6, <1>7, <1>8, <1>9
  DEF Next, Serve, Receive, Proceed, Sweep, Saga, vars, BeginCheckout, BeginSync,
      SyncRetrieve, SyncWrite, HandlerFails, SweepRead, SweepRetrieve, SweepWrite,
      SweepFails, Bar, SagaRead, SagaPersist, Close, SagaFails

(* A thread takes up work with an event, or with the row it has read.      *)
LEMMA WorkTypeStep == ASSUME BillingTypeOK, [Next]_vars PROVE WorkTypeOK'
<1> USE DEF BillingTypeOK, WorkTypeOK
<1>1. Stored \in Ids /\ IdleWork \in Works /\ IdleWork \in Sweeps /\ IdleWork \in Sagas
  BY DEF Stored, Ids, Works, Sweeps, Sagas
<1>2. ASSUME NEW h \in Handlers, NEW w \in Works, Do(h, w), UNCHANGED <<sweep, saga>>
      PROVE WorkTypeOK'
  BY <1>2 DEF Do
<1>3. ASSUME NEW h \in Handlers, NEW e \in events,
             ReceiveCheckout(h, e) \/ ReceiveChange(h, e)
      PROVE WorkTypeOK'
  <2>1. /\ [stage |-> "cancel", event |-> e] \in Works
        /\ [stage |-> "apply", event |-> e, ids |-> Stored] \in Works
    BY <1>1 DEF Works
  <2> QED
    BY <1>2, <1>3, <2>1 DEF ReceiveCheckout, ReceiveChange
<1>4. ASSUME NEW h \in Handlers, BeginCheckout(h) \/ BeginSync(h) PROVE WorkTypeOK'
  <2>1. /\ [stage |-> "checkout", ids |-> Stored] \in Works
        /\ [stage |-> "sync", ids |-> Stored] \in Works
    BY <1>1 DEF Works
  <2> QED
    BY <1>2, <1>4, <2>1 DEF BeginCheckout, BeginSync, Downgrade
<1>5. ASSUME NEW h \in Handlers, SyncRetrieve(h) PROVE WorkTypeOK'
  <2>1. PICK s \in Subs \cup {NoSub} :
          Do(h, [stage |-> "write", ids |-> work[h].ids, found |-> s])
    BY <1>5 DEF SyncRetrieve, ActiveFor
  <2>2. work[h].ids \in Ids
    BY <1>5, InHand DEF SyncRetrieve
  <2>3. [stage |-> "write", ids |-> work[h].ids, found |-> s] \in Works
    BY <2>2 DEF Works
  <2> QED
    BY <1>2, <1>5, <2>1, <2>3 DEF SyncRetrieve
<1>6. ASSUME NEW h \in Handlers, Do(h, IdleWork), UNCHANGED <<sweep, saga>>
      PROVE WorkTypeOK'
  BY <1>1, <1>2, <1>6
<1>7. CASE Sweep
  <2>1. CASE SweepRead
    <3>1. [stage |-> "retrieve", sub |-> subId] \in Sweeps
      BY DEF Sweeps
    <3> QED
      BY <2>1, <3>1 DEF SweepRead
  <2>2. CASE SweepRetrieve
    <3>1. ASSUME NEW b \in BOOLEAN PROVE [stage |-> "write", paid |-> b] \in Sweeps
      BY DEF Sweeps
    <3>2. (sweep.sub # NoSub /\ status[sweep.sub] = "active") \in BOOLEAN
      OBVIOUS
    <3>3. sweep' \in Sweeps
      BY <2>2, <3>1, <3>2 DEF SweepRetrieve
    <3> QED
      BY <2>2, <3>3 DEF SweepRetrieve
  <2>3. CASE SweepWrite \/ SweepFails
    BY <1>1, <2>3 DEF SweepWrite, SweepFails
  <2> QED
    BY <1>7, <2>1, <2>2, <2>3 DEF Sweep
<1>8. CASE Saga
  <2>1. [stage |-> "cancel", ids |-> Stored] \in Sagas /\ [stage |-> "stopped"] \in Sagas
    BY <1>1 DEF Sagas
  <2>2. CASE SagaRead
    BY <2>1, <2>2 DEF SagaRead
  <2>3. CASE SagaCancel
    <3>1. saga \in [stage : {"cancel", "persist"}, ids : Ids]
      BY <2>3 DEF SagaCancel, Sagas, IdleWork
    <3>2. [saga EXCEPT !.stage = "persist"] \in [stage : {"cancel", "persist"}, ids : Ids]
      BY <3>1
    <3> QED
      BY <2>3, <3>2 DEF SagaCancel, Sagas
  <2>4. CASE SagaPersist \/ Close \/ SagaFails
    BY <1>1, <2>1, <2>4 DEF SagaPersist, Close, SagaFails
  <2> QED
    BY <1>8, <2>2, <2>3, <2>4 DEF Saga
<1>9. CASE UNCHANGED <<work, sweep, saga>>
  BY <1>9
<1> QED
  BY <1>3, <1>4, <1>5, <1>6, <1>7, <1>8, <1>9
  DEF Next, Serve, Receive, Proceed, vars, ChangeStatus, PayCheckout, CreateSession, CancelLate,
      ApplyChange, SyncWrite, ApplyActive, Downgrade, HandlerFails, Bar

(* The bounds hold.                                                        *)
LEMMA CountersTypeStep == ASSUME BillingTypeOK, [Next]_vars PROVE CountersTypeOK'
<1> USE BoundsAssumption DEF BillingTypeOK, CountersTypeOK
<1>1. ASSUME Fault, UNCHANGED changes PROVE CountersTypeOK'
  BY <1>1 DEF Fault
<1>2. ASSUME NEW s \in Subs, NEW new \in Billing \cup {"canceled"}, ChangeStatus(s, new)
      PROVE CountersTypeOK'
  BY <1>2 DEF ChangeStatus
<1>3. CASE UNCHANGED <<changes, faults>>
  BY <1>3
<1> QED
  BY <1>1, <1>2, <1>3
  DEF Next, Serve, Receive, Proceed, Sweep, Saga, vars, PayCheckout, BeginCheckout,
      CreateSession, ReceiveCheckout, CancelLate, ReceiveChange, ApplyChange, BeginSync,
      SyncRetrieve, SyncWrite, HandlerFails, Acknowledge, SweepRead, SweepRetrieve,
      SweepWrite, SweepFails, Bar, SagaRead, SagaCancel, SagaPersist, Close, SagaFails

(* The profile row, Stripe's side and the work in hand keep their types.   *)
THEOREM BillingTypeCorrect == Spec => []BillingTypeOK
<1>1. Init => BillingTypeOK
  <2> SUFFICES ASSUME Init PROVE BillingTypeOK
    OBVIOUS
  <2>1. ProfileTypeOK /\ CountersTypeOK
    BY BoundsAssumption DEF Init, ProfileTypeOK, CountersTypeOK
  <2>2. StripeTypeOK
    BY DEF Init, StripeTypeOK, Billing
  <2>3. WorkTypeOK
    BY DEF Init, WorkTypeOK, Works, Sweeps, Sagas
  <2> QED
    BY <2>1, <2>2, <2>3
    DEF BillingTypeOK, ProfileTypeOK, StripeTypeOK, WorkTypeOK, CountersTypeOK
<1>2. BillingTypeOK /\ [Next]_vars => BillingTypeOK'
  BY ProfileTypeStep, StripeTypeStep, WorkTypeStep, CountersTypeStep
  DEF BillingTypeOK, ProfileTypeOK, StripeTypeOK, WorkTypeOK, CountersTypeOK
<1> QED
  BY <1>1, <1>2, PTL DEF Spec

-----------------------------------------------------------------------------
(* Late checkouts.                                                         *)

(* A thread cancels what a completed checkout has begun, and acknowledges  *)
(* a change after applying it.                                             *)
EventInHand ==
  \A h \in Handlers :
    /\ work[h].stage = "cancel" => work[h].event.kind = "checkout"
    /\ work[h].stage = "apply" => work[h].event.kind = "changed"

(* Threads drop their events, but do not exchange them.                    *)
LEMMA EventInHandStep ==
  ASSUME BillingTypeOK, EventInHand, [Next]_vars PROVE EventInHand'
<1> USE DEF BillingTypeOK, EventInHand
<1>1. ASSUME NEW h \in Handlers, NEW w, Do(h, w),
             w.stage \notin {"cancel", "apply"}
      PROVE EventInHand'
  BY <1>1 DEF Do
<1>2. ASSUME NEW h \in Handlers, NEW e \in events,
             ReceiveCheckout(h, e) \/ ReceiveChange(h, e)
      PROVE EventInHand'
  BY <1>2 DEF ReceiveCheckout, ReceiveChange, Do
<1>3. ASSUME NEW h \in Handlers,
             \/ BeginCheckout(h) \/ BeginSync(h) \/ SyncRetrieve(h) \/ SyncWrite(h)
             \/ CreateSession(h) \/ CancelLate(h) \/ ApplyChange(h) \/ HandlerFails(h)
      PROVE EventInHand'
  BY <1>1, <1>3
  DEF BeginCheckout, BeginSync, SyncRetrieve, SyncWrite, CreateSession, CancelLate,
      ApplyChange, HandlerFails, IdleWork
<1>4. CASE UNCHANGED work
  BY <1>4
<1> QED
  BY <1>2, <1>3, <1>4
  DEF Next, Serve, Receive, Proceed, Sweep, Saga, vars, ChangeStatus, PayCheckout, SweepRead,
      SweepRetrieve, SweepWrite, SweepFails, Bar, SagaRead, SagaCancel, SagaPersist,
      Close, SagaFails

(* Where a completed checkout is acknowledged: taken into the profile of a *)
(* live account, or canceled.                                              *)
LEMMA CheckoutAcknowledged ==
  ASSUME BillingTypeOK, EventInHand, [Next]_vars,
         NEW e \in events \ events', e.kind = "checkout"
  PROVE  \/ checkoutOpen /\ account = "live"
         \/ status'[e.sub] \notin Billing
<1> USE DEF Acknowledge
<1>1. ASSUME NEW h \in Handlers, CancelLate(h) PROVE status'[e.sub] \notin Billing
  <2>1. e = work[h].event /\ status' = Canceled({e.sub})
    BY <1>1 DEF CancelLate
  <2>2. e.sub \in Subs
    BY DEF BillingTypeOK, Events
  <2> QED
    BY <2>1, <2>2 DEF Canceled, Charging, Billing
<1>2. ASSUME NEW h \in Handlers, NEW f \in events, ReceiveCheckout(h, f)
      PROVE  checkoutOpen /\ account = "live"
  BY <1>2 DEF ReceiveCheckout
<1>3. ASSUME NEW h \in Handlers, NEW f \in events, ReceiveChange(h, f) PROVE FALSE
  BY <1>3 DEF ReceiveChange
<1>4. ASSUME NEW h \in Handlers, ApplyChange(h) PROVE FALSE
  BY <1>4 DEF ApplyChange, EventInHand
<1>5. CASE events \subseteq events'
  BY <1>5
<1> QED
  BY <1>1, <1>2, <1>3, <1>4, <1>5
  DEF Next, Serve, Receive, Proceed, Sweep, Saga, vars, stripe, ChangeStatus, PayCheckout,
      BeginCheckout, CreateSession, BeginSync, SyncRetrieve, SyncWrite, HandlerFails,
      SweepRead, SweepRetrieve, SweepWrite, SweepFails, Bar, SagaRead, SagaCancel,
      SagaPersist, Close, SagaFails

LEMMA EventsInHand == Spec => []EventInHand
<1>1. Init => EventInHand
  BY DEF Init, EventInHand, IdleWork
<1>2. BillingTypeOK /\ EventInHand /\ [Next]_vars => EventInHand'
  BY EventInHandStep
<1> QED
  BY <1>1, <1>2, BillingTypeCorrect, PTL DEF Spec

(* A completed checkout of a barred or deleted account is acknowledged     *)
(* only when its subscription has stopped billing, with the Pro checkout   *)
(* switched on or off.                                                     *)
THEOREM NeverAcknowledged == Spec => NeverAcknowledgedCharging
<1> DEFINE Honest ==
      \A e \in events \ events' :
        e.kind = "checkout" /\ account # "live" => status'[e.sub] \notin Billing
<1>1. BillingTypeOK /\ EventInHand /\ [Next]_vars => [Honest]_vars
  BY CheckoutAcknowledged
<1> QED
  BY <1>1, BillingTypeCorrect, EventsInHand, PTL DEF Spec, NeverAcknowledgedCharging

-----------------------------------------------------------------------------
(* Charges, with the Pro checkout switched off.                            *)

Announced(s) == \E e \in events : e.kind = "checkout" /\ e.sub = s

(* What a thread has read of the row, and found for it, names s.           *)
Names(w, s) ==
  /\ w.stage \in {"checkout", "sync", "write", "apply"} => w.ids.sub = s
  /\ w.stage = "write" => w.found \in {s, NoSub}

(* The account has s on file, whoever writes the row, and the saga cancels *)
(* it before it clears the row.                                            *)
OnFile(s) ==
  /\ account # "closed" /\ subId = s
  /\ saga.stage \in {"idle", "cancel"} /\ (saga.stage = "cancel" => saga.ids.sub = s)
  /\ \A h \in Handlers : Names(work[h], s)

ChargeInv == \A s \in Charging(Subs) : Announced(s) \/ OnFile(s)

(* A subscription begins to charge with a completed checkout.              *)
LEMMA ChargesBegin ==
  ASSUME BillingTypeOK, [Next]_vars, NEW s \in Subs, status'[s] \in Billing
  PROVE  status[s] \in Billing \/ Announced(s)'
<1> USE DEF BillingTypeOK
<1>1. ASSUME NEW t \in Subs, PayCheckout(t) PROVE status[s] \in Billing \/ Announced(s)'
  <2>1. CASE s = t
    <3>1. [kind |-> "checkout", sub |-> s, status |-> "active"] \in events'
      BY <1>1, <2>1 DEF PayCheckout
    <3> QED
      BY <3>1 DEF Announced
  <2>2. CASE s # t
    BY <1>1, <2>2 DEF PayCheckout
  <2> QED
    BY <2>1, <2>2
<1>2. ASSUME NEW t \in Subs, NEW new \in Billing \cup {"canceled"}, ChangeStatus(t, new)
      PROVE status[s] \in Billing
  BY <1>2 DEF ChangeStatus
<1>3. ASSUME NEW h \in Handlers, CreateSession(h) PROVE status[s] \in Billing
  BY <1>3 DEF CreateSession, Billing
<1>4. ASSUME NEW S, status' = Canceled(S) PROVE status[s] \in Billing
  BY <1>4 DEF Canceled, Charging, Billing
<1>5. CASE status' = status
  BY <1>5
<1> QED
  BY <1>1, <1>2, <1>3, <1>4, <1>5
  DEF Next, Serve, Receive, Proceed, Sweep, Saga, vars, stripe, BeginCheckout, ReceiveCheckout,
      CancelLate, ReceiveChange, ApplyChange, BeginSync, SyncRetrieve, SyncWrite,
      HandlerFails, SweepRead, SweepRetrieve, SweepWrite, SweepFails, Bar, SagaRead,
      SagaCancel, SagaPersist, Close, SagaFails

(* What is on file stays there as long as it charges.                      *)
LEMMA FileKept ==
  ASSUME ~checkoutOpen, BillingTypeOK, [Next]_vars,
         NEW s \in Subs, status'[s] \in Billing, OnFile(s)
  PROVE  OnFile(s)'
<1> USE DEF BillingTypeOK
<1>1. s # NoSub /\ Stored.sub = s
  BY SubsAssumption DEF OnFile, Stored
<1>2. ASSUME UNCHANGED <<account, subId, saga>>,
             NEW h \in Handlers, NEW w, Do(h, w), Names(w, s)
      PROVE OnFile(s)'
  BY <1>2 DEF OnFile, Do
<1>3. Names(IdleWork, s)
  BY DEF Names, IdleWork
<1>4. ASSUME NEW h \in Handlers,
             CreateSession(h) \/ CancelLate(h) \/ HandlerFails(h)
      PROVE OnFile(s)'
  BY <1>2, <1>3, <1>4 DEF CreateSession, CancelLate, HandlerFails, profile
<1>5. ASSUME NEW h \in Handlers, ApplyChange(h) \/ SyncWrite(h) PROVE OnFile(s)'
  <2>1. subId' = s
    BY <1>5 DEF ApplyChange, SyncWrite, ApplyActive, Downgrade, OnFile, Names
  <2> QED
    BY <1>2, <1>3, <1>5, <2>1 DEF ApplyChange, SyncWrite, ApplyActive, Downgrade, OnFile
<1>6. ASSUME NEW h \in Handlers, NEW e \in events,
             ReceiveCheckout(h, e) \/ ReceiveChange(h, e)
      PROVE OnFile(s)'
  <2>1. /\ Names([stage |-> "cancel", event |-> e], s)
        /\ Names([stage |-> "apply", event |-> e, ids |-> Stored], s)
    BY <1>1 DEF Names
  <2>2. CASE UNCHANGED work
    BY <1>6, <2>2 DEF ReceiveCheckout, ReceiveChange, OnFile, profile
  <2> QED
    BY <1>2, <1>6, <2>1, <2>2 DEF ReceiveCheckout, ReceiveChange, profile
<1>7. ASSUME NEW h \in Handlers, BeginCheckout(h) \/ BeginSync(h) PROVE OnFile(s)'
  <2>1. Names([stage |-> "sync", ids |-> Stored], s)
    BY <1>1 DEF Names
  <2>2. Stored # [sub |-> NoSub, cust |-> NoSub]
    BY <1>1
  <2> QED
    BY <1>2, <1>7, <2>1, <2>2 DEF BeginCheckout, BeginSync, Downgrade, profile
<1>8. ASSUME NEW h \in Handlers, SyncRetrieve(h) PROVE OnFile(s)'
  <2>1. work[h].ids.sub = s
    BY <1>8 DEF SyncRetrieve, OnFile, Names
  <2>2. PICK t \in {s, NoSub} : Do(h, [stage |-> "write", ids |-> work[h].ids, found |-> t])
    BY <1>1, <1>8, <2>1 DEF SyncRetrieve, ActiveFor
  <2>3. Names([stage |-> "write", ids |-> work[h].ids, found |-> t], s)
    BY <2>1 DEF Names
  <2> QED
    BY <1>2, <1>8, <2>2, <2>3 DEF SyncRetrieve, profile
<1>9. CASE SagaRead
  <2>1. saga' = [stage |-> "cancel", ids |-> Stored]
    BY <1>1, <1>9 DEF SagaRead
  <2> QED
    BY <1>1, <1>9, <2>1 DEF SagaRead, OnFile, profile
<1>10. CASE SagaCancel
  <2>1. s = saga.ids.sub
    BY <1>10 DEF SagaCancel, OnFile
  <2>2. status'[s] \notin Billing
    BY <1>10, <2>1 DEF SagaCancel, Canceled, Charging, Billing
  <2> QED
    BY <2>2
<1>11. CASE SagaPersist \/ Close
  BY <1>11 DEF SagaPersist, Close, OnFile
<1>12. CASE SagaFails
  BY <1>12 DEF SagaFails, OnFile, IdleWork, profile
<1>13. CASE Bar
  BY <1>13 DEF Bar, OnFile, profile
<1>14. CASE UNCHANGED <<account, subId, saga, work>>
  BY <1>14 DEF OnFile
<1> QED
  BY <1>4, <1>5, <1>6, <1>7, <1>8, <1>9, <1>10, <1>11, <1>12, <1>13, <1>14
  DEF Next, Serve, Receive, Proceed, Sweep, Saga, vars, profile, ChangeStatus, PayCheckout,
      SweepRead, SweepRetrieve, SweepWrite, SweepFails

(* As the code is (_PRO_CHECKOUT_ENABLED = False), a subscription charges  *)
(* a deleted account only while Stripe still has to deliver the event that *)
(* cancels it.                                                             *)
THEOREM NoOrphan ==
  ASSUME Gates = {FALSE}
  PROVE  Spec => []NoOrphanCharge
<1>1. Init => ChargeInv
  <2> SUFFICES ASSUME Init, NEW s \in Charging(Subs) PROVE OnFile(s)
    BY DEF ChargeInv
  <2>1. s = subId
    BY DEF Init, Charging, Billing
  <2> QED
    BY <2>1 DEF Init, OnFile, Names, IdleWork
<1>2. BillingTypeOK /\ EventInHand /\ ChargeInv /\ [Next]_vars => ChargeInv'
  <2> SUFFICES ASSUME BillingTypeOK, EventInHand, ChargeInv, [Next]_vars,
                      NEW s \in Subs, status'[s] \in Billing, ~Announced(s)'
               PROVE  OnFile(s)'
    BY DEF ChargeInv, Charging
  <2>1. status[s] \in Billing
    BY ChargesBegin
  <2>2. ~checkoutOpen
    BY DEF BillingTypeOK
  <2>3. ~Announced(s)
    BY <2>2, CheckoutAcknowledged DEF Announced
  <2>4. OnFile(s)
    BY <2>1, <2>3 DEF ChargeInv, Charging
  <2> QED
    BY <2>2, <2>4, FileKept
<1>3. ChargeInv => NoOrphanCharge
  BY DEF ChargeInv, NoOrphanCharge, Announced, OnFile
<1> QED
  BY <1>1, <1>2, <1>3, BillingTypeCorrect, EventsInHand, PTL DEF Spec
=============================================================================
