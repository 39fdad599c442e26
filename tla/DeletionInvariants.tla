-------------------------- MODULE DeletionInvariants --------------------------
(***************************************************************************)
(* The inductive invariants behind the safety properties of                *)
(* DeletionLifecycle: what a worker knows at each point of the handler,    *)
(* whether or not it still holds the lease.                                *)
(***************************************************************************)
EXTENDS DeletionLifecycle

-----------------------------------------------------------------------------
(* Erasure.                                                                *)

BeforeRequest ==
  state = "absent" =>
    /\ targets = {}
    /\ firebase
    /\ user = "active"
    /\ \A w \in Workers : pc[w] \notin Executing \cup {"read_inactive"}

(* Nothing maps another tenant to a barred account, so a repeated request  *)
(* adds nothing to the manifest.                                           *)
ManifestFrozen == state # "absent" /\ user # "deleted" => targets = tenants

TodoInManifest == \A w \in Workers : todo[w] \subseteq targets

DoneIsTrue ==
  \A w \in Workers :
    /\ done[w] \subseteq targets \ forjd
    /\ pc[w] # "record_erased" => done[w] = {}

(* A manifest tenant the worker does not have ahead of it is recorded.     *)
NothingSkipped ==
  \A w \in Workers :
    /\ pc[w] \in Erasing => targets \ (todo[w] \cup done[w]) \subseteq erased
    /\ pc[w] \in TearingDown => targets \subseteq erased

(* FORJD holds data of mapped tenants only, later of manifest tenants.     *)
DataIsMapped == forjd \subseteq (IF state = "absent" THEN tenants ELSE targets)

(* The identity goes only on complete evidence.                            *)
IdentityNeedsEvidence ==
  ~firebase \/ user = "deleted" => state # "absent" /\ targets = erased

ErasureInvariant ==
  /\ BeforeRequest
  /\ ManifestFrozen
  /\ TodoInManifest
  /\ DoneIsTrue
  /\ NothingSkipped
  /\ EvidenceIsTrue
  /\ DataIsMapped
  /\ IdentityNeedsEvidence

-----------------------------------------------------------------------------
(* Billing.                                                                *)

BillingInvariant ==
  /\ \A w \in Workers :
       /\ At(w, "cancel_subscriptions") => stripe \subseteq subs[w]
       /\ pc[w] \in {"delete_identity", "commit"} => stripe = {}
  /\ NoOrphanBilling

-----------------------------------------------------------------------------
(* The receipt.                                                            *)

(* The states in which the worker has read its copy of the steps.          *)
WithCopy == TearingDown \ {"begin_teardown"}

StepsRecorded ==
  /\ state # "absent" => "barrier" \in steps
  /\ \A w \in Workers :
       /\ pc[w] \in TearingDown => "forjd_erased" \in steps
       /\ pc[w] \in WithCopy => {"barrier", "forjd_erased"} \subseteq copy[w]
       /\ pc[w] \in WithCopy /\ Holds(w) => steps \subseteq copy[w]
       /\ At(w, "commit") => "firebase_deleted" \in copy[w] /\ ~firebase

ReceiptInvariant ==
  /\ StepsRecorded
  /\ UserGoneIffCompleted
  /\ CompletedReceipt

-----------------------------------------------------------------------------
(* The blocker message.                                                    *)

(* A worker that holds the lease has not yet recorded what it has to do.   *)
WorkIsAhead ==
  \A w \in Workers :
    /\ Holds(w) /\ pc[w] \in Erasing => todo[w] \cap erased = {}
    /\ At(w, "record_erased") => todo[w] \cap done[w] = {}
    /\ At(w, "erase_failed") => todo[w] # {}

(* While the message stands nothing can complete the erasure.              *)
BlockerStands ==
  error = "erase_blocked" =>
    /\ state \in {"failed", "dead_letter"}
    /\ erased # targets

BlockerInvariant ==
  /\ WorkIsAhead
  /\ BlockerStands
  /\ BlockerIsHonest

-----------------------------------------------------------------------------
(* Everything together: what the proofs show to be inductive.              *)
IInv ==
  /\ TypeOK
  /\ ErasureInvariant
  /\ BillingInvariant
  /\ ReceiptInvariant
  /\ BlockerInvariant
=============================================================================
