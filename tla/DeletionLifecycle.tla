-------------------------- MODULE DeletionLifecycle --------------------------
(***************************************************************************)
(* The account-deletion saga of backend/account/lifecycle.py for one       *)
(* account: the UserLifecycleJob row, the account's rows in Postgres, the  *)
(* three services the saga calls (FORJD, Stripe, Firebase) and the workers *)
(* that run execute_deletion_job, which are web threads (right after       *)
(* request_account_deletion) and reconciler processes.                     *)
(*                                                                         *)
(* A worker's step is one database transaction, one external call or one   *)
(* read whose result it keeps.  An external call may fail before or after  *)
(* its effect; a worker may crash between any two steps; its lease may run *)
(* out while it is still working.  Each of these consumes one of MaxFaults *)
(* faults, the only bound of the model.                                    *)
(***************************************************************************)
EXTENDS Naturals

CONSTANTS
  Workers,         \* web threads and reconciler processes
  NoWorker,        \* lease_token IS NULL
  Tenants,         \* FORJD tenants
  Subscriptions,   \* Stripe subscriptions of the customer
  MaxAttempts,     \* UserLifecycleJob.max_attempts
  MaxFaults,       \* BOUND: failed calls + crashes + overrun leases
  EraseRepeatable  \* FORJD accepts erase again after it revoked the token

ASSUME NoWorkerAssumption == NoWorker \notin Workers
ASSUME MaxAttemptsAssumption == MaxAttempts \in Nat \ {0}
ASSUME MaxFaultsAssumption == MaxFaults \in Nat
ASSUME EraseRepeatableAssumption == EraseRepeatable \in BOOLEAN

VARIABLES
  \* The UserLifecycleJob row.
  state,      \* state, or "absent" before the row exists
  token,      \* lease_token
  leaseLive,  \* lease_expires_at > now
  due,        \* next_attempt_at is NULL or past
  attempts,   \* attempts, saturating above max_attempts
  targets,    \* forjd_erase_targets
  erased,     \* forjd_erased_tenant_ids
  steps,      \* steps_completed
  error,      \* last_error
  \* The account's rows.
  user,       \* the User row and everything that is deleted with it
  keys,       \* an active API key exists
  mapping,    \* the current ForjdTenantMapping
  tenants,    \* ForjdTenantAssociation rows and the mapping's tenant
  stripeIds,  \* the profile stores a Stripe identifier
  \* The services.
  forjd,      \* tenants whose data FORJD still holds
  stripe,     \* subscriptions that still charge
  firebase,   \* the Firebase identity exists
  \* The workers.
  pc,         \* where each worker is
  todo,       \* manifest entries it has yet to erase
  done,       \* the tenant it has erased but not recorded
  subs,       \* subscriptions it has listed and not canceled
  copy,       \* steps_completed as it last read or wrote them
  faults      \* faults so far

jobRow == <<state, token, leaseLive, due, attempts, targets, erased, steps, error>>
rows   == <<user, keys, mapping, tenants, stripeIds>>
world  == <<forjd, stripe, firebase>>
local  == <<todo, done, subs, copy>>
vars   == <<jobRow, rows, world, pc, local, faults>>

-----------------------------------------------------------------------------
(* Types.                                                                  *)

JobStates == {"absent", "pending", "running", "failed", "dead_letter", "completed"}

StepNames == {"barrier", "forjd_erased", "stripe_canceled", "firebase_deleted",
              "user_deleted"}

(* attempts is compared with max_attempts only, so one value above the     *)
(* maximum stands for all of them.                                         *)
AttemptCap == MaxAttempts + 1

(* Where a web thread is before it executes the job.                       *)
Requesting == {"idle", "read_active", "read_inactive", "authenticated", "requested"}

(* Where a worker is inside execute_deletion_job, past its claim: up to    *)
(* the end of the manifest, and after it.                                  *)
Erasing == {"erase", "record_erased", "erase_failed"}
TearingDown == {"begin_teardown", "read_profile", "list_subscriptions",
                "cancel_subscriptions", "delete_identity", "commit",
                "teardown_failed"}
Executing == {"refresh"} \cup Erasing \cup TearingDown

JobTypeOK ==
  /\ state \in JobStates
  /\ token \in Workers \cup {NoWorker}
  /\ leaseLive \in BOOLEAN
  /\ due \in BOOLEAN
  /\ attempts \in 0 .. AttemptCap
  /\ targets \in SUBSET Tenants
  /\ erased \in SUBSET Tenants
  /\ steps \in SUBSET StepNames
  /\ error \in {"", "in_progress", "erase_blocked", "teardown_failed"}

RowsTypeOK ==
  /\ user \in {"active", "inactive", "deleted"}
  /\ keys \in BOOLEAN
  /\ mapping \in {"none", "active", "inactive"}
  /\ tenants \in SUBSET Tenants
  /\ stripeIds \in BOOLEAN

WorldTypeOK ==
  /\ forjd \in SUBSET Tenants
  /\ stripe \in SUBSET Subscriptions
  /\ firebase \in BOOLEAN

LocalTypeOK ==
  /\ todo \in [Workers -> SUBSET Tenants]
  /\ done \in [Workers -> SUBSET Tenants]
  /\ subs \in [Workers -> SUBSET Subscriptions]
  /\ copy \in [Workers -> SUBSET StepNames]

TypeOK ==
  /\ JobTypeOK
  /\ RowsTypeOK
  /\ WorldTypeOK
  /\ LocalTypeOK
  /\ pc \in [Workers -> Requesting \cup Executing]
  /\ faults \in 0 .. MaxFaults

-----------------------------------------------------------------------------
(* Initial state: an active account with any set of mapped tenants, billed *)
(* through a stored Stripe identifier or not at all.                       *)
Init ==
  /\ state = "absent" /\ token = NoWorker /\ leaseLive = FALSE /\ due = FALSE
  /\ attempts = 0 /\ targets = {} /\ erased = {} /\ steps = {} /\ error = ""
  /\ user = "active"
  /\ keys \in BOOLEAN
  /\ tenants \in SUBSET Tenants
  /\ mapping = IF tenants = {} THEN "none" ELSE "active"
  /\ stripeIds \in BOOLEAN
  /\ forjd = tenants
  /\ stripe \in SUBSET Subscriptions
  /\ stripeIds \/ stripe = {}
  /\ firebase = TRUE
  /\ pc = [w \in Workers |-> "idle"]
  /\ todo = [w \in Workers |-> {}]
  /\ done = [w \in Workers |-> {}]
  /\ subs = [w \in Workers |-> {}]
  /\ copy = [w \in Workers |-> {}]
  /\ faults = 0

-----------------------------------------------------------------------------
(* Helpers.                                                                *)

(* The filter of every fenced write: state RUNNING and my lease_token.     *)
Holds(w) == state = "running" /\ token = w

At(w, p) == pc[w] = p

Goto(w, p) == pc' = [pc EXCEPT ![w] = p]

(* The worker leaves the handler and forgets what it had read.             *)
Return(w) ==
  /\ Goto(w, "idle")
  /\ todo' = [todo EXCEPT ![w] = {}]
  /\ done' = [done EXCEPT ![w] = {}]
  /\ subs' = [subs EXCEPT ![w] = {}]
  /\ copy' = [copy EXCEPT ![w] = {}]

Fault == faults < MaxFaults /\ faults' = faults + 1

(* Mutant: a RUNNING row is never reclaimed.                               *)
ClaimableNeverRunning == state \in {"pending", "failed"} /\ due

(* The row filter shared by execute_deletion_job and                       *)
(* process_pending_lifecycle_jobs.                                         *)
Claimable ==
  \/ state \in {"pending", "failed"} /\ due
  \/ state = "running" /\ ~leaseLive

-----------------------------------------------------------------------------
(* The web request.                                                        *)

(* Middleware: a request with a valid token reads the user without a lock. *)
ReadAccount(w) ==
  /\ At(w, "idle")
  /\ firebase
  /\ user # "deleted"
  /\ Goto(w, IF user = "active" THEN "read_active" ELSE "read_inactive")
  /\ UNCHANGED <<jobRow, rows, world, local, faults>>

(* user.save() writes every column back, is_active as it was read, and     *)
(* only then is an inactive user turned away.  A row that is gone is       *)
(* inserted anew, as another account that this model leaves there.         *)
SaveAccount(w) ==
  /\ pc[w] \in {"read_active", "read_inactive"}
  /\ user' = IF user = "deleted" THEN "deleted"
             ELSE IF At(w, "read_active") THEN "active" ELSE "inactive"
  /\ Goto(w, IF At(w, "read_active") /\ user # "deleted" THEN "authenticated" ELSE "idle")
  /\ UNCHANGED <<jobRow, keys, mapping, tenants, stripeIds, world, local, faults>>

(* The rest of request_account_deletion's transaction: the barrier.        *)
ApplyBarrier ==
  /\ keys' = FALSE
  /\ mapping' = IF mapping = "none" THEN "none" ELSE "inactive"
  /\ user' = "inactive"
  /\ UNCHANGED <<tenants, stripeIds>>

(* Mutant: a repeated request starts the receipt anew.                     *)
RequestResetsReceipt(w) ==
  /\ At(w, "authenticated")
  /\ user # "deleted"
  /\ state' = IF state = "absent" THEN "pending" ELSE state
  /\ due' = TRUE
  /\ targets' = tenants
  /\ steps' = {"barrier"}
  /\ ApplyBarrier
  /\ Goto(w, "requested")
  /\ UNCHANGED <<token, leaseLive, attempts, erased, error, world, local, faults>>

(* request_account_deletion: find or create the job, merge the manifest,   *)
(* apply the barrier.                                                      *)
RequestDeletion(w) ==
  /\ At(w, "authenticated")
  /\ user # "deleted"
  /\ IF state = "absent"
       THEN state' = "pending" /\ due' = TRUE
       ELSE UNCHANGED <<state, due>>
  /\ targets' = targets \cup tenants
  /\ steps' = steps \cup {"barrier"}
  /\ ApplyBarrier
  /\ Goto(w, "requested")
  /\ UNCHANGED <<token, leaseLive, attempts, erased, error, world, local, faults>>

(* User.objects.get raises: another request finished the deletion.         *)
RequestTooLate(w) ==
  /\ At(w, "authenticated")
  /\ user = "deleted"
  /\ Return(w)
  /\ UNCHANGED <<jobRow, rows, world, faults>>

-----------------------------------------------------------------------------
(* execute_deletion_job.                                                   *)

(* The claiming UPDATE matched the row.  A reconciler starts from idle     *)
(* (its SELECT has the same filter), a web thread from its request.        *)
Claim(w) ==
  /\ pc[w] \in {"idle", "requested"}
  /\ Claimable
  /\ state' = "running" /\ token' = w /\ leaseLive' = TRUE /\ due' = TRUE
  /\ attempts' = IF attempts = AttemptCap THEN attempts ELSE attempts + 1
  /\ error' = "in_progress"
  /\ Goto(w, "refresh")
  /\ UNCHANGED <<targets, erased, steps, rows, world, local, faults>>

(* It matched no row: the web thread reports the job it did not win.       *)
ClaimMissed(w) ==
  /\ At(w, "requested")
  /\ ~Claimable
  /\ Return(w)
  /\ UNCHANGED <<jobRow, rows, world, faults>>

(* Mutant: the evidence of earlier executions is not consulted.            *)
RefreshForgetsEvidence(w) ==
  /\ At(w, "refresh")
  /\ todo' = [todo EXCEPT ![w] = targets]
  /\ Goto(w, "erase")
  /\ UNCHANGED <<jobRow, rows, world, done, subs, copy, faults>>

(* refresh_from_db after the claim: the manifest and evidence to work from. *)
Refresh(w) ==
  /\ At(w, "refresh")
  /\ todo' = [todo EXCEPT ![w] = targets \ erased]
  /\ Goto(w, "erase")
  /\ UNCHANGED <<jobRow, rows, world, done, subs, copy, faults>>

(* POST /tenants/{t}/erase succeeds: a durable wipe that also revokes the  *)
(* tenant's service token.                                                 *)
EraseTenant(w, t) ==
  /\ At(w, "erase")
  /\ t \in todo[w]
  /\ t \in forjd \/ EraseRepeatable
  /\ forjd' = forjd \ {t}
  /\ todo' = [todo EXCEPT ![w] = todo[w] \ {t}]
  /\ done' = [done EXCEPT ![w] = {t}]
  /\ Goto(w, "record_erased")
  /\ UNCHANGED <<jobRow, rows, stripe, firebase, subs, copy, faults>>

(* Mutant: a failed erase is skipped and the loop goes on.                 *)
EraseFailureSkipped(w, t) ==
  /\ At(w, "erase")
  /\ t \in todo[w]
  /\ Fault
  /\ todo' = [todo EXCEPT ![w] = todo[w] \ {t}]
  /\ UNCHANGED <<jobRow, rows, world, pc, done, subs, copy>>

(* Mutant: a timed out erase is taken for done.                            *)
EraseTimeoutTaken(w, t) ==
  /\ At(w, "erase")
  /\ t \in todo[w]
  /\ Fault
  /\ todo' = [todo EXCEPT ![w] = todo[w] \ {t}]
  /\ done' = [done EXCEPT ![w] = {t}]
  /\ Goto(w, "record_erased")
  /\ UNCHANGED <<jobRow, rows, world, subs, copy>>

(* It fails, before or after its effect, or because the token is revoked.  *)
EraseTenantFails(w, t) ==
  /\ At(w, "erase")
  /\ t \in todo[w]
  /\ \/ Fault /\ forjd' \in {forjd, forjd \ {t}}
     \/ t \notin forjd /\ ~EraseRepeatable /\ UNCHANGED <<forjd, faults>>
  /\ Goto(w, "erase_failed")
  /\ UNCHANGED <<jobRow, rows, stripe, firebase, local>>

(* Mutant: the evidence is written whoever holds the lease.                *)
RecordErasedUnfenced(w) ==
  /\ At(w, "record_erased")
  /\ erased' = erased \cup done[w]
  /\ leaseLive' = TRUE
  /\ done' = [done EXCEPT ![w] = {}]
  /\ Goto(w, "erase")
  /\ UNCHANGED <<state, token, due, attempts, targets, steps, error, rows, world,
                 todo, subs, copy, faults>>

(* _record_erased_tenant, fenced; renews the lease.                        *)
RecordErasedTenant(w) ==
  /\ At(w, "record_erased")
  /\ \/ /\ Holds(w)
        /\ erased' = erased \cup done[w]
        /\ leaseLive' = TRUE
        /\ done' = [done EXCEPT ![w] = {}]
        /\ Goto(w, "erase")
        /\ UNCHANGED <<todo, subs, copy>>
     \/ /\ ~Holds(w)
        /\ Return(w)
        /\ UNCHANGED <<erased, leaseLive>>
  /\ UNCHANGED <<state, token, due, attempts, targets, steps, error, rows, world, faults>>

(* Mutant: the manifest counts as done after any of its tenants.           *)
ForjdCompleteEarly(w) ==
  /\ At(w, "erase")
  /\ Holds(w)
  /\ steps' = steps \cup {"forjd_erased"}
  /\ leaseLive' = TRUE
  /\ Goto(w, "begin_teardown")
  /\ UNCHANGED <<state, token, due, attempts, targets, erased, error, rows, world,
                 local, faults>>

(* _record_forjd_complete once the manifest is exhausted, fenced.          *)
RecordForjdComplete(w) ==
  /\ At(w, "erase")
  /\ todo[w] = {}
  /\ \/ /\ Holds(w)
        /\ steps' = steps \cup {"forjd_erased"}
        /\ leaseLive' = TRUE
        /\ Goto(w, "begin_teardown")
        /\ UNCHANGED local
     \/ /\ ~Holds(w)
        /\ Return(w)
        /\ UNCHANGED <<steps, leaseLive>>
  /\ UNCHANGED <<state, token, due, attempts, targets, erased, error, rows, world, faults>>

-----------------------------------------------------------------------------
(* _teardown_local_identity.                                               *)

(* Mutant: the job is not refreshed, so the copy of its steps is old.      *)
TeardownWithoutRefresh(w) ==
  /\ At(w, "begin_teardown")
  /\ Goto(w, IF Holds(w) THEN "read_profile" ELSE "teardown_failed")
  /\ UNCHANGED <<jobRow, rows, world, local, faults>>

(* refresh_from_db and the lease check.                                    *)
BeginTeardown(w) ==
  /\ At(w, "begin_teardown")
  /\ copy' = [copy EXCEPT ![w] = steps]
  /\ Goto(w, IF Holds(w) THEN "read_profile" ELSE "teardown_failed")
  /\ UNCHANGED <<jobRow, rows, world, todo, done, subs, faults>>

(* Load user and profile; billing is skipped when no identifier is stored. *)
ReadProfile(w) ==
  /\ At(w, "read_profile")
  /\ Goto(w, IF user = "deleted" THEN "teardown_failed"
             ELSE IF stripeIds THEN "list_subscriptions"
             ELSE "delete_identity")
  /\ UNCHANGED <<jobRow, rows, world, local, faults>>

(* _active_stripe_subscription_ids.                                        *)
ListSubscriptions(w) ==
  /\ At(w, "list_subscriptions")
  /\ subs' = [subs EXCEPT ![w] = stripe]
  /\ Goto(w, "cancel_subscriptions")
  /\ UNCHANGED <<jobRow, rows, world, todo, done, copy, faults>>

(* Subscription.cancel; a missing subscription counts as canceled.         *)
CancelSubscription(w, s) ==
  /\ At(w, "cancel_subscriptions")
  /\ s \in subs[w]
  /\ stripe' = stripe \ {s}
  /\ subs' = [subs EXCEPT ![w] = subs[w] \ {s}]
  /\ UNCHANGED <<jobRow, rows, forjd, firebase, pc, todo, done, copy, faults>>

(* Mutant: a Stripe failure is logged and the teardown goes on.            *)
StripeFailureSwallowed(w) ==
  /\ pc[w] \in {"list_subscriptions", "cancel_subscriptions"}
  /\ Fault
  /\ Goto(w, "delete_identity")
  /\ UNCHANGED <<jobRow, rows, world, local>>

(* A Stripe call fails, the cancellation perhaps already made.             *)
StripeFails(w) ==
  /\ Fault
  /\ \/ At(w, "list_subscriptions") /\ UNCHANGED stripe
     \/ /\ At(w, "cancel_subscriptions")
        /\ \E s \in subs[w] : stripe' \in {stripe, stripe \ {s}}
  /\ Goto(w, "teardown_failed")
  /\ UNCHANGED <<jobRow, rows, forjd, firebase, local>>

(* _persist_stripe_cancellation, fenced; forgets the identifiers.          *)
PersistStripeCancellation(w) ==
  /\ At(w, "cancel_subscriptions")
  /\ subs[w] = {}
  /\ \/ /\ Holds(w)
        /\ steps' = steps \cup {"stripe_canceled"}
        /\ copy' = [copy EXCEPT ![w] = steps \cup {"stripe_canceled"}]
        /\ leaseLive' = TRUE
        /\ stripeIds' = FALSE
        /\ Goto(w, "delete_identity")
     \/ /\ ~Holds(w)
        /\ Goto(w, "teardown_failed")
        /\ UNCHANGED <<steps, copy, leaseLive, stripeIds>>
  /\ UNCHANGED <<state, token, due, attempts, targets, erased, error, user, keys,
                 mapping, tenants, world, todo, done, subs, faults>>

(* firebase_auth.delete_user; UserNotFound is success.  The step is noted  *)
(* in the worker's copy only.                                              *)
DeleteIdentity(w) ==
  /\ At(w, "delete_identity")
  /\ firebase' = FALSE
  /\ copy' = [copy EXCEPT ![w] = copy[w] \cup {"firebase_deleted"}]
  /\ Goto(w, "commit")
  /\ UNCHANGED <<jobRow, rows, forjd, stripe, todo, done, subs, faults>>

DeleteIdentityFails(w) ==
  /\ At(w, "delete_identity")
  /\ Fault
  /\ firebase' \in {firebase, FALSE}
  /\ Goto(w, "teardown_failed")
  /\ UNCHANGED <<jobRow, rows, forjd, stripe, local>>

(* The last transaction: every row of the account goes and the job becomes *)
(* COMPLETED, or nothing happens.                                          *)
CommitDeletion(w) ==
  /\ At(w, "commit")
  /\ Holds(w)
  /\ user' = "deleted" /\ keys' = FALSE /\ mapping' = "none"
  /\ tenants' = {} /\ stripeIds' = FALSE
  /\ state' = "completed" /\ token' = NoWorker /\ leaseLive' = FALSE
  /\ due' = TRUE /\ error' = ""
  /\ steps' = copy[w] \cup {"user_deleted"}
  /\ Return(w)
  /\ UNCHANGED <<attempts, targets, erased, world, faults>>

(* Lease lost, or the database failed.                                     *)
CommitFails(w) ==
  /\ At(w, "commit")
  /\ \/ ~Holds(w) /\ UNCHANGED faults
     \/ Holds(w) /\ Fault
  /\ Goto(w, "teardown_failed")
  /\ UNCHANGED <<jobRow, rows, world, local>>

-----------------------------------------------------------------------------
(* _fail_job's UPDATE: FAILED with a backoff, or DEAD_LETTER when the      *)
(* attempts are used up.                                                   *)
RecordFailure(message) ==
  /\ state' = IF attempts >= MaxAttempts THEN "dead_letter" ELSE "failed"
  /\ due' = (attempts >= MaxAttempts)
  /\ token' = NoWorker
  /\ leaseLive' = FALSE
  /\ error' = message
  /\ UNCHANGED <<attempts, targets, erased, steps>>

FailureMessage(w) == IF At(w, "erase_failed") THEN "erase_blocked" ELSE "teardown_failed"

(* Mutant: one message for every failure.                                  *)
FailJobOneMessage(w) ==
  /\ pc[w] \in {"erase_failed", "teardown_failed"}
  /\ Holds(w)
  /\ RecordFailure("erase_blocked")
  /\ Return(w)
  /\ UNCHANGED <<rows, world, faults>>

(* The handler's error paths end in _fail_job, fenced.                     *)
FailJob(w) ==
  /\ pc[w] \in {"erase_failed", "teardown_failed"}
  /\ \/ Holds(w) /\ RecordFailure(FailureMessage(w))
     \/ ~Holds(w) /\ UNCHANGED jobRow
  /\ Return(w)
  /\ UNCHANGED <<rows, world, faults>>

-----------------------------------------------------------------------------
(* Crashes, time and the operator.                                         *)

Crash(w) ==
  /\ ~At(w, "idle")
  /\ Fault
  /\ Return(w)
  /\ UNCHANGED <<jobRow, rows, world>>

(* Ten minutes pass without a renewal.  That is a fault only when the      *)
(* lease's execution is still alive.                                       *)
LeaseExpires ==
  /\ state = "running"
  /\ leaseLive
  /\ IF \E w \in Workers : token = w /\ pc[w] \in Executing
       THEN Fault
       ELSE UNCHANGED faults
  /\ leaseLive' = FALSE
  /\ UNCHANGED <<state, token, due, attempts, targets, erased, steps, error, rows,
                 world, pc, local>>

(* next_attempt_at comes.                                                  *)
BackoffElapses ==
  /\ state = "failed"
  /\ ~due
  /\ due' = TRUE
  /\ UNCHANGED <<state, token, leaseLive, attempts, targets, erased, steps, error,
                 rows, world, pc, local, faults>>

(* Mutant: the operator's UPDATE leaves the state alone.                   *)
ReviveWithoutState ==
  /\ state = "dead_letter"
  /\ attempts' = 0 /\ due' = TRUE /\ error' = ""
  /\ UNCHANGED <<state, token, leaseLive, targets, erased, steps, rows, world, pc,
                 local, faults>>

(* manage.py revive_lifecycle_job.                                         *)
Revive ==
  /\ state = "dead_letter"
  /\ state' = "pending" /\ attempts' = 0 /\ due' = TRUE /\ error' = ""
  /\ token' = NoWorker /\ leaseLive' = FALSE
  /\ UNCHANGED <<targets, erased, steps, rows, world, pc, local, faults>>

-----------------------------------------------------------------------------
(* The steps a worker takes by itself once a request or a claim is made.   *)
Progress(w) ==
  \/ SaveAccount(w)
  \/ RequestDeletion(w)
  \/ RequestTooLate(w)
  \/ ClaimMissed(w)
  \/ Refresh(w)
  \/ \E t \in Tenants : EraseTenant(w, t) \/ EraseTenantFails(w, t)
  \/ RecordErasedTenant(w)
  \/ RecordForjdComplete(w)
  \/ BeginTeardown(w)
  \/ ReadProfile(w)
  \/ ListSubscriptions(w)
  \/ \E s \in Subscriptions : CancelSubscription(w, s)
  \/ StripeFails(w)
  \/ PersistStripeCancellation(w)
  \/ DeleteIdentity(w)
  \/ DeleteIdentityFails(w)
  \/ CommitDeletion(w)
  \/ CommitFails(w)
  \/ FailJob(w)

(* Nothing is left to do: TLC must not call this a deadlock.               *)
Settled ==
  /\ state = "completed"
  /\ \A w \in Workers : At(w, "idle")
  /\ UNCHANGED vars

Next ==
  \/ \E w \in Workers : ReadAccount(w) \/ Claim(w) \/ Progress(w) \/ Crash(w)
  \/ LeaseExpires
  \/ BackoffElapses
  \/ Revive
  \/ Settled

Spec == Init /\ [][Next]_vars

(***************************************************************************)
(* Fairness.  A worker that has started keeps running unless it crashes;   *)
(* start.py restarts the reconciler, whose watch loop claims a job that    *)
(* stays claimable, also when a barred user keeps asking (a reconciler is  *)
(* no web thread, though both are Workers here); time passes.  Nothing     *)
(* makes a user ask for deletion or an operator revive a job.              *)
(***************************************************************************)
Fairness ==
  /\ \A w \in Workers : WF_vars(Progress(w))
  /\ SF_vars(\E w \in Workers : Claim(w))
  /\ WF_vars(LeaseExpires)
  /\ WF_vars(BackoffElapses)

FairSpec == Spec /\ Fairness

-----------------------------------------------------------------------------
(* Properties.                                                             *)

(* UC-AUTH-006, erase first: the Firebase identity, and with it the Django *)
(* user, is gone only once FORJD holds no data of any manifest tenant.     *)
EraseBeforeIdentity ==
  ~firebase \/ user = "deleted" => state # "absent" /\ targets \cap forjd = {}

(* The evidence in forjd_erased_tenant_ids is true: a tenant listed there  *)
(* is in the manifest and FORJD holds nothing of it, whatever crashed,     *)
(* failed or was repeated in between.                                      *)
EvidenceIsTrue == erased \subseteq targets \ forjd

(* No deleted customer keeps paying: as long as a subscription charges,    *)
(* the account still stores the identifier needed to cancel it, and the    *)
(* Firebase identity is kept.                                              *)
NoOrphanBilling == stripe # {} => stripeIds /\ firebase

(* A COMPLETED job is a complete receipt: every manifest tenant is listed  *)
(* as erased, the steps are recorded, and no row or identity is left.      *)
CompletedReceipt ==
  state = "completed" =>
    /\ erased = targets
    /\ {"barrier", "forjd_erased", "firebase_deleted"} \subseteq steps
    /\ tenants = {}
    /\ ~firebase

(* Identity rows and receipt commit together: the user is gone exactly     *)
(* when the job is COMPLETED.                                              *)
UserGoneIffCompleted == user = "deleted" <=> state = "completed"

(* FORJD_TENANT_ERASE_BLOCKER tells the user that the Firebase and Django  *)
(* identities remain intact; whenever the job shows it, they do.           *)
BlockerIsHonest == error = "erase_blocked" => firebase /\ user # "deleted"

(* Lease fencing: a worker whose lease was taken over, or whose job was    *)
(* settled by another, writes nothing to the database in any later step.   *)
StaleWorkerWritesNothing ==
  [][\A w \in Workers :
       pc[w] \in Executing /\ ~Holds(w) /\ pc'[w] # pc[w]
         => UNCHANGED <<jobRow, rows>>]_vars

(* The receipt only grows: targets, erased tenants and steps once recorded *)
(* are never lost, although a worker writes steps from a copy.             *)
ReceiptGrows ==
  [][/\ targets \subseteq targets'
     /\ erased \subseteq erased'
     /\ steps \subseteq steps']_vars

(* COMPLETED is final, also for workers that woke up late.                 *)
CompletedIsFinal == [][state = "completed" => UNCHANGED jobRow]_vars

(* A requested deletion settles: once faults stop, the job reaches         *)
(* COMPLETED or DEAD_LETTER by itself.                                     *)
DeletionSettles == state # "absent" ~> state \in {"completed", "dead_letter"}

(* With an operator who keeps reviving dead letters it reaches COMPLETED.  *)
DeletionCompletes == WF_vars(Revive) => (state # "absent" ~> state = "completed")

(* Whatever is retried, the outside world sees the saga's one order.       *)
Saga == INSTANCE DeletionSaga WITH
  account  <- IF user = "deleted" THEN "gone"
              ELSE IF state = "absent" THEN "open" ELSE "barred",
  data     <- forjd,
  billing  <- stripe,
  identity <- firebase

SagaSpec == Saga!Spec
=============================================================================
