---------------------------- MODULE AccountBarrier ----------------------------
(***************************************************************************)
(* The deletion saga next to ordinary requests of the same account.  A     *)
(* request authenticates with a Firebase token or an API key               *)
(* (config/middleware.py), then makes or revokes an API key                *)
(* (config/api_auth.py) or provisions a FORJD tenant on first use          *)
(* (forjd/provision.py).  request_account_deletion bars the account in one *)
(* transaction; a request that has begun before may still be running.      *)
(*                                                                         *)
(* Every saga step is a step of DeletionLifecycle.                         *)
(***************************************************************************)
EXTENDS DeletionLifecycle

CONSTANT Requests   \* web requests other than DELETE /delete-account

VARIABLES
  stage,   \* where each request is
  seen,    \* User.is_active as its middleware read it
  atBar    \* HISTORY: where requests in flight were when the barrier went up

requests    == <<stage, seen>>
barrierVars == <<vars, requests, atBar>>

Stages == {"idle", "read", "authenticated", "headless", "revoking", "provisioning"}

In(r, s) == stage[r] = s
Enter(r, s) == stage' = [stage EXCEPT ![r] = s]

(* Provisioning holds the profile row's lock during its partner call.      *)
ProfileLocked == \E r \in Requests : In(r, "provisioning")

BarrierInit ==
  /\ Init
  /\ stage = [r \in Requests |-> "idle"]
  /\ seen = [r \in Requests |-> "active"]
  /\ atBar = {}

-----------------------------------------------------------------------------
(* ensure_user_from_firebase: the row is read without a lock ...           *)
ReadUser(r) ==
  /\ In(r, "idle")
  /\ firebase
  /\ user # "deleted"
  /\ seen' = [seen EXCEPT ![r] = user]
  /\ Enter(r, "read")
  /\ UNCHANGED <<vars, atBar>>

(* Mutant: the middleware does not look at is_active.                      *)
SaveUserUnchecked(r) ==
  /\ In(r, "read")
  /\ user' = IF user = "deleted" THEN user ELSE seen[r]
  /\ Enter(r, IF user = "deleted" THEN "idle" ELSE "authenticated")
  /\ seen' = [seen EXCEPT ![r] = "active"]
  /\ UNCHANGED <<jobRow, keys, mapping, tenants, stripeIds, world, pc, local, faults,
                 atBar>>

(* ... and user.save() writes every column back: it restores is_active as  *)
(* it was read.  The middleware then rejects what it saw inactive.  A row  *)
(* that has been deleted meanwhile is inserted anew, with a new profile:   *)
(* another account, which this model leaves there.                         *)
SaveUser(r) ==
  /\ In(r, "read")
  /\ user' = IF user = "deleted" THEN user ELSE seen[r]
  /\ Enter(r, IF user # "deleted" /\ seen[r] = "active" THEN "authenticated" ELSE "idle")
  /\ seen' = [seen EXCEPT ![r] = "active"]
  /\ UNCHANGED <<jobRow, keys, mapping, tenants, stripeIds, world, pc, local, faults,
                 atBar>>

(* _authenticate_api_key: an active key of an active user, in one query.   *)
(* What a key may reach includes FORJD and not the keys themselves.        *)
AuthenticateKey(r) ==
  /\ In(r, "idle")
  /\ keys /\ user = "active"
  /\ Enter(r, "headless")
  /\ UNCHANGED <<vars, seen, atBar>>

(* generate_api_key; the foreign key refuses a deleted user.               *)
GenerateKey(r) ==
  /\ In(r, "authenticated")
  /\ keys' = (keys \/ user # "deleted")
  /\ Enter(r, "idle")
  /\ UNCHANGED <<jobRow, user, mapping, tenants, stripeIds, world, pc, local, faults,
                 seen, atBar>>

(* delete_api_key finds an active key ...                                  *)
FindKey(r) ==
  /\ In(r, "authenticated")
  /\ Enter(r, IF keys THEN "revoking" ELSE "idle")
  /\ UNCHANGED <<vars, seen, atBar>>

(* ... and writes it back inactive; it need not be the only one.           *)
RevokeKey(r) ==
  /\ In(r, "revoking")
  /\ keys' \in {keys, FALSE}
  /\ Enter(r, "idle")
  /\ UNCHANGED <<jobRow, user, mapping, tenants, stripeIds, world, pc, local, faults,
                 seen, atBar>>

(* _provision_account_credential: lock the profile and resolve again.  A   *)
(* mapped account is served from its mapping.                              *)
BeginProvision(r) ==
  /\ In(r, "authenticated") \/ In(r, "headless")
  /\ ~ProfileLocked
  /\ Enter(r, IF user = "deleted" \/ mapping = "active" THEN "idle" ELSE "provisioning")
  /\ UNCHANGED <<vars, seen, atBar>>

(* ForjdTenantMapping.save: the mapping, and with it the association that  *)
(* the deletion will go by.                                                *)
SaveMapping(t) == mapping' = "active" /\ tenants' = tenants \cup {t}

(* The partner call minted a tenant: persist the mapping and commit.  The  *)
(* request goes on to use it, so FORJD holds data of the account there.    *)
PersistMapping(r, t) ==
  /\ In(r, "provisioning")
  /\ t \notin tenants \cup targets \cup forjd
  /\ SaveMapping(t)
  /\ forjd' = forjd \cup {t}
  /\ Enter(r, "idle")
  /\ UNCHANGED <<jobRow, user, keys, stripeIds, stripe, firebase, pc, local, faults,
                 seen, atBar>>

(* It failed, or returned a tenant without a token: rolled back.           *)
ProvisionFails(r) ==
  /\ In(r, "provisioning")
  /\ Enter(r, "idle")
  /\ UNCHANGED <<vars, seen, atBar>>

RequestStep(r) ==
  \/ ReadUser(r)
  \/ SaveUser(r)
  \/ AuthenticateKey(r)
  \/ GenerateKey(r)
  \/ FindKey(r)
  \/ RevokeKey(r)
  \/ BeginProvision(r)
  \/ \E t \in Tenants : PersistMapping(r, t)
  \/ ProvisionFails(r)

-----------------------------------------------------------------------------
(* The saga's transactions that lock or delete the profile row.            *)
TakesProfileLock ==
  \E w \in Workers :
    RequestDeletion(w) \/ PersistStripeCancellation(w) \/ CommitDeletion(w)

(* Where the requests of the account are, a DELETE's own middleware too.   *)
InFlight ==
  ({stage[r] : r \in Requests} \cap {"read", "authenticated", "headless"})
    \cup (IF \E w \in Workers : At(w, "read_active") THEN {"read"} ELSE {})

SagaStep ==
  /\ Next
  /\ ProfileLocked => ~TakesProfileLock
  /\ atBar' = IF state = "absent" /\ state' # "absent" THEN InFlight ELSE atBar
  /\ UNCHANGED requests

BarrierNext == SagaStep \/ \E r \in Requests : RequestStep(r)

BarrierSpec == BarrierInit /\ [][BarrierNext]_barrierVars

-----------------------------------------------------------------------------
(* Properties.                                                             *)

(* Types, and one provisioning at a time for an account.                   *)
BarrierTypeOK ==
  /\ TypeOK
  /\ stage \in [Requests -> Stages]
  /\ seen \in [Requests -> {"active", "inactive"}]
  /\ atBar \subseteq Stages
  /\ \A r, s \in Requests : In(r, "provisioning") /\ In(s, "provisioning") => r = s

(* Behind the barrier nobody authenticates: the user stays inactive.       *)
NoNewAuth == state # "absent" => user # "active"

(* Behind the barrier no API key is active.                                *)
NoNewKey == state # "absent" => ~keys

(* A completed deletion leaves nothing of the account in FORJD.            *)
NothingLeftBehind == state = "completed" => forjd = {}

(* What may break the barrier is in flight when it goes up, and no request *)
(* but these does.  is_active comes back only by the save of a request     *)
(* that had read it before; a key only by that or by a request that had    *)
(* passed the middleware with a token; a mapping or data in FORJD only by  *)
(* one of those or by a request that had passed with a key.  So whoever    *)
(* comes later, and who was already in the partner call or revoking a key, *)
(* leaves nothing behind.                                                  *)
QuietBarrier ==
  /\ "read" \notin atBar => NoNewAuth
  /\ atBar \cap {"read", "authenticated"} = {} => NoNewKey
  /\ atBar \cap {"read", "authenticated", "headless"} = {} =>
       NothingLeftBehind /\ (state # "absent" => mapping # "active")
=============================================================================
