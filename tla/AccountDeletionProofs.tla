------------------------ MODULE AccountDeletionProofs ------------------------
(***************************************************************************)
(* Proofs about the deletion of an account, for any numbers of workers,    *)
(* tenants, subscriptions and requests, any max_attempts and any number of *)
(* faults.  First the types of DeletionLifecycle; then that IInv of        *)
(* DeletionInvariants is inductive, and the safety properties, the action  *)
(* properties and the refinement of DeletionSaga that follow from it; at   *)
(* last AccountBarrier, where a saga step is a step of DeletionLifecycle   *)
(* and new is what the requests do next to it.                             *)
(***************************************************************************)
EXTENDS AccountBarrier, DeletionInvariants, TLAPS

-----------------------------------------------------------------------------
(* Who writes what.                                                        *)

(* The steps of a worker that write nothing in the database.               *)
LEMMA DatabaseReaders ==
  ASSUME NEW w \in Workers
  PROVE  /\ ReadAccount(w) => UNCHANGED <<jobRow, rows>>
         /\ RequestTooLate(w) => UNCHANGED <<jobRow, rows>>
         /\ ClaimMissed(w) => UNCHANGED <<jobRow, rows>>
         /\ Refresh(w) => UNCHANGED <<jobRow, rows>>
         /\ \A t \in Tenants :
              EraseTenant(w, t) \/ EraseTenantFails(w, t) => UNCHANGED <<jobRow, rows>>
         /\ BeginTeardown(w) => UNCHANGED <<jobRow, rows>>
         /\ ReadProfile(w) => UNCHANGED <<jobRow, rows>>
         /\ ListSubscriptions(w) => UNCHANGED <<jobRow, rows>>
         /\ \A s \in Subscriptions : CancelSubscription(w, s) => UNCHANGED <<jobRow, rows>>
         /\ StripeFails(w) => UNCHANGED <<jobRow, rows>>
         /\ DeleteIdentity(w) => UNCHANGED <<jobRow, rows>>
         /\ DeleteIdentityFails(w) => UNCHANGED <<jobRow, rows>>
         /\ CommitFails(w) => UNCHANGED <<jobRow, rows>>
         /\ Crash(w) => UNCHANGED <<jobRow, rows>>
<1>1. ReadAccount(w) \/ RequestTooLate(w) => UNCHANGED <<jobRow, rows>>
  BY DEF ReadAccount, RequestTooLate
<1>2. ClaimMissed(w) \/ Refresh(w) \/ Crash(w) => UNCHANGED <<jobRow, rows>>
  BY DEF ClaimMissed, Refresh, Crash
<1>3. ASSUME NEW t \in Tenants, EraseTenant(w, t) \/ EraseTenantFails(w, t)
      PROVE  UNCHANGED <<jobRow, rows>>
  BY <1>3 DEF EraseTenant, EraseTenantFails
<1>4. BeginTeardown(w) \/ ReadProfile(w) \/ ListSubscriptions(w) => UNCHANGED <<jobRow, rows>>
  BY DEF BeginTeardown, ReadProfile, ListSubscriptions
<1>5. ASSUME NEW s \in Subscriptions, CancelSubscription(w, s) PROVE UNCHANGED <<jobRow, rows>>
  BY <1>5 DEF CancelSubscription
<1>6. StripeFails(w) \/ DeleteIdentity(w) => UNCHANGED <<jobRow, rows>>
  BY DEF StripeFails, DeleteIdentity
<1>7. DeleteIdentityFails(w) \/ CommitFails(w) => UNCHANGED <<jobRow, rows>>
  BY DEF DeleteIdentityFails, CommitFails
<1> QED
  BY <1>1, <1>2, <1>3, <1>4, <1>5, <1>6, <1>7

(* The steps that write in the database.                                   *)
LEMMA DatabaseWriters ==
  ASSUME [Next]_vars
  PROVE  \/ UNCHANGED <<jobRow, rows>>
         \/ \E w \in Workers :
              \/ SaveAccount(w)
              \/ RequestDeletion(w)
              \/ Claim(w)
              \/ RecordErasedTenant(w)
              \/ RecordForjdComplete(w)
              \/ PersistStripeCancellation(w)
              \/ CommitDeletion(w)
              \/ FailJob(w)
         \/ LeaseExpires
         \/ BackoffElapses
         \/ Revive
<1>1. CASE \E w \in Workers : ReadAccount(w) \/ Claim(w) \/ Progress(w) \/ Crash(w)
  BY <1>1, DatabaseReaders DEF Progress
<1>2. CASE Settled \/ UNCHANGED vars
  BY <1>2 DEF Settled, vars
<1> QED
  BY <1>1, <1>2 DEF Next

(* The only steps that write the job row.                                  *)
LEMMA JobWriters ==
  ASSUME [Next]_vars
  PROVE  \/ UNCHANGED jobRow
         \/ \E w \in Workers :
              \/ RequestDeletion(w)
              \/ Claim(w)
              \/ RecordErasedTenant(w)
              \/ RecordForjdComplete(w)
              \/ PersistStripeCancellation(w)
              \/ CommitDeletion(w)
              \/ FailJob(w)
         \/ LeaseExpires
         \/ BackoffElapses
         \/ Revive
  BY DatabaseWriters DEF SaveAccount

(* What the middleware's save changes: is_active, of a user that is there. *)
LEMMA SavedAccount ==
  ASSUME NEW w \in Workers, SaveAccount(w)
  PROVE  /\ UNCHANGED <<jobRow, keys, mapping, tenants, stripeIds, world, local, faults>>
         /\ user' \in {"active", "inactive", "deleted"}
         /\ user' = "deleted" <=> user = "deleted"
         /\ pc[w] \in {"read_active", "read_inactive"}
BY DEF SaveAccount

(* The only steps that write the account's rows.                           *)
LEMMA RowsWriters ==
  ASSUME [Next]_vars
  PROVE  \/ UNCHANGED rows
         \/ \E w \in Workers :
              \/ SaveAccount(w) \/ RequestDeletion(w)
              \/ PersistStripeCancellation(w) \/ CommitDeletion(w)
<1>1. ASSUME NEW w \in Workers, Claim(w) \/ FailJob(w) PROVE UNCHANGED rows
  BY <1>1 DEF Claim, FailJob
<1>2. ASSUME NEW w \in Workers, RecordErasedTenant(w) \/ RecordForjdComplete(w)
      PROVE  UNCHANGED rows
  BY <1>2 DEF RecordErasedTenant, RecordForjdComplete
<1>3. LeaseExpires \/ BackoffElapses \/ Revive => UNCHANGED rows
  BY DEF LeaseExpires, BackoffElapses, Revive
<1> QED
  BY <1>1, <1>2, <1>3, DatabaseWriters

(* The only steps with an effect outside the database.                     *)
LEMMA WorldWriters ==
  ASSUME [Next]_vars
  PROVE  \/ UNCHANGED world
         \/ \E w \in Workers :
              \/ \E t \in Tenants : EraseTenant(w, t) \/ EraseTenantFails(w, t)
              \/ \E s \in Subscriptions : CancelSubscription(w, s)
              \/ StripeFails(w)
              \/ DeleteIdentity(w)
              \/ DeleteIdentityFails(w)
<1>1. ASSUME NEW w \in Workers,
             ReadAccount(w) \/ SaveAccount(w) \/ RequestDeletion(w) \/ RequestTooLate(w) \/ Claim(w)
      PROVE  UNCHANGED world
  BY <1>1 DEF ReadAccount, SaveAccount, RequestDeletion, RequestTooLate, Claim
<1>2. ASSUME NEW w \in Workers,
             ClaimMissed(w) \/ Refresh(w) \/ RecordErasedTenant(w) \/ RecordForjdComplete(w)
      PROVE  UNCHANGED world
  BY <1>2 DEF ClaimMissed, Refresh, RecordErasedTenant, RecordForjdComplete
<1>3. ASSUME NEW w \in Workers, BeginTeardown(w) \/ ReadProfile(w) \/ ListSubscriptions(w)
      PROVE  UNCHANGED world
  BY <1>3 DEF BeginTeardown, ReadProfile, ListSubscriptions
<1>4. ASSUME NEW w \in Workers, PersistStripeCancellation(w) \/ CommitDeletion(w)
      PROVE  UNCHANGED world
  BY <1>4 DEF PersistStripeCancellation, CommitDeletion
<1>5. ASSUME NEW w \in Workers, CommitFails(w) \/ FailJob(w) \/ Crash(w)
      PROVE  UNCHANGED world
  BY <1>5 DEF CommitFails, FailJob, Crash
<1>6. LeaseExpires \/ BackoffElapses \/ Revive => UNCHANGED world
  BY DEF LeaseExpires, BackoffElapses, Revive
<1>7. Settled \/ UNCHANGED vars => UNCHANGED world
  BY DEF Settled, vars
<1> QED
  BY <1>1, <1>2, <1>3, <1>4, <1>5, <1>6, <1>7 DEF Next, Progress

-----------------------------------------------------------------------------
(* Type correctness, one lemma for each part of TypeOK.  A lemma has one   *)
(* step for each action that writes its part; the other actions leave the  *)
(* part unchanged.                                                         *)

(* The job row keeps its types.                                            *)
LEMMA JobTypeStep == ASSUME TypeOK, [Next]_vars PROVE JobTypeOK'
<1> USE DEF TypeOK
<1>1. ASSUME NEW w \in Workers, RequestDeletion(w) PROVE JobTypeOK'
  BY <1>1 DEF RequestDeletion, JobTypeOK, RowsTypeOK, JobStates, StepNames, AttemptCap
<1>2. ASSUME NEW w \in Workers, Claim(w) PROVE JobTypeOK'
  <2>1. attempts' \in 0 .. AttemptCap
    <3>1. attempts \in 0 .. AttemptCap BY DEF JobTypeOK
    <3>2. attempts' = IF attempts = AttemptCap THEN attempts ELSE attempts + 1
      BY <1>2 DEF Claim
    <3> QED BY <3>1, <3>2, MaxAttemptsAssumption DEF AttemptCap
  <2> QED BY <1>2, <2>1 DEF Claim, JobTypeOK, JobStates, StepNames, AttemptCap
<1>3. ASSUME NEW w \in Workers, RecordErasedTenant(w) PROVE JobTypeOK'
  BY <1>3 DEF RecordErasedTenant, JobTypeOK, LocalTypeOK, JobStates, StepNames, AttemptCap
<1>4. ASSUME NEW w \in Workers, RecordForjdComplete(w) PROVE JobTypeOK'
  BY <1>4 DEF RecordForjdComplete, JobTypeOK, JobStates, StepNames, AttemptCap
<1>5. ASSUME NEW w \in Workers, PersistStripeCancellation(w) PROVE JobTypeOK'
  BY <1>5 DEF PersistStripeCancellation, JobTypeOK, JobStates, StepNames, AttemptCap
<1>6. ASSUME NEW w \in Workers, CommitDeletion(w) PROVE JobTypeOK'
  BY <1>6 DEF CommitDeletion, JobTypeOK, LocalTypeOK, JobStates, StepNames, AttemptCap
<1>7. ASSUME NEW w \in Workers, FailJob(w) PROVE JobTypeOK'
  <2>1. CASE RecordFailure(FailureMessage(w))
    <3>1. /\ state' \in JobStates
          /\ token' \in Workers \cup {NoWorker}
          /\ leaseLive' \in BOOLEAN
          /\ error' \in {"", "in_progress", "erase_blocked", "teardown_failed"}
      BY <2>1 DEF RecordFailure, FailureMessage, JobStates
    <3>2. due' \in BOOLEAN BY <2>1 DEF RecordFailure
    <3>3. UNCHANGED <<attempts, targets, erased, steps>> BY <2>1 DEF RecordFailure
    <3> QED BY <3>1, <3>2, <3>3 DEF JobTypeOK, JobStates, StepNames, AttemptCap
  <2>2. CASE UNCHANGED jobRow
    BY <2>2 DEF jobRow, JobTypeOK, JobStates, StepNames, AttemptCap
  <2> QED BY <1>7, <2>1, <2>2 DEF FailJob
<1>8. CASE LeaseExpires
  BY <1>8 DEF LeaseExpires, JobTypeOK, JobStates, StepNames, AttemptCap
<1>9. CASE BackoffElapses
  BY <1>9 DEF BackoffElapses, JobTypeOK, JobStates, StepNames, AttemptCap
<1>10. CASE Revive
  <2>1. attempts' \in 0 .. AttemptCap
    <3>1. attempts' = 0 BY <1>10 DEF Revive
    <3> QED BY <3>1, MaxAttemptsAssumption DEF AttemptCap
  <2> QED BY <1>10, <2>1 DEF Revive, JobTypeOK, JobStates, StepNames, AttemptCap
<1>11. CASE UNCHANGED jobRow
  BY <1>11 DEF jobRow, JobTypeOK, JobStates, StepNames, AttemptCap
<1> QED
  BY <1>1, <1>2, <1>3, <1>4, <1>5, <1>6, <1>7, <1>8, <1>9, <1>10, <1>11, JobWriters

(* The account's rows keep their types.                                    *)
LEMMA RowsTypeStep == ASSUME TypeOK, [Next]_vars PROVE RowsTypeOK'
<1> USE DEF TypeOK, RowsTypeOK
<1>1. ASSUME NEW w \in Workers, RequestDeletion(w) PROVE RowsTypeOK'
  BY <1>1 DEF RequestDeletion, ApplyBarrier
<1>2. ASSUME NEW w \in Workers, PersistStripeCancellation(w) PROVE RowsTypeOK'
  BY <1>2 DEF PersistStripeCancellation
<1>3. ASSUME NEW w \in Workers, CommitDeletion(w) PROVE RowsTypeOK'
  BY <1>3 DEF CommitDeletion
<1>4. ASSUME NEW w \in Workers, SaveAccount(w) PROVE RowsTypeOK'
  BY <1>4, SavedAccount
<1>5. CASE UNCHANGED rows
  BY <1>5 DEF rows
<1> QED
  BY <1>1, <1>2, <1>3, <1>4, <1>5, RowsWriters

(* What the three services hold keeps its type.                            *)
LEMMA WorldTypeStep == ASSUME TypeOK, [Next]_vars PROVE WorldTypeOK'
<1> USE DEF TypeOK, WorldTypeOK
<1>1. ASSUME NEW w \in Workers, NEW t \in Tenants, EraseTenant(w, t) PROVE WorldTypeOK'
  BY <1>1 DEF EraseTenant
<1>2. ASSUME NEW w \in Workers, NEW t \in Tenants, EraseTenantFails(w, t)
      PROVE WorldTypeOK'
  BY <1>2 DEF EraseTenantFails
<1>3. ASSUME NEW w \in Workers, NEW s \in Subscriptions, CancelSubscription(w, s)
      PROVE WorldTypeOK'
  BY <1>3 DEF CancelSubscription
<1>4. ASSUME NEW w \in Workers, StripeFails(w) PROVE WorldTypeOK'
  BY <1>4 DEF StripeFails
<1>5. ASSUME NEW w \in Workers, DeleteIdentity(w) PROVE WorldTypeOK'
  BY <1>5 DEF DeleteIdentity
<1>6. ASSUME NEW w \in Workers, DeleteIdentityFails(w) PROVE WorldTypeOK'
  BY <1>6 DEF DeleteIdentityFails
<1>7. CASE UNCHANGED world
  BY <1>7 DEF world
<1> QED
  BY <1>1, <1>2, <1>3, <1>4, <1>5, <1>6, <1>7, WorldWriters

(* What the workers remember keeps its type.                               *)
LEMMA LocalTypeStep == ASSUME TypeOK, [Next]_vars PROVE LocalTypeOK'
<1> USE DEF TypeOK, LocalTypeOK
<1>1. ASSUME NEW w \in Workers, Return(w) PROVE LocalTypeOK'
  BY <1>1 DEF Return, StepNames
<1>2. ASSUME NEW w \in Workers, Refresh(w) PROVE LocalTypeOK'
  BY <1>2 DEF Refresh, JobTypeOK, StepNames
<1>3. ASSUME NEW w \in Workers, NEW t \in Tenants, EraseTenant(w, t) PROVE LocalTypeOK'
  BY <1>3 DEF EraseTenant, StepNames
<1>4. ASSUME NEW w \in Workers, RecordErasedTenant(w) PROVE LocalTypeOK'
  BY <1>1, <1>4 DEF RecordErasedTenant, StepNames
<1>5. ASSUME NEW w \in Workers, RecordForjdComplete(w) PROVE LocalTypeOK'
  BY <1>1, <1>5 DEF RecordForjdComplete, local, StepNames
<1>6. ASSUME NEW w \in Workers, BeginTeardown(w) PROVE LocalTypeOK'
  BY <1>6 DEF BeginTeardown, JobTypeOK, StepNames
<1>7. ASSUME NEW w \in Workers, ListSubscriptions(w) PROVE LocalTypeOK'
  BY <1>7 DEF ListSubscriptions, WorldTypeOK, StepNames
<1>8. ASSUME NEW w \in Workers, NEW s \in Subscriptions, CancelSubscription(w, s)
      PROVE LocalTypeOK'
  BY <1>8 DEF CancelSubscription, StepNames
<1>9. ASSUME NEW w \in Workers, PersistStripeCancellation(w) PROVE LocalTypeOK'
  <2>1. copy' \in [Workers -> SUBSET StepNames]
    BY <1>9 DEF PersistStripeCancellation, JobTypeOK, StepNames
  <2> QED BY <1>9, <2>1 DEF PersistStripeCancellation, StepNames
<1>10. ASSUME NEW w \in Workers, DeleteIdentity(w) PROVE LocalTypeOK'
  <2>1. copy' \in [Workers -> SUBSET StepNames]
    BY <1>10 DEF DeleteIdentity, StepNames
  <2> QED BY <1>10, <2>1 DEF DeleteIdentity, StepNames
<1>11. CASE UNCHANGED local
  BY <1>11 DEF local, StepNames
<1> QED
  BY <1>1, <1>2, <1>3, <1>4, <1>5, <1>6, <1>7, <1>8, <1>9, <1>10, <1>11
  DEF Next, Progress, Settled, vars, ReadAccount, SaveAccount, RequestDeletion, RequestTooLate,
      Claim, ClaimMissed, EraseTenantFails, ReadProfile, StripeFails,
      DeleteIdentityFails, CommitDeletion, CommitFails, FailJob, Crash, LeaseExpires,
      BackoffElapses, Revive

(* A worker stays inside the handler's steps.                              *)
PcTypeOK == pc \in [Workers -> Requesting \cup Executing]

LEMMA PcTypeStep == ASSUME TypeOK, [Next]_vars PROVE PcTypeOK'
<1> USE DEF TypeOK, PcTypeOK, Requesting, Executing, Erasing, TearingDown
<1>1. ASSUME NEW w \in Workers, Return(w) PROVE PcTypeOK'
  BY <1>1 DEF Return, Goto
<1>2. ASSUME NEW w \in Workers,
             \/ ReadAccount(w) \/ SaveAccount(w) \/ RequestDeletion(w) \/ Claim(w) \/ Refresh(w)
      PROVE PcTypeOK'
  BY <1>2 DEF ReadAccount, SaveAccount, RequestDeletion, Claim, Refresh, Goto
<1>3. ASSUME NEW w \in Workers, NEW t \in Tenants,
             EraseTenant(w, t) \/ EraseTenantFails(w, t)
      PROVE PcTypeOK'
  BY <1>3 DEF EraseTenant, EraseTenantFails, Goto
<1>4. ASSUME NEW w \in Workers, RecordErasedTenant(w) \/ RecordForjdComplete(w)
      PROVE PcTypeOK'
  BY <1>1, <1>4 DEF RecordErasedTenant, RecordForjdComplete, Goto
<1>5. ASSUME NEW w \in Workers, BeginTeardown(w) \/ ReadProfile(w) PROVE PcTypeOK'
  BY <1>5 DEF BeginTeardown, ReadProfile, Goto
<1>6. ASSUME NEW w \in Workers,
             \/ ListSubscriptions(w) \/ StripeFails(w) \/ PersistStripeCancellation(w)
      PROVE PcTypeOK'
  BY <1>6 DEF ListSubscriptions, StripeFails, PersistStripeCancellation, Goto
<1>7. ASSUME NEW w \in Workers,
             \/ DeleteIdentity(w) \/ DeleteIdentityFails(w) \/ CommitFails(w)
      PROVE PcTypeOK'
  BY <1>7 DEF DeleteIdentity, DeleteIdentityFails, CommitFails, Goto
<1>8. CASE UNCHANGED pc
  BY <1>8
<1> QED
  BY <1>1, <1>2, <1>3, <1>4, <1>5, <1>6, <1>7, <1>8
  DEF Next, Progress, Settled, vars, RequestTooLate, ClaimMissed, CancelSubscription,
      CommitDeletion, FailJob, Crash, LeaseExpires, BackoffElapses, Revive

(* Faults are counted up to the bound.                                     *)
LEMMA FaultsTypeStep == ASSUME TypeOK, [Next]_vars PROVE faults' \in 0 .. MaxFaults
<1>1. CASE Fault
  BY <1>1, MaxFaultsAssumption DEF Fault, TypeOK
<1>2. CASE UNCHANGED faults
  BY <1>2 DEF TypeOK
<1>3. ASSUME NEW w \in Workers,
             ReadAccount(w) \/ SaveAccount(w) \/ RequestDeletion(w) \/ RequestTooLate(w) \/ Claim(w)
      PROVE  UNCHANGED faults
  BY <1>3 DEF ReadAccount, SaveAccount, RequestDeletion, RequestTooLate, Claim
<1>4. ASSUME NEW w \in Workers,
             ClaimMissed(w) \/ Refresh(w) \/ RecordErasedTenant(w) \/ RecordForjdComplete(w)
      PROVE  UNCHANGED faults
  BY <1>4 DEF ClaimMissed, Refresh, RecordErasedTenant, RecordForjdComplete
<1>5. ASSUME NEW w \in Workers, NEW t \in Tenants,
             EraseTenant(w, t) \/ EraseTenantFails(w, t)
      PROVE  Fault \/ UNCHANGED faults
  BY <1>5 DEF EraseTenant, EraseTenantFails
<1>6. ASSUME NEW w \in Workers, BeginTeardown(w) \/ ReadProfile(w) \/ ListSubscriptions(w)
      PROVE  UNCHANGED faults
  BY <1>6 DEF BeginTeardown, ReadProfile, ListSubscriptions
<1>7. ASSUME NEW w \in Workers, NEW s \in Subscriptions, CancelSubscription(w, s)
      PROVE  UNCHANGED faults
  BY <1>7 DEF CancelSubscription
<1>8. ASSUME NEW w \in Workers,
             \/ StripeFails(w) \/ PersistStripeCancellation(w)
             \/ DeleteIdentity(w) \/ DeleteIdentityFails(w)
      PROVE  Fault \/ UNCHANGED faults
  BY <1>8 DEF StripeFails, PersistStripeCancellation, DeleteIdentity, DeleteIdentityFails
<1>9. ASSUME NEW w \in Workers,
             CommitDeletion(w) \/ CommitFails(w) \/ FailJob(w) \/ Crash(w)
      PROVE  Fault \/ UNCHANGED faults
  BY <1>9 DEF CommitDeletion, CommitFails, FailJob, Crash
<1>10. LeaseExpires \/ BackoffElapses \/ Revive => Fault \/ UNCHANGED faults
  BY DEF LeaseExpires, BackoffElapses, Revive
<1>11. Settled \/ UNCHANGED vars => UNCHANGED faults
  BY DEF Settled, vars
<1> QED
  BY <1>1, <1>2, <1>3, <1>4, <1>5, <1>6, <1>7, <1>8, <1>9, <1>10, <1>11 DEF Next, Progress

LEMMA InitTypeOK == Init => TypeOK
<1> SUFFICES ASSUME Init PROVE TypeOK OBVIOUS
<1>1. JobTypeOK
  <2>1. attempts \in 0 .. AttemptCap
    <3>1. attempts = 0 BY DEF Init
    <3> QED BY <3>1, MaxAttemptsAssumption DEF AttemptCap
  <2> QED BY <2>1 DEF Init, JobTypeOK, JobStates
<1>2. RowsTypeOK BY DEF Init, RowsTypeOK
<1>3. WorldTypeOK BY DEF Init, WorldTypeOK
<1>4. LocalTypeOK BY DEF Init, LocalTypeOK
<1>5. PcTypeOK BY DEF Init, PcTypeOK, Requesting
<1>6. faults \in 0 .. MaxFaults
  <2>1. faults = 0 BY DEF Init
  <2> QED BY <2>1, MaxFaultsAssumption
<1> QED BY <1>1, <1>2, <1>3, <1>4, <1>5, <1>6 DEF TypeOK, PcTypeOK

LEMMA NextTypeOK == TypeOK /\ [Next]_vars => TypeOK'
  BY JobTypeStep, RowsTypeStep, WorldTypeStep, LocalTypeStep, PcTypeStep, FaultsTypeStep
  DEF TypeOK, PcTypeOK, Executing, Erasing, TearingDown

(* Every reachable state is well typed: in particular attempts never       *)
(* passes max_attempts + 1 and every recorded tenant is a tenant.          *)
THEOREM TypeCorrect == Spec => []TypeOK
  BY InitTypeOK, NextTypeOK, PTL DEF Spec

-----------------------------------------------------------------------------
(* What single steps can do.                                               *)

(* What one worker does by itself.                                         *)
WorkerStep(w) == ReadAccount(w) \/ Claim(w) \/ Progress(w) \/ Crash(w)

(* A worker changes no place and no memory but its own.                    *)
LEMMA OnlyOwnPlace ==
  ASSUME TypeOK, NEW w \in Workers, WorkerStep(w), NEW v \in Workers, v # w
  PROVE  /\ pc'[v] = pc[v]
         /\ todo'[v] = todo[v]
         /\ done'[v] = done[v]
         /\ subs'[v] = subs[v]
         /\ copy'[v] = copy[v]
<1> USE DEF TypeOK, LocalTypeOK, Goto, Return, local
<1>1. ASSUME Progress(w) PROVE pc'[v] = pc[v]
  BY <1>1
  DEF Progress, SaveAccount, RequestDeletion, RequestTooLate, ClaimMissed, Refresh, EraseTenant,
      EraseTenantFails, RecordErasedTenant, RecordForjdComplete, BeginTeardown,
      ReadProfile, ListSubscriptions, CancelSubscription, StripeFails,
      PersistStripeCancellation, DeleteIdentity, DeleteIdentityFails,
      CommitDeletion, CommitFails, FailJob
<1>2. ASSUME Progress(w) PROVE todo'[v] = todo[v] /\ done'[v] = done[v]
  BY <1>2
  DEF Progress, SaveAccount, RequestDeletion, RequestTooLate, ClaimMissed, Refresh, EraseTenant,
      EraseTenantFails, RecordErasedTenant, RecordForjdComplete, BeginTeardown,
      ReadProfile, ListSubscriptions, CancelSubscription, StripeFails,
      PersistStripeCancellation, DeleteIdentity, DeleteIdentityFails,
      CommitDeletion, CommitFails, FailJob
<1>3. ASSUME Progress(w) PROVE subs'[v] = subs[v] /\ copy'[v] = copy[v]
  BY <1>3
  DEF Progress, SaveAccount, RequestDeletion, RequestTooLate, ClaimMissed, Refresh, EraseTenant,
      EraseTenantFails, RecordErasedTenant, RecordForjdComplete, BeginTeardown,
      ReadProfile, ListSubscriptions, CancelSubscription, StripeFails,
      PersistStripeCancellation, DeleteIdentity, DeleteIdentityFails,
      CommitDeletion, CommitFails, FailJob
<1> QED BY <1>1, <1>2, <1>3 DEF WorkerStep, ReadAccount, Claim, Crash

(* Manifest and evidence grow, the outside world shrinks, and a job row    *)
(* once created stays.                                                     *)
LEMMA OneWay ==
  ASSUME TypeOK, [Next]_vars
  PROVE  /\ targets \subseteq targets'
         /\ erased \subseteq erased'
         /\ forjd' \subseteq forjd
         /\ stripe' \subseteq stripe
         /\ firebase' => firebase
         /\ state # "absent" => state' # "absent"
<1>1. /\ targets \subseteq targets'
      /\ erased \subseteq erased'
  BY JobWriters
  DEF jobRow, RequestDeletion, Claim, RecordErasedTenant, RecordForjdComplete,
      PersistStripeCancellation, CommitDeletion, FailJob, RecordFailure, LeaseExpires,
      BackoffElapses, Revive
<1>2. state # "absent" => state' # "absent"
  BY JobWriters
  DEF jobRow, RequestDeletion, Claim, RecordErasedTenant, RecordForjdComplete,
      PersistStripeCancellation, CommitDeletion, FailJob, RecordFailure, LeaseExpires,
      BackoffElapses, Revive
<1>3. /\ forjd' \subseteq forjd
      /\ stripe' \subseteq stripe
  BY WorldWriters
  DEF world, EraseTenant, EraseTenantFails, CancelSubscription, StripeFails,
      DeleteIdentity, DeleteIdentityFails
<1>4. firebase' => firebase
  BY WorldWriters
  DEF TypeOK, WorldTypeOK, world, EraseTenant, EraseTenantFails, CancelSubscription,
      StripeFails, DeleteIdentity, DeleteIdentityFails
<1> QED BY <1>1, <1>2, <1>3, <1>4

(* Whoever holds the lease after a step of another worker held it before,  *)
(* and the other recorded nothing but, at most, the barrier.               *)
LEMMA LeaseIsExclusive ==
  ASSUME NEW w \in Workers, WorkerStep(w), NEW v \in Workers, v # w, Holds(v)'
  PROVE  Holds(v) /\ erased' = erased /\ steps' \subseteq steps \cup {"barrier"}
<1>1. CASE UNCHANGED jobRow
  BY <1>1 DEF jobRow, Holds
<1>2. CASE RequestDeletion(w)
  BY <1>2 DEF RequestDeletion, Holds
<1>3. CASE Claim(w)
  BY <1>3 DEF Claim, Holds
<1>4. CASE Holds(w) /\ UNCHANGED token
  BY <1>4 DEF Holds
<1>5. CASE CommitDeletion(w)
  BY <1>5 DEF CommitDeletion, Holds
<1>6. CASE \E message : RecordFailure(message)
  BY <1>6 DEF RecordFailure, Holds
<1> QED
  BY <1>1, <1>2, <1>3, <1>4, <1>5, <1>6
  DEF WorkerStep, Progress, jobRow, ReadAccount, SaveAccount, RequestTooLate, ClaimMissed, Refresh,
      EraseTenant, EraseTenantFails, RecordErasedTenant, RecordForjdComplete,
      BeginTeardown, ReadProfile, ListSubscriptions, CancelSubscription, StripeFails,
      PersistStripeCancellation, DeleteIdentity, DeleteIdentityFails, CommitFails,
      FailJob, Crash

(* Once the job exists its manifest does not change.                       *)
LEMMA ManifestOfExecution ==
  ASSUME ManifestFrozen, [Next]_vars, state # "absent"
  PROVE  UNCHANGED targets
<1>1. ASSUME NEW w \in Workers, RequestDeletion(w) PROVE UNCHANGED targets
  BY <1>1 DEF RequestDeletion, ManifestFrozen
<1> QED
  BY <1>1, JobWriters
  DEF jobRow, Claim, RecordErasedTenant, RecordForjdComplete, PersistStripeCancellation,
      CommitDeletion, FailJob, RecordFailure, LeaseExpires, BackoffElapses, Revive

-----------------------------------------------------------------------------
(* Erasure: one lemma for each part of ErasureInvariant.                   *)

LEMMA BeforeRequestStep ==
  ASSUME TypeOK, BeforeRequest, [Next]_vars PROVE BeforeRequest'
<1>1. CASE state # "absent"
  BY <1>1, OneWay DEF BeforeRequest
<1>2. CASE state = "absent"
  <2> USE <1>2 DEF BeforeRequest, TypeOK
  <2>1. ASSUME NEW w \in Workers, RequestDeletion(w) PROVE BeforeRequest'
    BY <2>1 DEF RequestDeletion
  <2> USE DEF Executing, Erasing, TearingDown
  <2>2. ASSUME NEW w \in Workers, ReadAccount(w) PROVE BeforeRequest'
    BY <2>2 DEF ReadAccount, Goto, jobRow, rows, world
  <2>7. ASSUME NEW w \in Workers, SaveAccount(w) PROVE BeforeRequest'
    BY <2>7 DEF SaveAccount, Goto, At, jobRow, world
  <2>3. ASSUME NEW w \in Workers, Return(w), UNCHANGED <<jobRow, rows, world>>
        PROVE BeforeRequest'
    BY <2>3 DEF Return, Goto, jobRow, rows, world
  <2>4. CASE UNCHANGED vars
    BY <2>4 DEF vars, jobRow, rows, world
  <2>5. ASSUME NEW w \in Workers
        PROVE pc[w] \in {"idle", "read_active", "authenticated", "requested"}
    BY <2>5 DEF Requesting
  <2>6. ASSUME NEW w \in Workers, Progress(w) PROVE BeforeRequest'
    BY <2>1, <2>3, <2>5, <2>6, <2>7
    DEF Progress, At, RequestTooLate, ClaimMissed, Refresh, EraseTenant,
        EraseTenantFails, RecordErasedTenant, RecordForjdComplete, BeginTeardown,
        ReadProfile, ListSubscriptions, CancelSubscription, StripeFails,
        PersistStripeCancellation, DeleteIdentity, DeleteIdentityFails, CommitDeletion,
        CommitFails, FailJob
  <2> QED
    BY <2>2, <2>3, <2>4, <2>6
    DEF Next, Claim, Claimable, Crash, Settled, LeaseExpires, BackoffElapses, Revive
<1> QED BY <1>1, <1>2

LEMMA ManifestFrozenStep ==
  ASSUME TypeOK, BeforeRequest, ManifestFrozen, [Next]_vars PROVE ManifestFrozen'
<1> USE DEF ManifestFrozen
<1>1. ASSUME NEW w \in Workers, RequestDeletion(w) PROVE ManifestFrozen'
  BY <1>1 DEF RequestDeletion, ApplyBarrier, BeforeRequest
<1>2. ASSUME NEW w \in Workers, CommitDeletion(w) PROVE ManifestFrozen'
  BY <1>2 DEF CommitDeletion
<1>3. CASE /\ UNCHANGED <<targets, tenants, user>>
           /\ state' # "absent" => state # "absent"
  BY <1>3
<1>4. ASSUME NEW w \in Workers, FailJob(w) PROVE ManifestFrozen'
  BY <1>3, <1>4 DEF FailJob, RecordFailure, Holds, jobRow, rows
<1>6. ASSUME NEW w \in Workers, SaveAccount(w) PROVE ManifestFrozen'
  BY <1>6, SavedAccount DEF jobRow
<1>5. CASE UNCHANGED jobRow
  BY <1>1, <1>2, <1>3, <1>5, <1>6, RowsWriters DEF jobRow, rows, PersistStripeCancellation
<1> QED
  BY <1>1, <1>2, <1>3, <1>4, <1>5, JobWriters
  DEF rows, Claim, Claimable, RecordErasedTenant, RecordForjdComplete,
      PersistStripeCancellation, LeaseExpires, BackoffElapses, Revive

LEMMA TodoInManifestStep ==
  ASSUME TypeOK, TodoInManifest, [Next]_vars PROVE TodoInManifest'
<1> USE DEF TypeOK, LocalTypeOK, TodoInManifest
<1>1. ASSUME NEW w \in Workers, RequestDeletion(w) PROVE TodoInManifest'
  BY <1>1 DEF RequestDeletion, local
<1>2. ASSUME NEW w \in Workers, Refresh(w) PROVE TodoInManifest'
  BY <1>2 DEF Refresh, jobRow
<1>3. ASSUME NEW w \in Workers, NEW t \in Tenants, EraseTenant(w, t) PROVE TodoInManifest'
  BY <1>3 DEF EraseTenant, jobRow
<1>4. ASSUME NEW w \in Workers, Return(w), UNCHANGED targets PROVE TodoInManifest'
  BY <1>4 DEF Return
<1>5. CASE UNCHANGED <<todo, targets>>
  BY <1>5
<1>6. ASSUME NEW w \in Workers,
             ReadAccount(w) \/ SaveAccount(w) \/ RequestTooLate(w) \/ Claim(w) \/ ClaimMissed(w)
      PROVE  TodoInManifest'
  BY <1>4, <1>5, <1>6 DEF ReadAccount, SaveAccount, RequestTooLate, Claim, ClaimMissed, jobRow, local
<1>7. ASSUME NEW w \in Workers, NEW t \in Tenants, EraseTenantFails(w, t)
      PROVE  TodoInManifest'
  BY <1>5, <1>7 DEF EraseTenantFails, jobRow, local
<1>8. ASSUME NEW w \in Workers, RecordErasedTenant(w) \/ RecordForjdComplete(w)
      PROVE  TodoInManifest'
  BY <1>4, <1>5, <1>8 DEF RecordErasedTenant, RecordForjdComplete, local
<1>9. ASSUME NEW w \in Workers, BeginTeardown(w) \/ ReadProfile(w) \/ ListSubscriptions(w)
      PROVE  TodoInManifest'
  BY <1>5, <1>9 DEF BeginTeardown, ReadProfile, ListSubscriptions, jobRow, local
<1>10. ASSUME NEW w \in Workers, NEW s \in Subscriptions, CancelSubscription(w, s)
       PROVE  TodoInManifest'
  BY <1>5, <1>10 DEF CancelSubscription, jobRow
<1>11. ASSUME NEW w \in Workers,
              \/ StripeFails(w) \/ PersistStripeCancellation(w)
              \/ DeleteIdentity(w) \/ DeleteIdentityFails(w) \/ CommitFails(w)
       PROVE  TodoInManifest'
  BY <1>5, <1>11 DEF StripeFails, PersistStripeCancellation, DeleteIdentity,
    DeleteIdentityFails, CommitFails, jobRow, local
<1>12. ASSUME NEW w \in Workers, CommitDeletion(w) \/ FailJob(w) \/ Crash(w)
       PROVE  TodoInManifest'
  BY <1>4, <1>12 DEF CommitDeletion, FailJob, RecordFailure, Crash, jobRow
<1>13. CASE LeaseExpires \/ BackoffElapses \/ Revive
  BY <1>5, <1>13 DEF LeaseExpires, BackoffElapses, Revive, local
<1>14. CASE Settled \/ UNCHANGED vars
  BY <1>5, <1>14 DEF Settled, vars, jobRow, local
<1> QED
  BY <1>1, <1>2, <1>3, <1>6, <1>7, <1>8, <1>9, <1>10, <1>11, <1>12, <1>13, <1>14
  DEF Next, Progress

LEMMA DoneIsTrueStep ==
  ASSUME TypeOK, TodoInManifest, DoneIsTrue, [Next]_vars PROVE DoneIsTrue'
<1> USE DEF TypeOK, LocalTypeOK, DoneIsTrue, At, Goto
<1>1. ASSUME NEW w \in Workers, NEW t \in Tenants, EraseTenant(w, t) PROVE DoneIsTrue'
  BY <1>1 DEF EraseTenant, TodoInManifest, jobRow
<1>2. ASSUME NEW w \in Workers, Return(w), UNCHANGED <<targets, forjd>> PROVE DoneIsTrue'
  BY <1>2 DEF Return
<1>3. ASSUME NEW w \in Workers, RecordErasedTenant(w) PROVE DoneIsTrue'
  BY <1>2, <1>3 DEF RecordErasedTenant, world
<1>4. ASSUME NEW w \in Workers, NEW t \in Tenants, EraseTenantFails(w, t) PROVE DoneIsTrue'
  BY <1>4 DEF EraseTenantFails, jobRow, local
<1>5. ASSUME NEW w \in Workers, ReadAccount(w) \/ SaveAccount(w) \/ RequestDeletion(w) \/ Claim(w) \/ Refresh(w) PROVE DoneIsTrue'
  BY <1>5 DEF ReadAccount, SaveAccount, RequestDeletion, Claim, Refresh, jobRow, world, local
<1>6. ASSUME NEW w \in Workers, RecordForjdComplete(w) PROVE DoneIsTrue'
  BY <1>2, <1>6 DEF RecordForjdComplete, world, local
<1>7. ASSUME NEW w \in Workers,
   BeginTeardown(w) \/ ReadProfile(w) \/ ListSubscriptions(w) \/ StripeFails(w) \/ PersistStripeCancellation(w) PROVE DoneIsTrue'
  BY <1>7
  DEF BeginTeardown, ReadProfile, ListSubscriptions, StripeFails,
      PersistStripeCancellation, jobRow, world, local
<1>8. ASSUME NEW w \in Workers,
   DeleteIdentity(w) \/ DeleteIdentityFails(w) \/ CommitFails(w) PROVE DoneIsTrue'
  BY <1>8 DEF DeleteIdentity, DeleteIdentityFails, CommitFails, jobRow, world, local
<1>9. CASE UNCHANGED <<done, pc, targets, forjd>>
  BY <1>9
<1> QED
  BY <1>1, <1>2, <1>3, <1>4, <1>5, <1>6, <1>7, <1>8, <1>9
  DEF Next, Progress, Settled, vars, jobRow, local, world, RequestTooLate,
      ClaimMissed, CancelSubscription, CommitDeletion, FailJob, RecordFailure,
      Crash, LeaseExpires, BackoffElapses, Revive

LEMMA NothingSkippedStep ==
  ASSUME TypeOK, BeforeRequest, ManifestFrozen, DoneIsTrue, NothingSkipped, [Next]_vars PROVE NothingSkipped'
<1> DEFINE Inv(w) ==
    /\ pc[w] \in Erasing => targets \ (todo[w] \cup done[w]) \subseteq erased
    /\ pc[w] \in TearingDown => targets \subseteq erased
<1> SUFFICES ASSUME NEW v \in Workers PROVE Inv(v)'
  BY DEF NothingSkipped
<1>1. Inv(v) BY DEF NothingSkipped
<1>2. pc[v] \in Executing => UNCHANGED targets
  BY ManifestOfExecution DEF BeforeRequest
<1>3. erased \subseteq erased'
  BY OneWay
<1>4. CASE pc'[v] = pc[v] /\ todo'[v] = todo[v] /\ done'[v] = done[v]
  BY <1>1, <1>2, <1>3, <1>4 DEF Executing, Erasing, TearingDown
<1>5. CASE pc'[v] \notin Erasing \cup TearingDown
  BY <1>5 DEF Erasing, TearingDown
<1>6. CASE pc[v] \in TearingDown /\ pc'[v] \in TearingDown
  BY <1>1, <1>2, <1>3, <1>6 DEF Executing, Erasing, TearingDown
<1>7. CASE Refresh(v)
  BY <1>7 DEF TypeOK, LocalTypeOK, Refresh, Goto, jobRow, Erasing, TearingDown
<1>8. ASSUME NEW t \in Tenants, EraseTenant(v, t) \/ EraseTenantFails(v, t) PROVE Inv(v)'
  BY <1>1, <1>8
  DEF TypeOK, LocalTypeOK, DoneIsTrue, EraseTenant, EraseTenantFails, At, Goto,
      jobRow, local, Erasing, TearingDown
<1>9. CASE RecordErasedTenant(v)
  BY <1>1, <1>5, <1>9
  DEF TypeOK, LocalTypeOK, RecordErasedTenant, Return, At, Goto, Erasing,
      TearingDown
<1>10. CASE RecordForjdComplete(v)
  BY <1>1, <1>5, <1>10
  DEF TypeOK, LocalTypeOK, DoneIsTrue, RecordForjdComplete, Return, At, Goto, local,
      Erasing, TearingDown
<1>11. CASE WorkerStep(v)
  <2>1. pc \in [Workers -> Requesting \cup Executing]
    BY DEF TypeOK
  <2>2. CASE \/ ReadAccount(v) \/ SaveAccount(v) \/ RequestDeletion(v) \/ RequestTooLate(v)
             \/ Claim(v) \/ ClaimMissed(v)
    BY <1>5, <2>1, <2>2 DEF ReadAccount, SaveAccount, RequestDeletion, RequestTooLate, Claim,
      ClaimMissed, Goto, Return, Erasing, TearingDown
  <2>3. CASE CommitDeletion(v) \/ FailJob(v) \/ Crash(v)
    BY <1>5, <2>1, <2>3 DEF CommitDeletion, FailJob, Crash, Goto, Return, Erasing,
      TearingDown
  <2>4. CASE BeginTeardown(v) \/ ReadProfile(v) \/ ListSubscriptions(v)
    BY <1>6, <2>1, <2>4 DEF BeginTeardown, ReadProfile, ListSubscriptions, At, Goto,
      TearingDown
  <2>5. ASSUME NEW s \in Subscriptions, CancelSubscription(v, s) PROVE Inv(v)'
    BY <1>4, <2>5 DEF CancelSubscription
  <2>6. CASE StripeFails(v) \/ PersistStripeCancellation(v)
    BY <1>6, <2>1, <2>6 DEF StripeFails, PersistStripeCancellation, At, Goto, TearingDown
  <2>7. CASE DeleteIdentity(v) \/ DeleteIdentityFails(v) \/ CommitFails(v)
    BY <1>6, <2>1, <2>7 DEF DeleteIdentity, DeleteIdentityFails, CommitFails, At, Goto,
      TearingDown
  <2> HIDE DEF Inv
  <2> QED
    BY <1>7, <1>8, <1>9, <1>10, <1>11, <2>2, <2>3, <2>4, <2>5, <2>6, <2>7
    DEF WorkerStep, Progress
<1>12. ASSUME NEW w \in Workers, w # v, WorkerStep(w) PROVE Inv(v)'
  BY <1>4, <1>12, OnlyOwnPlace
<1> QED
  BY <1>4, <1>11, <1>12
  DEF Next, WorkerStep, Settled, vars, local, LeaseExpires, BackoffElapses, Revive

LEMMA EvidenceStep ==
  ASSUME TypeOK, DoneIsTrue, EvidenceIsTrue, [Next]_vars PROVE EvidenceIsTrue'
<1>1. targets \subseteq targets' /\ forjd' \subseteq forjd
  BY OneWay
<1>2. ASSUME NEW w \in Workers, RecordErasedTenant(w) PROVE EvidenceIsTrue'
  BY <1>1, <1>2 DEF RecordErasedTenant, DoneIsTrue, EvidenceIsTrue
<1>3. CASE UNCHANGED erased
  BY <1>1, <1>3 DEF EvidenceIsTrue
<1> QED
  BY <1>2, <1>3, JobWriters
  DEF jobRow, RequestDeletion, Claim, RecordForjdComplete, PersistStripeCancellation,
      CommitDeletion, FailJob, RecordFailure, LeaseExpires, BackoffElapses, Revive

LEMMA DataIsMappedStep ==
  ASSUME TypeOK, BeforeRequest, DataIsMapped, [Next]_vars
  PROVE  DataIsMapped'
<1>1. forjd' \subseteq forjd /\ targets \subseteq targets'
  BY OneWay
<1>2. CASE state # "absent"
  BY <1>1, <1>2, OneWay DEF DataIsMapped
<1>3. CASE state = "absent"
  <2>1. ASSUME NEW w \in Workers, RequestDeletion(w) PROVE DataIsMapped'
    BY <1>3, <2>1 DEF RequestDeletion, ApplyBarrier, DataIsMapped, world
  <2>2. CASE UNCHANGED <<state, tenants>>
    BY <1>1, <1>3, <2>2 DEF DataIsMapped
  <2>3. CASE UNCHANGED jobRow
    BY <1>3, <2>1, <2>2, <2>3, RowsWriters, SavedAccount
    DEF jobRow, rows, PersistStripeCancellation, CommitDeletion, Holds
  <2>4. ASSUME NEW w \in Workers PROVE ~Holds(w) /\ pc[w] \notin Executing
    BY <1>3 DEF BeforeRequest, Holds
  <2>5. ASSUME NEW w \in Workers, FailJob(w) PROVE UNCHANGED jobRow
    BY <2>4, <2>5 DEF FailJob
  <2> QED
    BY <1>3, <2>1, <2>2, <2>3, <2>4, <2>5, JobWriters
    DEF rows, Claim, Claimable, RecordErasedTenant, RecordForjdComplete,
        PersistStripeCancellation, CommitDeletion, LeaseExpires, BackoffElapses, Revive
<1> QED BY <1>2, <1>3

LEMMA IdentityNeedsEvidenceStep ==
  ASSUME TypeOK, ErasureInvariant, [Next]_vars PROVE IdentityNeedsEvidence'
<1> USE DEF ErasureInvariant
<1>1. /\ state # "absent" => targets' = targets /\ state' # "absent"
      /\ erased \subseteq erased' /\ erased' \subseteq targets'
  BY OneWay, ManifestOfExecution, EvidenceStep DEF EvidenceIsTrue
<1>2. ASSUME NEW w \in Workers, pc[w] \in TearingDown
      PROVE  state # "absent" /\ targets = erased
  BY <1>2 DEF BeforeRequest, NothingSkipped, EvidenceIsTrue, Executing
<1>3. CASE ~firebase \/ user = "deleted" \/ \E w \in Workers : pc[w] \in TearingDown
  BY <1>1, <1>2, <1>3 DEF IdentityNeedsEvidence
<1>4. CASE UNCHANGED <<firebase, user>>
  BY <1>1, <1>4 DEF IdentityNeedsEvidence
<1>5. CASE UNCHANGED firebase /\ user' # "deleted"
  BY <1>1, <1>3, <1>5 DEF IdentityNeedsEvidence
<1>6. CASE UNCHANGED firebase
  BY <1>3, <1>4, <1>5, <1>6, RowsWriters, SavedAccount
  DEF rows, RequestDeletion, ApplyBarrier, PersistStripeCancellation, CommitDeletion, At,
      TearingDown
<1> QED
  BY <1>3, <1>6, WorldWriters
  DEF world, EraseTenant, EraseTenantFails, CancelSubscription, StripeFails,
      DeleteIdentity, DeleteIdentityFails, At, TearingDown

LEMMA ErasureStep ==
  ASSUME TypeOK, ErasureInvariant, [Next]_vars PROVE ErasureInvariant'
  BY BeforeRequestStep, ManifestFrozenStep, TodoInManifestStep, DoneIsTrueStep,
     NothingSkippedStep, EvidenceStep, DataIsMappedStep, IdentityNeedsEvidenceStep
  DEF ErasureInvariant

-----------------------------------------------------------------------------
(* Billing.                                                                *)

LEMMA BillingStep ==
  ASSUME TypeOK, BillingInvariant, [Next]_vars PROVE BillingInvariant'
<1> DEFINE Inv(w) ==
       /\ At(w, "cancel_subscriptions") => stripe \subseteq subs[w]
       /\ pc[w] \in {"delete_identity", "commit"} => stripe = {}
<1> USE DEF TypeOK, LocalTypeOK
<1>1. ASSUME NEW v \in Workers PROVE Inv(v)'
  <2> USE DEF Goto, At
  <2>1. Inv(v) /\ stripe' \subseteq stripe BY OneWay DEF BillingInvariant
  <2>2. CASE pc'[v] = pc[v] /\ subs'[v] = subs[v] BY <2>1, <2>2
  <2>3. CASE pc'[v] \notin {"cancel_subscriptions", "delete_identity", "commit"} BY <2>3
  <2>4. CASE ReadProfile(v)
     BY <2>1, <2>4 DEF ReadProfile, world, BillingInvariant, NoOrphanBilling
  <2>5. CASE ListSubscriptions(v)
     BY <2>5 DEF ListSubscriptions, world
  <2>6. ASSUME NEW s \in Subscriptions, CancelSubscription(v, s) PROVE Inv(v)'
     BY <2>1, <2>6 DEF CancelSubscription
  <2>7. CASE PersistStripeCancellation(v)
     BY <2>1, <2>7 DEF PersistStripeCancellation, world
  <2>8. CASE DeleteIdentity(v)
     BY <2>1, <2>8 DEF DeleteIdentity
  <2>9. CASE WorkerStep(v)
    <3>1. CASE Progress(v)
      BY <2>3, <2>4, <2>5, <2>6, <2>7, <2>8, <3>1
      DEF Progress, Return, SaveAccount, RequestDeletion, RequestTooLate, ClaimMissed,
          Refresh, EraseTenant, EraseTenantFails, RecordErasedTenant, RecordForjdComplete,
          BeginTeardown, StripeFails, DeleteIdentityFails, CommitDeletion,
          CommitFails, FailJob
    <3> QED BY <2>3, <2>9, <3>1 DEF WorkerStep, ReadAccount, Claim, Crash, Return
  <2>10. ASSUME NEW w \in Workers, w # v, WorkerStep(w) PROVE Inv(v)'
    BY <2>2, <2>10, OnlyOwnPlace
  <2> QED
    BY <2>2, <2>9, <2>10
    DEF Next, WorkerStep, Settled, vars, local, LeaseExpires, BackoffElapses, Revive
<1>2. NoOrphanBilling'
  <2>1. stripe' \subseteq stripe BY OneWay
  <2>2. CASE UNCHANGED <<stripeIds, firebase>>
    BY <2>1, <2>2 DEF BillingInvariant, NoOrphanBilling
  <2>3. ASSUME NEW w \in Workers, pc[w] \in {"delete_identity", "commit"} PROVE NoOrphanBilling'
    BY <2>1, <2>3 DEF BillingInvariant, NoOrphanBilling
  <2>4. ASSUME NEW w \in Workers, PersistStripeCancellation(w) PROVE NoOrphanBilling'
    BY <2>2, <2>4
    DEF PersistStripeCancellation, BillingInvariant, NoOrphanBilling, world
  <2>5. CASE UNCHANGED firebase
    BY <2>2, <2>3, <2>4, <2>5, RowsWriters, SavedAccount
    DEF rows, At, RequestDeletion, ApplyBarrier, CommitDeletion
  <2> QED
    BY <2>3, <2>5, WorldWriters
    DEF world, At, EraseTenant, EraseTenantFails, CancelSubscription, StripeFails,
        DeleteIdentity, DeleteIdentityFails
<1> QED BY <1>1, <1>2 DEF BillingInvariant

-----------------------------------------------------------------------------
(* The receipt.                                                            *)

LEMMA UserGoneStep ==
  ASSUME UserGoneIffCompleted, [Next]_vars PROVE UserGoneIffCompleted'
<1> USE DEF UserGoneIffCompleted
<1>1. ASSUME NEW w \in Workers, RequestDeletion(w) PROVE UserGoneIffCompleted'
  BY <1>1 DEF RequestDeletion, ApplyBarrier
<1>2. ASSUME NEW w \in Workers, CommitDeletion(w) PROVE UserGoneIffCompleted'
  BY <1>2 DEF CommitDeletion
<1>3. ASSUME NEW w \in Workers, FailJob(w) PROVE UserGoneIffCompleted'
  BY <1>3 DEF FailJob, RecordFailure, Holds, jobRow, rows
<1>4. ASSUME NEW w \in Workers, Claim(w) PROVE UserGoneIffCompleted'
  BY <1>4 DEF Claim, Claimable, rows
<1>5. CASE Revive
  BY <1>5 DEF Revive, rows
<1>6. CASE UNCHANGED <<user, state>>
  BY <1>6
<1>7. CASE UNCHANGED jobRow
  BY <1>1, <1>2, <1>6, <1>7, RowsWriters, SavedAccount
  DEF jobRow, rows, PersistStripeCancellation
<1> QED
  BY <1>1, <1>2, <1>3, <1>4, <1>5, <1>6, <1>7, JobWriters
  DEF rows, RecordErasedTenant, RecordForjdComplete, PersistStripeCancellation,
      LeaseExpires, BackoffElapses

(* No step touches the row of a completed job.                             *)
LEMMA CompletedRowStays ==
  ASSUME UserGoneIffCompleted, state = "completed", [Next]_vars
  PROVE  UNCHANGED jobRow
<1>1. user = "deleted"
  BY DEF UserGoneIffCompleted
<1> QED
  BY <1>1, JobWriters
  DEF jobRow, Holds, Claimable, RequestDeletion, Claim, RecordErasedTenant,
      RecordForjdComplete, PersistStripeCancellation, CommitDeletion, FailJob,
      LeaseExpires, BackoffElapses, Revive

(* The steps only grow, although CommitDeletion overwrites them by a       *)
(* copy.                                                                   *)
LEMMA StepsGrow ==
  ASSUME TypeOK, StepsRecorded, [Next]_vars
  PROVE  steps \subseteq steps'
<1>1. ASSUME NEW w \in Workers, CommitDeletion(w) PROVE steps \subseteq steps'
  BY <1>1 DEF CommitDeletion, StepsRecorded, WithCopy, TearingDown, At
<1> QED
  BY <1>1, JobWriters
  DEF jobRow, RequestDeletion, Claim, RecordErasedTenant, RecordForjdComplete,
      PersistStripeCancellation, FailJob, RecordFailure, LeaseExpires, BackoffElapses,
      Revive

LEMMA StepsRecordedStep ==
  ASSUME TypeOK, BeforeRequest, StepsRecorded, UserGoneIffCompleted, [Next]_vars PROVE StepsRecorded'
<1> DEFINE Inv(w) ==
       /\ pc[w] \in TearingDown => "forjd_erased" \in steps
       /\ pc[w] \in WithCopy => {"barrier", "forjd_erased"} \subseteq copy[w]
       /\ pc[w] \in WithCopy /\ Holds(w) => steps \subseteq copy[w]
       /\ At(w, "commit") => "firebase_deleted" \in copy[w] /\ ~firebase
<1>1. state' # "absent" => "barrier" \in steps'
  <2>1. CASE state # "absent" BY <2>1, StepsGrow DEF StepsRecorded
  <2>2. ASSUME NEW w \in Workers, RequestDeletion(w) PROVE "barrier" \in steps'
    BY <2>2 DEF RequestDeletion
  <2>3. CASE state = "absent" /\ state' # "absent"
    <3>1. ASSUME NEW w \in Workers PROVE ~Holds(w)
      BY <2>3 DEF Holds
    <3> QED
      BY <2>2, <2>3, <3>1, JobWriters
      DEF jobRow, Claim, Claimable, RecordErasedTenant, RecordForjdComplete,
          PersistStripeCancellation, CommitDeletion, FailJob, LeaseExpires,
          BackoffElapses, Revive
  <2> QED BY <2>1, <2>3
<1>2. ASSUME NEW v \in Workers PROVE Inv(v)'
  <2> USE DEF Goto, At, TypeOK, LocalTypeOK
  <2>1. Inv(v) /\ steps \subseteq steps' /\ (firebase' => firebase)
    BY StepsGrow, OneWay DEF StepsRecorded
  <2>2. pc[v] \in Executing => state # "absent"
    BY DEF BeforeRequest
  <2>3. CASE pc'[v] \notin TearingDown
    BY <2>3 DEF WithCopy, TearingDown
  <2>4. CASE /\ pc'[v] \in WithCopy \ {"commit"} /\ pc[v] \in WithCopy
             /\ copy'[v] = copy[v] /\ UNCHANGED jobRow
    BY <2>1, <2>4 DEF WithCopy, TearingDown, Holds, jobRow
  <2>5. CASE RecordForjdComplete(v)
    BY <2>3, <2>5 DEF RecordForjdComplete, Return, WithCopy, TearingDown
  <2>6. CASE BeginTeardown(v)
    BY <2>1, <2>2, <2>6
    DEF BeginTeardown, WithCopy, TearingDown, Executing, StepsRecorded, jobRow
  <2>7. CASE PersistStripeCancellation(v)
    <3>1. CASE Holds(v)
      <4>1. pc' = [pc EXCEPT ![v] = "delete_identity"] /\ copy'[v] = steps \cup {"stripe_canceled"} /\ steps' = steps \cup {"stripe_canceled"}
        BY <2>7, <3>1 DEF PersistStripeCancellation, JobTypeOK
      <4>2. pc[v] \in TearingDown
        BY <2>7 DEF PersistStripeCancellation, TearingDown
      <4>3. {"barrier", "forjd_erased"} \subseteq steps
        BY <2>1, <2>2, <4>2 DEF Executing, StepsRecorded
      <4> QED BY <4>1, <4>3 DEF WithCopy, TearingDown
    <3>2. CASE ~Holds(v)
      BY <2>1, <2>7, <3>2
      DEF PersistStripeCancellation, WithCopy, TearingDown, Holds
    <3> QED BY <3>1, <3>2
  <2>8. CASE DeleteIdentity(v)
    BY <2>1, <2>8 DEF DeleteIdentity, WithCopy, TearingDown, Holds, jobRow
  <2>9. CASE WorkerStep(v)
    <3>1. CASE Progress(v)
      BY <2>3, <2>4, <2>5, <2>6, <2>7, <2>8, <3>1
      DEF Progress, Return, local, WithCopy, TearingDown, SaveAccount, RequestDeletion,
          RequestTooLate, ClaimMissed, Refresh, EraseTenant, EraseTenantFails,
          RecordErasedTenant, ReadProfile, ListSubscriptions, CancelSubscription,
          StripeFails, DeleteIdentityFails, CommitDeletion, CommitFails, FailJob
    <3> QED
      BY <2>3, <2>9, <3>1
      DEF WorkerStep, ReadAccount, Claim, Crash, Return, TearingDown
  <2>10. ASSUME NEW w \in Workers, w # v, WorkerStep(w) PROVE Inv(v)'
    <3>1. pc'[v] = pc[v] /\ copy'[v] = copy[v]
      BY <2>10, OnlyOwnPlace
    <3>2. CASE pc[v] \in TearingDown
      <4>1. Holds(v)' => Holds(v) /\ steps' = steps
        BY <2>1, <2>2, <2>10, <3>2, LeaseIsExclusive DEF Executing, StepsRecorded
      <4> QED BY <2>1, <3>1, <4>1 DEF WithCopy
    <3> QED BY <2>3, <3>1, <3>2
  <2>11. CASE UNCHANGED <<pc, copy, steps>> /\ (Holds(v)' => Holds(v))
    BY <2>1, <2>11 DEF WithCopy, TearingDown
  <2> QED
    BY <2>9, <2>10, <2>11
    DEF Next, WorkerStep, Settled, Holds, vars, jobRow, local, LeaseExpires,
        BackoffElapses, Revive
<1> QED BY <1>1, <1>2 DEF StepsRecorded

LEMMA CompletedReceiptStep ==
  ASSUME TypeOK, ErasureInvariant, ReceiptInvariant, [Next]_vars PROVE CompletedReceipt'
<1> USE DEF ReceiptInvariant, CompletedReceipt
<1>1. ASSUME NEW w \in Workers, CommitDeletion(w) PROVE CompletedReceipt'
  <2>1. erased' = targets'
    BY <1>1
    DEF CommitDeletion, At, TearingDown, ErasureInvariant, NothingSkipped,
        EvidenceIsTrue
  <2>2. {"barrier", "forjd_erased", "firebase_deleted"} \subseteq steps'
    BY <1>1 DEF CommitDeletion, At, TearingDown, WithCopy, StepsRecorded
  <2>3. tenants' = {} /\ ~firebase'
    BY <1>1 DEF CommitDeletion, At, StepsRecorded, world
  <2> QED BY <2>1, <2>2, <2>3
<1>2. CASE state = "completed"
  <2>1. user = "deleted" BY <1>2 DEF UserGoneIffCompleted
  <2>2. UNCHANGED jobRow
    BY <1>2, CompletedRowStays
  <2>3. UNCHANGED tenants
    BY <1>2, <2>1, RowsWriters, SavedAccount
    DEF Holds, rows, RequestDeletion, PersistStripeCancellation, CommitDeletion
  <2>4. firebase' => firebase
    BY OneWay
  <2> QED BY <1>2, <2>2, <2>3, <2>4 DEF jobRow
<1>3. CASE state' # "completed"
  BY <1>3
<1> QED
  BY <1>1, <1>2, <1>3, JobWriters
  DEF jobRow, RequestDeletion, Claim, RecordErasedTenant, RecordForjdComplete,
      PersistStripeCancellation, FailJob, RecordFailure, LeaseExpires, BackoffElapses,
      Revive

-----------------------------------------------------------------------------
(* The blocker message.                                                    *)

LEMMA WorkIsAheadStep ==
  ASSUME TypeOK, DoneIsTrue, WorkIsAhead, [Next]_vars PROVE WorkIsAhead'
<1> DEFINE Inv(w) ==
    /\ Holds(w) /\ pc[w] \in Erasing => todo[w] \cap erased = {}
    /\ At(w, "record_erased") => todo[w] \cap done[w] = {}
    /\ At(w, "erase_failed") => todo[w] # {}
<1> SUFFICES ASSUME NEW v \in Workers PROVE Inv(v)'
  BY DEF WorkIsAhead
<1> USE DEF Goto, At, TypeOK, LocalTypeOK
<1>1. Inv(v) BY DEF WorkIsAhead
<1>2. CASE pc'[v] \notin Erasing
  BY <1>2 DEF Erasing
<1>3. CASE Refresh(v)
  BY <1>3 DEF Refresh, Erasing, jobRow
<1>4. ASSUME NEW t \in Tenants, EraseTenant(v, t) PROVE Inv(v)'
  BY <1>1, <1>4 DEF EraseTenant, Erasing, Holds, jobRow
<1>5. ASSUME NEW t \in Tenants, EraseTenantFails(v, t) PROVE Inv(v)'
  BY <1>1, <1>5 DEF EraseTenantFails, Erasing, Holds, jobRow, local
<1>6. CASE RecordErasedTenant(v)
  BY <1>1, <1>2, <1>6 DEF RecordErasedTenant, Return, Erasing, Holds
<1>7. CASE WorkerStep(v)
  <2>1. CASE Progress(v)
    BY <1>2, <1>3, <1>4, <1>5, <1>6, <2>1
    DEF Progress, Return, Erasing, SaveAccount, RequestDeletion, RequestTooLate, ClaimMissed,
        RecordForjdComplete, BeginTeardown, ReadProfile, ListSubscriptions,
        CancelSubscription, StripeFails, PersistStripeCancellation, DeleteIdentity,
        DeleteIdentityFails, CommitDeletion, CommitFails, FailJob
  <2> QED
    BY <1>2, <1>7, <2>1 DEF WorkerStep, ReadAccount, Claim, Crash, Return, Erasing
<1>8. ASSUME NEW w \in Workers, w # v, WorkerStep(w) PROVE Inv(v)'
  <2>1. pc'[v] = pc[v] /\ todo'[v] = todo[v] /\ done'[v] = done[v]
    BY <1>8, OnlyOwnPlace
  <2>2. Holds(v)' => Holds(v) /\ erased' = erased
    BY <1>8, LeaseIsExclusive
  <2> QED BY <1>1, <2>1, <2>2
<1>9. CASE UNCHANGED <<pc, todo, done, erased>> /\ (Holds(v)' => Holds(v))
  BY <1>1, <1>9
<1> QED
  BY <1>7, <1>8, <1>9
  DEF Next, WorkerStep, Settled, Holds, vars, jobRow, local, LeaseExpires,
      BackoffElapses, Revive

LEMMA BlockerStep ==
  ASSUME TypeOK, ErasureInvariant, BlockerInvariant, [Next]_vars PROVE BlockerInvariant'
<1> USE DEF BlockerInvariant
<1>1. WorkIsAhead' BY WorkIsAheadStep DEF ErasureInvariant
<1>2. BlockerStands'
  <2> USE DEF BlockerStands
  <2>1. ASSUME NEW w \in Workers, FailJob(w) PROVE BlockerStands'
    <3>1. CASE UNCHANGED jobRow
      BY <3>1 DEF jobRow
    <3>2. CASE Holds(w) /\ At(w, "erase_failed") /\ RecordFailure(FailureMessage(w))
      <4>1. todo[w] \subseteq targets /\ todo[w] # {} /\ todo[w] \cap erased = {}
        BY <3>2 DEF WorkIsAhead, ErasureInvariant, TodoInManifest, At, Erasing
      <4> QED BY <3>2, <4>1 DEF RecordFailure
    <3>3. CASE At(w, "teardown_failed") /\ RecordFailure(FailureMessage(w))
      BY <3>3 DEF RecordFailure, FailureMessage, At
    <3> QED BY <2>1, <3>1, <3>2, <3>3 DEF FailJob, At
  <2>2. CASE error' = error /\ state' = state /\ erased' = erased /\ (state # "absent" => targets' = targets)
    BY <2>2
  <2>3. CASE error' # "erase_blocked"
    BY <2>3
  <2>4. ASSUME NEW w \in Workers, Holds(w), error' = error PROVE BlockerStands'
    BY <2>4 DEF Holds
  <2>5. state # "absent" => targets' = targets
    BY ManifestOfExecution DEF ErasureInvariant
  <2>6. ASSUME NEW w \in Workers, RequestDeletion(w) PROVE BlockerStands'
    BY <2>2, <2>5, <2>6 DEF RequestDeletion
  <2> QED
    BY <2>1, <2>2, <2>3, <2>4, <2>5, <2>6, JobWriters
    DEF jobRow, Claim, RecordErasedTenant, RecordForjdComplete, PersistStripeCancellation,
        CommitDeletion, LeaseExpires, BackoffElapses, Revive
<1>3. BlockerIsHonest'
  BY <1>2, IdentityNeedsEvidenceStep
  DEF BlockerStands, IdentityNeedsEvidence, BlockerIsHonest
<1> QED BY <1>1, <1>2, <1>3

-----------------------------------------------------------------------------
(* The inductive invariant.                                                *)

LEMMA InitIInv == Init => IInv
<1> SUFFICES ASSUME Init PROVE IInv
  OBVIOUS
<1>1. ErasureInvariant
  BY DEF Init, ErasureInvariant, BeforeRequest, ManifestFrozen, TodoInManifest, DoneIsTrue,
         NothingSkipped, EvidenceIsTrue, DataIsMapped, IdentityNeedsEvidence, Executing,
         Erasing, TearingDown
<1>2. BillingInvariant
  BY DEF Init, BillingInvariant, NoOrphanBilling, At
<1>3. ReceiptInvariant
  BY DEF Init, ReceiptInvariant, StepsRecorded, UserGoneIffCompleted, CompletedReceipt,
         At, WithCopy, TearingDown
<1>4. BlockerInvariant
  BY DEF Init, BlockerInvariant, WorkIsAhead, BlockerStands, BlockerIsHonest, At, Holds
<1> QED
  BY <1>1, <1>2, <1>3, <1>4, InitTypeOK DEF IInv

LEMMA NextIInv == IInv /\ [Next]_vars => IInv'
<1> SUFFICES ASSUME IInv, [Next]_vars PROVE IInv'
  OBVIOUS
<1>1. TypeOK'
  BY NextTypeOK DEF IInv
<1>2. ErasureInvariant'
  BY ErasureStep DEF IInv
<1>3. BillingInvariant'
  BY BillingStep DEF IInv
<1>4. ReceiptInvariant'
  BY UserGoneStep, StepsRecordedStep, CompletedReceiptStep
  DEF IInv, ReceiptInvariant, ErasureInvariant
<1>5. BlockerInvariant'
  BY BlockerStep DEF IInv
<1> QED
  BY <1>1, <1>2, <1>3, <1>4, <1>5 DEF IInv

(* IInv is an invariant.                                                   *)
THEOREM InductiveInvariant == Spec => []IInv
  BY InitIInv, NextIInv, PTL DEF Spec

-----------------------------------------------------------------------------
(* The safety properties.                                                  *)

(* UC-AUTH-006: identity is deleted only after every manifest tenant's     *)
(* data is gone from FORJD.                                                *)
THEOREM EraseFirst == Spec => []EraseBeforeIdentity
<1>1. IInv => EraseBeforeIdentity
  BY DEF IInv, ErasureInvariant, EvidenceIsTrue, IdentityNeedsEvidence, EraseBeforeIdentity
<1> QED BY <1>1, InductiveInvariant, PTL

(* forjd_erased_tenant_ids lists only tenants FORJD has really erased.     *)
THEOREM EvidenceHolds == Spec => []EvidenceIsTrue
<1>1. IInv => EvidenceIsTrue
  BY DEF IInv, ErasureInvariant
<1> QED BY <1>1, InductiveInvariant, PTL

(* No subscription outlives the identifiers needed to cancel it.           *)
THEOREM BillingStops == Spec => []NoOrphanBilling
<1>1. IInv => NoOrphanBilling
  BY DEF IInv, BillingInvariant
<1> QED BY <1>1, InductiveInvariant, PTL

(* A completed job is a complete receipt.                                  *)
THEOREM ReceiptIsComplete == Spec => []CompletedReceipt
<1>1. IInv => CompletedReceipt
  BY DEF IInv, ReceiptInvariant
<1> QED BY <1>1, InductiveInvariant, PTL

(* The user is gone exactly when the job is completed.                     *)
THEOREM IdentityAndReceiptAgree == Spec => []UserGoneIffCompleted
<1>1. IInv => UserGoneIffCompleted
  BY DEF IInv, ReceiptInvariant
<1> QED BY <1>1, InductiveInvariant, PTL

(* The erase blocker message tells the truth.                              *)
THEOREM BlockerHonest == Spec => []BlockerIsHonest
<1>1. IInv => BlockerIsHonest
  BY DEF IInv, BlockerInvariant
<1> QED BY <1>1, InductiveInvariant, PTL

-----------------------------------------------------------------------------
(* The action properties.                                                  *)

(* A worker that lost its lease writes nothing to the database.            *)
THEOREM StaleWorkersAreFenced == Spec => StaleWorkerWritesNothing
<1> DEFINE Fenced(w) == pc[w] \in Executing /\ ~Holds(w) /\ pc'[w] # pc[w]
                          => UNCHANGED <<jobRow, rows>>
<1>1. ASSUME TypeOK, [Next]_vars, NEW w \in Workers PROVE Fenced(w)
  <2> SUFFICES ASSUME pc[w] \in Executing, ~Holds(w), pc'[w] # pc[w]
               PROVE  UNCHANGED <<jobRow, rows>>
    OBVIOUS
  <2>1. WorkerStep(w)
    BY <1>1, OnlyOwnPlace
    DEF Next, WorkerStep, Settled, vars, LeaseExpires, BackoffElapses, Revive
  <2>2. pc[w] \notin Requesting
    BY DEF Requesting, Executing, Erasing, TearingDown
  <2> QED
    BY <2>1, <2>2
    DEF WorkerStep, At, Requesting, Progress, jobRow, rows, ReadAccount, SaveAccount, RequestDeletion,
        RequestTooLate, Claim, ClaimMissed, Refresh, EraseTenant, EraseTenantFails,
        RecordErasedTenant, RecordForjdComplete, BeginTeardown, ReadProfile,
        ListSubscriptions, CancelSubscription, StripeFails, PersistStripeCancellation,
        DeleteIdentity, DeleteIdentityFails, CommitDeletion, CommitFails, FailJob, Crash
<1>2. TypeOK /\ [Next]_vars
        => [\A w \in Workers : pc[w] \in Executing /\ ~Holds(w) /\ pc'[w] # pc[w]
                                 => UNCHANGED <<jobRow, rows>>]_vars
  BY <1>1
<1> QED BY <1>2, TypeCorrect, PTL DEF Spec, StaleWorkerWritesNothing

(* The receipt only grows.                                                 *)
THEOREM ReceiptOnlyGrows == Spec => ReceiptGrows
<1>1. IInv /\ [Next]_vars
        => [/\ targets \subseteq targets'
            /\ erased \subseteq erased'
            /\ steps \subseteq steps']_vars
  BY OneWay, StepsGrow DEF IInv, ReceiptInvariant
<1> QED BY <1>1, InductiveInvariant, PTL DEF Spec, ReceiptGrows

(* A completed job is never touched again.                                 *)
THEOREM CompletedStays == Spec => CompletedIsFinal
<1>1. IInv /\ [Next]_vars => [state = "completed" => UNCHANGED jobRow]_vars
  BY CompletedRowStays DEF IInv, ReceiptInvariant
<1> QED BY <1>1, InductiveInvariant, PTL DEF Spec, CompletedIsFinal

-----------------------------------------------------------------------------
(* The refinement of DeletionSaga.                                         *)

(* A worker past the manifest knows that FORJD holds nothing any more.     *)
LEMMA TeardownFindsNoData ==
  ASSUME IInv, NEW w \in Workers, pc[w] \in TearingDown
  PROVE  forjd = {} /\ state # "absent"
  BY DEF IInv, ErasureInvariant, BeforeRequest, NothingSkipped, EvidenceIsTrue,
         DataIsMapped, Executing

(* Once the user is gone nothing is left outside.                          *)
LEMMA GoneFindsNothing ==
  ASSUME IInv, user = "deleted"
  PROVE  forjd = {} /\ stripe = {} /\ ~firebase
<1>1. state = "completed" /\ ~firebase
  BY DEF IInv, ReceiptInvariant, UserGoneIffCompleted, CompletedReceipt
<1>2. forjd = {}
  BY <1>1 DEF IInv, ErasureInvariant, EvidenceIsTrue, DataIsMapped, IdentityNeedsEvidence
<1>3. stripe = {}
  BY <1>1 DEF IInv, BillingInvariant, NoOrphanBilling
<1> QED BY <1>1, <1>2, <1>3

LEMMA SagaInit == Init => Saga!Init
  BY DEF Init, Saga!Init

LEMMA SagaSteps == IInv /\ [Next]_vars => [Saga!Next]_Saga!vars
<1> SUFFICES ASSUME IInv, [Next]_vars PROVE [Saga!Next]_Saga!vars
  OBVIOUS
<1> USE DEF Saga!vars
<1>1. ASSUME NEW w \in Workers, RequestDeletion(w) PROVE [Saga!Next]_Saga!vars
  <2>1. UNCHANGED <<forjd, stripe, firebase>> /\ user # "deleted" /\ user' # "deleted"
    BY <1>1 DEF RequestDeletion, ApplyBarrier, world
  <2>2. CASE state = "absent"
    <3>1. state' = "pending" BY <1>1, <2>2 DEF RequestDeletion
    <3>2. Saga!Bar BY <2>1, <2>2, <3>1 DEF Saga!Bar
    <3> QED BY <3>2 DEF Saga!Next
  <2>3. CASE state # "absent"
    <3>1. state' = state BY <1>1, <2>3 DEF RequestDeletion
    <3> QED BY <2>1, <2>3, <3>1
  <2> QED BY <2>2, <2>3
<1>2. ASSUME NEW w \in Workers, NEW t \in Tenants, EraseTenant(w, t) \/ EraseTenantFails(w, t)
      PROVE [Saga!Next]_Saga!vars
  <2>1. /\ forjd' \in {forjd, forjd \ {t}}
        /\ UNCHANGED <<user, state, stripe, firebase>>
        /\ pc[w] \in Executing
    BY <1>2 DEF EraseTenant, EraseTenantFails, jobRow, rows, At, Executing, Erasing
  <2>2. CASE t \in forjd /\ forjd' = forjd \ {t}
    <3>1. user # "deleted" BY <2>2, GoneFindsNothing
    <3>2. state # "absent" BY <2>1 DEF IInv, ErasureInvariant, BeforeRequest
    <3>3. Saga!Erase(t) BY <2>1, <2>2, <3>1, <3>2 DEF Saga!Erase
    <3> QED BY <3>3 DEF Saga!Next
  <2>3. CASE forjd' = forjd
    BY <2>1, <2>3
  <2> QED BY <2>1, <2>2, <2>3
<1>3. ASSUME NEW w \in Workers, NEW s \in Subscriptions, stripe' = stripe \ {s},
             pc[w] \in TearingDown, UNCHANGED <<user, state, forjd, firebase>>
      PROVE [Saga!Next]_Saga!vars
  <2>1. CASE s \in stripe
    <3>1. user # "deleted" BY <2>1, GoneFindsNothing
    <3>2. forjd = {} /\ state # "absent" BY <1>3, TeardownFindsNoData
    <3>3. Saga!StopBilling(s) BY <1>3, <2>1, <3>1, <3>2 DEF Saga!StopBilling
    <3> QED BY <3>3 DEF Saga!Next
  <2>2. CASE s \notin stripe
    BY <1>3, <2>2
  <2> QED BY <2>1, <2>2
<1>4. ASSUME NEW w \in Workers, pc[w] = "delete_identity", firebase' \in {firebase, FALSE},
             UNCHANGED <<user, state, forjd, stripe>>
      PROVE [Saga!Next]_Saga!vars
  <2>1. CASE firebase /\ firebase' = FALSE
    <3>1. user # "deleted" BY <2>1, GoneFindsNothing
    <3>2. forjd = {} /\ state # "absent" BY <1>4, TeardownFindsNoData DEF TearingDown
    <3>3. stripe = {} BY <1>4 DEF IInv, BillingInvariant
    <3>4. Saga!DeleteIdentity
      BY <1>4, <2>1, <3>1, <3>2, <3>3 DEF Saga!DeleteIdentity
    <3> QED BY <3>4 DEF Saga!Next
  <2>2. CASE firebase' = firebase
    BY <1>4, <2>2
  <2> QED BY <1>4, <2>1, <2>2 DEF IInv, TypeOK, WorldTypeOK
<1>5. ASSUME NEW w \in Workers, CommitDeletion(w) PROVE [Saga!Next]_Saga!vars
  <2>1. /\ user' = "deleted"
        /\ pc[w] = "commit"
        /\ state # "completed"
        /\ UNCHANGED <<forjd, stripe, firebase>>
    BY <1>5 DEF CommitDeletion, At, Holds, world
  <2>2. forjd = {} /\ state # "absent"
    BY <2>1, TeardownFindsNoData DEF TearingDown
  <2>3. stripe = {} /\ ~firebase
    BY <2>1 DEF IInv, BillingInvariant, ReceiptInvariant, StepsRecorded, At
  <2>4. user # "deleted"
    BY <2>1 DEF IInv, ReceiptInvariant, UserGoneIffCompleted
  <2>5. Saga!Close
    BY <2>1, <2>2, <2>3, <2>4 DEF Saga!Close
  <2> QED BY <2>5 DEF Saga!Next
<1>6. CASE /\ UNCHANGED <<user, forjd, stripe, firebase>>
           /\ state = "absent" <=> state' = "absent"
  BY <1>6
<1>7. CASE UNCHANGED <<world, rows>>
  <2>1. ASSUME NEW w \in Workers, FailJob(w) PROVE [Saga!Next]_Saga!vars
    BY <1>6, <1>7, <2>1 DEF FailJob, RecordFailure, Holds, jobRow, rows, world
  <2> QED
    BY <1>1, <1>5, <1>6, <1>7, <2>1, JobWriters
    DEF jobRow, rows, world, Claim, Claimable, RecordErasedTenant, RecordForjdComplete,
        PersistStripeCancellation, LeaseExpires, BackoffElapses, Revive
<1>8. ASSUME NEW w \in Workers, PersistStripeCancellation(w) PROVE [Saga!Next]_Saga!vars
  BY <1>6, <1>8 DEF PersistStripeCancellation, world
<1>15. ASSUME NEW w \in Workers, SaveAccount(w) PROVE [Saga!Next]_Saga!vars
  BY <1>15, SavedAccount DEF jobRow, world
<1>9. CASE UNCHANGED world
  BY <1>1, <1>5, <1>7, <1>8, <1>9, <1>15, RowsWriters
<1>10. ASSUME NEW w \in Workers, NEW s \in Subscriptions, CancelSubscription(w, s)
       PROVE [Saga!Next]_Saga!vars
  BY <1>3, <1>10 DEF CancelSubscription, At, TearingDown, jobRow, rows
<1>11. ASSUME NEW w \in Workers, StripeFails(w) PROVE [Saga!Next]_Saga!vars
  <2>1. CASE UNCHANGED stripe
    BY <1>11, <1>9, <2>1 DEF StripeFails, world
  <2>2. CASE \E s \in subs[w] : At(w, "cancel_subscriptions") /\ stripe' = stripe \ {s}
    <3>1. PICK s \in subs[w] : At(w, "cancel_subscriptions") /\ stripe' = stripe \ {s}
      BY <2>2
    <3>2. s \in Subscriptions
      BY DEF IInv, TypeOK, LocalTypeOK
    <3> QED BY <1>3, <1>11, <3>1, <3>2 DEF StripeFails, At, TearingDown, jobRow, rows
  <2> QED BY <1>11, <2>1, <2>2 DEF StripeFails
<1>12. ASSUME NEW w \in Workers, DeleteIdentity(w) \/ DeleteIdentityFails(w)
       PROVE [Saga!Next]_Saga!vars
  BY <1>4, <1>12 DEF DeleteIdentity, DeleteIdentityFails, At, jobRow, rows
<1> QED BY <1>2, <1>9, <1>10, <1>11, <1>12, WorldWriters

(* Deletion implements the abstract saga.                                  *)
THEOREM SagaImplemented == Spec => SagaSpec
  BY SagaInit, SagaSteps, InductiveInvariant, PTL DEF Spec, SagaSpec, Saga!Spec

-----------------------------------------------------------------------------
(* The account barrier: type correctness.                                  *)

(* A saga step does not touch the requests.                                *)
LEMMA SagaKeepsTypes ==
  ASSUME BarrierTypeOK, SagaStep PROVE BarrierTypeOK'
<1>1. TypeOK'
  BY NextTypeOK DEF BarrierTypeOK, SagaStep
<1>2. atBar' \subseteq Stages
  BY DEF BarrierTypeOK, SagaStep, InFlight, Stages
<1>3. UNCHANGED <<stage, seen>>
  BY DEF SagaStep, requests
<1> QED
  BY <1>1, <1>2, <1>3 DEF BarrierTypeOK, In

(* What a request writes is neither of the job nor of its workers.         *)
LEMMA RequestWritesRows ==
  ASSUME TypeOK, RowsTypeOK', WorldTypeOK', UNCHANGED <<jobRow, pc, local, faults>>
  PROVE  TypeOK'
<1>1. JobTypeOK'
  BY DEF TypeOK, JobTypeOK, jobRow
<1>2. LocalTypeOK'
  BY DEF TypeOK, LocalTypeOK, local
<1> QED
  BY <1>1, <1>2 DEF TypeOK

(* The profile's lock admits one provisioning at a time.                   *)
LEMMA RequestKeepsTypes ==
  ASSUME BarrierTypeOK, NEW r \in Requests, RequestStep(r) PROVE BarrierTypeOK'
<1> USE DEF In, Enter, Stages
<1>1. /\ TypeOK
      /\ stage \in [Requests -> Stages]
      /\ seen \in [Requests -> {"active", "inactive"}]
      /\ atBar \subseteq Stages
      /\ \A q, s \in Requests : stage[q] = "provisioning" /\ stage[s] = "provisioning" => q = s
  BY DEF BarrierTypeOK
<1>2. UNCHANGED vars => TypeOK'
  BY <1>1, NextTypeOK
<1>3. CASE ReadUser(r)
  <2>1. user \in {"active", "inactive"} /\ TypeOK'
    BY <1>1, <1>2, <1>3 DEF ReadUser, TypeOK, RowsTypeOK
  <2> QED
    BY <1>1, <1>3, <2>1 DEF ReadUser, BarrierTypeOK
<1>4. CASE SaveUser(r)
  <2>1. user' \in {"active", "inactive", "deleted"}
    BY <1>1, <1>4 DEF SaveUser, TypeOK, RowsTypeOK
  <2>2. TypeOK'
    BY <1>1, <1>4, <2>1, RequestWritesRows DEF SaveUser, TypeOK, RowsTypeOK, WorldTypeOK, world
  <2> QED
    BY <1>1, <1>4, <2>2 DEF SaveUser, BarrierTypeOK
<1>5. CASE AuthenticateKey(r)
  BY <1>1, <1>2, <1>5 DEF AuthenticateKey, BarrierTypeOK
<1>6. CASE GenerateKey(r)
  <2>1. keys' \in BOOLEAN
    BY <1>6 DEF GenerateKey
  <2>2. TypeOK'
    BY <1>1, <1>6, <2>1, RequestWritesRows DEF GenerateKey, TypeOK, RowsTypeOK, WorldTypeOK, world
  <2> QED
    BY <1>1, <1>6, <2>2 DEF GenerateKey, BarrierTypeOK
<1>7. CASE FindKey(r)
  BY <1>1, <1>2, <1>7 DEF FindKey, BarrierTypeOK
<1>8. CASE RevokeKey(r)
  <2>1. keys' \in BOOLEAN
    BY <1>1, <1>8 DEF RevokeKey, TypeOK, RowsTypeOK
  <2>2. TypeOK'
    BY <1>1, <1>8, <2>1, RequestWritesRows DEF RevokeKey, TypeOK, RowsTypeOK, WorldTypeOK, world
  <2> QED
    BY <1>1, <1>8, <2>2 DEF RevokeKey, BarrierTypeOK
<1>9. CASE BeginProvision(r)
  BY <1>1, <1>2, <1>9 DEF BeginProvision, ProfileLocked, BarrierTypeOK
<1>10. ASSUME NEW t \in Tenants, PersistMapping(r, t) PROVE BarrierTypeOK'
  <2>1. /\ mapping' = "active" /\ tenants' \subseteq Tenants /\ forjd' \subseteq Tenants
        /\ UNCHANGED <<user, keys, stripeIds, stripe, firebase>>
    BY <1>1, <1>10 DEF PersistMapping, SaveMapping, TypeOK, RowsTypeOK, WorldTypeOK
  <2>2. TypeOK'
    BY <1>1, <1>10, <2>1, RequestWritesRows DEF PersistMapping, TypeOK, RowsTypeOK, WorldTypeOK
  <2> QED
    BY <1>1, <1>10, <2>2 DEF PersistMapping, BarrierTypeOK
<1>11. CASE ProvisionFails(r)
  BY <1>1, <1>2, <1>11 DEF ProvisionFails, BarrierTypeOK
<1> QED
  BY <1>3, <1>4, <1>5, <1>6, <1>7, <1>8, <1>9, <1>10, <1>11 DEF RequestStep

(* The rows and the requests keep their types, and two requests never      *)
(* provision a tenant for the account at the same time.                    *)
THEOREM BarrierTypeCorrect == BarrierSpec => []BarrierTypeOK
<1>1. BarrierInit => BarrierTypeOK
  BY InitIInv DEF BarrierInit, BarrierTypeOK, IInv, In, Stages
<1>2. BarrierTypeOK /\ [BarrierNext]_barrierVars => BarrierTypeOK'
  <2> SUFFICES ASSUME BarrierTypeOK, [BarrierNext]_barrierVars PROVE BarrierTypeOK'
    OBVIOUS
  <2>1. CASE UNCHANGED barrierVars
    <3>1. TypeOK'
      BY <2>1, NextTypeOK DEF BarrierTypeOK, barrierVars
    <3> QED
      BY <2>1, <3>1 DEF barrierVars, requests, BarrierTypeOK, In
  <2>2. CASE SagaStep
    BY <2>2, SagaKeepsTypes
  <2>3. ASSUME NEW r \in Requests, RequestStep(r) PROVE BarrierTypeOK'
    BY <2>3, RequestKeepsTypes
  <2> QED
    BY <2>1, <2>2, <2>3 DEF BarrierNext
<1> QED
  BY <1>1, <1>2, PTL DEF BarrierSpec

-----------------------------------------------------------------------------
(* The barrier, cause by cause.                                            *)

(* Nobody can restore is_active.                                           *)
NoStaleRead ==
  /\ user # "active"
  /\ \A r \in Requests : In(r, "read") => seen[r] = "inactive"
  /\ \A w \in Workers : ~At(w, "read_active")

(* Nobody can make a key.                                                  *)
NoKeyMaker == ~keys /\ \A r \in Requests : ~In(r, "authenticated")

(* Nobody can map a tenant.                                                *)
NoProvisioner ==
  /\ mapping # "active"
  /\ \A r \in Requests : stage[r] \notin {"authenticated", "headless", "provisioning"}

(* Before the barrier every request has read an active user.  Behind it,   *)
(* each danger is gone unless one of its causes was in flight, and the     *)
(* invariant of the saga alone holds when all are gone.                    *)
QuietInv ==
  IF state = "absent"
    THEN IInv /\ \A r \in Requests : In(r, "read") => seen[r] = "active"
    ELSE /\ "read" \notin atBar => NoStaleRead
         /\ atBar \cap {"read", "authenticated"} = {} => NoKeyMaker
         /\ atBar \cap {"read", "authenticated", "headless"} = {} => IInv /\ NoProvisioner

(* A worker that reads the user inactive does not hold it for active.      *)
LEMMA NoWorkerReadsActive ==
  ASSUME TypeOK, [Next]_vars, user # "active", NEW w \in Workers, pc[w] # "read_active"
  PROVE  pc'[w] # "read_active"
<1>1. ASSUME NEW v \in Workers, WorkerStep(v), v # w PROVE pc'[w] = pc[w]
  BY <1>1, OnlyOwnPlace
<1>2. CASE Progress(w)
  BY <1>2
  DEF Progress, TypeOK, Goto, Return, SaveAccount, RequestDeletion, RequestTooLate,
      ClaimMissed, Refresh, EraseTenant, EraseTenantFails, RecordErasedTenant,
      RecordForjdComplete, BeginTeardown, ReadProfile, ListSubscriptions,
      CancelSubscription, StripeFails, PersistStripeCancellation, DeleteIdentity,
      DeleteIdentityFails, CommitDeletion, CommitFails, FailJob
<1>3. CASE ReadAccount(w) \/ Claim(w) \/ Crash(w)
  BY <1>3 DEF ReadAccount, Claim, Crash, Return, Goto, TypeOK
<1>4. CASE UNCHANGED pc
  BY <1>4
<1> QED
  BY <1>1, <1>2, <1>3, <1>4
  DEF Next, WorkerStep, Settled, vars, LeaseExpires, BackoffElapses, Revive

(* The barrier goes up: nobody is in the partner call, which holds the     *)
(* profile's lock.                                                         *)
LEMMA BarrierGoesUp ==
  ASSUME BarrierTypeOK, QuietInv, SagaStep, state = "absent", state' # "absent"
  PROVE  QuietInv'
<1>1. PICK w \in Workers : RequestDeletion(w)
  BY JobWriters
  DEF SagaStep, Claim, Claimable, RecordErasedTenant, RecordForjdComplete, CommitDeletion,
      PersistStripeCancellation, FailJob, Holds, jobRow, SaveAccount, LeaseExpires,
      BackoffElapses, Revive
<1>2. /\ ~keys' /\ user' # "active" /\ mapping' # "active"
      /\ pc' = [pc EXCEPT ![w] = "requested"]
  BY <1>1 DEF RequestDeletion, ApplyBarrier, Goto
<1>3. atBar' = InFlight /\ UNCHANGED <<stage, seen>> /\ ~ProfileLocked /\ IInv'
  BY <1>1, NextIInv DEF SagaStep, requests, TakesProfileLock, QuietInv
<1>4. "read" \notin InFlight => NoStaleRead'
  <2> SUFFICES ASSUME "read" \notin InFlight PROVE NoStaleRead'
    OBVIOUS
  <2>1. \A r \in Requests : stage[r] # "read"
    BY DEF InFlight
  <2>2. \A v \in Workers : pc[v] # "read_active"
    BY DEF InFlight, At
  <2> QED
    BY <1>2, <1>3, <2>1, <2>2 DEF NoStaleRead, In, At, BarrierTypeOK, TypeOK
<1>5. "authenticated" \notin InFlight => NoKeyMaker'
  BY <1>2, <1>3 DEF InFlight, NoKeyMaker, In
<1>6. InFlight \cap {"authenticated", "headless"} = {} => NoProvisioner'
  BY <1>2, <1>3 DEF InFlight, NoProvisioner, ProfileLocked, In
<1> QED
  BY <1>3, <1>4, <1>5, <1>6 DEF QuietInv

(* A step of the saga behind the barrier.                                  *)
LEMMA SagaBehindBarrier ==
  ASSUME BarrierTypeOK, QuietInv, SagaStep, state # "absent" PROVE QuietInv'
<1>1. /\ [Next]_vars /\ TypeOK /\ state' # "absent"
      /\ UNCHANGED <<stage, seen, atBar>>
  BY OneWay DEF SagaStep, requests, BarrierTypeOK
<1>2. /\ ~keys => ~keys'
      /\ mapping # "active" => mapping' # "active"
  BY <1>1, RowsWriters, SavedAccount
  DEF rows, RequestDeletion, ApplyBarrier, PersistStripeCancellation, CommitDeletion
<1>3. NoStaleRead => NoStaleRead'
  <2> SUFFICES ASSUME NoStaleRead PROVE NoStaleRead'
    OBVIOUS
  <2>1. user' # "active"
    BY <1>1, RowsWriters
    DEF NoStaleRead, rows, SaveAccount, RequestDeletion, ApplyBarrier,
        PersistStripeCancellation, CommitDeletion
  <2>2. ASSUME NEW w \in Workers PROVE pc'[w] # "read_active"
    BY <1>1, <2>2, NoWorkerReadsActive DEF NoStaleRead, At
  <2> QED
    BY <1>1, <2>1, <2>2 DEF NoStaleRead, In, At
<1>4. (NoKeyMaker => NoKeyMaker') /\ (NoProvisioner => NoProvisioner')
  BY <1>1, <1>2 DEF NoKeyMaker, NoProvisioner, In
<1>5. IInv => IInv'
  BY <1>1, NextIInv
<1> QED
  BY <1>1, <1>3, <1>4, <1>5 DEF QuietInv

LEMMA SagaKeepsQuiet ==
  ASSUME BarrierTypeOK, QuietInv, SagaStep PROVE QuietInv'
<1>1. CASE state = "absent" /\ state' = "absent"
  <2>1. IInv' /\ UNCHANGED <<stage, seen>>
    BY <1>1, NextIInv DEF QuietInv, SagaStep, requests
  <2> QED
    BY <1>1, <2>1 DEF QuietInv, In
<1> QED
  BY <1>1, BarrierGoesUp, SagaBehindBarrier

(* An open account may get a key and tenants with data: no job has read    *)
(* them yet.                                                               *)
LEMMA OpenAccountGrows ==
  ASSUME IInv, TypeOK', state = "absent", forjd' \subseteq tenants',
         UNCHANGED <<jobRow, user, stripeIds, stripe, firebase, pc, local, faults>>
  PROVE  IInv'
<1> USE DEF IInv, jobRow, local
<1>1. targets = {} /\ user = "active" /\ \A w \in Workers : pc[w] \notin Executing
  BY DEF ErasureInvariant, BeforeRequest
<1>2. ErasureInvariant'
  <2>1. BeforeRequest' /\ ManifestFrozen' /\ TodoInManifest' /\ NothingSkipped'
    BY DEF ErasureInvariant, BeforeRequest, ManifestFrozen, TodoInManifest,
      NothingSkipped
  <2>2. EvidenceIsTrue' /\ DoneIsTrue'
    BY <1>1 DEF ErasureInvariant, EvidenceIsTrue, DoneIsTrue
  <2>3. DataIsMapped' /\ IdentityNeedsEvidence'
    BY DEF ErasureInvariant, DataIsMapped, IdentityNeedsEvidence
  <2> QED
    BY <2>1, <2>2, <2>3 DEF ErasureInvariant
<1>3. BillingInvariant'
  BY DEF BillingInvariant, NoOrphanBilling, At
<1>4. ReceiptInvariant'
  <2>1. StepsRecorded' /\ UserGoneIffCompleted'
    BY DEF ReceiptInvariant, StepsRecorded, UserGoneIffCompleted, Holds, At
  <2>2. CompletedReceipt'
    BY DEF CompletedReceipt
  <2> QED
    BY <2>1, <2>2 DEF ReceiptInvariant
<1>5. BlockerInvariant'
  BY DEF BlockerInvariant, WorkIsAhead, BlockerStands, BlockerIsHonest, Holds, At
<1> QED
  BY <1>2, <1>3, <1>4, <1>5

(* What the actions of a request that only pass on leave as it is.         *)
LEMMA PassingRequest ==
  ASSUME NEW r \in Requests,
         AuthenticateKey(r) \/ FindKey(r) \/ BeginProvision(r) \/ ProvisionFails(r)
  PROVE  UNCHANGED <<vars, seen, atBar>>
BY DEF AuthenticateKey, FindKey, BeginProvision, ProvisionFails

(* The requests that a barred account turns away, or that it cannot have.  *)
LEMMA OpenAccountOnly ==
  ASSUME NEW r \in Requests, RequestStep(r), ~ReadUser(r), ~SaveUser(r)
  PROVE  \/ keys /\ AuthenticateKey(r)
         \/ stage[r] \notin {"idle", "read"}
BY DEF RequestStep, AuthenticateKey, GenerateKey, FindKey, RevokeKey, BeginProvision,
  PersistMapping, ProvisionFails, In

(* Where those requests go.                                                *)
LEMMA RequestGoesOn ==
  ASSUME NEW S, stage \in [Requests -> S], NEW r \in Requests, RequestStep(r),
         ~ReadUser(r), ~SaveUser(r)
  PROVE  /\ stage'[r] # "read"
         /\ \A q \in Requests \ {r} : stage'[q] = stage[q]
         /\ UNCHANGED <<jobRow, seen, atBar>>
<1> USE DEF Enter
<1>1. CASE AuthenticateKey(r)
  BY <1>1 DEF AuthenticateKey, vars
<1>2. CASE GenerateKey(r)
  BY <1>2 DEF GenerateKey
<1>3. CASE FindKey(r)
  BY <1>3 DEF FindKey, vars
<1>4. CASE RevokeKey(r)
  BY <1>4 DEF RevokeKey
<1>5. CASE BeginProvision(r)
  BY <1>5 DEF BeginProvision, vars
<1>6. ASSUME NEW t \in Tenants, PersistMapping(r, t)
      PROVE  /\ stage'[r] # "read"
             /\ \A q \in Requests \ {r} : stage'[q] = stage[q]
             /\ UNCHANGED <<jobRow, seen, atBar>>
  BY <1>6 DEF PersistMapping
<1>7. CASE ProvisionFails(r)
  BY <1>7 DEF ProvisionFails, vars
<1> QED
  BY <1>1, <1>2, <1>3, <1>4, <1>5, <1>6, <1>7 DEF RequestStep

(* They may make or revoke a key of an open account, or map a tenant to it.*)
LEMMA RequestWritesOpenAccount ==
  ASSUME IInv, TypeOK', state = "absent", NEW r \in Requests, RequestStep(r),
         ~ReadUser(r), ~SaveUser(r)
  PROVE  IInv'
<1>1. forjd \subseteq tenants
  BY DEF IInv, ErasureInvariant, DataIsMapped
<1>2. CASE GenerateKey(r)
  BY <1>1, <1>2, OpenAccountGrows DEF GenerateKey, world
<1>3. CASE RevokeKey(r)
  BY <1>1, <1>3, OpenAccountGrows DEF RevokeKey, world
<1>4. ASSUME NEW t \in Tenants, PersistMapping(r, t) PROVE IInv'
  BY <1>1, <1>4, OpenAccountGrows DEF PersistMapping, SaveMapping
<1>5. UNCHANGED vars => IInv'
  BY NextIInv
<1> QED
  BY <1>2, <1>3, <1>4, <1>5, PassingRequest DEF RequestStep

(* A request takes a step behind the barrier.                              *)
LEMMA RequestBehindBarrier ==
  ASSUME BarrierTypeOK, QuietInv, NEW r \in Requests, RequestStep(r), state # "absent"
  PROVE  QuietInv'
<1>1. /\ TypeOK /\ user \in {"active", "inactive", "deleted"} /\ keys \in BOOLEAN
      /\ stage \in [Requests -> Stages] /\ seen \in [Requests -> {"active", "inactive"}]
  BY DEF BarrierTypeOK, TypeOK, RowsTypeOK
<1>2. UNCHANGED <<state, atBar, pc>>
  <2>1. UNCHANGED <<jobRow, atBar, pc>>
    BY DEF RequestStep, ReadUser, SaveUser, AuthenticateKey, GenerateKey, FindKey, RevokeKey,
      BeginProvision, PersistMapping, ProvisionFails, vars
  <2> QED
    BY <2>1 DEF jobRow
<1>6. RevokeKey(r) /\ ~keys => keys' = keys
  BY <1>1 DEF RevokeKey
<1>3. NoStaleRead => NoStaleRead'
  <2> SUFFICES ASSUME NoStaleRead PROVE NoStaleRead'
    OBVIOUS
  <2>1. CASE ReadUser(r)
    BY <1>1, <1>2, <2>1 DEF ReadUser, NoStaleRead, In, Enter, At, vars, rows
  <2>2. CASE SaveUser(r)
    BY <1>1, <1>2, <2>2 DEF SaveUser, NoStaleRead, In, Enter, At
  <2>3. CASE ~ReadUser(r) /\ ~SaveUser(r)
    <3>1. UNCHANGED user
      BY <2>3 DEF RequestStep, AuthenticateKey, GenerateKey, FindKey, RevokeKey,
        BeginProvision, PersistMapping, ProvisionFails, vars, rows
    <3> QED
      BY <1>1, <1>2, <2>3, <3>1, RequestGoesOn DEF NoStaleRead, In, At
  <2> QED
    BY <2>1, <2>2, <2>3
<1>4. NoStaleRead /\ NoKeyMaker => NoKeyMaker'
  <2> SUFFICES ASSUME NoStaleRead, NoKeyMaker PROVE NoKeyMaker'
    OBVIOUS
  <2>1. CASE ReadUser(r) \/ SaveUser(r)
    BY <1>1, <2>1 DEF ReadUser, SaveUser, NoStaleRead, NoKeyMaker, In, Enter, vars, rows
  <2>2. CASE RevokeKey(r)
    <3>1. ~keys'
      BY <1>6, <2>2 DEF NoKeyMaker
    <3>2. stage' = [stage EXCEPT ![r] = "idle"]
      BY <2>2 DEF RevokeKey, Enter
    <3> QED
      BY <1>1, <3>1, <3>2 DEF NoKeyMaker, In
  <2>3. CASE BeginProvision(r) \/ ProvisionFails(r)
    BY <1>1, <2>3 DEF BeginProvision, ProvisionFails, NoKeyMaker, In, Enter, vars, rows
  <2>4. ASSUME NEW t \in Tenants, PersistMapping(r, t) PROVE NoKeyMaker'
    BY <1>1, <2>4 DEF PersistMapping, NoKeyMaker, In, Enter
  <2> QED
    BY <2>1, <2>2, <2>3, <2>4
    DEF RequestStep, AuthenticateKey, GenerateKey, FindKey, NoKeyMaker, In
<1>5. NoStaleRead /\ NoKeyMaker /\ NoProvisioner /\ IInv => NoProvisioner' /\ IInv'
  <2> SUFFICES ASSUME NoStaleRead, NoKeyMaker, NoProvisioner, IInv
               PROVE  NoProvisioner' /\ IInv'
    OBVIOUS
  <2>1. ReadUser(r) \/ SaveUser(r) \/ RevokeKey(r)
    BY DEF RequestStep, AuthenticateKey, GenerateKey, FindKey, BeginProvision,
      PersistMapping, ProvisionFails, NoKeyMaker, NoProvisioner, In
  <2>2. UNCHANGED vars
    <3>1. CASE ReadUser(r)
      BY <3>1 DEF ReadUser
    <3>2. CASE SaveUser(r)
      BY <1>1, <3>2 DEF SaveUser, NoStaleRead, In, vars, rows
    <3>3. CASE RevokeKey(r)
      BY <1>6, <3>3 DEF RevokeKey, NoKeyMaker, vars, rows
    <3> QED
      BY <2>1, <3>1, <3>2, <3>3
  <2>3. /\ \A q \in Requests \ {r} : stage'[q] = stage[q]
        /\ stage'[r] \in {"idle", "read"}
    BY <1>1, <2>1 DEF ReadUser, SaveUser, RevokeKey, NoStaleRead, In, Enter
  <2> QED
    BY <1>1, <2>2, <2>3, NextIInv DEF NoProvisioner, vars, rows
<1> QED
  BY <1>2, <1>3, <1>4, <1>5 DEF QuietInv

(* A request takes a step before it: all have read an active user.         *)
LEMMA RequestBeforeBarrier ==
  ASSUME BarrierTypeOK, QuietInv, NEW r \in Requests, RequestStep(r), state = "absent"
  PROVE  QuietInv'
<1>1. /\ IInv /\ TypeOK' /\ user = "active"
      /\ stage \in [Requests -> Stages] /\ seen \in [Requests -> {"active", "inactive"}]
      /\ \A q \in Requests : stage[q] = "read" => seen[q] = "active"
  BY RequestKeepsTypes
  DEF QuietInv, BarrierTypeOK, In, IInv, ErasureInvariant, BeforeRequest
<1>2. UNCHANGED vars => IInv' /\ UNCHANGED state
  BY <1>1, NextIInv DEF vars, jobRow
<1>3. CASE ReadUser(r)
  BY <1>1, <1>2, <1>3 DEF ReadUser, QuietInv, In, Enter
<1>4. CASE SaveUser(r)
  <2>1. UNCHANGED vars
    BY <1>1, <1>4 DEF SaveUser, In, vars, rows
  <2> QED
    BY <1>1, <1>2, <1>4, <2>1 DEF SaveUser, QuietInv, In, Enter
<1>5. CASE ~ReadUser(r) /\ ~SaveUser(r)
  <2>1. IInv'
    BY <1>1, <1>5, RequestWritesOpenAccount
  <2>2. /\ stage'[r] # "read" /\ UNCHANGED <<state, seen>>
        /\ \A q \in Requests \ {r} : stage'[q] = stage[q]
    BY <1>1, <1>5, RequestGoesOn DEF jobRow
  <2> QED
    BY <1>1, <2>1, <2>2 DEF QuietInv, In
<1> QED
  BY <1>3, <1>4, <1>5

(* QuietInv is inductive, on top of the types.                             *)
THEOREM BarrierInvariant == BarrierSpec => []QuietInv
<1>1. BarrierInit => QuietInv
  BY InitIInv DEF BarrierInit, Init, QuietInv, In
<1>2. BarrierTypeOK /\ QuietInv /\ [BarrierNext]_barrierVars => QuietInv'
  <2> SUFFICES ASSUME BarrierTypeOK, QuietInv, [BarrierNext]_barrierVars PROVE QuietInv'
    OBVIOUS
  <2>1. CASE UNCHANGED barrierVars
    <3>1. IInv => IInv'
      BY <2>1, NextIInv DEF barrierVars
    <3> QED
      BY <2>1, <3>1 DEF barrierVars, requests, vars, jobRow, rows, QuietInv, NoStaleRead,
        NoKeyMaker, NoProvisioner, In, At
  <2>2. CASE SagaStep
    BY <2>2, SagaKeepsQuiet
  <2>3. ASSUME NEW r \in Requests, RequestStep(r) PROVE QuietInv'
    BY <2>3, RequestBehindBarrier, RequestBeforeBarrier
  <2> QED
    BY <2>1, <2>2, <2>3 DEF BarrierNext
<1> QED
  BY <1>1, <1>2, BarrierTypeCorrect, PTL DEF BarrierSpec

(* Behind the barrier nobody authenticates, makes a key or leaves data of  *)
(* the account in FORJD, except through a request that was in flight at    *)
(* the barrier at one of the places QuietBarrier names.                    *)
THEOREM BarrierHolds == BarrierSpec => []QuietBarrier
<1>1. QuietInv => QuietBarrier
  <2> SUFFICES ASSUME QuietInv PROVE QuietBarrier
    OBVIOUS
  <2>1. CASE state = "absent"
    BY <2>1 DEF QuietBarrier, NoNewAuth, NoNewKey, NothingLeftBehind
  <2>2. CASE state # "absent"
    <3>1. IInv /\ state = "completed" => forjd = {}
      BY DEF IInv, ErasureInvariant, ReceiptInvariant, EvidenceIsTrue, DataIsMapped,
        CompletedReceipt
    <3> QED
      BY <2>2, <3>1 DEF QuietInv, QuietBarrier, NoStaleRead, NoKeyMaker, NoProvisioner,
        NoNewAuth, NoNewKey, NothingLeftBehind
  <2> QED
    BY <2>1, <2>2
<1> QED
  BY <1>1, BarrierInvariant, PTL
=============================================================================
