# Verification of DEML's control plane

DEML is a Django backend-for-frontend ("BFF") with an Angular client and a macOS
app. Accounts, billing, sessions and policy live in DEML's Postgres; the data
plane is FORJD, an external multi-tenant service that DEML calls with one opaque
service token per tenant. `backend/start.py` runs one Daphne web server and, under
supervision, a `reconcile_forjd_reports --watch` worker and a
`daily_maintenance --watch` worker; several such machines share one database. The
program calls three services it does not control: FORJD, Stripe and Firebase.

What is hard in this program is not the individual handler but what several of
them do to the same rows while external calls fail, time out, are repeated or
come late. This directory states those obligations in TLA+, checks them with TLC
on small instances and proves the most important ones with TLAPS for all
instances.

## Inventory

Paths are relative to the repository.

| Component | State it keeps | Operations | What makes it correct |
|---|---|---|---|
| Account deletion saga: `backend/account/lifecycle.py`, `revive_lifecycle_job.py` | the `UserLifecycleJob` row (state, lease, manifest, evidence, steps), the account's rows, FORJD data, Stripe subscriptions, Firebase identity | request, claim, erase, record evidence, cancel billing, delete identity, commit, fail, revive | erase before identity, true evidence, no orphan billing, complete receipt, fencing, termination |
| Report outbox: `backend/agent/api.py`, `reconcile_forjd_reports.py`, `requeue_dead_letter_reports.py`, `map_forjd_tenant.py` | the `BugReport` row, the account's tenant mapping | submit, claim, assign destination, post, record success or failure, requeue, remap | one document, true answers, bounded retries, nothing survives deletion |
| Authentication and first-use provisioning: `config/middleware.py`, `config/api_auth.py`, `forjd/provision.py`, `forjd/tenancy.py` | user row, API keys, `ForjdTenantMapping`, `ForjdTenantAssociation` | verify token, read and save the user, make a key, provision a tenant | the deletion barrier holds against requests of the same account |
| Headless rate limiter: `config/headless_rate_limit.py`, purge in `daily_maintenance.py` | one token bucket row per scope | consume in several scopes at once, purge idle rows | quota per scope, all-or-nothing, no requests waiting in a circle |
| Billing: `backend/billing/api.py`, `sync_subscriptions.py` | the profile's tier, subscription and customer ids | checkout, webhook, `/sync`, cancel, resume, daily sweep | no deleted customer is charged, entitlement follows Stripe |
| Session registry and handoff: `utils/session_registry.py` | `BrowserSession`, `AuthHandoffToken` rows | register, touch, revoke, expire, store and consume a handoff | a code is consumed once, a revoked session serves nothing |
| Browser session: `auth.service.ts`, `session-idle.service.ts`, `session-state.service.ts`, `dialog.service.ts`, interceptors | Firebase user, `isAuthenticated`, session id, idle deadline, one dialog; per tab | sign in, sign out, activity, idle warning, messages between tabs | a tab in use is not timed out early; idle sessions end everywhere |
| Read cache and the sites in Settings: `swr-cache.ts`, `monitor.service.ts`, `pages/settings/settings.ts` | entries and in-flight reads in memory, the list shown, the write under way | observe, invalidate, clear, load, save, delete, reconnect | an outage is not shown as "no sites"; what was saved stays shown |
| FORJD client: `forjd/client.py` | failure counts and open-until times per route class | call, retry reads, open and close the breaker | writes are sent once, classes do not share fate, an open breaker closes again |
| Gateway: `forjd/tenancy.py`, `policy.py`, `views.py`, `api.py`, with `cutover.py`, `angular_compat.py`, `widget_telemetry.py`, `sealed_telemetry.py` | audit rows, shadow receipts; reads mapping and roles | authorize, resolve the tenant, look up the page, call, answer | own tenant only, a true audit trail, honest answers |
| Analytics sync | watermarks of a rollup | fetch, upsert | best effort |
| Supervisor and maintenance: `start.py`, `daily_maintenance.py` | child processes | restart, sweep, purge | workers come back: the fairness of the other modules |
| macOS app, Angular pages, shared packages, infrastructure, docs, vendored files | - | - | outside the model |

How they interact. The `UserLifecycleJob`, the user row, the profile row and the
tenant rows are written by the deletion saga, by every authenticated request, by
provisioning, by the Stripe webhook and by the daily sweep. The outbox delivers
into tenants that the saga erases. The profile row's lock orders provisioning
against the saga; the job row's lease token orders executions of the saga among
themselves; a report's row is guarded by its delivery status only; bucket rows by
row locks taken in sorted order. Nothing orders an external call against anything.
The gateway's requests share the mappings with provisioning and the saga, and the
circuit breaker with each other. Browser tabs share Firebase's persisted user,
`localStorage` and a `BroadcastChannel`; inside a tab, pages share the read cache.

Where it is hard: a lease that runs out during an external call; a crash between
an effect and its record; an answer that is lost; a request that read a row before
a barrier and writes it afterwards; webhooks in any order; replicas with different
clocks; a client that hangs up in the middle; timers a browser fires late; a read
that answers after the write it does not know of. `PROJECT.json` lists these hazards
at the lines where they bite, with the properties aimed at them.

## Modules

`DeletionSaga` is the abstract promise of account deletion: bar the account, erase
the data, stop the billing, delete the identity, close, in this order.

`DeletionLifecycle` is `account/lifecycle.py`. The job row, the account's rows and
the external world are variables; each worker has a program counter and the local
variables the Python function keeps (`todo` is the rest of the manifest, `done`
the tenant erased but not yet recorded, `subs` the listed subscriptions, `copy`
the in-memory `steps_completed`). A step is one transaction, one external call, or
one read whose result is kept; the filter `state=RUNNING, lease_token=token` of
every fenced `UPDATE` is `Holds(w)`. The web thread that serves
`DELETE /delete-account` and the reconciler run the same `execute_deletion_job`.
Like every request of a browser, that DELETE passes the middleware first, which
reads the user row without a lock (`ReadAccount`) and saves the whole of it
(`SaveAccount`): of two overlapping DELETEs the second can restore `is_active`
behind the barrier of the first.
An external call may fail before or after its effect, a worker may crash between
any two steps, a lease may run out under a live worker. `SagaSpec` is the
refinement: `DeletionSaga` with the data, billing and identity of the world.

`DeletionInvariants` strengthens the safety properties to an inductive invariant.

`AccountBarrier` extends `DeletionLifecycle` with ordinary requests of the same
account. A browser's request has the middleware read the user row without a lock
and `user.save()` write all of its columns; a headless one is let in by an API key
of an active user and writes nothing on the way (`AuthenticateKey`). Then the
request makes an API key, looks one up and revokes it in a second step, or
provisions a tenant while it holds the profile row's lock. All saga steps are those
of `DeletionLifecycle`, delayed where they need that lock. `atBar` is history: where
the account's requests were, a DELETE's own middleware included, when the barrier
went up.

`ReportOutbox` is one `client_report_id`: web threads deliver without a claim,
reconcilers under a claim that may lapse, so deliveries of one row overlap. The
re-read of the row, the destination snapshot, the POST and the recording of its
result are separate steps. An answer without an id is a success like any other to
the code, which stores the string `"None"` for it (`PostUnnamed`, the document
`Unnamed`). Remapping, requeue and the deletion of the account (reduced to its
effects on reports and mappings) are actions next to them, and so is a request that
provisions a tenant behind the barrier (`Provision`): its mapping is active, a
pending report may be assigned to it, and only a repeated deletion request adds it
to the manifest.

`HeadlessRateLimit` is `consume_many`: insert the missing rows, lock them in key
order, decide, commit or roll back, with every replica's clock off by at most
`Skew`. Tokens are counted in credits, `Minute` to a token, which keeps the
refill exact over the integers; the code computes with floats. Rows being
inserted are visible to nobody and block an insert of the same key, as Postgres
does it. The purge is one `DELETE` over many rows: it visits the stale rows of its
snapshot in any order, waits for a locked one, keeps the locks of those it has
visited, and lets all of them go at once. One purge at a time is modelled; the
maintenance workers of two machines may run theirs at once.

`BillingEntitlement` is one profile row and its copies in the hands of the
checkout, the webhook, `/sync` and the sweep, which mostly read it, call Stripe
and save the whole row; Stripe's subscriptions and unacknowledged events are the
environment. `checkoutOpen` is the switch `_PRO_CHECKOUT_ENABLED`, fixed for a
behaviour and chosen from `Gates`. The saga is reduced to what it does to
subscriptions and ids; `DeletionLifecycle` has it in full.

`SessionRegistry` is `utils/session_registry.py` with its callers: registration of
a browser session by `update_or_create`, the middleware's check and throttled touch
as two steps of one web thread, revocation of one or all sessions, the purge, and
handoff codes whose row is selected under a lock, consumed, and only then compared
with the PKCE verifier. Every time that is written or compared may be off by
`Skew`. The life of a handoff code is not counted; it may run out at any moment.
`standing`, `used`, `doomed` and `answered` are history that the properties read.

`ForjdCall` is what a call of FORJD promises whoever makes it: one end, a write
applied at most once, and an end that says no more about FORJD than is so.
`ForjdClient` is `client.py` and implements it: coroutines of one web process, the
checks before the first attempt, the attempts of a read, every way an attempt ends
(an answer below 500, a retryable or another server error, a body that is no JSON
or too large, a transport error, cancellation), and the breaker of a route class,
which calls already under way may open or close under each other. `ForjdGateway`
is built on `ForjdCall`, so that the attempts are not modelled twice: the
abstraction is checked once, against the client.

`ForjdGateway` writes every adapter down as a sequence of steps in the order of
its code (`authorize`, `attempt`, `credential`, `owned`, `write`, ...); a step is an
action that goes on to the next or concludes the request. Which tenant a request
is bound to is decided at `credential` and used by a later call, while `Remap`
changes the mappings. The client may hang up between any two steps.

`BrowserIdle` is the idle session of several tabs. Every event handler is one
step, the continuation of the warning included, which is a microtask; only
`logout()` waits. Timers fire when they are due or up to `Late` ticks later,
messages between tabs are delivered in any order. A duplicate message (channel and
storage event) is one message; the comment at `Messages` says why. The effect that
follows `isAuthenticated` is its own step: a timer or the user may come before it,
a message or the network may not.

`BrowserReads` is Settings' list of sites over one key of the cache. What a read's
end sets off in the loads, saves and deletions waiting for it is one step with it
(microtasks). One write at a time: the page blocks its buttons while a write is
under way, and a write left behind by a page that was closed is given no company.

Modules whose names begin with `MC` instantiate these for TLC. Modules whose names end in
`Proofs` hold the TLAPS proofs. Operators described as "Mutant" are plausible
bugs; each property is known to fail when one of them replaces its original.

## Runs

| Run | Question | Bounds |
|---|---|---|
| `deletion` | What holds in every state of the saga, what no step may do, does the outside world see the abstract saga, does a requested deletion settle, and complete with an operator? | 2 workers, 2 tenants, 2 subscriptions, 3 faults, `MaxAttempts` 2, erase repeatable |
| `outbox` | Is a report delivered at most once and truthfully, does nothing of it survive the account, and does it not wait for ever? | 1 web thread, 1 reconciler, 2 submissions of one id, 2 tenants, 2 attempts, 2 crashes |
| `barrier_quiet` | What can undo the deletion barrier, cause by cause? | 2 workers, 2 requests, 2 tenants, no fault, erase not repeatable; symmetric |
| `barrier_tenant` | Does a completed deletion leave nothing in FORJD? *Violated*, see below | the same, erase repeatable |
| `rate_limit` | Are quotas kept, denied requests not charged, and do requests never wait for each other in a circle? | 2 requests, one over scopes 1 and 2 and one over 1, 2 and 3; capacity 1, minute 2, clock skew 1, purge age 4, 3 instants |
| `billing_safety` | Can a deleted account be charged unnoticed, with checkout closed as it ships? | 2 subscriptions, 2 web threads, 1 spontaneous change, 1 fault |
| `billing_converges` | Does the entitlement come to follow Stripe, with checkout open and shut? | 2 subscriptions, 2 web threads, 1 change, no fault |
| `sessions` | Do sessions in use live on, do revoked ones serve nobody, is a handoff code tried once? | 2 users and 2 web threads on one session id, 1 code, clock skew 1, touch interval 1, 7 instants |
| `client` | Does a circuit open on failures only and close again, and does a call keep the contract of `ForjdCall`? | 2 coroutines, 2 classes of routes, threshold 2, cooldown 2, 2 attempts of a read |
| `gateway` | Is the audit trail true, does a request act on its own tenant, is the answer honest? | one request at a time while the mappings change; 2 accounts with a page each, one published, and the platform's page; 4 deployments (`FORJD_CUTOVER_PHASE` 0, 1, 2 and writes off) |
| `idle` | Is a tab in use left alone, and does an idle session end in every tab? | 2 tabs, idle time 3, warning 1 before its end, throttles 1 and 2, timers at most 1 late, one run of `logout()` at a time in a tab |
| `reads` | Is "nothing published" said of a failed load, and does a saved site stay on the page? | 2 sites, 2 reads under way, 2 versions of a site, 2 writes; symmetric |

What they show.

*Deletion.* With three faults in any places, a worker can lose its lease twice and
both workers can be in the same external call; two tenants make a partial manifest
possible, two subscriptions a partial cancellation, two attempts a dead letter
within the faults. `EvidenceIsTrue`, `EraseBeforeIdentity`, `NoOrphanBilling`,
`CompletedReceipt` and `BlockerIsHonest` hold throughout, `StaleWorkerWritesNothing`
and `ReceiptGrows` of every step. Whether FORJD accepts a second erase of a tenant
whose token the first one revoked is not in this repository: `EraseRepeatable` is a
constant. `DeletionSettles` and `DeletionCompletes` need TRUE; with FALSE a lost
answer leads to a dead letter that no retry can leave and that an operator must
resolve in FORJD. The proofs of the safety properties cover both values.

*Outbox.* `OneDocument` holds across remapping because the destination is written
once, before the first POST, and FORJD stores one document for one idempotency key
and tenant. `AnswerIsHonest` covers a client that repeats an id with other content.
`PendingSettles` needs no assumption about FORJD: failures use up attempts.
`NoReportSurvivesDeletion` rests on the erase revoking the tenant's token, so
that a POST in flight is refused afterwards. It has one exception, which it names:
a tenant that a request provisioned behind the barrier (`behind`) and that no
deletion request has named since (`manifest`). There a report that was still
pending may be sent and outlive the account; this is the outbox's side of the
finding under *Barrier*. A FORJD answer whose document has no id is recorded as
DELIVERED with `forjd_document_id` `"None"` (`agent/api.py:293`, `str(None)` is a
true string), and "recorded" is answered. What FORJD keeps is not known then, so
`DeliveredIsTrue` and `AnswerIsHonest` speak of rows that name a document, and
`SettledIsFinal` allows such a name to be filled in, or a real id to be overwritten
by `"None"`, by a delivery that ends later. Whether FORJD ever answers so is not in
this repository; an absent document or an empty id is a failure in code and model.

*Barrier.* `QuietBarrier` goes through the causes. `is_active` comes back only by the
save of a request, a second DELETE's middleware included, that had read the user
before the barrier; a key only by that or by a request that had passed the middleware
with a token; a mapping or data in FORJD only by one of those or by a request that had
passed with a key. Where none of these was in flight, that part of the barrier is
complete, whatever comes later, and a request that was in the partner call or in the
middle of revoking a key does no harm. With them in flight it is not complete, and
`barrier_tenant` is the finding:
`_provision_account_credential` (`provision.py:148`) looks at the profile and the
active mapping but not at the deletion job, so a request that authenticated
before the barrier can mint a tenant behind it. The tenant is not in the manifest,
its mapping is deleted with the account, and its data stays in FORJD although the
receipt says COMPLETED. The docstring of `request_account_deletion` says "no new auth,
API-key, billing, or FORJD traffic may race work created after the erasure
manifest". In the same window `NoNewAuth` and `NoNewKey` fail too: `user.save()`
in `ensure_user_from_firebase` restores `is_active` as it was read (two overlapping
DELETEs are enough for that), and a key can
be generated after the keys were deactivated; the saga removes both when it
completes, so they are not listed as separate findings. A request that read the
user row before the last transaction and saves it afterwards inserts the row
again; the model ends with the account and lists this as an uncovered hazard.

*Rate limiter.* `RateBound` allows a full bucket at once, the capacity every
minute, and the clock skew twice; `NoTokenLost` says that what is missing from a
bucket was granted. A request that finds one bucket full and another empty does occur
in the run, since one of the two requests has a scope of its own. The purge age must be at
least a minute and twice the skew; the code's is seven days. `NoRequestCircle` depends
on the sorted lock order, in which rows are inserted as well as locked, and holds
while rows are purged and made anew. Circles through the purge do exist: it locks in
no order, so that it and a request over two stale scopes may wait for each other.
PostgreSQL then ends one of the two (`Abort`, the code's 503, or `PurgeFails`, tried
again the next day), and neither has lasting effects; the property therefore speaks
of requests only. A request that finds a row purged between its insert and its lock
is answered 503 too (`RowMissing`).

*Billing.* With `_PRO_CHECKOUT_ENABLED` off, as the code ships, sessions that were
opened earlier may still complete. `NoOrphanCharge` says that a subscription that
charges a deleted account still has an event that Stripe will deliver again, and
`NeverAcknowledgedCharging` that this event is not acknowledged before the
subscription is canceled. Stripe gives up retrying after some days, which the
model does not. With the switch on, the run of `NoOrphanCharge` would fail: two
checkout sessions of a customer-less profile create two customers and only one is
on file. The path is closed today, so this is a remark, not a finding.
`EntitlementConverges` uses only the daily sweep, with two web threads that save whole
rows over each other: the webhook of an old event, which both may have at once,
checkout and `/sync`. It speaks of the subscription on file, because a late whole-row
save can take a newer subscription off the profile (again only with the switch on).
The run has no fault: an event that is not acknowledged can be delivered again
anyway, and the ways in which handler and sweep fail are in `billing_safety`. The
account stays open in it (`SweepSpec`), as the property says nothing of a barred one.

*Sessions.* `RevokedServesNothing` holds because a touch is one `UPDATE` of a row
that must exist: the touch of an earlier request cannot bring a revoked session
back. `LiveWhileUsed` puts a number on the throttle: a session stays valid for its
lifetime after its last use, less one touch interval and four times the skew.
`CodeSpentOnce` rests on `FOR UPDATE`; a failed comparison costs the code as well.
A session id belongs to whoever registers it last (`update_or_create` looks at the
id alone), which the model keeps.

*Client.* `KeepsPromise` is the contract the gateway relies on: a call ends once, a
write is at FORJD at most once, and neither success nor rejection is reported unless
FORJD has seen the request. `OpensOnlyOnFailures` counts calls, not attempts: a read
that fails three times is one failure. Two ends of a call record nothing, an
oversized body and a server error that a read gives up on because its status is not
retryable, so that a circuit may open later than the count of failed calls says,
and never sooner. The circuit is not asked again between the attempts of a read.

*Gateway.* `AuditTrail` says what a row lets a reader conclude. It has two gaps that
the property names. When the client hangs up after the row of the attempt, the
coroutine is cancelled and `except Exception` (`policy.py:286`) does not run: an
attempt stays without a result although the docstring at `policy.py:257` promises
rows before and after each privileged call. Django's own body limit raises in
`_bind_body`, outside what `native_forjd_proxy` catches, with the same effect.
`HonestAnswer` allows an outage to be told after FORJD has done what was asked,
which a caller must expect, and forbids the opposite. Of the slug's self-healing
(`views.py:798`) the model keeps that a second call which fails is answered 404, an
outage told as an absence; `HonestAnswer` keeps this answer, `notFound`, apart from
`missing`, which FORJD has said. The native headless routes (`api.py:70`) provision
a tenant before the row of the attempt is written, so that a provisioning that fails
leaves no row. Two ends are not modelled: an exception after the call that is no
`ForjdError`, such as a body that is not UTF-8 (`client.py:520`), which
`require_forjd_action` records as failed (`policy.py:286`) and `native_forjd_proxy`
does not catch; and the write of an audit row that itself fails, after which the row
is missing. The binding `sealed_method` is not shadowed (`views.py:530`), the
other sealed ones are.

One request at a time is enough: a request keeps no state in the process besides
its coroutine, and requests meet only in the mappings, which `Remap` changes at
every moment, and in the circuit breaker, whose effect, a call that is blocked, is
one of the ends every call of `ForjdCall` may have.

*Idle.* `NoneTimedOutEarly` gives the price of the two throttles: a tab that is used
may be timed out by another one once it has been left alone for the idle time less
both. It excuses a tab that is used at this very instant, whose news the other has
not had. `IdleSessionEnds` holds with late timers, a warning left open, lost focus
and messages in any order. What the model shows beside: `onActivity`,
`syncExtendedSession` and "Continue session" never ask whether `logoutAt` has
passed, so that a first touch after a sleep revives a session whose deadline is
over, if it comes before the late timer; the comment at `session-idle.service.ts:43`
has the deadlines be absolute to prevent that. `expireSession` does not ask
`isAuthenticated`, and two overlapping runs of `logout()` may end a session begun
between them (in the model with `Logouts` of at least 2, which the proof covers). `extendSession`, `broadcastLogout`, `broadcastExtend` and
`forceLogout` have no callers.

*Reads.* `HonestEmpty` needs the generation of `loadSites`: a load that was
superseded must not end the wait of its successor. `ReadYourWrites` names its
exception, a list asked for before the write was answered that arrives after it:
`invalidate()` leaves the read under way in the map, so the load after a save joins
it (`monitor.service.ts:203`, `settings.ts:760`), and the page then shows the list
from before. Other consequences of the same shape are in the model and not
excluded by any property: `finalize` takes a read out of the map by its key, also
when a newer one is there; a list restored after a deletion that failed may be one
from before; a cached empty list under a failed revalidation shows the empty message
next to the callout; Settings keeps its list after a logout from the navigation bar.
A read under way at logout fills the cache after `clear()` (`swr-cache.ts:91`),
against the comment at `auth.service.ts:699`, "so the next account cannot see prior
tenant data". One account is modelled, so this is read off the code and not checked.
A 200 whose body is no array, which `monitor.service.ts:148` makes an empty list, is
not modelled either: it is shown as "nothing published".

### Bounds

`MaxFaults`, `MaxCrashes`, `MaxChanges`, `MaxClock`, `Late`, `Logouts`, `Reads`,
`Versions` and `Writes` bound the environment, never the program. Each but `Logouts`
is large enough for the kinds of fault a run is about to meet each other in one
behaviour; the two barrier runs and `billing_converges` go without faults, which
`deletion` and `billing_safety` have. With `Logouts` 2 the run `idle` has 1.2 million states and the same result, and the
proof covers every value. `attempts` saturates above `max_attempts`, as only the comparison
matters. Symmetry is used in safety runs only; no configuration with a liveness
property uses it. Runs where the system may come to rest for good (billing), or where the
bounds stop the user (reads), switch deadlock checking off; elsewhere an explicit stuttering action marks the final
state, so every other stop would be reported.

### Fairness

`DeletionLifecycle`: a started handler runs on unless it crashes (weak fairness of
each worker's `Progress`); `start.py` restarts the reconciler, which polls every 30
seconds, so a job that can be claimed again and again is claimed (strong fairness of
`Claim` by some worker: both kinds of worker are one set here, and without it a barred
user who keeps asking could occupy them all, which takes no turn from the reconciler);
leases and backoffs run out with time. Nobody is obliged to request a deletion or to revive a job: `DeletionCompletes`
has `WF_vars(Revive)` as its premise. `ReportOutbox` likewise, where weak fairness of `Claim` is enough.
`BillingEntitlement` assumes that requests run on and that the daily sweep comes
back; it assumes nothing of Stripe's webhooks. `ForjdClient`: an attempt has a
timeout, a sleep an end, and clocks go on. `BrowserIdle`: the event loop turns, time
passes, and the requests of `logout()` have timeouts; that nobody uses a tab any more
is the premise of `IdleSessionEnds`, and signing in is still allowed under it.
`ForjdGateway`, `BrowserReads`, `HeadlessRateLimit` and `AccountBarrier` have safety
properties only.

## Proofs

`AccountDeletionProofs` proves `Spec => []TypeOK`, that `IInv` is inductive, and from
it every safety property of `deletion`, for any sets of workers, tenants and subscriptions and any
`MaxAttempts`, `MaxFaults` and `EraseRepeatable`. The invariant has to say what a
worker knows although it may have lost its lease: what it has still to erase and
what it has erased covers the manifest not yet recorded (`NothingSkipped`), what it
has erased is erased (`DoneIsTrue`, stable because FORJD never gets data back), a
manifest once made does not grow (`ManifestFrozen`), and a holder's copy of the
steps is up to date (`StepsRecorded`), which fencing gives: whoever writes the steps
holds the lease. The proof has one lemma per conjunct and in each one step per
action. `SagaImplemented` then shows that every step is a step of `DeletionSaga` or
changes nothing it can see; the guards of the abstract steps are the invariants.

`HeadlessRateLimitProofs` proves `RateBound`, `NoTokenLost` and `NoRequestCircle` for
every capacity, minute, skew and set of requests and scopes. The key is an account per bucket at
the bucket's own time: what was granted plus what is left is at most a full bucket
plus the refill up to `updated_at` (`Accounts`), and what a request has read of a
locked row is what the row still holds (`ReadRows`). A purged row is no gift since
it was untouched long enough to be full; the purge holds the locks of the rows it is
about to delete, which are committed and stale (`DoomedRows`). `LockOrder` says that
every lock of a request is on a key below those it has still to take. So a request
waits only for one that is further in the order of the keys, or that already locks
while it inserts (`WaitingRises`); in any set of requests the one that is furthest
waits for none of the others.

`SessionRegistryProofs` proves the three session properties for any sessions,
users, codes, threads, lifetimes and skew. `RowsLastLongEnough` relates the row to
its last use and, since a touch may write nothing, to `last_seen`; `RevokedIsGone`
ties requests that came with a revoked session to a missing row; `CodesAccounted`
follows a code from lock to payload.

`ReportOutboxProofs` proves every safety property of `outbox`, for any threads,
reconcilers, tenants, submissions, attempts and crashes. The destination never changes
once it is set and is a tenant that was mapped, so the manifest names it unless it was
provisioned behind the barrier (`Named`). What a delivery has read stays the row's destination and, once the account is gone, has been
erased (`ViewsAreTrue`), so a late POST is refused; what a web thread was asked is what
the row holds (`AskedIsContent`). Nothing has happened before the row is there (`Lives`,
`AbsentIsBlank`).

The last part of `AccountDeletionProofs` proves `QuietBarrier` for any sets of requests
and workers. `QuietInv` has a layer for each cause: who has read the user active
(`NoStaleRead`), who could make a key (`NoKeyMaker`), who could provision
(`NoProvisioner`). Each is empty when the barrier goes up unless `atBar` says otherwise,
and is not filled again behind it, because a request that comes later reads the row
inactive and writes it as it is. The saga's `IInv` holds as long as nobody could
provision: a request of an open account adds tenants that no job has read yet. With a
provisioner in flight `NothingLeftBehind` fails (see the finding), so the condition
cannot be dropped.

`BillingEntitlementProofs` proves `NeverAcknowledgedCharging` for either position of
`_PRO_CHECKOUT_ENABLED`, and `NoOrphanCharge` for the position the code ships. Every
subscription that charges has either an unacknowledged event of its checkout, or it is
the one on file: then everything read of the row names it too, so a whole-row save puts
back what is there, and the saga cancels it before the row is cleared (`OnFile`).

`ForjdProofs` proves, first of the gateway, `AuditTrail`, `OwnTenantOnly` and
`HonestAnswer` for any requests, accounts, pages and deployments. An adapter is a sequence of steps, so the
inductive invariant speaks of the steps a running request has still to take: they
are in the order of the code (`Shape`: after the row of the attempt privileged steps
only, after a call nothing that authorizes, after a write only writes), and each has
what it needs or an earlier one will provide it (`Standing`: a write its attempt's row,
`owned` the account's own credential, a call about a page the page looked up). The call
that is open has heard from FORJD what the request says it has (`OpenCall`). Once a
request has concluded, its rows, its receipt and its answer agree with its last call
(`Audited`, `Honest`). A step takes the head off the sequence, and `Advance` shows
that what is said of a sequence is said of its tail; that every adapter begins in
such an order is proved adapter by adapter. `Remap` may change the mappings
under any of it: what a request has taken as its tenant was the account's own when
it took it.

Its second part, about `ForjdClient`, proves `OpensOnlyOnFailures` and, as
`CallsKept`, the safety part of `KeepsPromise`, for any coroutines, classes, threshold, cooldown and number of
attempts. The breaker is the only thing coroutines share and promises nothing about a
call, so the invariant falls apart into one about the breaker and one about each slot
(`SlotOK`): a write that is under way has not reached FORJD before and never waits for
another attempt. Every action is then shown to be a move of one slot that `ForjdCall`
allows (`CallStep`).

`BrowserIdleProofs` proves `NoneTimedOutEarly` for any tabs, times, lateness and
number of overlapping logouts.
`Spares` relates the deadline of each tab to what each tab has done: counted from its
last broadcast, from the last activity it handled and from its last activity, the
deadline is as far away as the throttles between the three allow, or the news is in
the other's inbox and no time has passed since. A broadcast sets every deadline anew,
an activity that a throttle swallows borrows from the one before it, and `Tick` takes
from the deadline no more than it adds to the others. That late timers, sign-ins and
overlapping logouts do no harm rests on `AtRest`: without a session nothing but
`SyncAuthState` sets a deadline.

`BrowserReadsProofs` proves `HonestEmpty` and `ReadYourWrites` for any sites, number
of reads under way and versions. `ToldInv` says that the page has
been given a list before it shows a site, merges one into its list or deletes one; `SavedInv` follows every list there is, in
the cache, under way, in a load that waits for its second half and in what a failed
deletion would restore: unless it was asked for before the last write was answered,
it has what that write left. `asked` orders reads and writes, and the bound on their
number plays no part in the argument.

Assumptions are the `ASSUME`s on constants in the modules; `NoOrphan` assumes
`Gates = {FALSE}` in addition. Nothing else is taken on trust.

Only model-checked: liveness, as fairness and `ENABLED` are out of the prover's reach
(`DeletionSettles`, `DeletionCompletes`, `PendingSettles`,
`EntitlementConverges`, `CircuitCloses`, `IdleSessionEnds`, and of `KeepsPromise`
the fairness of `ForjdCall`). Every invariant and every action property of the runs
is proved.

## Not modelled, and why

* Token verification, MFA, PKCE, encryption, schemas, formatting, logging, mail.
  Their results are inputs; they keep no state that another actor changes.
* Float rounding in the rate limiter: credits are exact integers.
* FORJD, Stripe and Firebase beyond what the calls rely on.
* The analytics sync: optional and best effort.
* The cryptographic envelope of the telemetry, the comparison of a shadow read
  (logged and forgotten) and the field names `angular_compat.py` changes.
* Firebase's sign-in flows in the browser, MFA, the profile and the interceptors;
  `SessionRegistry` and `BrowserIdle` take their outcomes as inputs.
* The read cache across two accounts, and a save whose request times out in the
  browser and still reaches the server later.
* The supervisor's restart loops, which justify fairness and have no other state.
* `user.save()` of a request that read the row before the last transaction of a
  deletion (`lifecycle.py:60`): the row it inserts belongs to a new account.

## Plan

What is left, in this order:

1. `AuthService`: its unserialized `onAuthStateChanged` handlers composed with the
   sessions of `SessionRegistry`. Is a tab ever authenticated without a bound
   session (`docs/MINIMAL_ARCHITECTURE.md:49`)? A bind that fails in a new tab removes
   `deml_auth_status` and so signs the others out.
2. The read cache with two accounts, where the read under way at logout matters.
3. The analytics sync and its idempotence.
4. What the liveness properties rest on besides fairness: a measure for each of
   `DeletionLifecycle`, `ReportOutbox` and `ForjdClient` that no step of the program
   raises, as an action property that can be proved.
