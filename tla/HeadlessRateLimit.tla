--------------------------- MODULE HeadlessRateLimit ---------------------------
(***************************************************************************)
(* The token buckets of backend/config/headless_rate_limit.py: one row per *)
(* scope (an API key, a user, an account, a hashed address), shared by     *)
(* every replica.  A request consumes one token in all of its scopes or in *)
(* none, in one transaction over the rows; the daily maintenance purges    *)
(* rows nobody has used for days, in one statement that locks the rows it  *)
(* visits, in any order, until it commits.                                 *)
(*                                                                         *)
(* Time is counted in ticks and a minute has Minute of them.  Tokens are   *)
(* counted in credits, Minute to a token, so a tick refills exactly        *)
(* Capacity credits and the arithmetic is over the integers.               *)
(***************************************************************************)
EXTENDS Integers

CONSTANTS
  Requests,    \* requests in the middleware, on any replica
  Scopes,      \* scope keys: hashes, sorted before anything else is done
  ScopesOf,    \* the scopes of each request
  NoRequest,   \* a row nobody has locked
  Purger,      \* the transaction of the daily purge, which locks rows too
  Capacity,    \* tokens of a full bucket, refilled in a minute
  Minute,      \* ticks of a minute
  MaxAge,      \* RATE_LIMIT_BUCKET_MAX_AGE_DAYS
  Skew,        \* how far a replica's clock is off
  MaxClock     \* BOUND: the last tick

ASSUME ScopesAssumption ==
  /\ Scopes \subseteq Nat
  /\ \E last \in Scopes : \A k \in Scopes : k <= last
  /\ ScopesOf \in [Requests -> (SUBSET Scopes) \ {{}}]
ASSUME NoRequestAssumption ==
  NoRequest \notin Requests /\ Purger \notin Requests /\ Purger # NoRequest
ASSUME ClockAssumption ==
  /\ Capacity \in Nat \ {0} /\ Minute \in Nat \ {0} /\ Skew \in Nat /\ MaxClock \in Nat
  /\ MaxAge \in Nat /\ MaxAge >= Minute + 2 * Skew

VARIABLES
  \* The headless_rate_limit_buckets table.
  row,       \* scopes that have a row, uncommitted ones included
  credit,    \* tokens * Minute
  updated,   \* updated_at
  owner,     \* the transaction that holds the row's lock
  \* Transactions of consume_many.
  stage,     \* where each one is
  began,     \* insertion_time
  todo,      \* scopes still to insert or to lock
  made,      \* rows inserted, not yet committed
  seen,      \* rows its SELECT ... FOR UPDATE found
  tokens,    \* credit of the rows it has locked, as it read them
  stamp,     \* updated_at of the rows it has locked, as it read them
  \* The DELETE of run_retention_purge.
  cutoff,    \* bucket_cutoff
  pending,   \* stale rows of its snapshot it has not visited
  doomed,    \* rows it has locked and deleted, not yet committed
  \* The world.
  now,       \* true time
  granted    \* HISTORY: requests let through, by scope

table    == <<row, credit, updated, owner>>
requests == <<stage, began, todo, made, seen, tokens, stamp>>
purge    == <<cutoff, pending, doomed>>
vars     == <<table, requests, purge, now, granted>>

Full == Capacity * Minute

(* What a replica may read from its clock.                                 *)
Clock == (now - Skew) .. (now + Skew)

TypeOK ==
  /\ row \subseteq Scopes
  /\ credit \in [Scopes -> 0 .. Full]
  /\ updated \in [Scopes -> Int]
  /\ owner \in [Scopes -> Requests \cup {NoRequest, Purger}]
  /\ stage \in [Requests -> {"idle", "insert", "lock"}]
  /\ began \in [Requests -> Int]
  /\ todo \in [Requests -> SUBSET Scopes]
  /\ made \in [Requests -> SUBSET Scopes]
  /\ seen \in [Requests -> SUBSET Scopes]
  /\ tokens \in [Requests -> [Scopes -> 0 .. Full]]
  /\ stamp \in [Requests -> [Scopes -> Int]]
  /\ cutoff \in Int
  /\ pending \subseteq Scopes
  /\ doomed \subseteq Scopes
  /\ now \in Nat
  /\ granted \in [Scopes -> Nat]

Blank == [k \in Scopes |-> 0]

Init ==
  /\ row = {}
  /\ credit = Blank
  /\ updated = Blank
  /\ owner = [k \in Scopes |-> NoRequest]
  /\ stage = [r \in Requests |-> "idle"]
  /\ began = [r \in Requests |-> 0]
  /\ todo = [r \in Requests |-> {}]
  /\ made = [r \in Requests |-> {}]
  /\ seen = [r \in Requests |-> {}]
  /\ tokens = [r \in Requests |-> Blank]
  /\ stamp = [r \in Requests |-> Blank]
  /\ cutoff = 0
  /\ pending = {}
  /\ doomed = {}
  /\ now = 0
  /\ granted = [k \in Scopes |-> 0]

-----------------------------------------------------------------------------
(* The one element of S that sorts first.                                  *)
First(S) == {k \in S : \A j \in S : k <= j}

(* A row that another request has inserted and not committed.              *)
Uncommitted(r, k) == \E q \in Requests \ {r} : k \in made[q]

(* consume_many: sort the scopes, remember the time, open the transaction. *)
Begin(r, t) ==
  /\ stage[r] = "idle"
  /\ stage' = [stage EXCEPT ![r] = "insert"]
  /\ began' = [began EXCEPT ![r] = t]
  /\ todo' = [todo EXCEPT ![r] = ScopesOf[r]]
  /\ UNCHANGED <<table, made, seen, tokens, stamp, purge, now, granted>>

(* bulk_create(ignore_conflicts): a missing row is created full, and locked *)
(* until the commit; one that another transaction is creating or deleting  *)
(* is waited for, and left as it is when it is there then.                 *)
InsertRow(r) ==
  /\ stage[r] = "insert"
  /\ \E k \in First(todo[r]) :
       /\ ~Uncommitted(r, k)
       /\ k \notin doomed
       /\ todo' = [todo EXCEPT ![r] = @ \ {k}]
       /\ IF k \in row
            THEN UNCHANGED <<table, made>>
            ELSE /\ row' = row \cup {k}
                 /\ credit' = [credit EXCEPT ![k] = Full]
                 /\ updated' = [updated EXCEPT ![k] = began[r]]
                 /\ owner' = [owner EXCEPT ![k] = r]
                 /\ made' = [made EXCEPT ![r] = @ \cup {k}]
  /\ UNCHANGED <<stage, began, seen, tokens, stamp, purge, now, granted>>

(* Mutant: the SELECT reads rows that are not committed yet.               *)
SelectUncommitted(r) ==
  /\ stage[r] = "insert"
  /\ todo[r] = {}
  /\ stage' = [stage EXCEPT ![r] = "lock"]
  /\ seen' = [seen EXCEPT ![r] = ScopesOf[r] \cap row]
  /\ todo' = [todo EXCEPT ![r] = seen'[r]]
  /\ UNCHANGED <<table, began, made, tokens, stamp, purge, now, granted>>

(* SELECT ... FOR UPDATE ORDER BY scope_key sees what is committed, and its *)
(* own rows; a row that is being deleted is still there.                   *)
StartSelect(r) ==
  /\ stage[r] = "insert"
  /\ todo[r] = {}
  /\ stage' = [stage EXCEPT ![r] = "lock"]
  /\ seen' = [seen EXCEPT ![r] = {k \in ScopesOf[r] \cap row : ~Uncommitted(r, k)}]
  /\ todo' = [todo EXCEPT ![r] = seen'[r]]
  /\ UNCHANGED <<table, began, made, tokens, stamp, purge, now, granted>>

(* The row is read when its lock is granted.                               *)
ReadRow(r, k) ==
  /\ tokens' = [tokens EXCEPT ![r] = [@ EXCEPT ![k] = credit[k]]]
  /\ stamp' = [stamp EXCEPT ![r] = [@ EXCEPT ![k] = updated[k]]]
  /\ todo' = [todo EXCEPT ![r] = @ \ {k}]

(* Mutant: the rows are locked in any order.                               *)
LockAnyRow(r) ==
  /\ stage[r] = "lock"
  /\ \E k \in todo[r] :
       /\ owner[k] \in {NoRequest, r}
       /\ owner' = [owner EXCEPT ![k] = r]
       /\ ReadRow(r, k)
  /\ UNCHANGED <<row, credit, updated, stage, began, made, seen, purge, now, granted>>

(* Mutant: the rows are read without a lock.                               *)
ReadUnlocked(r) ==
  /\ stage[r] = "lock"
  /\ \E k \in First(todo[r]) : ReadRow(r, k)
  /\ UNCHANGED <<table, stage, began, made, seen, purge, now, granted>>

LockRow(r) ==
  /\ stage[r] = "lock"
  /\ \E k \in First(todo[r]) :
       /\ owner[k] \in {NoRequest, r}
       /\ owner' = [owner EXCEPT ![k] = r]
       /\ ReadRow(r, k)
  /\ UNCHANGED <<row, credit, updated, stage, began, made, seen, purge, now, granted>>

-----------------------------------------------------------------------------
(* The time a row counts as used at.                                       *)
(* Mutant: the clock's reading counts although the row is ahead of it.     *)
Observed(s, t) == s
Later(s, t) == IF s > t THEN s ELSE t

(* available_by_scope: refill since updated_at, up to a full bucket; a     *)
(* clock behind the row's counts as the row's.                             *)
Available(r, k, t) ==
  LET refilled == tokens[r][k] + (Later(t, stamp[r][k]) - stamp[r][k]) * Capacity
  IN  IF refilled > Full THEN Full ELSE refilled

Allowed(r, t) == \A k \in ScopesOf[r] : Available(r, k, t) >= Minute

Idle(r) ==
  /\ stage' = [stage EXCEPT ![r] = "idle"]
  /\ began' = [began EXCEPT ![r] = 0]
  /\ todo' = [todo EXCEPT ![r] = {}]
  /\ made' = [made EXCEPT ![r] = {}]
  /\ seen' = [seen EXCEPT ![r] = {}]
  /\ tokens' = [tokens EXCEPT ![r] = Blank]
  /\ stamp' = [stamp EXCEPT ![r] = Blank]

Unlocked(r) == [k \in Scopes |-> IF owner[k] = r THEN NoRequest ELSE owner[k]]

(* The whole tail of the transaction, with the clock read at its start.    *)
Locked(r) == stage[r] = "lock" /\ ScopesOf[r] \subseteq seen[r] /\ todo[r] = {}

(* Read the clock behind the last lock, refill, take a token in all        *)
(* scopes or in none, and commit.                                          *)
Decide(r, t) ==
  /\ Locked(r)
  /\ credit' = [k \in Scopes |->
                  IF k \in ScopesOf[r]
                    THEN Available(r, k, t) - (IF Allowed(r, t) THEN Minute ELSE 0)
                    ELSE credit[k]]
  /\ updated' = [k \in Scopes |->
                   IF k \in ScopesOf[r] THEN Later(t, stamp[r][k]) ELSE updated[k]]
  /\ granted' = [k \in Scopes |->
                   IF k \in ScopesOf[r] /\ Allowed(r, t) THEN granted[k] + 1 ELSE granted[k]]
  /\ owner' = Unlocked(r)
  /\ Idle(r)
  /\ UNCHANGED <<row, purge, now>>

(* Rolled back: the middleware answers 503 and lets nothing through.       *)
Rollback(r) ==
  /\ row' = row \ made[r]
  /\ owner' = Unlocked(r)
  /\ Idle(r)
  /\ UNCHANGED <<credit, updated, purge, now, granted>>

(* "Unable to initialize every rate-limit scope": a row was purged since;  *)
(* those that are left have been locked for nothing.                       *)
RowMissing(r) ==
  /\ stage[r] = "lock"
  /\ todo[r] = {}
  /\ ~(ScopesOf[r] \subseteq seen[r])
  /\ Rollback(r)

(* The database or the process fails, or the database ends a circle of     *)
(* waiting transactions with this one.                                     *)
Abort(r) ==
  /\ stage[r] # "idle"
  /\ Rollback(r)

-----------------------------------------------------------------------------
(* run_retention_purge: one DELETE ... WHERE updated_at <= bucket_cutoff,   *)
(* over the committed rows that are stale when it starts.                  *)
Committed(k) == k \in row /\ \A r \in Requests : k \notin made[r]

PurgeBegin(t) ==
  /\ pending \cup doomed = {}
  /\ cutoff' = t - MaxAge
  /\ pending' = {k \in Scopes : Committed(k) /\ updated[k] <= t - MaxAge}
  /\ pending' # {}
  /\ UNCHANGED <<table, requests, doomed, now, granted>>

(* It takes the rows in whatever order the scan finds them, waits for one  *)
(* that is locked, and then deletes it if it is still stale.               *)
PurgeVisit(k) ==
  /\ k \in pending
  /\ owner[k] = NoRequest
  /\ pending' = pending \ {k}
  /\ IF updated[k] <= cutoff
       THEN /\ doomed' = doomed \cup {k}
            /\ owner' = [owner EXCEPT ![k] = Purger]
       ELSE UNCHANGED <<doomed, owner>>
  /\ UNCHANGED <<row, credit, updated, requests, cutoff, now, granted>>

PurgeOver ==
  /\ owner' = [k \in Scopes |-> IF owner[k] = Purger THEN NoRequest ELSE owner[k]]
  /\ cutoff' = 0
  /\ pending' = {}
  /\ doomed' = {}

(* The rows go; a SELECT that waits for one passes it over.                *)
PurgeCommit ==
  /\ pending = {}
  /\ doomed # {}
  /\ row' = row \ doomed
  /\ seen' = [r \in Requests |-> seen[r] \ doomed]
  /\ todo' = [r \in Requests |-> IF stage[r] = "lock" THEN todo[r] \ doomed ELSE todo[r]]
  /\ PurgeOver
  /\ UNCHANGED <<credit, updated, stage, began, made, tokens, stamp, now, granted>>

(* The database or the process fails, or the database ends a circle of     *)
(* waiting transactions with the purge: it is logged, and tried next day.  *)
PurgeFails ==
  /\ pending \cup doomed # {}
  /\ PurgeOver
  /\ UNCHANGED <<row, credit, updated, requests, now, granted>>

Tick ==
  /\ now < MaxClock
  /\ now' = now + 1
  /\ UNCHANGED <<table, requests, purge, granted>>

Step(r) ==
  \/ \E t \in Clock : Begin(r, t)
  \/ InsertRow(r)
  \/ StartSelect(r)
  \/ LockRow(r)
  \/ \E t \in Clock : Decide(r, t)
  \/ RowMissing(r)
  \/ Abort(r)

Next ==
  \/ \E r \in Requests : Step(r)
  \/ \E t \in Clock : PurgeBegin(t)
  \/ \E k \in Scopes : PurgeVisit(k)
  \/ PurgeCommit
  \/ PurgeFails
  \/ Tick

Spec == Init /\ [][Next]_vars

-----------------------------------------------------------------------------
(* Properties.                                                             *)

(* No scope is let through faster than its quota: a full bucket at once    *)
(* and Capacity a minute from then on, whatever the replicas' clocks say,  *)
(* whoever waits, and when rows are purged and created anew.               *)
RateBound ==
  \A k \in Scopes : Minute * granted[k] <= Full + Capacity * (now + 2 * Skew)

(* A request that is denied or fails takes no token from any of its        *)
(* scopes: all that is missing from a bucket was granted.                  *)
NoTokenLost ==
  \A k \in row : Full <= Minute * granted[k] + credit[k]

(* What makes the properties inductive.  A row that is being inserted is    *)
(* locked and full; a row a request has read is locked until it commits,   *)
(* so what it read is what it overwrites; a row the purge has visited is    *)
(* locked and stale until it goes; and a bucket's account is exact at its  *)
(* own time, updated_at, while a scope without a row was not used   *)
(* for so long that a full bucket is no gift.                              *)
MadeRows ==
  \A r \in Requests :
    /\ todo[r] \cup made[r] \subseteq ScopesOf[r]
    /\ \A k \in made[r] : k \in row /\ owner[k] = r /\ credit[k] = Full

SeenRows ==
  \A r \in Requests : \A k \in seen[r] : k \in row /\ ~Uncommitted(r, k)

ReadRows ==
  \A r \in Requests : \A k \in seen[r] \ todo[r] :
    stage[r] = "lock" => owner[k] = r /\ tokens[r][k] = credit[k] /\ stamp[r][k] = updated[k]

DoomedRows ==
  /\ pending \cup doomed # {} => cutoff + MaxAge <= now + Skew
  /\ \A k \in pending : Committed(k)
  /\ \A k \in doomed : Committed(k) /\ owner[k] = Purger /\ updated[k] <= cutoff

Times ==
  /\ \A r \in Requests : began[r] <= now + Skew
  /\ \A k \in row : updated[k] <= now + Skew

Accounts ==
  \A k \in Scopes :
    IF Committed(k)
      THEN Minute * granted[k] + credit[k] <= Full + Capacity * (updated[k] + Skew)
      ELSE Minute * granted[k] <= Capacity * now

(* Every lock a request holds is one it has taken in this stage or the one *)
(* before, and it takes them in the order of the keys.                     *)
LockOrder ==
  \A r \in Requests :
    /\ \A k \in Scopes :
         owner[k] = r => k \in made[r] \/ (stage[r] = "lock" /\ k \in seen[r] \ todo[r])
    /\ stage[r] = "idle" => made[r] = {}
    /\ stage[r] = "insert" => \A j \in made[r], k \in todo[r] : j < k
    /\ stage[r] = "lock" =>
         todo[r] \subseteq seen[r] /\ \A j \in seen[r] \ todo[r], k \in todo[r] : j < k

IInv ==
  /\ TypeOK /\ MadeRows /\ SeenRows /\ ReadRows /\ DoomedRows
  /\ Times /\ Accounts /\ NoTokenLost /\ LockOrder

(* Request r cannot go on before q's transaction is over.                  *)
WaitsFor(r, q) ==
  q # r /\ \E k \in First(todo[r]) :
    \/ stage[r] = "insert" /\ k \in made[q]
    \/ stage[r] = "lock" /\ owner[k] = q

(* Requests over several shared scopes never wait for each other in a      *)
(* circle, rows that are purged and created anew included: whatever circle *)
(* there is goes through the purge, and breaks when the database ends it.  *)
NoRequestCircle ==
  \A W \in (SUBSET Requests) \ {{}} : \E r \in W : \A q \in W : ~WaitsFor(r, q)
=============================================================================
