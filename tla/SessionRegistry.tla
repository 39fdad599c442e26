---------------------------- MODULE SessionRegistry ----------------------------
(***************************************************************************)
(* The browser_sessions and auth_handoff_tokens tables of                  *)
(* backend/utils/session_registry.py, and those who use them: the          *)
(* middleware, which asks for a live session before it serves a product    *)
(* request and prolongs it afterwards; the endpoints that register and     *)
(* revoke sessions and that store and verify one-time handoff codes; the   *)
(* daily purge; and the deletion of an account.                            *)
(*                                                                         *)
(* A replica reads its clock, and its statement takes effect at some other *)
(* time: the time it writes or compares is off by up to Skew.  The life of *)
(* a handoff code is not counted: it may run out at any moment.            *)
(***************************************************************************)
EXTENDS Integers

CONSTANTS
  Sessions,       \* session ids, chosen by browser tabs
  Users,          \* Firebase users
  NoUser,         \* there is no such row
  Codes,          \* handoff tokens, random and never drawn twice
  Requests,       \* web threads
  NoRequest,      \* a row nobody has locked
  TTL,            \* SESSION_TTL_SECONDS
  TouchInterval,  \* TOUCH_MIN_INTERVAL_SECONDS
  Skew,           \* how far a time is off when it is used
  MaxClock        \* BOUND: the last tick

ASSUME NoUserAssumption == NoUser \notin Users
ASSUME NoRequestAssumption == NoRequest \notin Requests
ASSUME TimesAssumption ==
  /\ TTL \in Nat /\ TouchInterval \in Nat /\ Skew \in Nat /\ MaxClock \in Nat

VARIABLES
  \* browser_sessions.
  holder,    \* firebase_uid, NoUser without a row
  expires,   \* expires_at
  lastSeen,  \* last_seen
  \* auth_handoff_tokens.
  code,      \* "absent", "fresh", "expired", "consumed" or "deleted"
  owner,     \* user_id
  lock,      \* the transaction that has locked the row
  \* Web threads.
  stage,     \* where each one is
  sess,      \* the X-DEML-Session-Id it came with
  who,       \* the user of its Firebase token
  asked,     \* the handoff code it was given
  \* The world.
  now,
  standing,  \* HISTORY: of each session id: "new", "open" or "revoked"
  used,      \* HISTORY: when it was last registered or prolonged
  doomed,    \* HISTORY: requests that came with a revoked session
  answered   \* HISTORY: verifiers compared for each code

sessions == <<holder, expires, lastSeen>>
handoffs == <<code, owner, lock>>
threads  == <<stage, sess, who, asked>>
history  == <<standing, used, doomed, answered>>
vars     == <<sessions, handoffs, threads, now, history>>

(* What a replica may take for the time.                                   *)
Clock == (now - Skew) .. (now + Skew)

TypeOK ==
  /\ holder \in [Sessions -> Users \cup {NoUser}]
  /\ expires \in [Sessions -> Int]
  /\ lastSeen \in [Sessions -> Int]
  /\ code \in [Codes -> {"absent", "fresh", "expired", "consumed", "deleted"}]
  /\ owner \in [Codes -> Users \cup {NoUser}]
  /\ lock \in [Codes -> Requests \cup {NoRequest}]
  /\ stage \in [Requests -> {"idle", "came", "valid", "select", "locked", "payload"}]
  /\ sess \in [Requests -> Sessions]
  /\ who \in [Requests -> Users]
  /\ asked \in [Requests -> Codes]
  /\ now \in Nat
  /\ standing \in [Sessions -> {"new", "open", "revoked"}]
  /\ used \in [Sessions -> Int]
  /\ doomed \in SUBSET Requests
  /\ answered \in [Codes -> Nat]

(* sess, who and asked mean something only while a thread is at work.      *)
Init ==
  /\ holder = [s \in Sessions |-> NoUser]
  /\ expires = [s \in Sessions |-> 0] /\ lastSeen = [s \in Sessions |-> 0]
  /\ code = [c \in Codes |-> "absent"] /\ owner = [c \in Codes |-> NoUser]
  /\ lock = [c \in Codes |-> NoRequest]
  /\ stage = [r \in Requests |-> "idle"]
  /\ \E s \in Sessions : sess = [r \in Requests |-> s]
  /\ \E u \in Users : who = [r \in Requests |-> u]
  /\ \E c \in Codes : asked = [r \in Requests |-> c]
  /\ now = 0
  /\ standing = [s \in Sessions |-> "new"] /\ used = [s \in Sessions |-> 0]
  /\ doomed = {} /\ answered = [c \in Codes |-> 0]

-----------------------------------------------------------------------------
(* Sessions.                                                               *)

(* Mutant: an expiry is not moved when the row exists already.             *)
RegisterKeepsExpiry(s, u, t, seen) ==
  /\ holder' = [holder EXCEPT ![s] = u]
  /\ expires' = IF holder[s] = NoUser THEN [expires EXCEPT ![s] = t + TTL] ELSE expires
  /\ lastSeen' = [lastSeen EXCEPT ![s] = seen]
  /\ standing' = [standing EXCEPT ![s] = "open"]
  /\ used' = [used EXCEPT ![s] = now]
  /\ doomed' = {r \in doomed : sess[r] # s}
  /\ UNCHANGED <<handoffs, threads, now, answered>>

(* register_session, by update_or_create: whoever registers an id has it.  *)
(* last_seen is auto_now, a second look at the clock.                      *)
Register(s, u, t, seen) ==
  /\ holder' = [holder EXCEPT ![s] = u]
  /\ expires' = [expires EXCEPT ![s] = t + TTL]
  /\ lastSeen' = [lastSeen EXCEPT ![s] = seen]
  /\ standing' = [standing EXCEPT ![s] = "open"]
  /\ used' = [used EXCEPT ![s] = now]
  /\ doomed' = {r \in doomed : sess[r] # s}
  /\ UNCHANGED <<handoffs, threads, now, answered>>

Drop(S) ==
  /\ holder' = [s \in Sessions |-> IF s \in S THEN NoUser ELSE holder[s]]
  /\ standing' = [s \in Sessions |-> IF s \in S THEN "revoked" ELSE standing[s]]
  /\ UNCHANGED <<expires, lastSeen, used, doomed>>

(* revoke_session: only a session of one's own.                            *)
Revoke(s, u) ==
  /\ holder[s] = u
  /\ Drop({s})
  /\ UNCHANGED <<handoffs, threads, now, answered>>

(* revoke_all_sessions.                                                    *)
RevokeAll(u) ==
  /\ Drop({s \in Sessions : holder[s] = u})
  /\ UNCHANGED <<handoffs, threads, now, answered>>

(* purge_expired_sessions.                                                 *)
PurgeSessions(t) ==
  /\ holder' = [s \in Sessions |-> IF expires[s] <= t THEN NoUser ELSE holder[s]]
  /\ UNCHANGED <<expires, lastSeen, handoffs, threads, now, history>>

-----------------------------------------------------------------------------
(* A product request in the middleware.                                    *)

Begin(r, st, s, u, c) ==
  /\ stage[r] = "idle"
  /\ stage' = [stage EXCEPT ![r] = st]
  /\ sess' = [sess EXCEPT ![r] = s]
  /\ who' = [who EXCEPT ![r] = u]
  /\ asked' = [asked EXCEPT ![r] = c]

Return(r) == stage' = [stage EXCEPT ![r] = "idle"] /\ UNCHANGED <<sess, who, asked>>

Continue(r, st) == stage' = [stage EXCEPT ![r] = st] /\ UNCHANGED <<sess, who, asked>>

Come(r, s, u) ==
  /\ Begin(r, "came", s, u, asked[r])
  /\ doomed' = IF standing[s] = "revoked" THEN doomed \cup {r} ELSE doomed \ {r}
  /\ UNCHANGED <<sessions, handoffs, now, standing, used, answered>>

(* is_session_valid.                                                       *)
Valid(r, t) == holder[sess[r]] = who[r] /\ expires[sess[r]] > t

Validate(r, t) ==
  /\ stage[r] = "came"
  /\ IF Valid(r, t) THEN Continue(r, "valid") ELSE Return(r)
  /\ UNCHANGED <<sessions, handoffs, now, history>>

(* Mutant: the session is written back when it is gone.                    *)
TouchWritesBack(r, t) ==
  /\ stage[r] = "valid"
  /\ holder' = [holder EXCEPT ![sess[r]] = who[r]]
  /\ expires' = [expires EXCEPT ![sess[r]] = t + TTL]
  /\ lastSeen' = [lastSeen EXCEPT ![sess[r]] = t]
  /\ used' = [used EXCEPT ![sess[r]] = now]
  /\ Return(r)
  /\ UNCHANGED <<handoffs, now, standing, doomed, answered>>

(* Mutant: the throttled touch forgets to move the expiry.                 *)
TouchSeenOnly(r, t) ==
  LET s == sess[r] IN
  /\ stage[r] = "valid"
  /\ holder[s] # NoUser /\ expires[s] > t
  /\ lastSeen' = [lastSeen EXCEPT ![s] = t]
  /\ used' = [used EXCEPT ![s] = now]
  /\ Return(r)
  /\ UNCHANGED <<holder, expires, handoffs, now, standing, doomed, answered>>

(* touch_session: one UPDATE of a live row not seen for a while; a session *)
(* seen just now is left as it is.                                         *)
Touch(r, t) ==
  LET s == sess[r] IN
  /\ stage[r] = "valid"
  /\ holder[s] # NoUser /\ expires[s] > t
  /\ IF lastSeen[s] < t - TouchInterval
       THEN /\ lastSeen' = [lastSeen EXCEPT ![s] = t]
            /\ expires' = [expires EXCEPT ![s] = t + TTL]
       ELSE UNCHANGED <<lastSeen, expires>>
  /\ used' = [used EXCEPT ![s] = now]
  /\ Return(r)
  /\ UNCHANGED <<holder, handoffs, now, standing, doomed, answered>>

(* It was revoked or ran out since; the middleware does not look at that.  *)
TouchTooLate(r, t) ==
  /\ stage[r] = "valid"
  /\ holder[sess[r]] = NoUser \/ expires[sess[r]] <= t
  /\ Return(r)
  /\ UNCHANGED <<sessions, handoffs, now, history>>

(* The registry fails: a request not yet validated is refused, one that is *)
(* goes on without a touch.                                                *)
RegistryFails(r) ==
  /\ stage[r] \in {"came", "valid"}
  /\ Return(r)
  /\ UNCHANGED <<sessions, handoffs, now, history>>

-----------------------------------------------------------------------------
(* Handoff codes.                                                          *)

(* store_handoff, for a token just drawn.                                  *)
Store(c, u) ==
  /\ code[c] = "absent"
  /\ code' = [code EXCEPT ![c] = "fresh"]
  /\ owner' = [owner EXCEPT ![c] = u]
  /\ UNCHANGED <<lock, sessions, threads, now, history>>

(* Its expires_at goes by.                                                 *)
Expire(c) ==
  /\ code[c] = "fresh"
  /\ code' = [code EXCEPT ![c] = "expired"]
  /\ UNCHANGED <<owner, lock, sessions, threads, now, history>>

BeginVerify(r, c) ==
  /\ Begin(r, "select", sess[r], who[r], c)
  /\ UNCHANGED <<sessions, handoffs, now, history>>

(* Mutant: the row is read without FOR UPDATE.                             *)
SelectUnlocked(r) ==
  /\ stage[r] = "select"
  /\ IF code[asked[r]] = "fresh" THEN Continue(r, "locked") ELSE Return(r)
  /\ UNCHANGED <<sessions, handoffs, now, history>>

(* SELECT ... FOR UPDATE: the filter is applied once the lock is granted.  *)
Select(r) ==
  LET c == asked[r] IN
  /\ stage[r] = "select"
  /\ lock[c] = NoRequest
  /\ IF code[c] = "fresh"
       THEN lock' = [lock EXCEPT ![c] = r] /\ Continue(r, "locked")
       ELSE UNCHANGED lock /\ Return(r)
  /\ UNCHANGED <<sessions, code, owner, now, history>>

(* consumed_at is set and committed, before the verifier is looked at.     *)
Consume(r) ==
  LET c == asked[r] IN
  /\ stage[r] = "locked"
  /\ code' = [code EXCEPT ![c] = "consumed"]
  /\ lock' = [lock EXCEPT ![c] = NoRequest]
  /\ Continue(r, "payload")
  /\ UNCHANGED <<sessions, owner, now, history>>

(* The transaction is rolled back.                                         *)
ConsumeFails(r) ==
  /\ stage[r] = "locked"
  /\ lock' = [lock EXCEPT ![asked[r]] = NoRequest]
  /\ Return(r)
  /\ UNCHANGED <<sessions, code, owner, now, history>>

(* verify_handoff_token compares the PKCE verifier and answers.            *)
Answer(r) ==
  /\ stage[r] = "payload"
  /\ answered' = [answered EXCEPT ![asked[r]] = @ + 1]
  /\ Return(r)
  /\ UNCHANGED <<sessions, handoffs, now, standing, used, doomed>>

(* Rows locked by a transaction are waited for.                            *)
DeleteCodes(C) ==
  /\ \A c \in C : lock[c] = NoRequest
  /\ code' = [c \in Codes |-> IF c \in C THEN "deleted" ELSE code[c]]
  /\ UNCHANGED <<owner, lock>>

(* run_retention_purge goes by expires_at, and a grace.                    *)
PurgeCodes(C) ==
  /\ \A c \in C : code[c] \in {"expired", "consumed"}
  /\ DeleteCodes(C)
  /\ UNCHANGED <<sessions, threads, now, history>>

(* The last transaction of an account deletion, as far as it goes here.    *)
CloseAccount(u) ==
  /\ DeleteCodes({c \in Codes : code[c] # "absent" /\ owner[c] = u})
  /\ Drop({s \in Sessions : holder[s] = u})
  /\ UNCHANGED <<threads, now, answered>>

-----------------------------------------------------------------------------
Tick ==
  /\ now < MaxClock
  /\ now' = now + 1
  /\ UNCHANGED <<sessions, handoffs, threads, history>>

(* The session endpoints.  /logout revokes one session or all of them, and *)
(* for all the refresh tokens at Firebase, which are none of this model.   *)
EndpointStep ==
  \/ \E s \in Sessions, u \in Users : Revoke(s, u)
  \/ \E s \in Sessions, u \in Users, t, seen \in Clock : Register(s, u, t, seen)
  \/ \E u \in Users : RevokeAll(u)

SessionStep == EndpointStep \/ \E t \in Clock : PurgeSessions(t)

RequestStep(r) ==
  \/ \E s \in Sessions, u \in Users : Come(r, s, u)
  \/ \E t \in Clock : Validate(r, t) \/ Touch(r, t) \/ TouchTooLate(r, t)
  \/ RegistryFails(r)

CodeStep ==
  \/ \E c \in Codes : Expire(c) \/ \E u \in Users : Store(c, u)
  \/ \E C \in SUBSET Codes : PurgeCodes(C)
  \/ \E u \in Users : CloseAccount(u)

VerifyStep(r) ==
  \/ \E c \in Codes : BeginVerify(r, c)
  \/ Select(r)
  \/ Consume(r)
  \/ ConsumeFails(r)
  \/ Answer(r)

Next ==
  \/ SessionStep
  \/ CodeStep
  \/ \E r \in Requests : RequestStep(r) \/ VerifyStep(r)
  \/ Tick

Spec == Init /\ [][Next]_vars

-----------------------------------------------------------------------------
(* Properties.                                                             *)

(* Throttled touches, clocks that disagree and the purge never end a       *)
(* session in use: it lives for TTL, less one touch interval and the       *)
(* clocks' error, after its last use, unless it is revoked.                *)
LiveWhileUsed ==
  \A s \in Sessions :
    standing[s] = "open" /\ now + TouchInterval + 4 * Skew < used[s] + TTL
      => holder[s] # NoUser /\ expires[s] > now + Skew

(* A revocation holds: no request that comes with a revoked session is     *)
(* served, whatever other requests of the session are still doing, until   *)
(* the id is registered again.                                             *)
RevokedServesNothing == \A r \in doomed : stage[r] # "valid"

(* A handoff code is worth one attempt: the verifier is compared at most   *)
(* once, right or wrong, however many requests present the code at once.   *)
CodeSpentOnce == \A c \in Codes : answered[c] <= 1

(* What makes them inductive.                                              *)
RowsLastLongEnough ==
  \A s \in Sessions :
    /\ holder[s] # NoUser => expires[s] + 2 * Skew >= lastSeen[s] + TTL
    /\ standing[s] = "open" =>
         \/ used[s] + TTL <= now + TouchInterval + 4 * Skew
         \/ /\ holder[s] # NoUser
            /\ expires[s] + TouchInterval + 3 * Skew >= used[s] + TTL

RevokedIsGone ==
  /\ \A s \in Sessions : standing[s] = "revoked" => holder[s] = NoUser
  /\ \A r \in doomed : stage[r] = "valid" \/ stage[r] = "came" => standing[sess[r]] = "revoked"

(* The locks and payloads of a code, and what is left of it.               *)
CodesAccounted ==
  /\ \A r \in Requests : stage[r] = "locked" => lock[asked[r]] = r /\ code[asked[r]] \in {"fresh", "expired"}
  /\ \A c \in Codes : code[c] \in {"absent", "fresh", "expired"} => answered[c] = 0
  /\ \A r \in Requests : stage[r] = "payload" =>
       answered[asked[r]] = 0 /\ code[asked[r]] \notin {"absent", "fresh", "expired"}
  /\ \A q, r \in Requests :
       stage[q] = "payload" /\ stage[r] = "payload" /\ asked[q] = asked[r] => q = r

IInv ==
  /\ TypeOK
  /\ RowsLastLongEnough
  /\ RevokedIsGone
  /\ RevokedServesNothing
  /\ CodesAccounted
  /\ CodeSpentOnce
=============================================================================
