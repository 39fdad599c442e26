------------------------- MODULE SessionRegistryProofs -------------------------
(***************************************************************************)
(* Proofs about SessionRegistry for any sessions, users, codes and web     *)
(* threads, and any lifetimes and clock skew.                              *)
(***************************************************************************)
EXTENDS SessionRegistry, TLAPS

(* A replica's clock is off by at most Skew.                               *)
LEMMA ClockFacts ==
  ASSUME TypeOK, NEW t \in Clock
  PROVE  t \in Int /\ now - Skew <= t /\ t <= now + Skew
  BY TimesAssumption DEF Clock, TypeOK

-----------------------------------------------------------------------------
(* Types.                                                                  *)

(* A thread that begins, goes on or returns keeps its types.               *)
LEMMA ThreadTypes ==
  ASSUME TypeOK, NEW r \in Requests,
         \/ \E s \in Sessions, u \in Users, c \in Codes,
               st \in {"came", "select"} : Begin(r, st, s, u, c)
         \/ Return(r)
         \/ \E st \in {"valid", "locked", "payload"} : Continue(r, st)
  PROVE  /\ stage' \in [Requests -> {"idle", "came", "valid", "select", "locked", "payload"}]
         /\ sess' \in [Requests -> Sessions]
         /\ who' \in [Requests -> Users]
         /\ asked' \in [Requests -> Codes]
  BY DEF TypeOK, Begin, Return, Continue

(* Dropping sessions keeps the types.                                      *)
LEMMA DropTypes ==
  ASSUME TypeOK, NEW S, Drop(S)
  PROVE  /\ holder' \in [Sessions -> Users \cup {NoUser}]
         /\ standing' \in [Sessions -> {"new", "open", "revoked"}]
         /\ UNCHANGED <<expires, lastSeen, used, doomed>>
  BY DEF TypeOK, Drop

(* Deleting codes keeps the types.                                         *)
LEMMA DeleteTypes ==
  ASSUME TypeOK, NEW C, DeleteCodes(C)
  PROVE  /\ code' \in [Codes -> {"absent", "fresh", "expired", "consumed", "deleted"}]
         /\ UNCHANGED <<owner, lock>>
  BY DEF TypeOK, DeleteCodes

(* The steps on sessions keep the types.                                   *)
LEMMA SessionTypes ==
  ASSUME TypeOK, SessionStep
  PROVE  TypeOK'
  <1>1. ASSUME NEW s \in Sessions, NEW u \in Users, Revoke(s, u)
        PROVE  TypeOK'
    BY <1>1, DropTypes DEF TypeOK, Revoke, handoffs, threads
  <1>2. ASSUME NEW s \in Sessions, NEW u \in Users, NEW t \in Clock, NEW seen \in Clock,
               Register(s, u, t, seen)
        PROVE  TypeOK'
    <2>1. t + TTL \in Int /\ seen \in Int /\ now \in Int
      BY ClockFacts, TimesAssumption DEF TypeOK
    <2> QED BY <1>2, <2>1 DEF TypeOK, Register, handoffs, threads
  <1>3. ASSUME NEW u \in Users, RevokeAll(u)
        PROVE  TypeOK'
    BY <1>3, DropTypes DEF TypeOK, RevokeAll, handoffs, threads
  <1>4. ASSUME NEW t \in Clock, PurgeSessions(t)
        PROVE  TypeOK'
    BY <1>4 DEF TypeOK, PurgeSessions, handoffs, threads, history
  <1> QED BY <1>1, <1>2, <1>3, <1>4 DEF SessionStep, EndpointStep

(* The steps of a product request keep the types.                          *)
LEMMA RequestTypes ==
  ASSUME TypeOK, NEW r \in Requests, RequestStep(r)
  PROVE  TypeOK'
  <1>1. ASSUME NEW s \in Sessions, NEW u \in Users, Come(r, s, u)
        PROVE  TypeOK'
    <2>1. asked[r] \in Codes /\ Begin(r, "came", s, u, asked[r])
      BY <1>1 DEF TypeOK, Come
    <2>2. doomed' \in SUBSET Requests
      BY <1>1 DEF TypeOK, Come
    <2> QED BY <1>1, <2>1, <2>2, ThreadTypes DEF TypeOK, Come, sessions, handoffs
  <1>2. ASSUME NEW t \in Clock, Validate(r, t)
        PROVE  TypeOK'
    <2>1. Continue(r, "valid") \/ Return(r)
      BY <1>2 DEF Validate
    <2> QED BY <1>2, <2>1, ThreadTypes DEF TypeOK, Validate, sessions, handoffs, history
  <1>3. ASSUME NEW t \in Clock, Touch(r, t)
        PROVE  TypeOK'
    <2>1. t + TTL \in Int /\ t \in Int /\ now \in Int
      BY ClockFacts, TimesAssumption DEF TypeOK
    <2>2. expires' \in [Sessions -> Int] /\ lastSeen' \in [Sessions -> Int]
      BY <1>3, <2>1 DEF TypeOK, Touch
    <2>3. used' \in [Sessions -> Int]
      BY <1>3, <2>1 DEF TypeOK, Touch
    <2>4. Return(r)
      BY <1>3 DEF Touch
    <2> QED BY <1>3, <2>2, <2>3, <2>4, ThreadTypes DEF TypeOK, Touch, handoffs
  <1>4. ASSUME NEW t \in Clock, TouchTooLate(r, t)
        PROVE  TypeOK'
    BY <1>4, ThreadTypes DEF TypeOK, TouchTooLate, sessions, handoffs, history
  <1>5. ASSUME RegistryFails(r)
        PROVE  TypeOK'
    BY <1>5, ThreadTypes DEF TypeOK, RegistryFails, sessions, handoffs, history
  <1> QED BY <1>1, <1>2, <1>3, <1>4, <1>5 DEF RequestStep

(* The steps on codes keep the types.                                      *)
LEMMA CodeTypes ==
  ASSUME TypeOK, CodeStep
  PROVE  TypeOK'
  <1>1. ASSUME NEW c \in Codes, Expire(c)
        PROVE  TypeOK'
    BY <1>1 DEF TypeOK, Expire, sessions, threads, history
  <1>2. ASSUME NEW c \in Codes, NEW u \in Users, Store(c, u)
        PROVE  TypeOK'
    BY <1>2 DEF TypeOK, Store, sessions, threads, history
  <1>3. ASSUME NEW C \in SUBSET Codes, PurgeCodes(C)
        PROVE  TypeOK'
    BY <1>3, DeleteTypes DEF TypeOK, PurgeCodes, sessions, threads, history
  <1>4. ASSUME NEW u \in Users, CloseAccount(u)
        PROVE  TypeOK'
    BY <1>4, DeleteTypes, DropTypes DEF TypeOK, CloseAccount, threads
  <1> QED BY <1>1, <1>2, <1>3, <1>4 DEF CodeStep

(* The steps of a verification keep the types.                             *)
LEMMA VerifyTypes ==
  ASSUME TypeOK, NEW r \in Requests, VerifyStep(r)
  PROVE  TypeOK'
  <1>1. ASSUME NEW c \in Codes, BeginVerify(r, c)
        PROVE  TypeOK'
    <2>1. sess[r] \in Sessions /\ who[r] \in Users
      BY DEF TypeOK
    <2> QED BY <1>1, <2>1, ThreadTypes DEF TypeOK, BeginVerify, sessions, handoffs, history
  <1>2. ASSUME Select(r)
        PROVE  TypeOK'
    <2>1. Continue(r, "locked") \/ Return(r)
      BY <1>2 DEF Select
    <2>2. lock' \in [Codes -> Requests \cup {NoRequest}]
      BY <1>2 DEF TypeOK, Select
    <2> QED BY <1>2, <2>1, <2>2, ThreadTypes DEF TypeOK, Select, sessions, history
  <1>3. ASSUME Consume(r)
        PROVE  TypeOK'
    BY <1>3, ThreadTypes DEF TypeOK, Consume, sessions, history
  <1>4. ASSUME ConsumeFails(r)
        PROVE  TypeOK'
    BY <1>4, ThreadTypes DEF TypeOK, ConsumeFails, sessions, history
  <1>5. ASSUME Answer(r)
        PROVE  TypeOK'
    BY <1>5, ThreadTypes DEF TypeOK, Answer, sessions, handoffs
  <1> QED BY <1>1, <1>2, <1>3, <1>4, <1>5 DEF VerifyStep

(* Every step keeps the types.                                             *)
LEMMA TypeStep ==
  ASSUME TypeOK, [Next]_vars
  PROVE  TypeOK'
  <1>1. CASE Tick
    BY <1>1 DEF TypeOK, Tick, sessions, handoffs, threads, history
  <1>2. CASE UNCHANGED vars
    BY <1>2 DEF TypeOK, vars, sessions, handoffs, threads, history
  <1> QED BY <1>1, <1>2, SessionTypes, RequestTypes, CodeTypes, VerifyTypes DEF Next

(* The tables begin empty and every thread idle.                           *)
LEMMA TypeInit == Init => TypeOK
  BY DEF Init, TypeOK

(* The registry never leaves its types.                                    *)
THEOREM TypeCorrect == Spec => []TypeOK
  BY TypeInit, TypeStep, PTL DEF Spec

-----------------------------------------------------------------------------
(* What leaves the sessions alone.                                         *)

(* A step on codes leaves the sessions alone, but for the closing of an    *)
(* account, which drops some.                                              *)
LEMMA CodeStepSessions ==
  ASSUME CodeStep
  PROVE  /\ UNCHANGED <<threads, now>>
         /\ UNCHANGED <<sessions, standing, used, doomed>> \/ \E S : Drop(S)
  BY DEF CodeStep, Expire, Store, PurgeCodes, CloseAccount, history

(* A verification leaves the sessions alone, and its thread is then not    *)
(* in a product request.                                                   *)
LEMMA VerifyStepSessions ==
  ASSUME TypeOK, NEW r \in Requests, VerifyStep(r)
  PROVE  /\ UNCHANGED <<sessions, now, standing, used, doomed, sess>>
         /\ stage'[r] \notin {"came", "valid"}
         /\ \A q \in Requests \ {r} : stage'[q] = stage[q]
  <1>1. ASSUME NEW c \in Codes, BeginVerify(r, c)
        PROVE  /\ UNCHANGED <<sessions, now, standing, used, doomed>>
               /\ stage' = [stage EXCEPT ![r] = "select"]
               /\ sess' = sess
    BY <1>1 DEF TypeOK, BeginVerify, Begin, history
  <1>2. CASE Select(r) \/ Consume(r) \/ ConsumeFails(r) \/ Answer(r)
    <2>1. /\ UNCHANGED <<sessions, now, standing, used, doomed, sess>>
          /\ \E st \in {"idle", "locked", "payload"} : stage' = [stage EXCEPT ![r] = st]
      BY <1>2 DEF Select, Consume, ConsumeFails, Answer, Continue, Return, history
    <2> QED BY <2>1 DEF TypeOK
  <1> QED BY <1>1, <1>2 DEF VerifyStep, TypeOK

-----------------------------------------------------------------------------
(* A session in use has a row that lasts.                                  *)

(* Dropping sessions, and the passing of time, keep what is said of rows.  *)
LEMMA RowsKept ==
  ASSUME TypeOK, TypeOK', RowsLastLongEnough, now <= now',
         UNCHANGED <<expires, lastSeen, used>>,
         \A s \in Sessions : \/ holder'[s] = holder[s] /\ standing'[s] = standing[s]
                             \/ holder'[s] = NoUser /\ standing'[s] = "revoked"
  PROVE  RowsLastLongEnough'
  <1> SUFFICES ASSUME NEW s \in Sessions
      PROVE  /\ holder'[s] # NoUser => expires'[s] + 2 * Skew >= lastSeen'[s] + TTL
             /\ standing'[s] = "open" =>
                  \/ used'[s] + TTL <= now' + TouchInterval + 4 * Skew
                  \/ /\ holder'[s] # NoUser
                     /\ expires'[s] + TouchInterval + 3 * Skew >= used'[s] + TTL
    BY DEF RowsLastLongEnough
  <1>1. /\ expires[s] \in Int /\ lastSeen[s] \in Int /\ used[s] \in Int
        /\ now \in Int /\ now' \in Int
    BY DEF TypeOK
  <1>2. /\ holder[s] # NoUser => expires[s] + 2 * Skew >= lastSeen[s] + TTL
        /\ standing[s] = "open" =>
             \/ used[s] + TTL <= now + TouchInterval + 4 * Skew
             \/ /\ holder[s] # NoUser
                /\ expires[s] + TouchInterval + 3 * Skew >= used[s] + TTL
    BY DEF RowsLastLongEnough
  <1> QED BY <1>1, <1>2, TimesAssumption

(* The row of one session changes.                                         *)
LEMMA RowsChangedAt ==
  ASSUME TypeOK, RowsLastLongEnough, NEW s \in Sessions, now' = now,
         \A q \in Sessions \ {s} : /\ holder'[q] = holder[q] /\ standing'[q] = standing[q]
                                  /\ expires'[q] = expires[q] /\ lastSeen'[q] = lastSeen[q]
                                  /\ used'[q] = used[q],
         expires'[s] + 2 * Skew >= lastSeen'[s] + TTL,
         holder'[s] # NoUser,
         expires'[s] + TouchInterval + 3 * Skew >= used'[s] + TTL
  PROVE  RowsLastLongEnough'
  BY DEF RowsLastLongEnough

(* Registration writes a full lifetime.                                    *)
LEMMA RegisterRows ==
  ASSUME TypeOK, RowsLastLongEnough,
         NEW s \in Sessions, NEW u \in Users, NEW t \in Clock, NEW seen \in Clock,
         Register(s, u, t, seen)
  PROVE  RowsLastLongEnough'
  <1>1. /\ t \in Int /\ now - Skew <= t
        /\ seen \in Int /\ seen <= now + Skew
        /\ now \in Int
    BY ClockFacts DEF TypeOK
  <1>2. holder'[s] = u /\ expires'[s] = t + TTL /\ lastSeen'[s] = seen /\ used'[s] = now
    BY DEF Register, TypeOK
  <1>3. \A q \in Sessions \ {s} : /\ holder'[q] = holder[q] /\ standing'[q] = standing[q]
                                 /\ expires'[q] = expires[q] /\ lastSeen'[q] = lastSeen[q]
                                 /\ used'[q] = used[q]
    BY DEF Register, TypeOK
  <1>4. /\ expires'[s] + 2 * Skew >= lastSeen'[s] + TTL
        /\ expires'[s] + TouchInterval + 3 * Skew >= used'[s] + TTL
    BY <1>1, <1>2, TimesAssumption
  <1>5. u # NoUser /\ now' = now
    BY NoUserAssumption DEF Register
  <1> QED BY <1>2, <1>3, <1>4, <1>5, RowsChangedAt

(* A touch that writes gives a full lifetime; one that does not has found  *)
(* a row written less than an interval ago.                                *)
LEMMA TouchRows ==
  ASSUME TypeOK, RowsLastLongEnough, NEW r \in Requests, NEW t \in Clock, Touch(r, t)
  PROVE  RowsLastLongEnough'
  <1> DEFINE s == sess[r]
  <1>1. /\ t \in Int /\ now - Skew <= t /\ t <= now + Skew /\ now \in Int
        /\ s \in Sessions
        /\ expires[s] \in Int /\ lastSeen[s] \in Int
    BY ClockFacts DEF TypeOK
  <1>2. /\ holder'[s] # NoUser /\ holder[s] # NoUser /\ used'[s] = now /\ now' = now
        /\ \/ expires'[s] = t + TTL /\ lastSeen'[s] = t
           \/ /\ ~(lastSeen[s] < t - TouchInterval)
              /\ expires'[s] = expires[s] /\ lastSeen'[s] = lastSeen[s]
    BY <1>1 DEF Touch, TypeOK
  <1>3. \A q \in Sessions \ {s} : /\ holder'[q] = holder[q] /\ standing'[q] = standing[q]
                                 /\ expires'[q] = expires[q] /\ lastSeen'[q] = lastSeen[q]
                                 /\ used'[q] = used[q]
    BY DEF Touch, TypeOK
  <1>4. expires[s] + 2 * Skew >= lastSeen[s] + TTL
    BY <1>1, <1>2 DEF RowsLastLongEnough
  <1> HIDE DEF s
  <1>5. /\ expires'[s] + 2 * Skew >= lastSeen'[s] + TTL
        /\ expires'[s] + TouchInterval + 3 * Skew >= used'[s] + TTL
    BY <1>1, <1>2, <1>4, TimesAssumption
  <1> QED BY <1>1, <1>2, <1>3, <1>5, RowsChangedAt

(* The purge takes only rows whose time was up.                            *)
LEMMA PurgeRows ==
  ASSUME TypeOK, RowsLastLongEnough, NEW t \in Clock, PurgeSessions(t)
  PROVE  RowsLastLongEnough'
  <1> SUFFICES ASSUME NEW s \in Sessions
      PROVE  /\ holder'[s] # NoUser => expires'[s] + 2 * Skew >= lastSeen'[s] + TTL
             /\ standing'[s] = "open" =>
                  \/ used'[s] + TTL <= now' + TouchInterval + 4 * Skew
                  \/ /\ holder'[s] # NoUser
                     /\ expires'[s] + TouchInterval + 3 * Skew >= used'[s] + TTL
    BY DEF RowsLastLongEnough
  <1>1. /\ t \in Int /\ t <= now + Skew /\ now \in Int
        /\ expires[s] \in Int /\ lastSeen[s] \in Int /\ used[s] \in Int
    BY ClockFacts DEF TypeOK
  <1>2. /\ expires' = expires /\ lastSeen' = lastSeen /\ used' = used
        /\ standing' = standing /\ now' = now
        /\ holder'[s] = IF expires[s] <= t THEN NoUser ELSE holder[s]
    BY DEF PurgeSessions, history
  <1>3. /\ holder[s] # NoUser => expires[s] + 2 * Skew >= lastSeen[s] + TTL
        /\ standing[s] = "open" =>
             \/ used[s] + TTL <= now + TouchInterval + 4 * Skew
             \/ /\ holder[s] # NoUser
                /\ expires[s] + TouchInterval + 3 * Skew >= used[s] + TTL
    BY DEF RowsLastLongEnough
  <1> QED BY <1>1, <1>2, <1>3, TimesAssumption

(* Every step keeps what is said of rows.                                  *)
LEMMA RowsStep ==
  ASSUME TypeOK, TypeOK', RowsLastLongEnough, [Next]_vars
  PROVE  RowsLastLongEnough'
  <1>0. now \in Int
    BY DEF TypeOK
  <1>1. ASSUME NEW S, Drop(S), now' = now
        PROVE  RowsLastLongEnough'
    <2>1. \A s \in Sessions : \/ holder'[s] = holder[s] /\ standing'[s] = standing[s]
                              \/ holder'[s] = NoUser /\ standing'[s] = "revoked"
      <3> SUFFICES ASSUME NEW s \in Sessions
                   PROVE  \/ holder'[s] = holder[s] /\ standing'[s] = standing[s]
                          \/ holder'[s] = NoUser /\ standing'[s] = "revoked"
        OBVIOUS
      <3>1. CASE s \in S
        BY <1>1, <3>1 DEF Drop
      <3>2. CASE s \notin S
        BY <1>1, <3>2 DEF Drop
      <3> QED BY <3>1, <3>2
    <2> QED BY <1>0, <1>1, <2>1, RowsKept DEF Drop
  <1>2. ASSUME UNCHANGED <<sessions, standing, used>>, now <= now'
        PROVE  RowsLastLongEnough'
    BY <1>2, RowsKept DEF sessions
  <1>3. CASE SessionStep
    <2>1. ASSUME NEW s \in Sessions, NEW u \in Users, Revoke(s, u)
          PROVE  RowsLastLongEnough'
      BY <2>1, <1>1 DEF Revoke
    <2>2. ASSUME NEW u \in Users, RevokeAll(u)
          PROVE  RowsLastLongEnough'
      BY <2>2, <1>1 DEF RevokeAll
    <2> QED BY <1>3, <2>1, <2>2, RegisterRows, PurgeRows DEF SessionStep, EndpointStep
  <1>4. CASE CodeStep
    BY <1>0, <1>1, <1>2, <1>4, CodeStepSessions
  <1>5. ASSUME NEW r \in Requests, RequestStep(r)
        PROVE  RowsLastLongEnough'
    <2>1. ASSUME NEW s \in Sessions, NEW u \in Users, Come(r, s, u)
          PROVE  UNCHANGED <<sessions, standing, used, now>>
      BY <2>1 DEF Come
    <2>2. ASSUME NEW t \in Clock, Validate(r, t) \/ TouchTooLate(r, t)
          PROVE  UNCHANGED <<sessions, standing, used, now>>
      BY <2>2 DEF Validate, TouchTooLate, history
    <2>3. ASSUME RegistryFails(r)
          PROVE  UNCHANGED <<sessions, standing, used, now>>
      BY <2>3 DEF RegistryFails, history
    <2>4. (\E t \in Clock : Touch(r, t)) \/ UNCHANGED <<sessions, standing, used, now>>
      BY <1>5, <2>1, <2>2, <2>3 DEF RequestStep
    <2> QED BY <1>0, <1>2, <2>4, TouchRows
  <1>6. ASSUME NEW r \in Requests, VerifyStep(r)
        PROVE  RowsLastLongEnough'
    BY <1>0, <1>2, <1>6, VerifyStepSessions
  <1>7. CASE Tick
    BY <1>0, <1>2, <1>7 DEF Tick, history
  <1>8. CASE UNCHANGED vars
    BY <1>0, <1>2, <1>8 DEF vars, history
  <1> QED BY <1>3, <1>4, <1>5, <1>6, <1>7, <1>8 DEF Next

-----------------------------------------------------------------------------
(* A revoked session is gone, and nobody who came with it is served.       *)

(* Dropped sessions are gone; nobody who was not doomed becomes so.        *)
LEMMA RevokedKept ==
  ASSUME RevokedIsGone, RevokedServesNothing, TypeOK,
         UNCHANGED <<doomed, sess>>,
         \A s \in Sessions : standing'[s] = "revoked" => holder'[s] = NoUser,
         \A s \in Sessions : standing[s] = "revoked" => standing'[s] = "revoked",
         \A r \in Requests : stage'[r] \in {"came", "valid"} => stage'[r] = stage[r]
  PROVE  RevokedIsGone' /\ RevokedServesNothing'
  BY DEF RevokedIsGone, RevokedServesNothing, TypeOK

(* A drop revokes what it removes.                                         *)
LEMMA DropRevokes ==
  ASSUME RevokedIsGone, RevokedServesNothing, TypeOK, NEW S, Drop(S), UNCHANGED threads
  PROVE  RevokedIsGone' /\ RevokedServesNothing'
  <1>1. \A s \in Sessions : standing[s] = "revoked" => holder[s] = NoUser
    BY DEF RevokedIsGone
  <1>2. /\ \A s \in Sessions : standing'[s] = "revoked" => holder'[s] = NoUser
        /\ \A s \in Sessions : standing[s] = "revoked" => standing'[s] = "revoked"
    BY <1>1 DEF Drop
  <1> QED BY <1>2, RevokedKept DEF Drop, threads

(* The steps on sessions.                                                  *)
LEMMA SessionStepRevoked ==
  ASSUME RevokedIsGone, RevokedServesNothing, TypeOK, SessionStep
  PROVE  RevokedIsGone' /\ RevokedServesNothing'
  <1>1. ASSUME NEW s \in Sessions, NEW u \in Users, Revoke(s, u)
        PROVE  RevokedIsGone' /\ RevokedServesNothing'
    BY <1>1, DropRevokes DEF Revoke
  <1>2. ASSUME NEW s \in Sessions, NEW u \in Users, NEW t \in Clock, NEW seen \in Clock,
               Register(s, u, t, seen)
        PROVE  RevokedIsGone' /\ RevokedServesNothing'
    <2>1. /\ \A q \in Sessions \ {s} : holder'[q] = holder[q] /\ standing'[q] = standing[q]
          /\ standing'[s] = "open"
          /\ doomed' = {r \in doomed : sess[r] # s}
          /\ stage' = stage /\ sess' = sess
      BY <1>2 DEF Register, TypeOK, threads
    <2>2. doomed \subseteq Requests /\ \A r \in Requests : sess[r] \in Sessions
      BY DEF TypeOK
    <2> QED BY <2>1, <2>2 DEF RevokedIsGone, RevokedServesNothing
  <1>3. ASSUME NEW u \in Users, RevokeAll(u)
        PROVE  RevokedIsGone' /\ RevokedServesNothing'
    BY <1>3, DropRevokes DEF RevokeAll
  <1>4. ASSUME NEW t \in Clock, PurgeSessions(t)
        PROVE  RevokedIsGone' /\ RevokedServesNothing'
    <2>1. /\ \A s \in Sessions : holder[s] = NoUser => holder'[s] = NoUser
          /\ UNCHANGED <<standing, doomed, stage, sess>>
      BY <1>4 DEF PurgeSessions, threads, history
    <2> QED BY <2>1 DEF RevokedIsGone, RevokedServesNothing
  <1> QED BY <1>1, <1>2, <1>3, <1>4 DEF SessionStep, EndpointStep

(* The steps of a product request: it is found valid only while its row    *)
(* is there, which for one that is doomed it is not.                       *)
LEMMA RequestStepRevoked ==
  ASSUME RevokedIsGone, RevokedServesNothing, TypeOK, NEW r \in Requests, RequestStep(r)
  PROVE  RevokedIsGone' /\ RevokedServesNothing'
  <1>0. doomed \subseteq Requests /\ who[r] \in Users
    BY DEF TypeOK
  <1>1. ASSUME NEW s \in Sessions, NEW u \in Users, Come(r, s, u)
        PROVE  RevokedIsGone' /\ RevokedServesNothing'
    <2>1. /\ stage'[r] = "came" /\ sess'[r] = s
          /\ \A q \in Requests \ {r} : stage'[q] = stage[q] /\ sess'[q] = sess[q]
          /\ UNCHANGED <<holder, standing>>
          /\ doomed' = IF standing[s] = "revoked" THEN doomed \cup {r} ELSE doomed \ {r}
      BY <1>1 DEF Come, Begin, TypeOK, sessions
    <2> QED BY <1>0, <2>1 DEF RevokedIsGone, RevokedServesNothing
  <1>2. ASSUME NEW t \in Clock, Validate(r, t)
        PROVE  RevokedIsGone' /\ RevokedServesNothing'
    <2>1. /\ stage[r] = "came"
          /\ \A q \in Requests \ {r} : stage'[q] = stage[q]
          /\ stage'[r] = "idle" \/ (stage'[r] = "valid" /\ holder[sess[r]] = who[r])
          /\ UNCHANGED <<holder, standing, doomed, sess>>
      BY <1>2 DEF Validate, Valid, Continue, Return, TypeOK, sessions, history
    <2>2. stage'[r] = "valid" => r \notin doomed
      <3> SUFFICES ASSUME stage'[r] = "valid", r \in doomed
                   PROVE  FALSE
        OBVIOUS
      <3>1. sess[r] \in Sessions /\ standing[sess[r]] = "revoked"
        BY <2>1 DEF RevokedIsGone, TypeOK
      <3>2. holder[sess[r]] = NoUser
        BY <3>1 DEF RevokedIsGone
      <3> QED BY <1>0, <2>1, <3>2, NoUserAssumption
    <2>3. RevokedServesNothing'
      BY <1>0, <2>1, <2>2 DEF RevokedServesNothing
    <2>4. RevokedIsGone'
      BY <1>0, <2>1, <2>2 DEF RevokedIsGone
    <2> QED BY <2>3, <2>4
  <1>3. ASSUME NEW t \in Clock, Touch(r, t)
        PROVE  RevokedIsGone' /\ RevokedServesNothing'
    <2>1. /\ \A q \in Requests : stage'[q] \in {"came", "valid"} => stage'[q] = stage[q]
          /\ UNCHANGED <<holder, standing, doomed, sess>>
      BY <1>3 DEF Touch, Return, TypeOK
    <2>2. \A s \in Sessions : standing'[s] = "revoked" => holder'[s] = NoUser
      BY <2>1 DEF RevokedIsGone
    <2> QED BY <2>1, <2>2, RevokedKept
  <1>4. ASSUME NEW t \in Clock, TouchTooLate(r, t)
        PROVE  RevokedIsGone' /\ RevokedServesNothing'
    <2>1. /\ \A q \in Requests : stage'[q] \in {"came", "valid"} => stage'[q] = stage[q]
          /\ UNCHANGED <<holder, standing, doomed, sess>>
      BY <1>4 DEF TouchTooLate, Return, TypeOK, sessions, history
    <2>2. \A s \in Sessions : standing'[s] = "revoked" => holder'[s] = NoUser
      BY <2>1 DEF RevokedIsGone
    <2> QED BY <2>1, <2>2, RevokedKept
  <1>5. ASSUME RegistryFails(r)
        PROVE  RevokedIsGone' /\ RevokedServesNothing'
    <2>1. /\ \A q \in Requests : stage'[q] \in {"came", "valid"} => stage'[q] = stage[q]
          /\ UNCHANGED <<holder, standing, doomed, sess>>
      BY <1>5 DEF RegistryFails, Return, TypeOK, sessions, history
    <2>2. \A s \in Sessions : standing'[s] = "revoked" => holder'[s] = NoUser
      BY <2>1 DEF RevokedIsGone
    <2> QED BY <2>1, <2>2, RevokedKept
  <1> QED BY <1>1, <1>2, <1>3, <1>4, <1>5 DEF RequestStep

(* Every step keeps revoked sessions revoked and unserved.                 *)
LEMMA RevokedStep ==
  ASSUME RevokedIsGone, RevokedServesNothing, TypeOK, [Next]_vars
  PROVE  RevokedIsGone' /\ RevokedServesNothing'
  <1>0. ASSUME UNCHANGED <<threads, sessions, standing, doomed>>
        PROVE  RevokedIsGone' /\ RevokedServesNothing'
    BY <1>0 DEF RevokedIsGone, RevokedServesNothing, threads, sessions
  <1>1. CASE CodeStep
    BY <1>0, <1>1, CodeStepSessions, DropRevokes
  <1>2. ASSUME NEW r \in Requests, VerifyStep(r)
        PROVE  RevokedIsGone' /\ RevokedServesNothing'
    <2>1. /\ UNCHANGED <<sessions, standing, doomed, sess>>
          /\ \A q \in Requests : stage'[q] \in {"came", "valid"} => stage'[q] = stage[q]
      BY <1>2, VerifyStepSessions
    <2>2. \A s \in Sessions : standing'[s] = "revoked" => holder'[s] = NoUser
      BY <2>1 DEF RevokedIsGone, sessions
    <2> QED BY <2>1, <2>2, RevokedKept
  <1>3. CASE Tick
    BY <1>0, <1>3 DEF Tick, history
  <1>4. CASE UNCHANGED vars
    BY <1>0, <1>4 DEF vars, history
  <1> QED BY <1>1, <1>2, <1>3, <1>4, SessionStepRevoked, RequestStepRevoked DEF Next

-----------------------------------------------------------------------------
(* A code is worth one attempt.                                            *)

(* Nothing is said of the codes that a step on sessions changes.           *)
LEMMA CodesKept ==
  ASSUME TypeOK, CodesAccounted, CodeSpentOnce,
         UNCHANGED <<code, lock, asked, answered>>,
         \A r \in Requests : stage'[r] \in {"locked", "payload"} => stage'[r] = stage[r]
  PROVE  CodesAccounted' /\ CodeSpentOnce'
  BY DEF CodesAccounted, CodeSpentOnce

(* A code that changes and is not locked was in no thread's hands, unless  *)
(* it was consumed.                                                        *)
LEMMA CodeStepCodes ==
  ASSUME TypeOK, CodesAccounted, CodeSpentOnce, CodeStep
  PROVE  CodesAccounted' /\ CodeSpentOnce'
  <1>0. /\ \A r \in Requests : stage[r] \in {"locked", "payload"} => asked[r] \in Codes
        /\ \A r \in Requests : r # NoRequest
    BY NoRequestAssumption DEF TypeOK
  <1>1. UNCHANGED <<stage, asked, lock, answered>>
    BY DEF CodeStep, Expire, Store, PurgeCodes, CloseAccount, DeleteCodes, threads, history
  <1>2. \A c \in Codes :
          \/ code'[c] = code[c]
          \/ code[c] = "absent" /\ code'[c] = "fresh"
          \/ code[c] = "fresh" /\ code'[c] = "expired"
          \/ code[c] # "absent" /\ code'[c] = "deleted" /\ lock[c] = NoRequest
    <2>1. ASSUME NEW C \in SUBSET Codes, DeleteCodes(C), \A c \in C : code[c] # "absent"
          PROVE  \A c \in Codes :
                   \/ code'[c] = code[c]
                   \/ code[c] # "absent" /\ code'[c] = "deleted" /\ lock[c] = NoRequest
      <3> SUFFICES ASSUME NEW c \in Codes
                   PROVE  \/ code'[c] = code[c]
                          \/ code[c] # "absent" /\ code'[c] = "deleted" /\ lock[c] = NoRequest
        OBVIOUS
      <3>1. CASE c \in C
        BY <2>1, <3>1 DEF DeleteCodes
      <3>2. CASE c \notin C
        BY <2>1, <3>2 DEF DeleteCodes
      <3> QED BY <3>1, <3>2
    <2>2. ASSUME NEW C \in SUBSET Codes, PurgeCodes(C)
          PROVE  DeleteCodes(C) /\ \A c \in C : code[c] # "absent"
      BY <2>2 DEF PurgeCodes
    <2>3. ASSUME NEW u \in Users, CloseAccount(u)
          PROVE  \E C \in SUBSET Codes : DeleteCodes(C) /\ \A c \in C : code[c] # "absent"
      BY <2>3 DEF CloseAccount
    <2>4. ASSUME NEW c \in Codes, Expire(c) \/ \E u \in Users : Store(c, u)
          PROVE  \A d \in Codes :
                   \/ code'[d] = code[d]
                   \/ code[d] = "absent" /\ code'[d] = "fresh"
                   \/ code[d] = "fresh" /\ code'[d] = "expired"
      BY <2>4 DEF Expire, Store, TypeOK
    <2> QED BY <2>1, <2>2, <2>3, <2>4 DEF CodeStep
  <1> QED BY <1>0, <1>1, <1>2 DEF CodesAccounted, CodeSpentOnce, TypeOK

(* The lock lets one thread at a time consume a code, and a consumed code  *)
(* is selected by nobody.                                                  *)
LEMMA VerifyStepCodes ==
  ASSUME TypeOK, CodesAccounted, CodeSpentOnce, NEW r \in Requests, VerifyStep(r)
  PROVE  CodesAccounted' /\ CodeSpentOnce'
  <1>0. /\ asked[r] \in Codes /\ r # NoRequest
        /\ \A c \in Codes : answered[c] \in Nat
    BY NoRequestAssumption DEF TypeOK
  <1>1. ASSUME NEW c \in Codes, BeginVerify(r, c)
        PROVE  CodesAccounted' /\ CodeSpentOnce'
    <2>1. /\ stage'[r] = "select"
          /\ \A q \in Requests \ {r} : stage'[q] = stage[q] /\ asked'[q] = asked[q]
          /\ UNCHANGED <<code, lock, answered>>
      BY <1>1 DEF BeginVerify, Begin, TypeOK, handoffs, history
    <2> QED BY <2>1 DEF CodesAccounted, CodeSpentOnce
  <1>2. ASSUME Select(r)
        PROVE  CodesAccounted' /\ CodeSpentOnce'
    <2>1. CASE code[asked[r]] = "fresh"
      <3>1. /\ lock[asked[r]] = NoRequest /\ lock'[asked[r]] = r
            /\ \A c \in Codes \ {asked[r]} : lock'[c] = lock[c]
            /\ stage'[r] = "locked"
            /\ \A q \in Requests \ {r} : stage'[q] = stage[q]
            /\ UNCHANGED <<code, asked, answered>>
        BY <1>2, <2>1 DEF Select, Continue, TypeOK, history
      <3>2. \A q \in Requests : q # NoRequest /\ asked[q] \in Codes
        BY NoRequestAssumption DEF TypeOK
      <3> QED BY <2>1, <3>1, <3>2 DEF CodesAccounted, CodeSpentOnce
    <2>2. CASE code[asked[r]] # "fresh"
      <3>1. /\ \A q \in Requests : stage'[q] \in {"locked", "payload"} => stage'[q] = stage[q]
            /\ UNCHANGED <<code, lock, asked, answered>>
        BY <1>2, <2>2 DEF Select, Return, TypeOK, history
      <3> QED BY <3>1, CodesKept
    <2> QED BY <2>1, <2>2
  <1>3. ASSUME Consume(r)
        PROVE  CodesAccounted' /\ CodeSpentOnce'
    <2>1. /\ stage[r] = "locked" /\ stage'[r] = "payload"
          /\ \A q \in Requests \ {r} : stage'[q] = stage[q]
          /\ code'[asked[r]] = "consumed" /\ lock'[asked[r]] = NoRequest
          /\ \A c \in Codes \ {asked[r]} : code'[c] = code[c] /\ lock'[c] = lock[c]
          /\ UNCHANGED <<asked, answered>>
      BY <1>0, <1>3 DEF Consume, Continue, TypeOK, history
    <2>2. lock[asked[r]] = r /\ code[asked[r]] \in {"fresh", "expired"} /\ answered[asked[r]] = 0
      BY <1>0, <2>1 DEF CodesAccounted
    <2>3. \A q \in Requests \ {r} :
            asked[q] = asked[r] => stage[q] # "locked" /\ stage[q] # "payload"
      BY <2>2 DEF CodesAccounted
    <2>4. \A q \in Requests : asked[q] \in Codes
      BY DEF TypeOK
    <2> QED BY <1>0, <2>1, <2>2, <2>3, <2>4 DEF CodesAccounted, CodeSpentOnce
  <1>4. ASSUME ConsumeFails(r)
        PROVE  CodesAccounted' /\ CodeSpentOnce'
    <2>1. /\ stage[r] = "locked" /\ stage'[r] = "idle"
          /\ \A q \in Requests \ {r} : stage'[q] = stage[q]
          /\ \A c \in Codes \ {asked[r]} : lock'[c] = lock[c]
          /\ UNCHANGED <<code, asked, answered>>
      BY <1>0, <1>4 DEF ConsumeFails, Return, TypeOK, history
    <2>2. lock[asked[r]] = r
      BY <2>1 DEF CodesAccounted
    <2>3. \A q \in Requests \ {r} : asked[q] = asked[r] => stage[q] # "locked"
      BY <2>2 DEF CodesAccounted
    <2>4. \A q \in Requests : asked[q] \in Codes
      BY DEF TypeOK
    <2> QED BY <2>1, <2>3, <2>4 DEF CodesAccounted, CodeSpentOnce
  <1>5. ASSUME Answer(r)
        PROVE  CodesAccounted' /\ CodeSpentOnce'
    <2>1. /\ stage[r] = "payload" /\ stage'[r] = "idle"
          /\ \A q \in Requests \ {r} : stage'[q] = stage[q]
          /\ answered'[asked[r]] = answered[asked[r]] + 1
          /\ \A c \in Codes \ {asked[r]} : answered'[c] = answered[c]
          /\ UNCHANGED <<code, lock, asked>>
      BY <1>0, <1>5 DEF Answer, Return, TypeOK, handoffs
    <2>2. /\ answered[asked[r]] = 0 /\ code[asked[r]] \notin {"absent", "fresh", "expired"}
          /\ \A q \in Requests \ {r} : asked[q] = asked[r] => stage[q] # "payload"
      BY <2>1 DEF CodesAccounted
    <2>3. \A q \in Requests : asked[q] \in Codes
      BY DEF TypeOK
    <2> QED BY <1>0, <2>1, <2>2, <2>3 DEF CodesAccounted, CodeSpentOnce
  <1> QED BY <1>1, <1>2, <1>3, <1>4, <1>5 DEF VerifyStep

(* Every step keeps the codes accounted for.                               *)
LEMMA CodesStep ==
  ASSUME TypeOK, CodesAccounted, CodeSpentOnce, [Next]_vars
  PROVE  CodesAccounted' /\ CodeSpentOnce'
  <1>0. ASSUME UNCHANGED <<handoffs, threads, answered>>
        PROVE  CodesAccounted' /\ CodeSpentOnce'
    BY <1>0, CodesKept DEF handoffs, threads
  <1>1. CASE SessionStep
    <2>1. UNCHANGED <<handoffs, threads, answered>>
      BY <1>1 DEF SessionStep, EndpointStep, Revoke, Register, RevokeAll, PurgeSessions, history
    <2> QED BY <1>0, <2>1
  <1>2. ASSUME NEW r \in Requests, RequestStep(r)
        PROVE  CodesAccounted' /\ CodeSpentOnce'
    <2>1. ASSUME NEW s \in Sessions, NEW u \in Users, Come(r, s, u)
          PROVE  CodesAccounted' /\ CodeSpentOnce'
      <3>1. stage' = [stage EXCEPT ![r] = "came"] /\ asked' = [asked EXCEPT ![r] = asked[r]]
            /\ UNCHANGED <<code, lock, answered>>
        BY <2>1 DEF Come, Begin, handoffs
      <3>2. asked' = asked
        BY <3>1 DEF TypeOK
      <3>3. \A q \in Requests : stage'[q] \in {"locked", "payload"} => stage'[q] = stage[q]
        BY <3>1 DEF TypeOK
      <3> QED BY <3>1, <3>2, <3>3, CodesKept
    <2>2. ASSUME NEW t \in Clock, Validate(r, t) \/ Touch(r, t) \/ TouchTooLate(r, t)
          PROVE  CodesAccounted' /\ CodeSpentOnce'
      <3>1. /\ Return(r) \/ Continue(r, "valid")
            /\ UNCHANGED <<code, lock, answered>>
        BY <2>2 DEF Validate, Touch, TouchTooLate, handoffs, history
      <3>2. /\ asked' = asked
            /\ \A q \in Requests : stage'[q] \in {"locked", "payload"} => stage'[q] = stage[q]
        BY <3>1 DEF Return, Continue, TypeOK
      <3> QED BY <3>1, <3>2, CodesKept
    <2>3. ASSUME RegistryFails(r)
          PROVE  CodesAccounted' /\ CodeSpentOnce'
      <3>1. /\ asked' = asked
            /\ \A q \in Requests : stage'[q] \in {"locked", "payload"} => stage'[q] = stage[q]
            /\ UNCHANGED <<code, lock, answered>>
        BY <2>3 DEF RegistryFails, Return, TypeOK, handoffs, history
      <3> QED BY <3>1, CodesKept
    <2> QED BY <1>2, <2>1, <2>2, <2>3 DEF RequestStep
  <1>3. CASE Tick
    BY <1>0, <1>3 DEF Tick, history
  <1>4. CASE UNCHANGED vars
    BY <1>0, <1>4 DEF vars, history
  <1> QED BY <1>1, <1>2, <1>3, <1>4, CodeStepCodes, VerifyStepCodes DEF Next

-----------------------------------------------------------------------------
(* The invariant.                                                          *)

(* It holds of empty tables.                                               *)
LEMMA IInvInit == Init => IInv
  <1> SUFFICES ASSUME Init
               PROVE  IInv
    OBVIOUS
  <1>1. RowsLastLongEnough /\ RevokedIsGone /\ RevokedServesNothing
    BY DEF Init, RowsLastLongEnough, RevokedIsGone, RevokedServesNothing
  <1>2. CodesAccounted /\ CodeSpentOnce
    BY DEF Init, CodesAccounted, CodeSpentOnce
  <1> QED BY <1>1, <1>2, TypeInit DEF IInv

(* Rows last, revoked sessions stay gone and codes are accounted for, in   *)
(* every reachable state: what the registry's properties rest on.          *)
THEOREM InductiveInvariant == Spec => []IInv
  <1>1. IInv /\ [Next]_vars => IInv'
    BY TypeStep, RowsStep, RevokedStep, CodesStep DEF IInv
  <1> QED BY IInvInit, <1>1, PTL DEF Spec

(* A session in use stays alive although touches are throttled and clocks  *)
(* disagree (touch_session, purge_expired_sessions).                       *)
THEOREM SessionsLive == Spec => []LiveWhileUsed
  <1>1. IInv => LiveWhileUsed
    <2> SUFFICES ASSUME IInv, NEW s \in Sessions, standing[s] = "open",
                        now + TouchInterval + 4 * Skew < used[s] + TTL
                 PROVE  holder[s] # NoUser /\ expires[s] > now + Skew
      BY DEF LiveWhileUsed
    <2>1. now \in Int /\ used[s] \in Int /\ expires[s] \in Int
      BY DEF IInv, TypeOK
    <2>2. \/ used[s] + TTL <= now + TouchInterval + 4 * Skew
          \/ /\ holder[s] # NoUser
             /\ expires[s] + TouchInterval + 3 * Skew >= used[s] + TTL
      BY DEF IInv, RowsLastLongEnough
    <2> QED BY <2>1, <2>2, TimesAssumption
  <1> QED BY InductiveInvariant, <1>1, PTL

(* No request that comes with a revoked session is served                  *)
(* (is_session_valid, touch_session).                                      *)
THEOREM RevocationHolds == Spec => []RevokedServesNothing
  <1>1. IInv => RevokedServesNothing
    BY DEF IInv
  <1> QED BY InductiveInvariant, <1>1, PTL

(* A handoff code is tried at most once (consume_handoff).                 *)
THEOREM CodesSpentOnce == Spec => []CodeSpentOnce
  <1>1. IInv => CodeSpentOnce
    BY DEF IInv
  <1> QED BY InductiveInvariant, <1>1, PTL
=============================================================================
