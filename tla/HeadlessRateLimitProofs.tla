------------------------ MODULE HeadlessRateLimitProofs ------------------------
(***************************************************************************)
(* Proofs about HeadlessRateLimit for every number of requests and scopes, *)
(* every capacity, length of a minute, purge horizon and clock skew.       *)
(***************************************************************************)
EXTENDS HeadlessRateLimit, TLAPS, WellFoundedInduction

-----------------------------------------------------------------------------
(* Arithmetic of the buckets.                                              *)

(* A full bucket is a natural number of credits.                           *)
LEMMA FullNat == Full \in Nat
  BY ClockAssumption DEF Full

(* The later of two times is one of them and not before either.            *)
LEMMA LaterFacts ==
  ASSUME NEW s \in Int, NEW t \in Int
  PROVE  Later(s, t) \in Int /\ Later(s, t) >= t /\ Later(s, t) >= s
           /\ (Later(s, t) = s \/ Later(s, t) = t)
  BY DEF Later

(* Credits refilled over two consecutive spans add up.                     *)
LEMMA RefillAdds ==
  ASSUME NEW a \in Int, NEW b \in Int
  PROVE  /\ Capacity * a \in Int
         /\ Capacity * b \in Int
         /\ Capacity * (a + b) = Capacity * a + Capacity * b
         /\ (b - a) * Capacity = Capacity * b - Capacity * a
  BY ClockAssumption

(* More time never refills less.                                           *)
LEMMA RefillMonotone ==
  ASSUME NEW a \in Int, NEW b \in Int, a <= b
  PROVE  Capacity * a <= Capacity * b
  BY ClockAssumption

(* What is available is at least what was there, at most a full bucket and *)
(* at most what the elapsed time refills.                                  *)
LEMMA AvailableBounds ==
  ASSUME TypeOK, NEW r \in Requests, NEW k \in Scopes, NEW t \in Int
  PROVE  /\ Available(r, k, t) \in 0 .. Full
         /\ Available(r, k, t) >= tokens[r][k]
         /\ Available(r, k, t)
              <= tokens[r][k] + (Capacity * Later(t, stamp[r][k]) - Capacity * stamp[r][k])
  <1>0. tokens[r][k] \in 0 .. Full /\ stamp[r][k] \in Int
    BY DEF TypeOK
  <1>1. Later(t, stamp[r][k]) \in Int /\ Later(t, stamp[r][k]) >= stamp[r][k]
    BY <1>0, LaterFacts
  <1> DEFINE grown == (Later(t, stamp[r][k]) - stamp[r][k]) * Capacity
  <1>2. grown = Capacity * Later(t, stamp[r][k]) - Capacity * stamp[r][k]
    BY <1>0, <1>1, RefillAdds
  <1>3. /\ Capacity * stamp[r][k] <= Capacity * Later(t, stamp[r][k])
        /\ Capacity * stamp[r][k] \in Int
        /\ Capacity * Later(t, stamp[r][k]) \in Int
    BY <1>0, <1>1, RefillAdds, RefillMonotone
  <1>4. Available(r, k, t) = IF tokens[r][k] + grown > Full THEN Full
                                                            ELSE tokens[r][k] + grown
    BY DEF Available
  <1> HIDE DEF grown
  <1> QED BY <1>0, <1>2, <1>3, <1>4, FullNat

-----------------------------------------------------------------------------
(* Types.                                                                  *)

(* A row is read into the copy of the transaction that locked it.          *)
LEMMA ReadRowType ==
  ASSUME TypeOK, NEW r \in Requests, NEW k \in Scopes, ReadRow(r, k)
  PROVE  /\ tokens' \in [Requests -> [Scopes -> 0 .. Full]]
         /\ stamp' \in [Requests -> [Scopes -> Int]]
         /\ todo' \in [Requests -> SUBSET Scopes]
  BY DEF TypeOK, ReadRow

(* A transaction that ends resets its variables within their types.        *)
LEMMA IdleType ==
  ASSUME TypeOK, NEW r \in Requests, Idle(r)
  PROVE  /\ stage' \in [Requests -> {"idle", "insert", "lock"}]
         /\ began' \in [Requests -> Int]
         /\ todo' \in [Requests -> SUBSET Scopes]
         /\ made' \in [Requests -> SUBSET Scopes]
         /\ seen' \in [Requests -> SUBSET Scopes]
         /\ tokens' \in [Requests -> [Scopes -> 0 .. Full]]
         /\ stamp' \in [Requests -> [Scopes -> Int]]
  <1>1. Blank \in [Scopes -> 0 .. Full] /\ Blank \in [Scopes -> Int]
    BY FullNat DEF Blank
  <1> QED BY <1>1 DEF TypeOK, Idle

(* A decision keeps every bucket between empty and full.                   *)
LEMMA DecideType ==
  ASSUME TypeOK, NEW r \in Requests, NEW t \in Int, Decide(r, t)
  PROVE  TypeOK'
  <1>1. credit' \in [Scopes -> 0 .. Full]
    <2>1. \A k \in Scopes : Available(r, k, t) \in 0 .. Full
      BY AvailableBounds
    <2>2. ASSUME NEW k \in ScopesOf[r], Allowed(r, t)
          PROVE  Available(r, k, t) >= Minute
      BY <2>2 DEF Allowed
    <2>3. ASSUME NEW k \in Scopes
          PROVE  credit'[k] \in 0 .. Full
      <3>1. CASE k \in ScopesOf[r] /\ Allowed(r, t)
        BY <2>1, <2>2, <3>1, FullNat, ClockAssumption DEF Decide
      <3>2. CASE k \in ScopesOf[r] /\ ~Allowed(r, t)
        BY <2>1, <3>2, FullNat DEF Decide
      <3>3. CASE k \notin ScopesOf[r]
        BY <3>3 DEF Decide, TypeOK
      <3> QED BY <3>1, <3>2, <3>3
    <2> QED BY <2>3 DEF Decide
  <1>2. updated' \in [Scopes -> Int]
    BY LaterFacts DEF Decide, TypeOK
  <1>3. granted' \in [Scopes -> Nat]
    BY DEF Decide, TypeOK
  <1>4. owner' \in [Scopes -> Requests \cup {NoRequest, Purger}]
    BY DEF Decide, Unlocked, TypeOK
  <1>5. row' \subseteq Scopes /\ now' \in Nat /\ UNCHANGED purge
    BY DEF Decide, TypeOK
  <1>6. Idle(r)
    BY DEF Decide
  <1> QED BY <1>1, <1>2, <1>3, <1>4, <1>5, <1>6, IdleType DEF TypeOK, purge

(* Every step keeps the types.                                             *)
LEMMA TypeStep ==
  ASSUME TypeOK, [Next]_vars
  PROVE  TypeOK'
  <1>1. ASSUME NEW r \in Requests, NEW t \in Clock, Begin(r, t)
        PROVE  TypeOK'
    <2>1. t \in Int
      BY ClockAssumption DEF Clock, TypeOK
    <2>2. ScopesOf[r] \subseteq Scopes
      BY ScopesAssumption
    <2> QED BY <1>1, <2>1, <2>2 DEF TypeOK, Begin, table, purge
  <1>2. ASSUME NEW r \in Requests, InsertRow(r)
        PROVE  TypeOK'
    <2>1. PICK k \in First(todo[r]) :
            /\ todo' = [todo EXCEPT ![r] = @ \ {k}]
            /\ IF k \in row
                 THEN UNCHANGED <<table, made>>
                 ELSE /\ row' = row \cup {k}
                      /\ credit' = [credit EXCEPT ![k] = Full]
                      /\ updated' = [updated EXCEPT ![k] = began[r]]
                      /\ owner' = [owner EXCEPT ![k] = r]
                      /\ made' = [made EXCEPT ![r] = @ \cup {k}]
      BY <1>2 DEF InsertRow
    <2>2. k \in Scopes /\ Full \in 0 .. Full
      BY FullNat DEF First, TypeOK
    <2>3. CASE k \in row
      BY <1>2, <2>1, <2>2, <2>3 DEF TypeOK, InsertRow, table, purge
    <2>4. CASE k \notin row
      <3>1. /\ row' = row \cup {k}
            /\ credit' = [credit EXCEPT ![k] = Full]
            /\ updated' = [updated EXCEPT ![k] = began[r]]
            /\ owner' = [owner EXCEPT ![k] = r]
            /\ made' = [made EXCEPT ![r] = made[r] \cup {k}]
            /\ todo' = [todo EXCEPT ![r] = todo[r] \ {k}]
        BY <2>1, <2>4
      <3>2. /\ row \subseteq Scopes
            /\ credit \in [Scopes -> 0 .. Full]
            /\ updated \in [Scopes -> Int]
            /\ owner \in [Scopes -> Requests \cup {NoRequest, Purger}]
            /\ made \in [Requests -> SUBSET Scopes]
            /\ todo \in [Requests -> SUBSET Scopes]
            /\ began[r] \in Int
        BY DEF TypeOK
      <3>3. row' \subseteq Scopes /\ credit' \in [Scopes -> 0 .. Full]
        BY <2>2, <3>1, <3>2
      <3>4. /\ updated' \in [Scopes -> Int]
            /\ owner' \in [Scopes -> Requests \cup {NoRequest, Purger}]
        BY <2>2, <3>1, <3>2
      <3>5. /\ made' \in [Requests -> SUBSET Scopes]
            /\ todo' \in [Requests -> SUBSET Scopes]
        BY <2>2, <3>1, <3>2
      <3> QED BY <1>2, <3>3, <3>4, <3>5 DEF TypeOK, InsertRow, purge
    <2> QED BY <2>3, <2>4
  <1>3. ASSUME NEW r \in Requests, StartSelect(r)
        PROVE  TypeOK'
    BY <1>3, ScopesAssumption DEF TypeOK, StartSelect, table, purge
  <1>4. ASSUME NEW r \in Requests, LockRow(r)
        PROVE  TypeOK'
    <2>1. PICK k \in First(todo[r]) :
            owner' = [owner EXCEPT ![k] = r] /\ ReadRow(r, k)
      BY <1>4 DEF LockRow
    <2>2. k \in Scopes
      BY DEF First, TypeOK
    <2> QED BY <1>4, <2>1, <2>2, ReadRowType DEF TypeOK, LockRow, purge
  <1>5. ASSUME NEW r \in Requests, NEW t \in Clock, Decide(r, t)
        PROVE  TypeOK'
    BY <1>5, DecideType, ClockAssumption DEF Clock, TypeOK
  <1>6. ASSUME NEW r \in Requests, Rollback(r)
        PROVE  TypeOK'
    BY <1>6, IdleType DEF TypeOK, Rollback, Unlocked, purge
  <1>7. ASSUME NEW t \in Clock, PurgeBegin(t)
        PROVE  TypeOK'
    <2>1. t - MaxAge \in Int
      BY ClockAssumption DEF Clock, TypeOK
    <2> QED BY <1>7, <2>1 DEF TypeOK, PurgeBegin, table, requests
  <1>8. ASSUME NEW k \in Scopes, PurgeVisit(k)
        PROVE  TypeOK'
    BY <1>8 DEF TypeOK, PurgeVisit, requests
  <1>9. CASE PurgeCommit
    BY <1>9 DEF TypeOK, PurgeCommit, PurgeOver
  <1>10. CASE PurgeFails
    BY <1>10 DEF TypeOK, PurgeFails, PurgeOver, requests
  <1>11. CASE Tick
    BY <1>11 DEF TypeOK, Tick, table, requests, purge
  <1>12. CASE UNCHANGED vars
    BY <1>12 DEF TypeOK, vars, table, requests, purge
  <1> QED BY <1>1, <1>2, <1>3, <1>4, <1>5, <1>6, <1>7, <1>8, <1>9, <1>10, <1>11, <1>12
      DEF Next, Step, RowMissing, Abort

(* The limiter never leaves its types: in particular no bucket goes below  *)
(* zero or above its capacity.                                             *)
THEOREM TypeCorrect == Spec => []TypeOK
  <1>1. Init => TypeOK
    BY FullNat DEF Init, TypeOK, Blank
  <1>2. TypeOK /\ [Next]_vars => TypeOK'
    BY TypeStep
  <1> QED BY <1>1, <1>2, PTL DEF Spec

-----------------------------------------------------------------------------
(* What the steps on rows do.                                              *)

(* Inserting leaves an existing row as it is or creates a missing one.     *)
LEMMA Insertion ==
  ASSUME TypeOK, NEW r \in Requests, InsertRow(r)
  PROVE  /\ stage[r] = "insert"
         /\ UNCHANGED <<stage, began, seen, tokens, stamp, purge, now, granted>>
         /\ todo' \in [Requests -> SUBSET Scopes]
         /\ \A q \in Requests : todo'[q] \subseteq todo[q]
         /\ \A q \in Requests \ {r} : todo'[q] = todo[q]
         /\ \/ UNCHANGED <<row, credit, updated, owner, made>>
            \/ \E k \in todo[r] \ row :
                 /\ row' = row \cup {k}
                 /\ credit' = [credit EXCEPT ![k] = Full]
                 /\ updated' = [updated EXCEPT ![k] = began[r]]
                 /\ owner' = [owner EXCEPT ![k] = r]
                 /\ made' = [made EXCEPT ![r] = made[r] \cup {k}]
  <1>1. PICK k \in First(todo[r]) :
          /\ todo' = [todo EXCEPT ![r] = todo[r] \ {k}]
          /\ IF k \in row
               THEN UNCHANGED <<table, made>>
               ELSE /\ row' = row \cup {k}
                    /\ credit' = [credit EXCEPT ![k] = Full]
                    /\ updated' = [updated EXCEPT ![k] = began[r]]
                    /\ owner' = [owner EXCEPT ![k] = r]
                    /\ made' = [made EXCEPT ![r] = made[r] \cup {k}]
    BY DEF InsertRow
  <1>2. k \in todo[r]
    BY DEF First
  <1>3. todo \in [Requests -> SUBSET Scopes]
    BY DEF TypeOK
  <1>4. /\ todo' \in [Requests -> SUBSET Scopes]
        /\ \A q \in Requests : todo'[q] \subseteq todo[q]
        /\ \A q \in Requests \ {r} : todo'[q] = todo[q]
    BY <1>1, <1>3
  <1>5. /\ stage[r] = "insert"
        /\ UNCHANGED <<stage, began, seen, tokens, stamp, purge, now, granted>>
    BY DEF InsertRow
  <1>6. CASE k \in row
    BY <1>1, <1>4, <1>5, <1>6 DEF table
  <1>7. CASE k \notin row
    BY <1>1, <1>2, <1>4, <1>5, <1>7
  <1> QED BY <1>6, <1>7

(* Locking reads the row that it locks and nothing else changes.           *)
LEMMA Locking ==
  ASSUME TypeOK, NEW r \in Requests, LockRow(r)
  PROVE  \E k \in todo[r] :
           /\ owner[k] \in {NoRequest, r}
           /\ owner' = [owner EXCEPT ![k] = r]
           /\ tokens' = [tokens EXCEPT ![r] = [tokens[r] EXCEPT ![k] = credit[k]]]
           /\ stamp' = [stamp EXCEPT ![r] = [stamp[r] EXCEPT ![k] = updated[k]]]
           /\ todo' = [todo EXCEPT ![r] = todo[r] \ {k}]
           /\ stage[r] = "lock"
           /\ UNCHANGED <<row, credit, updated, stage, began, made, seen, purge, now, granted>>
  BY DEF LockRow, ReadRow, First

(* A finished transaction leaves nothing behind, and no other one's locks  *)
(* are touched.                                                            *)
LEMMA Finishing ==
  ASSUME TypeOK, NEW r \in Requests, Idle(r), owner' = Unlocked(r)
  PROVE  /\ stage'[r] = "idle" /\ began'[r] = 0
         /\ todo'[r] = {} /\ made'[r] = {} /\ seen'[r] = {}
         /\ \A q \in Requests \ {r} :
              /\ stage'[q] = stage[q] /\ began'[q] = began[q]
              /\ todo'[q] = todo[q] /\ made'[q] = made[q] /\ seen'[q] = seen[q]
              /\ tokens'[q] = tokens[q] /\ stamp'[q] = stamp[q]
              /\ \A k \in Scopes : owner[k] = q => owner'[k] = q
  BY DEF TypeOK, Idle, Unlocked

(* When a request decides it has locked and read every one of its rows.    *)
LEMMA Deciding ==
  ASSUME IInv, NEW r \in Requests, Locked(r), NEW k \in ScopesOf[r]
  PROVE  /\ k \in Scopes
         /\ k \in row
         /\ owner[k] = r
         /\ tokens[r][k] = credit[k]
         /\ stamp[r][k] = updated[k]
         /\ \A q \in Requests \ {r} : k \notin made[q]
  <1>1. k \in seen[r] \ todo[r]
    BY DEF Locked
  <1>2. k \in Scopes
    BY ScopesAssumption
  <1>3. k \in row /\ ~Uncommitted(r, k)
    BY <1>1 DEF IInv, SeenRows
  <1>4. owner[k] = r /\ tokens[r][k] = credit[k] /\ stamp[r][k] = updated[k]
    BY <1>1 DEF IInv, ReadRows, Locked
  <1> QED BY <1>2, <1>3, <1>4 DEF Uncommitted

(* Until it commits, the purge changes no row, and it takes no lock from a *)
(* request.                                                                *)
LEMMA PurgeWaits ==
  ASSUME TypeOK,
         (\E t \in Clock : PurgeBegin(t)) \/ (\E k \in Scopes : PurgeVisit(k)) \/ PurgeFails
  PROVE  /\ UNCHANGED <<row, credit, updated, now, granted>>
         /\ UNCHANGED requests
         /\ UNCHANGED <<stage, began, todo, made, seen, tokens, stamp>>
         /\ \A q \in Requests, k \in Scopes : owner[k] = q => owner'[k] = q
  BY NoRequestAssumption
     DEF TypeOK, PurgeBegin, PurgeVisit, PurgeFails, PurgeOver, requests, table

(* When it commits, the rows it has visited go, none of them a request's.  *)
LEMMA PurgeCommits ==
  ASSUME IInv, PurgeCommit
  PROVE  /\ row' = row \ doomed
         /\ UNCHANGED <<credit, updated, stage, began, made, tokens, stamp, now, granted>>
         /\ \A q \in Requests :
              /\ made[q] \cap doomed = {}
              /\ seen'[q] = seen[q] \ doomed
              /\ todo'[q] \subseteq todo[q]
              /\ stage[q] = "lock" => todo'[q] = todo[q] \ doomed
         /\ \A q \in Requests, k \in Scopes : owner[k] = q => owner'[k] = q
  <1>1. \A q \in Requests : made[q] \cap doomed = {}
    BY DEF IInv, DoomedRows, Committed
  <1>2. \A q \in Requests, k \in Scopes : owner[k] = q => owner'[k] = q
    BY NoRequestAssumption DEF PurgeCommit, PurgeOver
  <1> QED BY <1>1, <1>2 DEF PurgeCommit

-----------------------------------------------------------------------------
(* The parts of the invariant, step by step.                               *)

(* Rows being inserted stay locked and full.                               *)
LEMMA MadeStep ==
  ASSUME IInv, [Next]_vars
  PROVE  MadeRows'
  <1> USE DEF IInv
  <1>1. ASSUME NEW r \in Requests, NEW t \in Clock, Begin(r, t)
        PROVE  MadeRows'
    BY <1>1 DEF MadeRows, Begin, table, TypeOK
  <1>2. ASSUME NEW r \in Requests, InsertRow(r)
        PROVE  MadeRows'
    <2>1. CASE UNCHANGED <<row, credit, updated, owner, made>>
      BY <1>2, <2>1, Insertion DEF MadeRows
    <2>2. CASE ~UNCHANGED <<row, credit, updated, owner, made>>
      <3>1. PICK k \in todo[r] \ row :
              /\ row' = row \cup {k}
              /\ credit' = [credit EXCEPT ![k] = Full]
              /\ owner' = [owner EXCEPT ![k] = r]
              /\ made' = [made EXCEPT ![r] = made[r] \cup {k}]
        BY <1>2, <2>2, Insertion
      <3>2. k \in Scopes /\ k \in ScopesOf[r]
        BY DEF TypeOK, MadeRows
      <3>3. /\ credit \in [Scopes -> 0 .. Full]
            /\ owner \in [Scopes -> Requests \cup {NoRequest, Purger}]
            /\ made \in [Requests -> SUBSET Scopes]
        BY DEF TypeOK
      <3>4. ASSUME NEW q \in Requests, NEW j \in made'[q]
            PROVE  j \in row' /\ owner'[j] = q /\ credit'[j] = Full /\ j \in ScopesOf[q]
        <4>1. CASE q = r /\ j = k
          BY <3>1, <3>2, <3>3, <4>1
        <4>2. CASE ~(q = r /\ j = k)
          <5>1. j \in made[q]
            BY <3>1, <3>3, <4>2
          <5>2. j \in row /\ owner[j] = q /\ credit[j] = Full /\ j \in ScopesOf[q]
            BY <5>1 DEF MadeRows
          <5> QED BY <3>1, <3>3, <5>2
        <4> QED BY <4>1, <4>2
      <3>5. \A q \in Requests : todo'[q] \subseteq ScopesOf[q]
        BY <1>2, Insertion DEF MadeRows
      <3> QED BY <3>4, <3>5 DEF MadeRows
    <2> QED BY <2>1, <2>2
  <1>3. ASSUME NEW r \in Requests, StartSelect(r)
        PROVE  MadeRows'
    BY <1>3 DEF MadeRows, StartSelect, table, TypeOK
  <1>4. ASSUME NEW r \in Requests, LockRow(r)
        PROVE  MadeRows'
    <2>1. PICK k \in todo[r] :
            /\ owner[k] \in {NoRequest, r}
            /\ owner' = [owner EXCEPT ![k] = r]
            /\ todo' = [todo EXCEPT ![r] = todo[r] \ {k}]
            /\ UNCHANGED <<row, credit, made>>
      BY <1>4, Locking
    <2>2. ASSUME NEW q \in Requests, NEW j \in made[q]
          PROVE  owner'[j] = q
      BY <2>1, NoRequestAssumption DEF MadeRows, TypeOK
    <2> QED BY <2>1, <2>2 DEF MadeRows, TypeOK
  <1>5. ASSUME NEW r \in Requests, NEW t \in Clock, Decide(r, t)
        PROVE  MadeRows'
    <2>1. Locked(r) /\ Idle(r) /\ owner' = Unlocked(r) /\ row' = row
      BY <1>5 DEF Decide
    <2>2. ASSUME NEW q \in Requests \ {r}, NEW j \in made[q]
          PROVE  owner'[j] = q /\ credit'[j] = credit[j]
      <3>1. j \in Scopes /\ owner[j] = q
        BY DEF MadeRows, TypeOK
      <3>2. j \notin ScopesOf[r]
        BY <2>1, Deciding
      <3>3. owner'[j] = q
        BY <2>1, <3>1, Finishing
      <3> QED BY <1>5, <3>1, <3>2, <3>3 DEF Decide
    <2> QED BY <2>1, <2>2, Finishing DEF MadeRows
  <1>6. ASSUME NEW r \in Requests, Rollback(r)
        PROVE  MadeRows'
    <2>1. /\ Idle(r) /\ owner' = Unlocked(r)
          /\ row' = row \ made[r] /\ credit' = credit
      BY <1>6 DEF Rollback
    <2>2. ASSUME NEW q \in Requests \ {r}, NEW j \in made[q]
          PROVE  owner'[j] = q /\ j \in row'
      <3>1. j \in Scopes /\ owner[j] = q /\ j \in row
        BY DEF MadeRows, TypeOK
      <3>2. j \notin made[r]
        BY <3>1 DEF MadeRows
      <3>3. owner'[j] = q
        BY <2>1, <3>1, Finishing
      <3> QED BY <2>1, <3>1, <3>2, <3>3
    <2> QED BY <2>1, <2>2, Finishing DEF MadeRows
  <1>7. CASE (\E t \in Clock : PurgeBegin(t)) \/ (\E k \in Scopes : PurgeVisit(k)) \/ PurgeFails
    <2>1. \A q \in Requests, k \in Scopes : owner[k] = q => owner'[k] = q
      BY <1>7, PurgeWaits
    <2>2. UNCHANGED <<row, credit, todo, made>>
      BY <1>7, PurgeWaits
    <2> QED BY <2>1, <2>2 DEF MadeRows, TypeOK
  <1>8. CASE PurgeCommit
    <2>1. UNCHANGED <<credit, made>> /\ row' = row \ doomed
      BY <1>8, PurgeCommits
    <2>2. ASSUME NEW q \in Requests
          PROVE  /\ made[q] \cap doomed = {} /\ todo'[q] \subseteq todo[q]
                 /\ \A k \in Scopes : owner[k] = q => owner'[k] = q
      BY <1>8, PurgeCommits
    <2> QED BY <2>1, <2>2 DEF MadeRows, TypeOK
  <1>9. CASE Tick
    BY <1>9 DEF MadeRows, Tick, table, requests
  <1>10. CASE UNCHANGED vars
    BY <1>10 DEF MadeRows, vars, table, requests
  <1> QED BY <1>1, <1>2, <1>3, <1>4, <1>5, <1>6, <1>7, <1>8, <1>9, <1>10
      DEF Next, Step, RowMissing, Abort

(* What a SELECT found stays there and is nobody else's insertion.         *)
LEMMA SeenStep ==
  ASSUME IInv, [Next]_vars
  PROVE  SeenRows'
  <1> USE DEF IInv
  <1>1. ASSUME NEW r \in Requests, NEW t \in Clock, Begin(r, t)
        PROVE  SeenRows'
    BY <1>1 DEF SeenRows, Uncommitted, Begin, table
  <1>2. ASSUME NEW r \in Requests, InsertRow(r)
        PROVE  SeenRows'
    <2>1. CASE UNCHANGED <<row, credit, updated, owner, made>>
      BY <1>2, <2>1, Insertion DEF SeenRows, Uncommitted
    <2>2. CASE ~UNCHANGED <<row, credit, updated, owner, made>>
      <3>1. PICK k \in todo[r] \ row :
              /\ row' = row \cup {k}
              /\ made' = [made EXCEPT ![r] = made[r] \cup {k}]
              /\ seen' = seen
        BY <1>2, <2>2, Insertion
      <3>2. made \in [Requests -> SUBSET Scopes]
        BY DEF TypeOK
      <3> QED BY <3>1, <3>2 DEF SeenRows, Uncommitted
    <2> QED BY <2>1, <2>2
  <1>3. ASSUME NEW r \in Requests, StartSelect(r)
        PROVE  SeenRows'
    BY <1>3 DEF SeenRows, Uncommitted, StartSelect, table, TypeOK
  <1>4. ASSUME NEW r \in Requests, LockRow(r)
        PROVE  SeenRows'
    BY <1>4 DEF SeenRows, Uncommitted, LockRow
  <1>5. ASSUME NEW r \in Requests, NEW t \in Clock, Decide(r, t)
        PROVE  SeenRows'
    <2>1. Idle(r) /\ owner' = Unlocked(r) /\ row' = row
      BY <1>5 DEF Decide
    <2> QED BY <2>1, Finishing DEF SeenRows, Uncommitted
  <1>6. ASSUME NEW r \in Requests, Rollback(r)
        PROVE  SeenRows'
    <2>1. Idle(r) /\ owner' = Unlocked(r) /\ row' = row \ made[r]
      BY <1>6 DEF Rollback
    <2> QED BY <2>1, Finishing DEF SeenRows, Uncommitted
  <1>7. CASE (\E t \in Clock : PurgeBegin(t)) \/ (\E k \in Scopes : PurgeVisit(k)) \/ PurgeFails
    <2>1. UNCHANGED <<row, made, seen>>
      BY <1>7, PurgeWaits
    <2> QED BY <2>1 DEF SeenRows, Uncommitted
  <1>8. CASE PurgeCommit
    <2>1. /\ UNCHANGED made /\ row' = row \ doomed
          /\ \A q \in Requests : seen'[q] = seen[q] \ doomed
      BY <1>8, PurgeCommits
    <2> QED BY <2>1 DEF SeenRows, Uncommitted
  <1>9. CASE Tick
    BY <1>9 DEF SeenRows, Uncommitted, Tick, table, requests
  <1>10. CASE UNCHANGED vars
    BY <1>10 DEF SeenRows, Uncommitted, vars, table, requests
  <1> QED BY <1>1, <1>2, <1>3, <1>4, <1>5, <1>6, <1>7, <1>8, <1>9, <1>10
      DEF Next, Step, RowMissing, Abort

(* What a request read stays true until it commits.                        *)
LEMMA ReadStep ==
  ASSUME IInv, [Next]_vars
  PROVE  ReadRows'
  <1> USE DEF IInv
  <1>1. ASSUME NEW r \in Requests, NEW t \in Clock, Begin(r, t)
        PROVE  ReadRows'
    BY <1>1 DEF ReadRows, Begin, table, TypeOK
  <1>2. ASSUME NEW r \in Requests, InsertRow(r)
        PROVE  ReadRows'
    <2>1. /\ stage' = stage /\ seen' = seen /\ tokens' = tokens /\ stamp' = stamp
          /\ stage[r] = "insert"
          /\ \A q \in Requests \ {r} : todo'[q] = todo[q]
      BY <1>2, Insertion
    <2>2. CASE UNCHANGED <<row, credit, updated, owner, made>>
      BY <2>1, <2>2 DEF ReadRows
    <2>3. CASE ~UNCHANGED <<row, credit, updated, owner, made>>
      <3>1. PICK k \in todo[r] \ row :
              /\ credit' = [credit EXCEPT ![k] = Full]
              /\ updated' = [updated EXCEPT ![k] = began[r]]
              /\ owner' = [owner EXCEPT ![k] = r]
        BY <1>2, <2>3, Insertion
      <3>2. ASSUME NEW q \in Requests \ {r}, NEW j \in seen[q]
            PROVE  /\ j # k
                   /\ owner'[j] = owner[j]
                   /\ credit'[j] = credit[j]
                   /\ updated'[j] = updated[j]
        <4>1. j \in row /\ j \in Scopes
          BY <3>2 DEF SeenRows, TypeOK
        <4> QED BY <3>1, <4>1 DEF TypeOK
      <3> QED BY <2>1, <3>2 DEF ReadRows
    <2> QED BY <2>2, <2>3
  <1>3. ASSUME NEW r \in Requests, StartSelect(r)
        PROVE  ReadRows'
    <2>1. /\ UNCHANGED <<credit, updated, owner, tokens, stamp>>
          /\ todo'[r] = seen'[r]
          /\ \A q \in Requests \ {r} :
               todo'[q] = todo[q] /\ seen'[q] = seen[q] /\ stage'[q] = stage[q]
      BY <1>3 DEF StartSelect, table, TypeOK
    <2> QED BY <2>1 DEF ReadRows
  <1>4. ASSUME NEW r \in Requests, LockRow(r)
        PROVE  ReadRows'
    <2>1. PICK k \in todo[r] :
            /\ owner[k] \in {NoRequest, r}
            /\ owner' = [owner EXCEPT ![k] = r]
            /\ tokens' = [tokens EXCEPT ![r] = [tokens[r] EXCEPT ![k] = credit[k]]]
            /\ stamp' = [stamp EXCEPT ![r] = [stamp[r] EXCEPT ![k] = updated[k]]]
            /\ todo' = [todo EXCEPT ![r] = todo[r] \ {k}]
            /\ stage[r] = "lock"
            /\ UNCHANGED <<row, credit, updated, stage, made, seen>>
      BY <1>4, Locking
    <2>2. ASSUME NEW q \in Requests, NEW j \in seen[q] \ todo'[q], stage[q] = "lock"
          PROVE  owner'[j] = q /\ tokens'[q][j] = credit[j] /\ stamp'[q][j] = updated[j]
      <3>1. j \in Scopes
        BY DEF TypeOK
      <3>2. CASE q = r /\ j = k
        BY <2>1, <3>1, <3>2 DEF TypeOK
      <3>3. CASE q = r /\ j # k
        <4>1. j \in seen[r] \ todo[r]
          BY <2>1, <2>2, <3>3 DEF TypeOK
        <4>2. owner[j] = r /\ tokens[r][j] = credit[j] /\ stamp[r][j] = updated[j]
          BY <2>2, <3>3, <4>1 DEF ReadRows
        <4> QED BY <2>1, <3>1, <3>3, <4>2 DEF TypeOK
      <3>4. CASE q # r
        <4>1. j \in seen[q] \ todo[q]
          BY <2>1, <2>2, <3>4 DEF TypeOK
        <4>2. owner[j] = q /\ tokens[q][j] = credit[j] /\ stamp[q][j] = updated[j]
          BY <2>2, <4>1 DEF ReadRows
        <4>3. j # k
          BY <2>1, <3>4, <4>2, NoRequestAssumption
        <4> QED BY <2>1, <3>1, <3>4, <4>2, <4>3 DEF TypeOK
      <3> QED BY <3>2, <3>3, <3>4
    <2> QED BY <2>1, <2>2 DEF ReadRows
  <1>5. ASSUME NEW r \in Requests, NEW t \in Clock, Decide(r, t)
        PROVE  ReadRows'
    <2>1. Locked(r) /\ Idle(r) /\ owner' = Unlocked(r)
      BY <1>5 DEF Decide
    <2>2. ASSUME NEW q \in Requests \ {r}, NEW j \in Scopes, owner[j] = q
          PROVE  owner'[j] = q /\ credit'[j] = credit[j] /\ updated'[j] = updated[j]
      <3>1. j \notin ScopesOf[r]
        BY <2>1, <2>2, Deciding
      <3>2. owner'[j] = q
        BY <2>1, <2>2, Finishing
      <3> QED BY <1>5, <3>1, <3>2 DEF Decide
    <2>3. ASSUME NEW q \in Requests, NEW j \in seen'[q] \ todo'[q], stage'[q] = "lock"
          PROVE  owner'[j] = q /\ tokens'[q][j] = credit'[j] /\ stamp'[q][j] = updated'[j]
      <3>1. /\ q # r /\ stage[q] = "lock" /\ j \in seen[q] \ todo[q]
            /\ tokens'[q] = tokens[q] /\ stamp'[q] = stamp[q]
        BY <2>1, <2>3, Finishing
      <3>2. j \in Scopes
        BY <3>1 DEF TypeOK
      <3>3. owner[j] = q /\ tokens[q][j] = credit[j] /\ stamp[q][j] = updated[j]
        BY <3>1 DEF ReadRows
      <3> QED BY <2>2, <3>1, <3>2, <3>3
    <2> QED BY <2>3 DEF ReadRows
  <1>6. ASSUME NEW r \in Requests, Rollback(r)
        PROVE  ReadRows'
    <2>1. Idle(r) /\ owner' = Unlocked(r) /\ UNCHANGED <<credit, updated>>
      BY <1>6 DEF Rollback
    <2> QED BY <2>1, Finishing DEF ReadRows, TypeOK
  <1>7. CASE (\E t \in Clock : PurgeBegin(t)) \/ (\E k \in Scopes : PurgeVisit(k)) \/ PurgeFails
    <2>1. \A q \in Requests, k \in Scopes : owner[k] = q => owner'[k] = q
      BY <1>7, PurgeWaits
    <2>2. UNCHANGED <<credit, updated, stage, todo, seen, tokens, stamp>>
      BY <1>7, PurgeWaits
    <2> QED BY <2>1, <2>2 DEF ReadRows, TypeOK
  <1>8. CASE PurgeCommit
    <2>1. UNCHANGED <<credit, updated, stage, tokens, stamp>>
      BY <1>8, PurgeCommits
    <2>2. ASSUME NEW q \in Requests
          PROVE  /\ seen'[q] = seen[q] \ doomed
                 /\ stage[q] = "lock" => todo'[q] = todo[q] \ doomed
                 /\ \A k \in Scopes : owner[k] = q => owner'[k] = q
      BY <1>8, PurgeCommits
    <2> QED BY <2>1, <2>2 DEF ReadRows, TypeOK
  <1>9. CASE Tick
    BY <1>9 DEF ReadRows, Tick, table, requests
  <1>10. CASE UNCHANGED vars
    BY <1>10 DEF ReadRows, vars, table, requests
  <1> QED BY <1>1, <1>2, <1>3, <1>4, <1>5, <1>6, <1>7, <1>8, <1>9, <1>10
      DEF Next, Step, RowMissing, Abort

(* A row the purge has to visit or has visited stays committed, and one it *)
(* has visited stays locked and stale.                                     *)
LEMMA DoomedStep ==
  ASSUME IInv, [Next]_vars
  PROVE  DoomedRows'
  <1> USE DEF IInv
  <1>0. now \in Nat /\ Skew \in Nat /\ MaxAge \in Nat /\ cutoff \in Int
    BY ClockAssumption DEF TypeOK
  <1>1. ASSUME NEW r \in Requests, NEW t \in Clock, Begin(r, t)
        PROVE  DoomedRows'
    BY <1>1 DEF DoomedRows, Committed, Begin, table, purge
  <1>2. ASSUME NEW r \in Requests, InsertRow(r)
        PROVE  DoomedRows'
    <2>1. UNCHANGED <<cutoff, pending, doomed, now>>
      BY <1>2, Insertion DEF purge
    <2>2. CASE UNCHANGED <<row, credit, updated, owner, made>>
      BY <2>1, <2>2 DEF DoomedRows, Committed
    <2>3. CASE ~UNCHANGED <<row, credit, updated, owner, made>>
      <3>1. PICK k \in todo[r] \ row :
              /\ row' = row \cup {k}
              /\ updated' = [updated EXCEPT ![k] = began[r]]
              /\ owner' = [owner EXCEPT ![k] = r]
              /\ made' = [made EXCEPT ![r] = made[r] \cup {k}]
        BY <1>2, <2>3, Insertion
      <3>2. ASSUME NEW j \in Scopes, Committed(j)
            PROVE  Committed(j)' /\ owner'[j] = owner[j] /\ updated'[j] = updated[j]
        BY <3>1, <3>2 DEF Committed, TypeOK
      <3> QED BY <2>1, <3>2 DEF DoomedRows, TypeOK
    <2> QED BY <2>2, <2>3
  <1>3. ASSUME NEW r \in Requests, StartSelect(r)
        PROVE  DoomedRows'
    BY <1>3 DEF DoomedRows, Committed, StartSelect, table, purge
  <1>4. ASSUME NEW r \in Requests, LockRow(r)
        PROVE  DoomedRows'
    <2>1. PICK k \in todo[r] :
            /\ owner[k] \in {NoRequest, r}
            /\ owner' = [owner EXCEPT ![k] = r]
            /\ UNCHANGED <<row, updated, made, purge, now>>
      BY <1>4, Locking
    <2>2. ASSUME NEW j \in doomed
          PROVE  owner'[j] = Purger
      BY <2>1, NoRequestAssumption DEF DoomedRows, TypeOK
    <2> QED BY <2>1, <2>2 DEF DoomedRows, Committed, purge
  <1>5. ASSUME NEW r \in Requests, NEW t \in Clock, Decide(r, t)
        PROVE  DoomedRows'
    <2>1. /\ Locked(r) /\ Idle(r) /\ owner' = Unlocked(r) /\ row' = row
          /\ UNCHANGED <<cutoff, pending, doomed, now>>
      BY <1>5 DEF Decide, purge
    <2>2. ASSUME NEW j \in Scopes, Committed(j)
          PROVE  Committed(j)'
      BY <2>1, <2>2, Finishing DEF Committed
    <2>3. ASSUME NEW j \in doomed
          PROVE  owner'[j] = Purger /\ updated'[j] = updated[j]
      <3>1. j \in Scopes /\ owner[j] = Purger
        BY DEF DoomedRows, TypeOK
      <3>2. j \notin ScopesOf[r]
        BY <2>1, <3>1, Deciding, NoRequestAssumption
      <3> QED BY <1>5, <2>1, <3>1, <3>2, NoRequestAssumption DEF Decide, Unlocked
    <2> QED BY <2>1, <2>2, <2>3 DEF DoomedRows, TypeOK
  <1>6. ASSUME NEW r \in Requests, Rollback(r)
        PROVE  DoomedRows'
    <2>1. /\ Idle(r) /\ owner' = Unlocked(r) /\ row' = row \ made[r]
          /\ UNCHANGED <<updated, cutoff, pending, doomed, now>>
      BY <1>6 DEF Rollback, purge
    <2>2. ASSUME NEW j \in Scopes, Committed(j)
          PROVE  Committed(j)'
      BY <2>1, <2>2, Finishing DEF Committed
    <2>3. ASSUME NEW j \in doomed
          PROVE  owner'[j] = Purger
      BY <2>1, NoRequestAssumption DEF DoomedRows, TypeOK, Unlocked
    <2> QED BY <2>1, <2>2, <2>3 DEF DoomedRows, TypeOK
  <1>7. ASSUME NEW t \in Clock, PurgeBegin(t)
        PROVE  DoomedRows'
    <2>1. /\ doomed' = {} /\ cutoff' = t - MaxAge /\ now' = now
          /\ UNCHANGED <<row, made>>
          /\ \A k \in pending' : Committed(k)
      BY <1>7 DEF PurgeBegin, table, requests
    <2>2. t \in Int /\ t <= now + Skew
      BY <1>0 DEF Clock
    <2> QED BY <1>0, <2>1, <2>2 DEF DoomedRows, Committed
  <1>8. ASSUME NEW k \in Scopes, PurgeVisit(k)
        PROVE  DoomedRows'
    <2>1. /\ k \in pending /\ pending' \subseteq pending
          /\ UNCHANGED <<row, made, updated, cutoff, now>>
      BY <1>8 DEF PurgeVisit, requests
    <2>2. ASSUME NEW j \in doomed'
          PROVE  Committed(j) /\ owner'[j] = Purger /\ updated[j] <= cutoff
      <3>1. CASE j = k
        BY <1>8, <2>1, <2>2, <3>1, NoRequestAssumption DEF DoomedRows, PurgeVisit, TypeOK
      <3>2. CASE j # k
        BY <1>8, <2>2, <3>2 DEF DoomedRows, PurgeVisit, TypeOK
      <3> QED BY <3>1, <3>2
    <2>3. cutoff + MaxAge <= now + Skew
      BY <2>1 DEF DoomedRows
    <2> QED BY <2>1, <2>2, <2>3 DEF DoomedRows, Committed
  <1>9. CASE PurgeCommit \/ PurgeFails
    BY <1>9 DEF DoomedRows, PurgeCommit, PurgeFails, PurgeOver
  <1>10. CASE Tick
    <2>1. now' = now + 1 /\ UNCHANGED <<row, updated, owner, made, cutoff, pending, doomed>>
      BY <1>10 DEF Tick, table, requests, purge
    <2> QED BY <1>0, <2>1 DEF DoomedRows, Committed
  <1>11. CASE UNCHANGED vars
    BY <1>11 DEF DoomedRows, Committed, vars, table, requests, purge
  <1> QED BY <1>1, <1>2, <1>3, <1>4, <1>5, <1>6, <1>7, <1>8, <1>9, <1>10, <1>11
      DEF Next, Step, RowMissing, Abort

(* No recorded time is ahead of every clock.                               *)
LEMMA TimesStep ==
  ASSUME IInv, [Next]_vars
  PROVE  Times'
  <1> USE DEF IInv
  <1>0. now \in Nat /\ Skew \in Nat
    BY ClockAssumption DEF TypeOK
  <1>1. ASSUME NEW r \in Requests, NEW t \in Clock, Begin(r, t)
        PROVE  Times'
    <2>1. t <= now + Skew
      BY <1>0 DEF Clock
    <2> QED BY <1>1, <2>1 DEF Times, Begin, table, TypeOK
  <1>2. ASSUME NEW r \in Requests, InsertRow(r)
        PROVE  Times'
    <2>1. UNCHANGED <<began, now>>
      BY <1>2, Insertion
    <2>2. CASE UNCHANGED <<row, credit, updated, owner, made>>
      BY <2>1, <2>2 DEF Times
    <2>3. CASE ~UNCHANGED <<row, credit, updated, owner, made>>
      <3>1. PICK k \in todo[r] \ row :
              row' = row \cup {k} /\ updated' = [updated EXCEPT ![k] = began[r]]
        BY <1>2, <2>3, Insertion
      <3> QED BY <2>1, <3>1 DEF Times, TypeOK
    <2> QED BY <2>2, <2>3
  <1>3. ASSUME NEW r \in Requests, StartSelect(r)
        PROVE  Times'
    BY <1>3 DEF Times, StartSelect, table
  <1>4. ASSUME NEW r \in Requests, LockRow(r)
        PROVE  Times'
    BY <1>4 DEF Times, LockRow
  <1>5. ASSUME NEW r \in Requests, NEW t \in Clock, Decide(r, t)
        PROVE  Times'
    <2>1. /\ Locked(r) /\ Idle(r) /\ owner' = Unlocked(r) /\ row' = row /\ now' = now
      BY <1>5 DEF Decide
    <2>2. t \in Int /\ t <= now + Skew
      BY <1>0 DEF Clock
    <2>3. ASSUME NEW k \in row
          PROVE  updated'[k] <= now + Skew
      <3>1. k \in Scopes /\ updated[k] \in Int /\ updated[k] <= now + Skew
        BY DEF Times, TypeOK
      <3>2. CASE k \in ScopesOf[r]
        <4>1. updated'[k] = Later(t, updated[k])
          BY <1>5, <2>1, <3>1, <3>2, Deciding DEF Decide
        <4> QED BY <2>2, <3>1, <4>1, LaterFacts
      <3>3. CASE k \notin ScopesOf[r]
        BY <1>5, <3>1, <3>3 DEF Decide
      <3> QED BY <3>2, <3>3
    <2>4. ASSUME NEW q \in Requests
          PROVE  began'[q] <= now + Skew
      BY <1>0, <2>1, Finishing DEF Times
    <2> QED BY <2>1, <2>3, <2>4 DEF Times
  <1>6. ASSUME NEW r \in Requests, Rollback(r)
        PROVE  Times'
    <2>1. /\ Idle(r) /\ owner' = Unlocked(r)
          /\ row' \subseteq row /\ updated' = updated /\ now' = now
      BY <1>6 DEF Rollback
    <2>2. ASSUME NEW q \in Requests
          PROVE  began'[q] <= now + Skew
      BY <1>0, <2>1, Finishing DEF Times
    <2> QED BY <2>1, <2>2 DEF Times
  <1>7. CASE (\E t \in Clock : PurgeBegin(t)) \/ (\E k \in Scopes : PurgeVisit(k)) \/ PurgeFails
    <2>1. UNCHANGED <<row, updated, began, now>>
      BY <1>7, PurgeWaits
    <2> QED BY <2>1 DEF Times
  <1>8. CASE PurgeCommit
    <2>1. UNCHANGED <<updated, began, now>> /\ row' \subseteq row
      BY <1>8, PurgeCommits
    <2> QED BY <2>1 DEF Times
  <1>9. CASE Tick
    <2>1. /\ now' = now + 1
          /\ \A r \in Requests : began[r] \in Int
          /\ \A k \in row : updated[k] \in Int
          /\ UNCHANGED <<row, began, updated>>
      BY <1>9 DEF Tick, table, requests, TypeOK
    <2> QED BY <1>0, <2>1 DEF Times
  <1>10. CASE UNCHANGED vars
    BY <1>10 DEF Times, vars, table, requests
  <1> QED BY <1>1, <1>2, <1>3, <1>4, <1>5, <1>6, <1>7, <1>8, <1>9, <1>10
      DEF Next, Step, RowMissing, Abort

-----------------------------------------------------------------------------
(* The accounts of the buckets.                                            *)

(* One more request costs exactly one token.                               *)
LEMMA GrantCosts ==
  ASSUME NEW g \in Nat
  PROVE  /\ Minute * g \in Nat
         /\ Minute * (g + 1) = Minute * g + Minute
  BY ClockAssumption

(* A decision takes from a bucket what it adds to the requests granted.    *)
LEMMA DecisionBalances ==
  ASSUME IInv, NEW r \in Requests, NEW t \in Int, Decide(r, t),
         NEW k \in ScopesOf[r]
  PROVE  /\ Minute * granted'[k] + credit'[k] = Minute * granted[k] + Available(r, k, t)
         /\ granted'[k] \in Nat
         /\ updated'[k] = Later(t, updated[k])
  <1>1. k \in Scopes /\ stamp[r][k] = updated[k]
    BY Deciding DEF Decide
  <1>2. Available(r, k, t) \in Int /\ granted[k] \in Nat /\ Minute \in Nat
    BY <1>1, AvailableBounds, FullNat, ClockAssumption DEF IInv, TypeOK
  <1>3. /\ Minute * granted[k] \in Nat
        /\ Minute * (granted[k] + 1) = Minute * granted[k] + Minute
    BY <1>2, GrantCosts
  <1>4. CASE Allowed(r, t)
    <2>1. credit'[k] = Available(r, k, t) - Minute /\ granted'[k] = granted[k] + 1
      BY <1>1, <1>4 DEF Decide
    <2>2. updated'[k] = Later(t, updated[k])
      BY <1>1 DEF Decide
    <2> QED BY <1>2, <1>3, <2>1, <2>2
  <1>5. CASE ~Allowed(r, t)
    <2>1. credit'[k] = Available(r, k, t) - 0 /\ granted'[k] = granted[k]
      BY <1>1, <1>5 DEF Decide
    <2>2. updated'[k] = Later(t, updated[k])
      BY <1>1 DEF Decide
    <2> QED BY <1>2, <1>3, <2>1, <2>2
  <1> QED BY <1>4, <1>5

(* The account of a scope is kept by a decision that includes it.          *)
LEMMA DecisionAccount ==
  ASSUME IInv, NEW r \in Requests, NEW t \in Clock, Decide(r, t),
         NEW k \in ScopesOf[r]
  PROVE  Minute * granted'[k] + credit'[k] <= Full + Capacity * (updated'[k] + Skew)
  <1>1. /\ k \in Scopes /\ k \in row
        /\ tokens[r][k] = credit[k] /\ stamp[r][k] = updated[k]
        /\ \A q \in Requests \ {r} : k \notin made[q]
    BY Deciding DEF Decide
  <1>2. /\ now \in Int /\ Skew \in Int /\ t \in Int /\ t >= now - Skew
        /\ updated[k] \in Int /\ credit[k] \in Int /\ Minute * granted[k] \in Int
        /\ Full \in Int
    BY <1>1, ClockAssumption, FullNat, GrantCosts DEF Clock, IInv, TypeOK
  <1> DEFINE at == Later(t, updated[k])
             there == Available(r, k, t)
  <1>3. at \in Int /\ at >= t /\ at >= updated[k]
    BY <1>2, LaterFacts
  <1>4. /\ there \in Int /\ there <= Full
        /\ there <= credit[k] + (Capacity * at - Capacity * updated[k])
    BY <1>1, <1>2, AvailableBounds, FullNat DEF IInv
  <1>5. /\ Minute * granted'[k] + credit'[k] = Minute * granted[k] + there
        /\ updated'[k] = at
    BY <1>2, DecisionBalances
  <1>6. /\ Capacity * (at + Skew) = Capacity * at + Capacity * Skew
        /\ Capacity * (updated[k] + Skew) = Capacity * updated[k] + Capacity * Skew
        /\ Capacity * at \in Int /\ Capacity * Skew \in Int
        /\ Capacity * updated[k] \in Int /\ Capacity * now \in Int
    BY <1>2, <1>3, RefillAdds
  <1> HIDE DEF at, there
  <1>7. CASE Committed(k)
    <2>1. Minute * granted[k] + credit[k] <= Full + Capacity * (updated[k] + Skew)
      BY <1>1, <1>7 DEF IInv, Accounts
    <2> QED BY <1>2, <1>4, <1>5, <1>6, <2>1
  <1>8. CASE ~Committed(k)
    <2>1. Minute * granted[k] <= Capacity * now
      BY <1>1, <1>8 DEF IInv, Accounts
    <2>2. Capacity * now <= Capacity * (at + Skew)
      BY <1>2, <1>3, RefillMonotone
    <2> QED BY <1>2, <1>4, <1>5, <1>6, <2>1, <2>2
  <1> QED BY <1>7, <1>8

(* A row is deleted only when a new full bucket grants no more than it had. *)
LEMMA DoomedAccount ==
  ASSUME IInv, NEW k \in Scopes, k \in doomed
  PROVE  Minute * granted[k] <= Capacity * now
  <1>1. /\ now \in Nat /\ Skew \in Nat /\ cutoff \in Int /\ cutoff + MaxAge <= now + Skew
        /\ updated[k] \in Int /\ credit[k] \in Nat /\ Minute * granted[k] \in Int
        /\ Minute \in Nat /\ MaxAge \in Nat /\ MaxAge >= Minute + 2 * Skew
    BY ClockAssumption, FullNat, GrantCosts DEF IInv, TypeOK, DoomedRows
  <1>2. Committed(k) /\ updated[k] <= cutoff
    BY DEF IInv, DoomedRows
  <1>3. Minute * granted[k] + credit[k] <= Full + Capacity * (updated[k] + Skew)
    BY <1>2 DEF IInv, Accounts
  <1>4. Minute + (updated[k] + Skew) <= now
    BY <1>1, <1>2
  <1>5. Capacity * (Minute + (updated[k] + Skew)) <= Capacity * now
    BY <1>1, <1>4, RefillMonotone
  <1>6. /\ Capacity * (Minute + (updated[k] + Skew)) = Full + Capacity * (updated[k] + Skew)
        /\ Capacity * (updated[k] + Skew) \in Int /\ Capacity * now \in Int
    <2>1. Minute \in Int /\ updated[k] + Skew \in Int /\ now \in Int
      BY <1>1
    <2>2. Capacity * (Minute + (updated[k] + Skew))
            = Capacity * Minute + Capacity * (updated[k] + Skew)
      BY <2>1, RefillAdds
    <2>3. Capacity * (updated[k] + Skew) \in Int /\ Capacity * now \in Int
      BY <2>1, RefillAdds
    <2> QED BY <2>2, <2>3 DEF Full
  <1> QED BY <1>1, <1>3, <1>5, <1>6, FullNat

(* Every bucket's account stays within what time has refilled.             *)
LEMMA AccountsStep ==
  ASSUME IInv, [Next]_vars
  PROVE  Accounts'
  <1> USE DEF IInv
  <1>0. /\ now \in Nat /\ Skew \in Nat /\ granted \in [Scopes -> Nat]
        /\ \A r \in Requests : made[r] \subseteq Scopes
        /\ \A r \in Requests : ScopesOf[r] \subseteq Scopes
    BY ClockAssumption, ScopesAssumption DEF TypeOK
  <1>1. ASSUME NEW r \in Requests, NEW t \in Clock, Begin(r, t)
        PROVE  Accounts'
    BY <1>1 DEF Accounts, Committed, Begin, table
  <1>2. ASSUME NEW r \in Requests, InsertRow(r)
        PROVE  Accounts'
    <2>1. UNCHANGED <<now, granted>>
      BY <1>2, Insertion
    <2>2. CASE UNCHANGED <<row, credit, updated, owner, made>>
      BY <2>1, <2>2 DEF Accounts, Committed
    <2>3. CASE ~UNCHANGED <<row, credit, updated, owner, made>>
      <3>1. PICK k \in todo[r] \ row :
              /\ row' = row \cup {k}
              /\ credit' = [credit EXCEPT ![k] = Full]
              /\ updated' = [updated EXCEPT ![k] = began[r]]
              /\ made' = [made EXCEPT ![r] = made[r] \cup {k}]
        BY <1>2, <2>3, Insertion
      <3>2. ~Committed(k) /\ ~Committed(k)'
        BY <3>1 DEF Committed, TypeOK
      <3>3. ASSUME NEW j \in Scopes, j # k
            PROVE  /\ Committed(j)' <=> Committed(j)
                   /\ credit'[j] = credit[j] /\ updated'[j] = updated[j]
        BY <3>1, <3>3 DEF Committed, TypeOK
      <3> QED BY <2>1, <3>2, <3>3 DEF Accounts
    <2> QED BY <2>2, <2>3
  <1>3. ASSUME NEW r \in Requests, StartSelect(r)
        PROVE  Accounts'
    BY <1>3 DEF Accounts, Committed, StartSelect, table
  <1>4. ASSUME NEW r \in Requests, LockRow(r)
        PROVE  Accounts'
    BY <1>4 DEF Accounts, Committed, LockRow
  <1>5. ASSUME NEW r \in Requests, NEW t \in Clock, Decide(r, t)
        PROVE  Accounts'
    <2>1. /\ Locked(r) /\ Idle(r) /\ owner' = Unlocked(r) /\ row' = row /\ now' = now
      BY <1>5 DEF Decide
    <2>2. ASSUME NEW k \in ScopesOf[r]
          PROVE  /\ Minute * granted'[k] + credit'[k]
                      <= Full + Capacity * (updated'[k] + Skew)
                 /\ Committed(k)'
      <3>1. k \in row /\ \A q \in Requests \ {r} : k \notin made[q]
        BY <2>1, Deciding
      <3>2. Committed(k)'
        BY <2>1, <3>1, Finishing DEF Committed
      <3> QED BY <1>5, <3>2, DecisionAccount
    <2>3. ASSUME NEW k \in Scopes, k \notin ScopesOf[r]
          PROVE  /\ granted'[k] = granted[k] /\ credit'[k] = credit[k]
                 /\ updated'[k] = updated[k]
                 /\ Committed(k)' <=> Committed(k)
      <3>1. k \notin made[r]
        BY <2>3 DEF MadeRows
      <3>2. Committed(k)' <=> Committed(k)
        BY <2>1, <3>1, Finishing DEF Committed
      <3> QED BY <1>5, <2>3, <3>2 DEF Decide
    <2> QED BY <2>1, <2>2, <2>3 DEF Accounts
  <1>6. ASSUME NEW r \in Requests, Rollback(r)
        PROVE  Accounts'
    <2>1. /\ Idle(r) /\ owner' = Unlocked(r) /\ row' = row \ made[r]
          /\ UNCHANGED <<credit, updated, now, granted>>
      BY <1>6 DEF Rollback
    <2>2. ASSUME NEW k \in Scopes
          PROVE  Committed(k)' <=> Committed(k)
      BY <2>1, Finishing DEF Committed
    <2> QED BY <2>1, <2>2 DEF Accounts
  <1>7. CASE (\E t \in Clock : PurgeBegin(t)) \/ (\E k \in Scopes : PurgeVisit(k)) \/ PurgeFails
    <2>1. UNCHANGED <<row, credit, updated, made, now, granted>>
      BY <1>7, PurgeWaits
    <2> QED BY <2>1 DEF Accounts, Committed
  <1>8. CASE PurgeCommit
    <2>1. row' = row \ doomed /\ UNCHANGED <<credit, updated, made, now, granted>>
      BY <1>8, PurgeCommits
    <2>2. ASSUME NEW k \in Scopes, k \in doomed
          PROVE  ~Committed(k)' /\ Minute * granted[k] <= Capacity * now
      BY <2>1, <2>2, DoomedAccount DEF Committed
    <2>3. ASSUME NEW j \in Scopes, j \notin doomed
          PROVE  Committed(j)' <=> Committed(j)
      BY <2>1, <2>3 DEF Committed
    <2> QED BY <2>1, <2>2, <2>3 DEF Accounts
  <1>9. CASE Tick
    <2>1. now' = now + 1 /\ UNCHANGED <<row, credit, updated, made, granted>>
      BY <1>9 DEF Tick, table, requests
    <2>2. /\ Capacity * now <= Capacity * (now + 1)
          /\ Capacity * now \in Int /\ Capacity * (now + 1) \in Int
      BY <1>0, RefillMonotone, RefillAdds
    <2>3. ASSUME NEW k \in Scopes, Minute * granted[k] <= Capacity * now
          PROVE  Minute * granted[k] <= Capacity * (now + 1)
      <3>1. Minute * granted[k] \in Int
        BY <1>0, GrantCosts
      <3> QED BY <2>2, <2>3, <3>1
    <2> QED BY <2>1, <2>3 DEF Accounts, Committed
  <1>10. CASE UNCHANGED vars
    BY <1>10 DEF Accounts, Committed, vars, table, requests
  <1> QED BY <1>1, <1>2, <1>3, <1>4, <1>5, <1>6, <1>7, <1>8, <1>9, <1>10
      DEF Next, Step, RowMissing, Abort

(* No step loses a token.                                                  *)
LEMMA LostStep ==
  ASSUME IInv, [Next]_vars
  PROVE  NoTokenLost'
  <1> USE DEF IInv
  <1>1. ASSUME NEW r \in Requests, InsertRow(r)
        PROVE  NoTokenLost'
    <2>1. granted' = granted
      BY <1>1, Insertion
    <2>2. CASE UNCHANGED <<row, credit, updated, owner, made>>
      BY <2>1, <2>2 DEF NoTokenLost
    <2>3. CASE ~UNCHANGED <<row, credit, updated, owner, made>>
      <3>1. PICK k \in todo[r] \ row :
              row' = row \cup {k} /\ credit' = [credit EXCEPT ![k] = Full]
        BY <1>1, <2>3, Insertion
      <3>2. k \in Scopes /\ Minute * granted[k] \in Nat /\ credit'[k] = Full
        BY <3>1, GrantCosts DEF TypeOK
      <3>3. Full <= Minute * granted[k] + credit'[k]
        BY <3>2, FullNat
      <3>4. ASSUME NEW j \in row
            PROVE  credit'[j] = credit[j]
        BY <3>1 DEF TypeOK
      <3> QED BY <2>1, <3>1, <3>3, <3>4 DEF NoTokenLost
    <2> QED BY <2>2, <2>3
  <1>2. ASSUME NEW r \in Requests, NEW t \in Clock, Decide(r, t)
        PROVE  NoTokenLost'
    <2>1. Locked(r) /\ row' = row /\ t \in Int
      BY <1>2, ClockAssumption DEF Decide, Clock, TypeOK
    <2>2. ASSUME NEW k \in ScopesOf[r]
          PROVE  Full <= Minute * granted'[k] + credit'[k]
      <3>1. k \in Scopes /\ k \in row /\ tokens[r][k] = credit[k]
        BY <2>1, Deciding
      <3>2. /\ credit[k] \in Int /\ Minute * granted[k] \in Int
            /\ Available(r, k, t) \in Int /\ Available(r, k, t) >= credit[k]
        BY <2>1, <3>1, AvailableBounds, GrantCosts, FullNat DEF TypeOK
      <3>3. Full <= Minute * granted[k] + credit[k]
        BY <3>1 DEF NoTokenLost
      <3>4. Minute * granted'[k] + credit'[k] = Minute * granted[k] + Available(r, k, t)
        BY <1>2, <2>1, DecisionBalances
      <3> QED BY <3>2, <3>3, <3>4, FullNat
    <2>3. ASSUME NEW k \in row, k \notin ScopesOf[r]
          PROVE  granted'[k] = granted[k] /\ credit'[k] = credit[k]
      BY <1>2, <2>3 DEF Decide, TypeOK
    <2> QED BY <2>1, <2>2, <2>3 DEF NoTokenLost
  <1>3. ASSUME row' \subseteq row, UNCHANGED <<credit, granted>>
        PROVE  NoTokenLost'
    BY <1>3 DEF NoTokenLost
  <1> QED BY <1>1, <1>2, <1>3
      DEF Next, Step, Begin, StartSelect, LockRow, RowMissing, Abort, Rollback,
          PurgeBegin, PurgeVisit, PurgeCommit, PurgeFails, Tick, vars, table, requests

-----------------------------------------------------------------------------
(* The order of the locks.                                                 *)

(* Requests take and keep their locks in the order of the keys.            *)
LEMMA OrderStep ==
  ASSUME IInv, [Next]_vars
  PROVE  LockOrder'
  <1> USE DEF IInv
  <1>0. /\ todo \in [Requests -> SUBSET Scopes] /\ made \in [Requests -> SUBSET Scopes]
        /\ seen \in [Requests -> SUBSET Scopes] /\ Scopes \subseteq Int
        /\ owner \in [Scopes -> Requests \cup {NoRequest, Purger}]
        /\ stage \in [Requests -> {"idle", "insert", "lock"}]
    BY ScopesAssumption DEF TypeOK
  <1>1. ASSUME NEW r \in Requests, NEW t \in Clock, Begin(r, t)
        PROVE  LockOrder'
    BY <1>0, <1>1 DEF LockOrder, Begin, table
  <1>2. ASSUME NEW r \in Requests, InsertRow(r)
        PROVE  LockOrder'
    <2>1. PICK k \in First(todo[r]) :
            /\ todo' = [todo EXCEPT ![r] = todo[r] \ {k}]
            /\ IF k \in row
                 THEN UNCHANGED <<table, made>>
                 ELSE /\ owner' = [owner EXCEPT ![k] = r]
                      /\ made' = [made EXCEPT ![r] = made[r] \cup {k}]
      BY <1>2 DEF InsertRow
    <2>2. stage[r] = "insert" /\ UNCHANGED <<stage, seen>>
      BY <1>2 DEF InsertRow
    <2>3. k \in Scopes /\ k \in todo[r] /\ \A j \in todo[r] \ {k} : k < j
      BY <1>0 DEF First
    <2>4. ASSUME NEW q \in Requests, q # r
          PROVE  /\ todo'[q] = todo[q] /\ made'[q] = made[q]
                 /\ \A j \in Scopes : owner'[j] = q => owner[j] = q
      BY <1>0, <2>1, <2>3, <2>4 DEF table
    <2>5. \A j \in made'[r], i \in todo'[r] : j < i
      <3>1. \A j \in made[r], i \in todo[r] : j < i
        BY <2>2 DEF LockOrder
      <3>2. todo'[r] = todo[r] \ {k} /\ made'[r] \subseteq made[r] \cup {k}
        BY <1>0, <2>1
      <3> QED BY <2>3, <3>1, <3>2
    <2>6. \A j \in Scopes : owner'[j] = r => j \in made'[r]
      BY <1>0, <2>1, <2>2 DEF LockOrder, table
    <2> QED BY <2>2, <2>4, <2>5, <2>6 DEF LockOrder
  <1>3. ASSUME NEW r \in Requests, StartSelect(r)
        PROVE  LockOrder'
    BY <1>0, <1>3 DEF LockOrder, StartSelect, table
  <1>4. ASSUME NEW r \in Requests, LockRow(r)
        PROVE  LockOrder'
    <2>1. PICK k \in First(todo[r]) :
            /\ owner' = [owner EXCEPT ![k] = r]
            /\ todo' = [todo EXCEPT ![r] = todo[r] \ {k}]
            /\ stage[r] = "lock"
            /\ UNCHANGED <<stage, made, seen>>
      BY <1>4 DEF LockRow, ReadRow
    <2>2. k \in Scopes /\ k \in todo[r] /\ \A j \in todo[r] \ {k} : k < j
      BY <1>0 DEF First
    <2>3. todo[r] \subseteq seen[r] /\ \A j \in seen[r] \ todo[r], i \in todo[r] : j < i
      BY <2>1 DEF LockOrder
    <2>4. todo'[r] = todo[r] \ {k}
      BY <1>0, <2>1
    <2>5. \A j \in seen[r] \ todo'[r], i \in todo'[r] : j < i
      BY <2>2, <2>3, <2>4
    <2>6. \A j \in Scopes : owner'[j] = r => j \in made[r] \/ j \in seen[r] \ todo'[r]
      BY <1>0, <2>1, <2>2, <2>3, <2>4 DEF LockOrder
    <2>7. ASSUME NEW q \in Requests, q # r
          PROVE  /\ todo'[q] = todo[q]
                 /\ \A j \in Scopes : owner'[j] = q => owner[j] = q
      BY <1>0, <2>1, <2>2, <2>7
    <2> QED BY <2>1, <2>3, <2>4, <2>5, <2>6, <2>7 DEF LockOrder
  <1>5. ASSUME NEW r \in Requests, Idle(r), owner' = Unlocked(r)
        PROVE  LockOrder'
    <2>1. ASSUME NEW k \in Scopes
          PROVE  owner'[k] # r /\ (owner'[k] \in Requests => owner'[k] = owner[k])
      BY <1>0, <1>5, NoRequestAssumption DEF Unlocked
    <2>2. /\ stage'[r] = "idle" /\ made'[r] = {}
          /\ \A q \in Requests \ {r} :
               /\ stage'[q] = stage[q] /\ todo'[q] = todo[q]
               /\ made'[q] = made[q] /\ seen'[q] = seen[q]
      BY <1>5, Finishing
    <2> QED BY <2>1, <2>2 DEF LockOrder
  <1>6. CASE (\E t \in Clock : PurgeBegin(t)) \/ (\E k \in Scopes : PurgeVisit(k)) \/ PurgeFails
    <2>1. \A q \in Requests, k \in Scopes : owner'[k] = q => owner[k] = q
      BY <1>0, <1>6, NoRequestAssumption
         DEF PurgeBegin, PurgeVisit, PurgeFails, PurgeOver, table
    <2>2. UNCHANGED <<stage, todo, made, seen>>
      BY <1>6, PurgeWaits
    <2> QED BY <2>1, <2>2 DEF LockOrder
  <1>7. CASE PurgeCommit
    <2>1. \A q \in Requests, k \in Scopes : owner'[k] = q => owner[k] = q /\ k \notin doomed
      BY <1>0, <1>7, NoRequestAssumption DEF PurgeCommit, PurgeOver, DoomedRows
    <2>2. UNCHANGED <<stage, made>>
      BY <1>7, PurgeCommits
    <2>3. ASSUME NEW q \in Requests
          PROVE  /\ seen'[q] = seen[q] \ doomed
                 /\ todo'[q] = IF stage[q] = "lock" THEN todo[q] \ doomed ELSE todo[q]
      BY <1>7 DEF PurgeCommit
    <2>4. ASSUME NEW q \in Requests
          PROVE  /\ todo'[q] \subseteq todo[q]
                 /\ stage[q] = "lock" => /\ seen'[q] \ todo'[q] \subseteq seen[q] \ todo[q]
                                         /\ todo[q] \subseteq seen[q] => todo'[q] \subseteq seen'[q]
      BY <2>3
    <2>5. ASSUME NEW q \in Requests, NEW k \in Scopes, owner'[k] = q
          PROVE  k \in made[q] \/ (stage[q] = "lock" /\ k \in seen'[q] \ todo'[q])
      <3>1. owner[k] = q /\ k \notin doomed
        BY <2>1, <2>5
      <3>2. k \in made[q] \/ (stage[q] = "lock" /\ k \in seen[q] \ todo[q])
        BY <3>1 DEF LockOrder
      <3> QED BY <2>3, <3>1, <3>2
    <2> QED BY <2>2, <2>4, <2>5 DEF LockOrder
  <1>8. CASE Tick \/ UNCHANGED vars
    BY <1>8 DEF LockOrder, Tick, vars, table, requests
  <1> QED BY <1>1, <1>2, <1>3, <1>4, <1>5, <1>6, <1>7, <1>8
      DEF Next, Step, Decide, RowMissing, Abort, Rollback

-----------------------------------------------------------------------------
(* Theorems.                                                               *)

(* The invariant holds in every reachable state, whatever the number of    *)
(* requests, the capacity and the clocks.                                  *)
THEOREM InductiveInvariant == Spec => []IInv
  <1>1. Init => IInv
    <2>1. ASSUME Init
          PROVE  TypeOK
      BY <2>1, FullNat DEF Init, TypeOK, Blank
    <2>2. ASSUME Init
          PROVE  MadeRows /\ SeenRows /\ ReadRows /\ DoomedRows /\ NoTokenLost /\ LockOrder
      BY <2>2, NoRequestAssumption
         DEF Init, MadeRows, SeenRows, ReadRows, DoomedRows, NoTokenLost, LockOrder
    <2>3. ASSUME Init
          PROVE  Times
      BY <2>3, ClockAssumption DEF Init, Times
    <2>4. ASSUME Init
          PROVE  Accounts
      BY <2>4, ClockAssumption DEF Init, Accounts, Committed
    <2> QED BY <2>1, <2>2, <2>3, <2>4 DEF IInv
  <1>2. IInv /\ [Next]_vars => IInv'
    <2> SUFFICES ASSUME IInv, [Next]_vars
                 PROVE  IInv'
      OBVIOUS
    <2>1. TypeOK'
      BY TypeStep DEF IInv
    <2> QED BY <2>1, MadeStep, SeenStep, ReadStep, DoomedStep, TimesStep, AccountsStep, LostStep,
           OrderStep
        DEF IInv
  <1> QED BY <1>1, <1>2, PTL DEF Spec

(* No scope is let through faster than its quota.                          *)
THEOREM RateIsBounded == Spec => []RateBound
  <1>1. IInv => RateBound
    <2> SUFFICES ASSUME IInv, NEW k \in Scopes
                 PROVE  Minute * granted[k] <= Full + Capacity * (now + 2 * Skew)
      BY DEF RateBound
    <2>1. /\ now \in Nat /\ Skew \in Nat /\ updated[k] \in Int /\ credit[k] \in Nat
          /\ Minute * granted[k] \in Int
      BY ClockAssumption, FullNat, GrantCosts DEF IInv, TypeOK
    <2> DEFINE horizon == now + 2 * Skew
    <2>2. /\ horizon \in Int /\ now <= horizon /\ now + Skew <= horizon
          /\ updated[k] + Skew \in Int
      BY <2>1
    <2> HIDE DEF horizon
    <2>3. Capacity * horizon \in Int
      BY <2>2, RefillAdds
    <2>4. CASE Committed(k)
      <3>1. Minute * granted[k] + credit[k] <= Full + Capacity * (updated[k] + Skew)
        BY <2>4 DEF IInv, Accounts
      <3>2. updated[k] + Skew <= horizon
        BY <2>1, <2>4 DEF IInv, Times, Committed, horizon
      <3>3. Capacity * (updated[k] + Skew) <= Capacity * horizon
        BY <2>2, <3>2, RefillMonotone
      <3>4. Capacity * (updated[k] + Skew) \in Int
        BY <2>2, RefillAdds
      <3>5. Minute * granted[k] <= Full + Capacity * horizon
        BY <2>1, <2>3, <3>1, <3>3, <3>4, FullNat
      <3> QED BY <3>5 DEF horizon
    <2>5. CASE ~Committed(k)
      <3>1. Minute * granted[k] <= Capacity * now
        BY <2>5 DEF IInv, Accounts
      <3>2. now \in Int
        BY <2>1
      <3>3. Capacity * now <= Capacity * horizon /\ Capacity * now \in Int
        BY <2>2, <3>2, RefillMonotone, RefillAdds
      <3>4. Minute * granted[k] <= Full + Capacity * horizon
        BY <2>1, <2>3, <3>1, <3>3, FullNat
      <3> QED BY <3>4 DEF horizon
    <2> QED BY <2>4, <2>5
  <1> QED BY <1>1, InductiveInvariant, PTL

(* Requests that are denied or fail cost nothing.                          *)
THEOREM NothingIsLost == Spec => []NoTokenLost
  <1>1. IInv => NoTokenLost
    BY DEF IInv
  <1> QED BY <1>1, InductiveInvariant, PTL

(* A set of numbers has a least one, and a bounded one a greatest.         *)
LEMMA LeastNumber ==
  ASSUME NEW T, T \subseteq Nat, T # {}
  PROVE  \E x \in T : \A y \in T : x <= y
  <1>1. PICK x \in T : \A y \in T : ~(<<y, x>> \in OpToRel(<, Nat))
    BY NatLessThanWellFounded, WFMin, Zenon
  <1>2. ASSUME NEW y \in T
        PROVE  ~(y < x)
    <2>1. <<y, x>> \in Nat \X Nat
      BY Zenon
    <2> QED BY <1>1, <2>1, Zenon DEF OpToRel
  <1> QED BY <1>2

LEMMA GreatestNumber ==
  ASSUME NEW T, T \subseteq Nat, T # {}, NEW n \in Nat, \A x \in T : x <= n
  PROVE  \E x \in T : \A y \in T : y <= x
  <1> DEFINE S == {n - x : x \in T}
  <1>1. \A x \in T : n - x \in Nat
    OBVIOUS
  <1>2. S \subseteq Nat /\ S # {}
    BY <1>1
  <1> HIDE DEF S
  <1>3. PICK s \in S : \A y \in S : s <= y
    BY <1>2, LeastNumber
  <1>4. PICK x \in T : s = n - x
    BY DEF S
  <1>5. ASSUME NEW y \in T
        PROVE  y <= x
    <2>1. n - y \in S
      BY DEF S
    <2> QED BY <1>3, <1>4, <2>1
  <1> QED BY <1>5

(* Among requests in one stage, one that waits has its eye on a key below  *)
(* the one that whom it waits for has its eye on.                          *)
LEMMA WaitingRises ==
  ASSUME IInv, NEW r \in Requests, NEW q \in Requests, WaitsFor(r, q)
  PROVE  /\ stage[r] = "lock" => stage[q] = "lock"
         /\ stage[r] \in {"insert", "lock"}
         /\ stage[q] = stage[r] =>
              \A i \in First(todo[r]), j \in First(todo[q]) : i < j
  <1> USE DEF IInv
  <1>1. PICK k \in First(todo[r]) :
          \/ stage[r] = "insert" /\ k \in made[q]
          \/ stage[r] = "lock" /\ owner[k] = q
    BY DEF WaitsFor
  <1>2. /\ q # r /\ k \in todo[r] /\ k \in Scopes /\ Scopes \subseteq Int
        /\ todo[q] \subseteq Scopes /\ todo[r] \subseteq Scopes
    BY ScopesAssumption DEF WaitsFor, First, TypeOK
  <1>3. ASSUME NEW i \in First(todo[r])
        PROVE  i = k
    <2>1. i \in todo[r] /\ i <= k /\ k <= i
      BY <1>2 DEF First
    <2> QED BY <1>2, <2>1
  <1>4. CASE stage[r] = "insert" /\ k \in made[q]
    <2>1. stage[q] = "insert" => \A j \in todo[q] : k < j
      BY <1>4 DEF LockOrder
    <2> QED BY <1>3, <1>4, <2>1 DEF First
  <1>5. CASE stage[r] = "lock" /\ owner[k] = q
    <2>1. k \in seen[r]
      BY <1>2, <1>5 DEF LockOrder
    <2>2. k \notin made[q]
      BY <1>2, <2>1 DEF SeenRows, Uncommitted
    <2>3. stage[q] = "lock" /\ k \in seen[q] \ todo[q]
      BY <1>2, <1>5, <2>2 DEF LockOrder
    <2>4. \A j \in todo[q] : k < j
      BY <2>3 DEF LockOrder
    <2> QED BY <1>3, <1>5, <2>3, <2>4 DEF First
  <1> QED BY <1>1, <1>4, <1>5

(* In a set of requests of one stage, the one with the greatest key to     *)
(* take waits for none of them.                                            *)
LEMMA GreatestWaitsForNone ==
  ASSUME IInv, NEW W, W \subseteq Requests, W # {}, NEW s, \A r \in W : stage[r] = s
  PROVE  \E r \in W : \A q \in W : ~WaitsFor(r, q)
  <1> SUFFICES ASSUME \A r \in W : \E q \in W : WaitsFor(r, q)
               PROVE  FALSE
    OBVIOUS
  <1> DEFINE Keys == UNION {First(todo[r]) : r \in W}
  <1>1. Keys \subseteq Scopes /\ Scopes \subseteq Nat
    BY ScopesAssumption DEF IInv, TypeOK, First
  <1>2. \A r \in W : First(todo[r]) # {}
    BY DEF WaitsFor
  <1>3. Keys # {}
    BY <1>2
  <1>4. PICK n \in Nat : \A k \in Scopes : k <= n
    BY <1>1, ScopesAssumption
  <1>5. Keys \subseteq Nat /\ \A k \in Keys : k <= n
    BY <1>1, <1>4
  <1>6. PICK k \in Keys : \A j \in Keys : j <= k
    <2> HIDE DEF Keys
    <2> QED BY <1>3, <1>5, GreatestNumber
  <1>7. PICK r \in W : k \in First(todo[r])
    OBVIOUS
  <1>8. PICK q \in W : WaitsFor(r, q)
    OBVIOUS
  <1>9. PICK j \in First(todo[q]) : TRUE
    BY <1>2
  <1>10. j \in Keys
    OBVIOUS
  <1>11. k < j
    BY <1>7, <1>8, <1>9, WaitingRises
  <1>12. k \in Int /\ j \in Int
    BY <1>5, <1>10
  <1> QED BY <1>6, <1>10, <1>11, <1>12

(* Requests never wait for each other in a circle: those that lock wait    *)
(* for such only, those that insert may wait for both, and within a stage  *)
(* everyone waits for a request that is further in the order of the keys.  *)
THEOREM NeverInACircle == Spec => []NoRequestCircle
  <1>1. IInv => NoRequestCircle
    <2> SUFFICES ASSUME IInv, NEW W \in (SUBSET Requests) \ {{}}
                 PROVE  \E r \in W : \A q \in W : ~WaitsFor(r, q)
      BY DEF NoRequestCircle
    <2> DEFINE L == {r \in W : stage[r] = "lock"}
               I == {r \in W : stage[r] = "insert"}
    <2>1. CASE L # {}
      <3>1. PICK r \in L : \A q \in L : ~WaitsFor(r, q)
        BY <2>1, GreatestWaitsForNone
      <3>2. ASSUME NEW q \in W, WaitsFor(r, q)
            PROVE  q \in L
        BY <3>2, WaitingRises
      <3> QED BY <3>1, <3>2
    <2>2. CASE L = {} /\ I = W
      <3>1. \A r \in W : stage[r] = "insert"
        BY <2>2
      <3> QED BY <3>1, GreatestWaitsForNone
    <2>3. CASE L = {} /\ I # W
      <3>1. PICK r \in W : stage[r] \notin {"insert", "lock"}
        BY <2>3
      <3> QED BY <3>1, WaitingRises
    <2> QED BY <2>1, <2>2, <2>3
  <1> QED BY <1>1, InductiveInvariant, PTL
=============================================================================
