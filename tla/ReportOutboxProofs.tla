-------------------------- MODULE ReportOutboxProofs --------------------------
(***************************************************************************)
(* Proofs for ReportOutbox, for any threads, reconcilers, tenants and      *)
(* submissions and any number of attempts and crashes.                     *)
(***************************************************************************)
EXTENDS ReportOutbox, TLAPS

USE WorkersAssumption, NothingAssumption, AttemptsAssumption, CrashesAssumption

(* Where the life of the row and the account's stand.  A delivery under    *)
(* way has a row, or had one that went with the account.                   *)
Lives ==
  /\ status = "deleted" => phase = "gone"
  /\ phase = "gone" => status \in {"absent", "deleted"}
  /\ \A w \in Workers : pc[w] # "idle" => status # "absent"

(* Nothing has happened to a report that has not been sent yet.            *)
AbsentIsBlank ==
  status = "absent" =>
    stored = {} /\ \A w \in WebThreads : answer[w] # "recorded"

(* The mapping and the destination are associated with the account, and    *)
(* the erasure names what is, except what was provisioned behind the       *)
(* barrier; what has been erased stays empty.                              *)
Named ==
  /\ mapping \in associated \cup {Nothing}
  /\ IF phase = "gone" THEN dest \in erased \cup behind \cup {Nothing}
                       ELSE dest \in associated \cup {Nothing}
  /\ phase = "barred" => associated \subseteq manifest \cup behind
  /\ phase = "gone" => manifest \subseteq erased
  /\ stored \cap erased = {}

(* A destination that a delivery has read is the row's, now and later.     *)
ViewsAreTrue ==
  \A w \in Workers : pc[w] \in {"post"} \cup Marking =>
    /\ view[w] \in Tenants
    /\ view[w] = dest
    /\ pc[w] = "mark" => view[w] \in stored \cup erased

(* A row is delivered to some tenant.                                      *)
DeliveredSomewhere == status = "delivered" => dest # Nothing

(* A web thread delivers what it was asked to.                             *)
AskedIsContent ==
  \A w \in WebThreads : pc[w] # "idle" => status = "deleted" \/ asked[w] = content

IInv ==
  /\ TypeOK /\ Lives /\ AbsentIsBlank /\ Named /\ ViewsAreTrue /\ DeliveredSomewhere
  /\ AskedIsContent /\ OneDocument /\ DeliveredIsTrue /\ AnswerIsHonest
  /\ PendingHasAttemptsLeft

(* A tenant enters the row or FORJD by way of the view of a delivery.      *)
LEMMA TypeKept ==
  ASSUME TypeOK, Lives, ViewsAreTrue, [Next]_vars
  PROVE  TypeOK'
  <1>1. ASSUME NEW w \in WebThreads, NEW s \in Submissions, Submit(w, s) PROVE
        TypeOK'
    <2>1. CASE SubmitNew(w, s)
      BY <1>1, <2>1 DEF TypeOK, Workers, Delivering, Marking, Submit, SubmitNew,
        ActiveMapping, Goto, account, forjd
    <2>2. CASE SubmitAgain(w, s)
      <3>1. \/ Goto(w, "reread") /\ answer' = [answer EXCEPT ![w] = "none"]
               /\ UNCHANGED view
            \/ \E a \in {"recorded", "dead_letter", "conflict"} : Finish(w, a)
        BY <2>2 DEF SubmitAgain, Settled, TypeOK
      <3>2. UNCHANGED <<row, account, forjd, crashes>>
            /\ asked' = [asked EXCEPT ![w] = s]
        BY <1>1, <2>2 DEF Submit, SubmitAgain
      <3> QED
        BY <3>1, <3>2 DEF TypeOK, Delivering, Marking, Goto, Finish, row, account, forjd
    <2> QED
      BY <1>1, <2>1, <2>2 DEF Submit
  <1>2. ASSUME NEW w \in Reconcilers, Claim(w) PROVE TypeOK'
    BY <1>2 DEF TypeOK, Delivering, Marking, Claim, Goto, account, forjd
  <1>3. ASSUME NEW w \in Workers, Reread(w) PROVE TypeOK'
    BY <1>3 DEF TypeOK, Delivering, Marking, Reread, StopAt, Goto, Finish, row, account,
      forjd
  <1>4. ASSUME NEW w \in Workers, AssignDestination(w) PROVE TypeOK'
    BY <1>4 DEF TypeOK, Delivering, Marking, AssignDestination, StopAt, ActiveMapping,
      Goto, Finish, account, forjd
  <1>5. ASSUME NEW w \in Workers, Post(w) PROVE TypeOK'
    <2>1. view[w] \in Tenants
      BY <1>5 DEF Post, At, ViewsAreTrue, Marking
    <2> QED
      BY <1>5, <2>1 DEF TypeOK, Delivering, Marking, Post, Goto, row, account
  <1>6. ASSUME NEW w \in Workers, PostFails(w) \/ PostUnnamed(w) PROVE TypeOK'
    <2>1. view[w] \in Tenants
      BY <1>6 DEF PostFails, PostUnnamed, At, ViewsAreTrue, Marking
    <2> QED
      BY <1>6, <2>1 DEF TypeOK, Delivering, Marking, PostFails, PostUnnamed, Goto, row, account
  <1>7. ASSUME NEW w \in Workers, PostRefused(w) PROVE TypeOK'
    BY <1>7 DEF TypeOK, Delivering, Marking, PostRefused, Goto, row, account, forjd
  <1>8. ASSUME NEW w \in Workers, MarkDelivered(w) PROVE TypeOK'
    <2>1. view[w] \in Tenants
      BY <1>8 DEF MarkDelivered, Marking, At, ViewsAreTrue
    <2>2. Counted \in 0..MaxAttempts
      BY DEF TypeOK, Counted
    <2> QED
      BY <1>8, <2>1, <2>2 DEF TypeOK, MarkDelivered, Marking, Goto, Finish, row,
        account, forjd
  <1>9. ASSUME NEW w \in Workers, MeetDeadLetter(w) PROVE TypeOK'
    BY <1>9 DEF TypeOK, Delivering, Marking, MeetDeadLetter, Goto, Finish, row, account,
      forjd
  <1>10. ASSUME NEW w \in Workers, RecordFailure(w) PROVE TypeOK'
    <2>1. Counted \in 0..MaxAttempts
      BY DEF TypeOK, Counted
    <2>2. status # "absent"
      BY <1>10 DEF RecordFailure, Lives
    <2>3. /\ \E a \in {"none", "recorded", "queued", "dead_letter"} : Finish(w, a)
          /\ status' \in {status, "dead_letter", "pending"}
          /\ due' \in BOOLEAN /\ attempts' \in {attempts, Counted}
          /\ UNCHANGED <<content, dest, document, account, forjd, asked, crashes>>
      BY <1>10, <2>2 DEF RecordFailure, Settled, TypeOK
    <2> QED
      BY <2>1, <2>3 DEF TypeOK, Goto, Finish, IsWeb, account, forjd
  <1>11. ASSUME NEW w \in Workers, Crash(w) PROVE TypeOK'
    BY <1>11 DEF TypeOK, Crash, Goto, Finish, IsWeb, row, account, forjd
  <1>12. CASE BackoffElapses
    BY <1>12 DEF TypeOK, BackoffElapses, account, forjd
  <1>13. CASE Requeue
    BY <1>13 DEF TypeOK, Requeue, account, forjd
  <1>14. ASSUME NEW t \in Tenants, Remap(t) \/ Provision(t) PROVE TypeOK'
    BY <1>14 DEF TypeOK, Remap, Provision, row, forjd
  <1>15. ASSUME NEW t \in Tenants, EraseTenant(t) PROVE TypeOK'
    BY <1>15 DEF TypeOK, EraseTenant, row, account
  <1>16. CASE Bar
    BY <1>16 DEF TypeOK, Delivering, Marking, Bar, row, forjd
  <1>17. CASE CloseAccount
    <2>1. 0 \in 0..MaxAttempts
      OBVIOUS
    <2> QED
      BY <1>17, <2>1 DEF TypeOK, CloseAccount, forjd
  <1>18. CASE UNCHANGED vars
    BY <1>18 DEF TypeOK, vars, row, account, forjd
  <1> QED
    BY <1>1, <1>2, <1>3, <1>4, <1>5, <1>6, <1>7, <1>8, <1>9, <1>10, <1>11,
      <1>12, <1>13, <1>14, <1>15, <1>16, <1>17, <1>18 DEF Next, Deliver,
      AllQuiet

(* The account is closed once, with whatever row there is.                 *)
LEMMA LivesKept ==
  ASSUME TypeOK, Lives, [Next]_vars
  PROVE  Lives'
  <1>1. ASSUME \/ \E t \in Tenants : Remap(t) \/ Provision(t) \/ EraseTenant(t)
               \/ BackoffElapses \/ UNCHANGED vars
        PROVE  Lives'
    <2>1. UNCHANGED <<status, phase, pc>>
      BY <1>1 DEF BackoffElapses, Remap, Provision, EraseTenant, vars, row, account
    <2> QED
      BY <2>1 DEF Lives
  <1>2. ASSUME NEW w \in WebThreads, NEW s \in Submissions, Submit(w, s) PROVE
        Lives'
    BY <1>2 DEF Lives, Submit, SubmitNew, SubmitAgain, row, account
  <1>3. ASSUME NEW w \in Reconcilers, Claim(w) PROVE Lives'
    BY <1>3 DEF Lives, Claim, account
  <1>4. ASSUME NEW w \in Workers, Reread(w) PROVE Lives'
    BY <1>4 DEF Lives, Reread, StopAt, row, account
  <1>5. ASSUME NEW w \in Workers, AssignDestination(w) PROVE Lives'
    BY <1>5 DEF Lives, AssignDestination, At, account
  <1>6. ASSUME NEW w \in Workers, Post(w) PROVE Lives'
    BY <1>6 DEF Lives, Post, At, row, account
  <1>7. ASSUME NEW w \in Workers, PostFails(w) \/ PostUnnamed(w) PROVE Lives'
    BY <1>7 DEF Lives, PostFails, PostUnnamed, At, row, account
  <1>8. ASSUME NEW w \in Workers, PostRefused(w) PROVE Lives'
    BY <1>8 DEF Lives, PostRefused, At, row, account
  <1>9. ASSUME NEW w \in Workers, MarkDelivered(w) PROVE Lives'
    BY <1>9 DEF Lives, MarkDelivered, Marking, At, row, account
  <1>10. ASSUME NEW w \in Workers, MeetDeadLetter(w) PROVE Lives'
    BY <1>10 DEF Lives, MeetDeadLetter, At, row, account
  <1>11. ASSUME NEW w \in Workers, RecordFailure(w) PROVE Lives'
    BY <1>11 DEF Lives, RecordFailure, account
  <1>12. ASSUME NEW w \in Workers, Crash(w) PROVE Lives'
    BY <1>12 DEF Lives, Crash, Goto, Finish, row, account
  <1>13. CASE Requeue
    BY <1>13 DEF Lives, Requeue, account
  <1>14. CASE Bar
    BY <1>14 DEF Lives, Bar, row
  <1>15. CASE CloseAccount
    BY <1>15 DEF Lives, CloseAccount
  <1> QED
    BY <1>1, <1>2, <1>3, <1>4, <1>5, <1>6, <1>7, <1>8, <1>9, <1>10, <1>11,
      <1>12, <1>13, <1>14, <1>15 DEF Next, Deliver, AllQuiet

(* Nothing is under way before the row is there.                           *)
LEMMA AbsentKept ==
  ASSUME TypeOK, Lives, AbsentIsBlank, [Next]_vars
  PROVE  AbsentIsBlank'
  <1>1. ASSUME \/ \E w \in Reconcilers : Claim(w)
               \/ \E w \in Workers : PostRefused(w)
               \/ \E t \in Tenants : Remap(t) \/ Provision(t)
               \/ BackoffElapses \/ Bar \/ UNCHANGED vars
        PROVE  AbsentIsBlank'
    <2>1. UNCHANGED <<status, stored, answer>>
      BY <1>1 DEF Claim, PostRefused, BackoffElapses, Remap, Provision, Bar, vars, row,
        forjd
    <2> QED
      BY <2>1 DEF AbsentIsBlank
  <1>2. ASSUME NEW w \in WebThreads, NEW s \in Submissions, Submit(w, s) PROVE
        AbsentIsBlank'
    BY <1>2 DEF AbsentIsBlank, Submit, SubmitNew, SubmitAgain, row
  <1>3. ASSUME NEW w \in Workers, Reread(w) PROVE AbsentIsBlank'
    BY <1>3 DEF AbsentIsBlank, Reread, StopAt, row
  <1>4. ASSUME NEW w \in Workers, AssignDestination(w) PROVE AbsentIsBlank'
    BY <1>4 DEF AbsentIsBlank, AssignDestination, StopAt, forjd
  <1>5. ASSUME NEW w \in Workers, Post(w) PROVE AbsentIsBlank'
    BY <1>5 DEF Lives, AbsentIsBlank, Post, At, row
  <1>6. ASSUME NEW w \in Workers, PostFails(w) \/ PostUnnamed(w) PROVE AbsentIsBlank'
    BY <1>6 DEF Lives, AbsentIsBlank, PostFails, PostUnnamed, At, row
  <1>7. ASSUME NEW w \in Workers, MarkDelivered(w) PROVE AbsentIsBlank'
    BY <1>7 DEF AbsentIsBlank, MarkDelivered, Marking, row
  <1>8. ASSUME NEW w \in Workers, MeetDeadLetter(w) PROVE AbsentIsBlank'
    BY <1>8 DEF TypeOK, AbsentIsBlank, MeetDeadLetter, Finish, row, forjd
  <1>9. ASSUME NEW w \in Workers, RecordFailure(w) PROVE AbsentIsBlank'
    BY <1>9 DEF Lives, AbsentIsBlank, RecordFailure
  <1>10. ASSUME NEW w \in Workers, Crash(w) PROVE AbsentIsBlank'
    BY <1>10 DEF AbsentIsBlank, Crash, Finish, row, forjd
  <1>11. CASE Requeue
    BY <1>11 DEF AbsentIsBlank, Requeue
  <1>12. ASSUME NEW t \in Tenants, EraseTenant(t) PROVE AbsentIsBlank'
    BY <1>12 DEF AbsentIsBlank, EraseTenant, row
  <1>13. CASE CloseAccount
    BY <1>13 DEF AbsentIsBlank, CloseAccount, forjd
  <1> QED
    BY <1>1, <1>2, <1>3, <1>4, <1>5, <1>6, <1>7, <1>8, <1>9, <1>10, <1>11,
      <1>12, <1>13 DEF Next, Deliver, AllQuiet

(* The destination is a tenant that was mapped, so the erasure names it;   *)
(* an erased tenant takes no document any more.                            *)
LEMMA NamedKept ==
  ASSUME TypeOK, Lives, Named, ViewsAreTrue, [Next]_vars
  PROVE  Named'
  <1>1. ASSUME \/ \E w \in Reconcilers : Claim(w)
               \/ \E w \in Workers : Reread(w) \/ PostRefused(w) \/
                    MarkDelivered(w) \/ MeetDeadLetter(w) \/ RecordFailure(w)
                    \/ Crash(w)
               \/ BackoffElapses \/ Requeue \/ UNCHANGED vars
        PROVE  Named'
    <2>1. UNCHANGED <<mapping, dest, associated, manifest, behind, stored, erased, phase>>
      BY <1>1 DEF Claim, Reread, PostRefused, MarkDelivered, Marking, MeetDeadLetter,
        RecordFailure, Crash, BackoffElapses, Requeue, vars, row, account,
        forjd
    <2> QED
      BY <2>1 DEF Named
  <1>2. ASSUME NEW w \in WebThreads, NEW s \in Submissions, Submit(w, s) PROVE
        Named'
    BY <1>2 DEF Named, Submit, SubmitNew, SubmitAgain, ActiveMapping, row,
      account, forjd
  <1>3. ASSUME NEW w \in Workers, AssignDestination(w) PROVE Named'
    BY <1>3 DEF Lives, Named, AssignDestination, StopAt, ActiveMapping, At, account, forjd
  <1>4. ASSUME NEW w \in Workers, Post(w) PROVE Named'
    BY <1>4 DEF Workers, Named, Post, row, account
  <1>5. ASSUME NEW w \in Workers, PostFails(w) \/ PostUnnamed(w) PROVE Named'
    BY <1>5 DEF Named, PostFails, PostUnnamed, row, account
  <1>6. ASSUME NEW t \in Tenants, Remap(t) \/ Provision(t) PROVE Named'
    BY <1>6 DEF Named, Remap, Provision, row, forjd
  <1>7. ASSUME NEW t \in Tenants, EraseTenant(t) PROVE Named'
    BY <1>7 DEF Named, EraseTenant, row, account
  <1>8. CASE Bar
    BY <1>8 DEF Named, Bar, row, forjd
  <1>9. CASE CloseAccount
    BY <1>9 DEF Named, ViewsAreTrue, Marking, CloseAccount, forjd
  <1> QED
    BY <1>1, <1>2, <1>3, <1>4, <1>5, <1>6, <1>7, <1>8, <1>9 DEF Next, Deliver,
      AllQuiet

(* The destination never changes once it is set, and goes with the account *)
(* only when everything named has been erased.                             *)
LEMMA ViewsKept ==
  ASSUME TypeOK, Lives, AbsentIsBlank, Named, ViewsAreTrue, [Next]_vars
  PROVE  ViewsAreTrue'
  <1>1. ASSUME \/ \E t \in Tenants : Remap(t) \/ Provision(t)
               \/ BackoffElapses \/ Requeue \/ UNCHANGED vars
        PROVE  ViewsAreTrue'
    <2>1. UNCHANGED <<pc, view, phase, erased, stored, dest>>
      BY <1>1 DEF BackoffElapses, Requeue, Remap, Provision, vars, row, account, forjd
    <2> QED
      BY <2>1 DEF ViewsAreTrue, Marking
  <1>2. ASSUME NEW w \in WebThreads, NEW s \in Submissions, Submit(w, s) PROVE
        ViewsAreTrue'
    BY <1>2 DEF TypeOK, Lives, ViewsAreTrue, Marking, Submit, SubmitNew, SubmitAgain,
      Goto, Finish, row, account, forjd
  <1>3. ASSUME NEW w \in Reconcilers, Claim(w) PROVE ViewsAreTrue'
    BY <1>3 DEF ViewsAreTrue, Marking, Claim, Goto, account, forjd
  <1>4. ASSUME NEW w \in Workers, Reread(w) PROVE ViewsAreTrue'
    BY <1>4 DEF TypeOK, ViewsAreTrue, Marking, Reread, StopAt, Goto, Finish, row,
      account, forjd
  <1>5. ASSUME NEW w \in Workers, AssignDestination(w) PROVE ViewsAreTrue'
    BY <1>5 DEF TypeOK, Named, ViewsAreTrue, Marking, AssignDestination, StopAt,
      ActiveMapping, Goto, Finish, account, forjd
  <1>6. ASSUME NEW w \in Workers, Post(w) PROVE ViewsAreTrue'
    BY <1>6 DEF ViewsAreTrue, Marking, Post, At, Goto, row, account
  <1>7. ASSUME NEW w \in Workers, PostFails(w) \/ PostUnnamed(w) PROVE ViewsAreTrue'
    BY <1>7 DEF TypeOK, ViewsAreTrue, Marking, PostFails, PostUnnamed, At, Goto, row,
      account
  <1>8. ASSUME NEW w \in Workers, PostRefused(w) PROVE ViewsAreTrue'
    BY <1>8 DEF ViewsAreTrue, Marking, PostRefused, Goto, row, account, forjd
  <1>9. ASSUME NEW w \in Workers, MarkDelivered(w) PROVE ViewsAreTrue'
    BY <1>9 DEF TypeOK, Lives, ViewsAreTrue, MarkDelivered, Marking, Goto, Finish,
      row, account, forjd
  <1>10. ASSUME NEW w \in Workers, MeetDeadLetter(w) PROVE ViewsAreTrue'
    BY <1>10 DEF TypeOK, ViewsAreTrue, Marking, MeetDeadLetter, Goto, Finish, row,
      account, forjd
  <1>11. ASSUME NEW w \in Workers, RecordFailure(w) PROVE ViewsAreTrue'
    BY <1>11 DEF TypeOK, ViewsAreTrue, Marking, RecordFailure, Counted, Settled, Goto,
      Finish, IsWeb, account, forjd
  <1>12. ASSUME NEW w \in Workers, Crash(w) PROVE ViewsAreTrue'
    BY <1>12 DEF TypeOK, ViewsAreTrue, Marking, Crash, Goto, Finish, IsWeb, row,
      account, forjd
  <1>13. ASSUME NEW t \in Tenants, EraseTenant(t) PROVE ViewsAreTrue'
    BY <1>13 DEF ViewsAreTrue, Marking, EraseTenant, row, account
  <1>14. CASE Bar
    BY <1>14 DEF ViewsAreTrue, Marking, Bar, row, forjd
  <1>15. CASE CloseAccount
    BY <1>15 DEF Named, ViewsAreTrue, Marking, CloseAccount, forjd
  <1> QED
    BY <1>1, <1>2, <1>3, <1>4, <1>5, <1>6, <1>7, <1>8, <1>9, <1>10, <1>11,
      <1>12, <1>13, <1>14, <1>15 DEF Next, Deliver, AllQuiet

(* A success was posted to the row's destination, which it keeps.          *)
LEMMA SomewhereKept ==
  ASSUME TypeOK, Lives, ViewsAreTrue, DeliveredSomewhere, [Next]_vars
  PROVE  DeliveredSomewhere'
  <1>1. ASSUME \/ \E w \in Reconcilers : Claim(w)
               \/ \E w \in Workers : Reread(w) \/ Post(w) \/ PostFails(w) \/ PostUnnamed(w)
                    \/ PostRefused(w) \/ MeetDeadLetter(w) \/ Crash(w)
               \/ \E t \in Tenants : Remap(t) \/ Provision(t) \/ EraseTenant(t)
               \/ BackoffElapses \/ Bar \/ UNCHANGED vars
        PROVE  DeliveredSomewhere'
    <2>1. UNCHANGED <<status, dest>>
      BY <1>1 DEF Claim, Reread, Post, PostFails, PostUnnamed, PostRefused,
        MeetDeadLetter, Crash, BackoffElapses, Remap, Provision, EraseTenant, Bar,
        vars, row
    <2> QED
      BY <2>1 DEF DeliveredSomewhere
  <1>2. ASSUME NEW w \in WebThreads, NEW s \in Submissions, Submit(w, s) PROVE
        DeliveredSomewhere'
    BY <1>2 DEF DeliveredSomewhere, Submit, SubmitNew, SubmitAgain, row
  <1>3. ASSUME NEW w \in Workers, AssignDestination(w) PROVE DeliveredSomewhere'
    BY <1>3 DEF DeliveredSomewhere, AssignDestination
  <1>4. ASSUME NEW w \in Workers, MarkDelivered(w) PROVE DeliveredSomewhere'
    BY <1>4 DEF ViewsAreTrue, DeliveredSomewhere, MarkDelivered, row
  <1>5. ASSUME NEW w \in Workers, RecordFailure(w) PROVE DeliveredSomewhere'
    BY <1>5 DEF DeliveredSomewhere, RecordFailure
  <1>6. CASE Requeue \/ CloseAccount
    BY <1>6 DEF DeliveredSomewhere, Requeue, CloseAccount
  <1> QED
    BY <1>1, <1>2, <1>3, <1>4, <1>5, <1>6 DEF Next, Deliver, AllQuiet

(* The content never changes once it is set.                               *)
LEMMA AskedKept ==
  ASSUME TypeOK, Lives, AskedIsContent, [Next]_vars
  PROVE  AskedIsContent'
  <1>1. ASSUME \/ \E t \in Tenants : Remap(t) \/ Provision(t) \/ EraseTenant(t)
               \/ BackoffElapses \/ Bar \/ UNCHANGED vars
        PROVE  AskedIsContent'
    <2>1. UNCHANGED <<pc, status, asked, content>>
      BY <1>1 DEF BackoffElapses, Remap, Provision, EraseTenant, Bar, vars, row
    <2> QED
      BY <2>1 DEF AskedIsContent
  <1>2. ASSUME NEW w \in WebThreads, NEW s \in Submissions, Submit(w, s) PROVE
        AskedIsContent'
    BY <1>2 DEF TypeOK, Workers, Lives, AskedIsContent, Submit, SubmitNew,
      SubmitAgain, Goto, Finish, row, account
  <1>3. ASSUME NEW w \in Reconcilers, Claim(w) PROVE AskedIsContent'
    BY <1>3 DEF AskedIsContent, Claim, Goto, account
  <1>4. ASSUME NEW w \in Workers, Reread(w) PROVE AskedIsContent'
    BY <1>4 DEF TypeOK, Workers, AskedIsContent, Reread, StopAt, At, Goto,
      Finish, row
  <1>5. ASSUME NEW w \in Workers, AssignDestination(w) PROVE AskedIsContent'
    BY <1>5 DEF TypeOK, Workers, Lives, AskedIsContent, AssignDestination,
      StopAt, At, Goto, Finish, forjd
  <1>6. ASSUME NEW w \in Workers, Post(w) PROVE AskedIsContent'
    BY <1>6 DEF Lives, AskedIsContent, Post, At, Goto, row
  <1>7. ASSUME NEW w \in Workers, PostFails(w) \/ PostUnnamed(w) PROVE AskedIsContent'
    <2>1. \E p \in Delivering : Goto(w, p)
      BY <1>7 DEF PostFails, PostUnnamed, Delivering, Marking
    <2>2. pc[w] # "idle" /\ UNCHANGED <<status, asked, content>>
      BY <1>7 DEF PostFails, PostUnnamed, At, row
    <2> QED
      BY <2>1, <2>2 DEF TypeOK, AskedIsContent, Goto
  <1>8. ASSUME NEW w \in Workers, PostRefused(w) PROVE AskedIsContent'
    BY <1>8 DEF AskedIsContent, PostRefused, At, Goto, row, account
  <1>9. ASSUME NEW w \in Workers, MarkDelivered(w) PROVE AskedIsContent'
    BY <1>9 DEF AskedIsContent, MarkDelivered, Marking, Goto, Finish, row
  <1>10. ASSUME NEW w \in Workers, MeetDeadLetter(w) PROVE AskedIsContent'
    BY <1>10 DEF TypeOK, Workers, AskedIsContent, MeetDeadLetter, At, Goto,
      Finish, row
  <1>11. ASSUME NEW w \in Workers, RecordFailure(w) PROVE AskedIsContent'
    BY <1>11 DEF TypeOK, Workers, AskedIsContent, RecordFailure, Goto, Finish
  <1>12. ASSUME NEW w \in Workers, Crash(w) PROVE AskedIsContent'
    BY <1>12 DEF AskedIsContent, Crash, Goto, Finish, row
  <1>13. CASE Requeue
    BY <1>13 DEF AskedIsContent, Requeue
  <1>14. CASE CloseAccount
    BY <1>14 DEF Workers, Lives, AskedIsContent, CloseAccount
  <1> QED
    BY <1>1, <1>2, <1>3, <1>4, <1>5, <1>6, <1>7, <1>8, <1>9, <1>10, <1>11,
      <1>12, <1>13, <1>14 DEF Next, Deliver, AllQuiet

(* What is posted goes to the row's destination, or is refused.            *)
LEMMA OneDocumentKept ==
  ASSUME TypeOK, Lives, AbsentIsBlank, Named, ViewsAreTrue, OneDocument,
    [Next]_vars
  PROVE  OneDocument'
  <1>1. ASSUME \/ \E w \in Reconcilers : Claim(w)
               \/ \E w \in Workers : Reread(w) \/ PostRefused(w) \/
                    MarkDelivered(w) \/ MeetDeadLetter(w) \/ RecordFailure(w)
                    \/ Crash(w)
               \/ \E t \in Tenants : Remap(t) \/ Provision(t)
               \/ BackoffElapses \/ Requeue \/ Bar \/ UNCHANGED vars
        PROVE  OneDocument'
    <2>1. UNCHANGED <<stored, dest>>
      BY <1>1 DEF Claim, Reread, PostRefused, MarkDelivered, Marking, MeetDeadLetter,
        RecordFailure, Crash, BackoffElapses, Requeue, Remap, Provision, Bar, vars, row,
        forjd
    <2> QED
      BY <2>1 DEF OneDocument
  <1>2. ASSUME NEW w \in WebThreads, NEW s \in Submissions, Submit(w, s) PROVE
        OneDocument'
    BY <1>2 DEF AbsentIsBlank, OneDocument, Submit, SubmitNew, SubmitAgain,
      row, forjd
  <1>3. ASSUME NEW w \in Workers, AssignDestination(w) PROVE OneDocument'
    BY <1>3 DEF TypeOK, OneDocument, AssignDestination, forjd
  <1>4. ASSUME NEW w \in Workers, Post(w) PROVE OneDocument'
    BY <1>4 DEF ViewsAreTrue, Marking, OneDocument, Post, At, row
  <1>5. ASSUME NEW w \in Workers, PostFails(w) \/ PostUnnamed(w) PROVE OneDocument'
    BY <1>5 DEF ViewsAreTrue, Marking, OneDocument, PostFails, PostUnnamed, At, row
  <1>6. ASSUME NEW t \in Tenants, EraseTenant(t) PROVE OneDocument'
    BY <1>6 DEF OneDocument, EraseTenant, row
  <1>7. CASE CloseAccount
    BY <1>7 DEF Named, OneDocument, CloseAccount, forjd
  <1> QED
    BY <1>1, <1>2, <1>3, <1>4, <1>5, <1>6, <1>7 DEF Next, Deliver, AllQuiet

(* A success is written by a delivery that has seen it.                    *)
LEMMA DeliveredKept ==
  ASSUME TypeOK, Lives, ViewsAreTrue, DeliveredIsTrue, [Next]_vars
  PROVE  DeliveredIsTrue'
  <1>1. ASSUME \/ \E w \in Reconcilers : Claim(w)
               \/ \E w \in Workers : Reread(w) \/ PostRefused(w) \/
                    MeetDeadLetter(w) \/ Crash(w)
               \/ \E t \in Tenants : Remap(t) \/ Provision(t)
               \/ BackoffElapses \/ Bar \/ UNCHANGED vars
        PROVE  DeliveredIsTrue'
    <2>1. UNCHANGED <<status, document, dest, stored, erased>>
      BY <1>1 DEF Claim, Reread, PostRefused, MeetDeadLetter, Crash,
        BackoffElapses, Remap, Provision, Bar, vars, row, forjd
    <2> QED
      BY <2>1 DEF DeliveredIsTrue
  <1>2. ASSUME NEW w \in WebThreads, NEW s \in Submissions, Submit(w, s) PROVE
        DeliveredIsTrue'
    BY <1>2 DEF DeliveredIsTrue, Submit, SubmitNew, SubmitAgain, row, forjd
  <1>3. ASSUME NEW w \in Workers, AssignDestination(w) PROVE DeliveredIsTrue'
    BY <1>3 DEF TypeOK, DeliveredIsTrue, AssignDestination, forjd
  <1>4. ASSUME NEW w \in Workers, Post(w) PROVE DeliveredIsTrue'
    BY <1>4 DEF DeliveredIsTrue, Post, row
  <1>5. ASSUME NEW w \in Workers, PostFails(w) \/ PostUnnamed(w) PROVE DeliveredIsTrue'
    BY <1>5 DEF DeliveredIsTrue, PostFails, PostUnnamed, row
  <1>6. ASSUME NEW w \in Workers, MarkDelivered(w) PROVE DeliveredIsTrue'
    BY <1>6 DEF Lives, ViewsAreTrue, DeliveredIsTrue, MarkDelivered, Marking, At, row,
      forjd
  <1>7. ASSUME NEW w \in Workers, RecordFailure(w) PROVE DeliveredIsTrue'
    BY <1>7 DEF DeliveredIsTrue, RecordFailure, forjd
  <1>8. CASE Requeue
    BY <1>8 DEF DeliveredIsTrue, Requeue
  <1>9. ASSUME NEW t \in Tenants, EraseTenant(t) PROVE DeliveredIsTrue'
    BY <1>9 DEF DeliveredIsTrue, EraseTenant, row
  <1>10. CASE CloseAccount
    BY <1>10 DEF DeliveredIsTrue, CloseAccount
  <1> QED
    BY <1>1, <1>2, <1>3, <1>4, <1>5, <1>6, <1>7, <1>8, <1>9, <1>10 DEF Next,
      Deliver, AllQuiet

(* "recorded" is said on the strength of the row or of a success.          *)
LEMMA AnswersKept ==
  ASSUME TypeOK, Lives, AbsentIsBlank, ViewsAreTrue, AskedIsContent,
    DeliveredIsTrue, AnswerIsHonest, [Next]_vars
  PROVE  AnswerIsHonest'
  <1>1. ASSUME \/ \E w \in Reconcilers : Claim(w)
               \/ \E w \in Workers : PostRefused(w)
               \/ \E t \in Tenants : Remap(t) \/ Provision(t)
               \/ BackoffElapses \/ Bar \/ UNCHANGED vars
        PROVE  AnswerIsHonest'
    <2>1. UNCHANGED <<answer, status, asked, content, document, dest, stored, erased>>
      BY <1>1 DEF Claim, PostRefused, BackoffElapses, Remap, Provision, Bar, vars, row,
        forjd
    <2> QED
      BY <2>1 DEF AnswerIsHonest
  <1>2. ASSUME NEW w \in WebThreads, NEW s \in Submissions, Submit(w, s) PROVE
        AnswerIsHonest'
    BY <1>2 DEF TypeOK, AbsentIsBlank, DeliveredIsTrue, AnswerIsHonest, Submit,
      SubmitNew, SubmitAgain, Settled, Finish, IsWeb, row, forjd
  <1>3. ASSUME NEW w \in Workers, Reread(w) PROVE AnswerIsHonest'
    BY <1>3 DEF TypeOK, AskedIsContent, DeliveredIsTrue, AnswerIsHonest,
      Reread, StopAt, At, Finish, row, forjd
  <1>4. ASSUME NEW w \in Workers, AssignDestination(w) PROVE AnswerIsHonest'
    BY <1>4 DEF TypeOK, AskedIsContent, DeliveredIsTrue, AnswerIsHonest,
      AssignDestination, StopAt, At, Finish, forjd
  <1>5. ASSUME NEW w \in Workers, Post(w) PROVE AnswerIsHonest'
    BY <1>5 DEF AnswerIsHonest, Post, row
  <1>6. ASSUME NEW w \in Workers, PostFails(w) \/ PostUnnamed(w) PROVE AnswerIsHonest'
    BY <1>6 DEF AnswerIsHonest, PostFails, PostUnnamed, row
  <1>7. ASSUME NEW w \in Workers, MarkDelivered(w) PROVE AnswerIsHonest'
    BY <1>7 DEF Lives, ViewsAreTrue, AskedIsContent, AnswerIsHonest,
      MarkDelivered, Marking, At, Finish, row, forjd
  <1>8. ASSUME NEW w \in Workers, MeetDeadLetter(w) PROVE AnswerIsHonest'
    BY <1>8 DEF TypeOK, AnswerIsHonest, MeetDeadLetter, Finish, row, forjd
  <1>9. ASSUME NEW w \in Workers, RecordFailure(w) PROVE AnswerIsHonest'
    BY <1>9 DEF TypeOK, Lives, AskedIsContent, DeliveredIsTrue, AnswerIsHonest,
      RecordFailure, Settled, Finish, forjd
  <1>10. ASSUME NEW w \in Workers, Crash(w) PROVE AnswerIsHonest'
    BY <1>10 DEF AnswerIsHonest, Crash, Finish, row, forjd
  <1>11. CASE Requeue
    BY <1>11 DEF AnswerIsHonest, Requeue, forjd
  <1>12. ASSUME NEW t \in Tenants, EraseTenant(t) PROVE AnswerIsHonest'
    BY <1>12 DEF AnswerIsHonest, EraseTenant, row
  <1>13. CASE CloseAccount
    BY <1>13 DEF AbsentIsBlank, AnswerIsHonest, CloseAccount
  <1> QED
    BY <1>1, <1>2, <1>3, <1>4, <1>5, <1>6, <1>7, <1>8, <1>9, <1>10, <1>11,
      <1>12, <1>13 DEF Next, Deliver, AllQuiet

(* The last attempt makes the row a dead letter.                           *)
LEMMA PendingKept ==
  ASSUME TypeOK, PendingHasAttemptsLeft, [Next]_vars
  PROVE  PendingHasAttemptsLeft'
  <1>1. ASSUME \/ \E w \in Reconcilers : Claim(w)
               \/ \E w \in Workers : Reread(w) \/ AssignDestination(w) \/
                    Post(w) \/ PostFails(w) \/ PostUnnamed(w) \/ PostRefused(w) \/
                    MeetDeadLetter(w) \/ Crash(w)
               \/ \E t \in Tenants : Remap(t) \/ Provision(t) \/ EraseTenant(t)
               \/ BackoffElapses \/ Bar \/ UNCHANGED vars
        PROVE  PendingHasAttemptsLeft'
    <2>1. UNCHANGED <<status, attempts>>
      BY <1>1 DEF Claim, Reread, AssignDestination, Post, PostFails, PostUnnamed,
        PostRefused, MeetDeadLetter, Crash, BackoffElapses, Remap, Provision, EraseTenant,
        Bar, vars, row
    <2> QED
      BY <2>1 DEF PendingHasAttemptsLeft
  <1>2. ASSUME NEW w \in WebThreads, NEW s \in Submissions, Submit(w, s) PROVE
        PendingHasAttemptsLeft'
    BY <1>2 DEF PendingHasAttemptsLeft, Submit, SubmitNew, SubmitAgain, row
  <1>3. ASSUME NEW w \in Workers, MarkDelivered(w) PROVE
        PendingHasAttemptsLeft'
    BY <1>3 DEF PendingHasAttemptsLeft, MarkDelivered, Marking, row
  <1>4. ASSUME NEW w \in Workers, RecordFailure(w) PROVE
        PendingHasAttemptsLeft'
    BY <1>4 DEF TypeOK, PendingHasAttemptsLeft, RecordFailure, Counted
  <1>5. CASE Requeue
    BY <1>5 DEF PendingHasAttemptsLeft, Requeue
  <1>6. CASE CloseAccount
    BY <1>6 DEF PendingHasAttemptsLeft, CloseAccount
  <1> QED
    BY <1>1, <1>2, <1>3, <1>4, <1>5, <1>6 DEF Next, Deliver, AllQuiet
-----------------------------------------------------------------------------
(* The theorems.                                                           *)

LEMMA InitOK == Init => IInv
  <1> SUFFICES ASSUME Init PROVE IInv
    OBVIOUS
  <1>1. TypeOK
    <2>1. 0 \in 0..MaxAttempts /\ 0 \in 0..MaxCrashes
      OBVIOUS
    <2>2. associated \subseteq Tenants /\ mapping \in Tenants \cup {Nothing}
      BY DEF Init
    <2>3. /\ pc \in [Workers -> {"idle"}]
          /\ answer \in [WebThreads -> {"none"}]
          /\ view \in [Workers -> {Nothing}] /\ asked \in [WebThreads -> {Nothing}]
      BY DEF Init
    <2> QED
      BY <2>1, <2>2, <2>3 DEF Init, TypeOK
  <1>2. Lives /\ AbsentIsBlank /\ Named /\ ViewsAreTrue /\ DeliveredSomewhere
      /\ AskedIsContent
    BY DEF Init, Lives, AbsentIsBlank, Named, ViewsAreTrue, Marking, DeliveredSomewhere,
      AskedIsContent
  <1>3. /\ OneDocument /\ DeliveredIsTrue /\ AnswerIsHonest
        /\ PendingHasAttemptsLeft
    BY DEF Init, OneDocument, DeliveredIsTrue, AnswerIsHonest,
      PendingHasAttemptsLeft
  <1> QED
    BY <1>1, <1>2, <1>3 DEF IInv

(* The invariant holds: whatever overlaps, is retried, remapped or deleted, *)
(* deliveries under way know the row's destination and content.            *)
THEOREM Invariant == Spec => []IInv
  <1>1. IInv /\ [Next]_vars => IInv'
    BY TypeKept, LivesKept, AbsentKept, NamedKept, ViewsKept, SomewhereKept, AskedKept,
      OneDocumentKept, DeliveredKept, AnswersKept, PendingKept DEF IInv
  <1> QED
    BY <1>1, InitOK, PTL DEF Spec

(* The report's row, its deliveries and what FORJD holds keep their types. *)
THEOREM TypeCorrect == Spec => []TypeOK
  <1>1. IInv => TypeOK
    BY DEF IInv
  <1> QED
    BY <1>1, Invariant, PTL

(* FORJD never holds two documents of one client_report_id.                *)
THEOREM DocumentUnique == Spec => []OneDocument
  <1>1. IInv => OneDocument
    BY DEF IInv
  <1> QED
    BY <1>1, Invariant, PTL

(* A DELIVERED row that names a document names the one that was stored; an *)
(* answer without an id leaves it without a name.                          *)
THEOREM DeliveredTrue == Spec => []DeliveredIsTrue
  <1>1. IInv => DeliveredIsTrue
    BY DEF IInv
  <1> QED
    BY <1>1, Invariant, PTL

(* "recorded" is told for the content that was recorded, and stored unless *)
(* FORJD has answered without an id.                                       *)
THEOREM AnswersHonest == Spec => []AnswerIsHonest
  <1>1. IInv => AnswerIsHonest
    BY DEF IInv
  <1> QED
    BY <1>1, Invariant, PTL

(* No PENDING row has used up its attempts.                                *)
THEOREM AttemptsLeft == Spec => []PendingHasAttemptsLeft
  <1>1. IInv => PendingHasAttemptsLeft
    BY DEF IInv
  <1> QED
    BY <1>1, Invariant, PTL

(* With the account, every document of its reports is gone from FORJD, and *)
(* no late delivery brings one back, except in a tenant provisioned behind *)
(* the barrier that no deletion request has named.                         *)
THEOREM NothingSurvives == Spec => []NoReportSurvivesDeletion
  <1>1. IInv => NoReportSurvivesDeletion
    BY DEF IInv, TypeOK, Named, OneDocument, NoReportSurvivesDeletion
  <1> QED
    BY <1>1, Invariant, PTL

(* What a step may do to a row that is settled.                            *)
Settles ==
  /\ status = "delivered" =>
       \/ /\ status' = "delivered" /\ dest' = dest
          /\ document' = document \/ Unnamed \in {document, document'}
       \/ status' = "deleted"
  /\ status = "dead_letter" /\ status' # status
       => Requeue \/ status' \in {"delivered", "deleted"}

LEMMA StepSettles ==
  ASSUME IInv, Next
  PROVE  Settles
  <1>1. /\ TypeOK /\ Lives
        /\ status = "delivered" => dest # Nothing
        /\ status = "delivered" /\ document # Unnamed => document = dest
    BY DEF IInv, DeliveredIsTrue, DeliveredSomewhere
  <1>2. ASSUME \/ \E w \in Workers : Reread(w) \/ Post(w) \/ PostFails(w) \/ PostUnnamed(w)
                    \/ PostRefused(w) \/ MeetDeadLetter(w) \/ Crash(w)
               \/ \E t \in Tenants : Remap(t) \/ Provision(t) \/ EraseTenant(t)
               \/ Bar \/ AllQuiet
        PROVE  Settles
    <2>1. UNCHANGED <<status, document, dest>>
      BY <1>2 DEF Reread, Post, PostFails, PostUnnamed, PostRefused, MeetDeadLetter, Crash,
        Remap, Provision, EraseTenant, Bar, AllQuiet, vars, row
    <2> QED
      BY <2>1 DEF Settles
  <1>3. ASSUME NEW w \in WebThreads, NEW s \in Submissions, Submit(w, s)
        PROVE  Settles
    BY <1>3 DEF Settles, Submit, SubmitNew, SubmitAgain, row
  <1>4. ASSUME NEW w \in Workers, AssignDestination(w) PROVE Settles
    BY <1>1, <1>4 DEF Settles, AssignDestination
  <1>5. ASSUME NEW w \in Workers, MarkDelivered(w) PROVE Settles
    <2>1. view[w] = dest
      BY <1>5 DEF MarkDelivered, At, IInv, ViewsAreTrue, Marking
    <2> QED
      BY <1>1, <1>5, <2>1 DEF Settles, MarkDelivered
  <1>6. ASSUME NEW w \in Workers, RecordFailure(w) PROVE Settles
    BY <1>6 DEF Settles, RecordFailure
  <1>7. CASE \E w \in Reconcilers : Claim(w)
    BY <1>7 DEF Settles, Claim
  <1>8. CASE BackoffElapses
    BY <1>8 DEF Settles, BackoffElapses
  <1>9. CASE Requeue
    BY <1>9 DEF Settles, Requeue
  <1>10. CASE CloseAccount
    BY <1>10 DEF Settles, CloseAccount
  <1> QED
    BY <1>2, <1>3, <1>4, <1>5, <1>6, <1>7, <1>8, <1>9, <1>10 DEF Next, Deliver

(* DELIVERED is final; a dead letter is left by the operator, by a success  *)
(* that was under way, or with its account.                                *)
THEOREM SettledFinal == Spec => SettledIsFinal
  <1>1. IInv /\ [Next]_vars => [Settles]_vars
    BY StepSettles
  <1>2. [Settles]_vars =>
          [/\ status = "delivered" =>
                \/ /\ status' = "delivered" /\ dest' = dest
                   /\ document' = document \/ Unnamed \in {document, document'}
                \/ status' = "deleted"
           /\ status = "dead_letter" /\ status' # status
                => Requeue \/ status' \in {"delivered", "deleted"}]_vars
    BY DEF Settles
  <1> QED
    BY <1>1, <1>2, Invariant, PTL DEF Spec, SettledIsFinal
=============================================================================
