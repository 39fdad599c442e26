----------------------------- MODULE ReportOutbox -----------------------------
(***************************************************************************)
(* One issue report (one client_report_id) on its way from the browser to  *)
(* a FORJD tenant: backend/agent/api.py, the reconciler that retries it,   *)
(* the operator's requeue, tenant remapping and the deletion of the        *)
(* account the report belongs to.                                          *)
(*                                                                         *)
(* Web threads deliver without a claim, reconcilers under a claim that     *)
(* runs out; any number of deliveries of the same row may overlap.         *)
(***************************************************************************)
EXTENDS Naturals

CONSTANTS
  WebThreads,     \* threads serving POST /report-issue
  Reconcilers,    \* reconcile_forjd_reports deliveries
  Submissions,    \* (user, account, content) triples sent under this id
  Nothing,        \* null
  Unnamed,        \* "None": the id of a document in an answer that has none
  Tenants,        \* FORJD tenants
  MaxAttempts,    \* REPORT_MAX_DELIVERY_ATTEMPTS
  MaxCrashes      \* BOUND: crashes of threads and reconcilers

ASSUME WorkersAssumption == WebThreads \cap Reconcilers = {}
ASSUME NothingAssumption ==
  Nothing \notin Tenants \cup Submissions /\ Unnamed \notin Tenants \cup {Nothing}
ASSUME AttemptsAssumption == MaxAttempts \in Nat \ {0}
ASSUME CrashesAssumption == MaxCrashes \in Nat

VARIABLES
  \* The BugReport row.
  status,      \* delivery_status, or "absent"; "deleted" with the account
  content,     \* the submission that created the row
  dest,        \* forjd_tenant_id and its token reference: the snapshot; it
               \* stays as HISTORY when the row is deleted
  document,    \* forjd_document_id, named by the tenant that issued it
  attempts,    \* delivery_attempts
  due,         \* next_delivery_at is NULL or past
  \* The account.
  mapping,     \* the tenant of its ForjdTenantMapping
  active,      \* the mapping's is_active
  associated,  \* its ForjdTenantAssociation rows
  manifest,    \* forjd_erase_targets of its deletion job
  behind,      \* HISTORY: tenants provisioned for it behind the barrier
  phase,       \* "open", "barred" by a deletion request, "gone"
  \* FORJD.
  stored,      \* tenants that hold a document for this client_report_id
  erased,      \* tenants wiped, their service token revoked
  \* Deliveries.
  pc,          \* where each one is
  asked,       \* what a web thread was asked to submit
  view,        \* the destination a delivery has read
  answer,      \* the last answer of a web thread
  crashes

Workers == WebThreads \cup Reconcilers

row     == <<status, content, dest, document, attempts, due>>
account == <<mapping, active, associated, manifest, behind, phase>>
forjd   == <<stored, erased>>
vars    == <<row, account, forjd, pc, asked, view, answer, crashes>>

Marking == {"mark", "mark_unnamed"}
Delivering == {"reread", "assign", "post", "dead", "retry", "fatal"} \cup Marking

(* Deliveries already in flight may still count one attempt each after the *)
(* row has left PENDING.                                                   *)
TypeOK ==
  /\ status \in {"absent", "pending", "delivered", "dead_letter", "deleted"}
  /\ content \in Submissions \cup {Nothing}
  /\ dest \in Tenants \cup {Nothing}
  /\ document \in Tenants \cup {Nothing, Unnamed}
  /\ attempts \in 0 .. MaxAttempts
  /\ due \in BOOLEAN
  /\ mapping \in Tenants \cup {Nothing}
  /\ active \in BOOLEAN
  /\ associated \subseteq Tenants
  /\ manifest \subseteq Tenants
  /\ behind \subseteq Tenants
  /\ phase \in {"open", "barred", "gone"}
  /\ stored \subseteq Tenants
  /\ erased \subseteq Tenants
  /\ pc \in [Workers -> {"idle"} \cup Delivering]
  /\ asked \in [WebThreads -> Submissions \cup {Nothing}]
  /\ view \in [Workers -> Tenants \cup {Nothing}]
  /\ answer \in [WebThreads -> {"none", "recorded", "queued", "dead_letter", "conflict"}]
  /\ crashes \in 0 .. MaxCrashes

Init ==
  /\ status = "absent" /\ content = Nothing /\ dest = Nothing /\ document = Nothing
  /\ attempts = 0 /\ due = FALSE
  /\ mapping \in Tenants \cup {Nothing}
  /\ active = TRUE
  /\ associated = {mapping} \ {Nothing}
  /\ manifest = {}
  /\ behind = {}
  /\ phase = "open"
  /\ stored = {}
  /\ erased = {}
  /\ pc = [w \in Workers |-> "idle"]
  /\ asked = [w \in WebThreads |-> Nothing]
  /\ view = [w \in Workers |-> Nothing]
  /\ answer = [w \in WebThreads |-> "none"]
  /\ crashes = 0

-----------------------------------------------------------------------------
(* Helpers.                                                                *)

At(w, p) == pc[w] = p
Goto(w, p) == pc' = [pc EXCEPT ![w] = p]
IsWeb(w) == w \in WebThreads

(* The mapping filter is_active=True.                                      *)
ActiveMapping == IF active THEN mapping ELSE Nothing

(* The delivery ends; a web thread answers its client.                     *)
Finish(w, a) ==
  /\ Goto(w, "idle")
  /\ view' = [view EXCEPT ![w] = Nothing]
  /\ answer' = IF IsWeb(w) THEN [answer EXCEPT ![w] = a] ELSE answer

(* What report_issue answers, without a delivery, for the row as it is.    *)
Settled(s) == CASE s = "delivered" -> "recorded" [] s = "dead_letter" -> "dead_letter"

-----------------------------------------------------------------------------
(* report_issue up to its delivery: get_or_create by client_report_id.     *)

SubmitNew(w, s) ==
  /\ status = "absent"
  /\ status' = "pending" /\ content' = s /\ dest' = ActiveMapping
  /\ document' = Nothing /\ attempts' = 0 /\ due' = TRUE
  /\ Goto(w, "reread")
  /\ answer' = [answer EXCEPT ![w] = "none"]
  /\ UNCHANGED view

(* Mutant: the row is found by its id and its content is not compared.     *)
SubmitWithoutCompare(w, s) ==
  /\ status \notin {"absent", "deleted"}
  /\ IF status = "pending"
       THEN /\ Goto(w, "reread")
            /\ answer' = [answer EXCEPT ![w] = "none"]
            /\ UNCHANGED view
       ELSE Finish(w, Settled(status))
  /\ UNCHANGED row

SubmitAgain(w, s) ==
  /\ status \notin {"absent", "deleted"}
  /\ CASE s # content -> Finish(w, "conflict")
       [] s = content /\ status = "pending" ->
            /\ Goto(w, "reread")
            /\ answer' = [answer EXCEPT ![w] = "none"]
            /\ UNCHANGED view
       [] OTHER -> Finish(w, Settled(status))
  /\ UNCHANGED row

(* A request authenticated before the barrier may get here after it; once  *)
(* the user row is gone the insert violates its foreign key.               *)
Submit(w, s) ==
  /\ At(w, "idle")
  /\ phase # "gone"
  /\ asked' = [asked EXCEPT ![w] = s]
  /\ SubmitNew(w, s) \/ SubmitAgain(w, s)
  /\ UNCHANGED <<account, forjd, crashes>>

-----------------------------------------------------------------------------
(* The reconciler's claim: next_delivery_at doubles as its lease.          *)

Claim(w) ==
  /\ At(w, "idle")
  /\ status = "pending"
  /\ due
  /\ due' = FALSE
  /\ Goto(w, "reread")
  /\ UNCHANGED <<status, content, dest, document, attempts, account, forjd, asked, view,
                 answer, crashes>>

-----------------------------------------------------------------------------
(* deliver_bug_report.                                                     *)

(* The delivery stops at a row that is settled or no longer there.         *)
StopAt(w) ==
  \/ status = "dead_letter" /\ Goto(w, "dead") /\ UNCHANGED <<view, answer>>
  \/ status = "delivered" /\ Finish(w, "recorded")
  \/ status = "deleted" /\ Finish(w, "none")

Reread(w) ==
  /\ At(w, "reread")
  /\ \/ StopAt(w)
     \/ status = "pending" /\ Goto(w, "assign") /\ UNCHANGED <<view, answer>>
  /\ UNCHANGED <<row, account, forjd, asked, crashes>>

(* Mutant: the destination follows the current mapping.                    *)
AssignFollowsMapping(w) ==
  /\ At(w, "assign")
  /\ LET d == IF ActiveMapping # Nothing THEN ActiveMapping ELSE dest
     IN  \/ /\ d = Nothing
            /\ Goto(w, "fatal")
            /\ UNCHANGED <<dest, view, answer>>
         \/ /\ d # Nothing
            /\ status = "pending"
            /\ dest' = d
            /\ Goto(w, "post")
            /\ view' = [view EXCEPT ![w] = d]
            /\ UNCHANGED answer
         \/ /\ StopAt(w)
            /\ UNCHANGED dest
  /\ UNCHANGED <<status, content, document, attempts, due, account, forjd, asked, crashes>>

(* _assign_report_destination_once under the row's lock, and the second    *)
(* look at the status of the row it returns.                               *)
AssignDestination(w) ==
  /\ At(w, "assign")
  /\ LET d == IF dest = Nothing THEN ActiveMapping ELSE dest
     IN  \/ /\ status # "deleted"
            /\ d = Nothing
            /\ Goto(w, "fatal")
            /\ UNCHANGED <<dest, view, answer>>
         \/ /\ status # "deleted"
            /\ d # Nothing
            /\ dest' = d
            /\ \/ StopAt(w)
               \/ /\ status = "pending"
                  /\ Goto(w, "post")
                  /\ view' = [view EXCEPT ![w] = d]
                  /\ UNCHANGED answer
         \/ /\ status = "deleted"
            /\ StopAt(w)
            /\ UNCHANGED dest
  /\ UNCHANGED <<status, content, document, attempts, due, account, forjd, asked, crashes>>

(* POST /reports/documents with the snapshot's token.  FORJD keeps one     *)
(* document for a client_report_id in a tenant.                            *)
Post(w) ==
  /\ At(w, "post")
  /\ view[w] \notin erased
  /\ stored' = stored \cup {view[w]}
  /\ Goto(w, "mark")
  /\ UNCHANGED <<row, account, erased, asked, view, answer, crashes>>

(* Mutant: a timeout is taken for a success.                               *)
PostTimeoutTaken(w) ==
  /\ At(w, "post")
  /\ Goto(w, "mark")
  /\ UNCHANGED <<row, account, forjd, asked, view, answer, crashes>>

(* A success whose document has no id: str(None) is taken for one.  What   *)
(* FORJD keeps then is not known.                                          *)
PostUnnamed(w) ==
  /\ At(w, "post")
  /\ view[w] \notin erased
  /\ stored' \in {stored, stored \cup {view[w]}}
  /\ Goto(w, "mark_unnamed")
  /\ UNCHANGED <<row, account, erased, asked, view, answer, crashes>>

(* A timeout, a network error, 408, 425, 429, 5xx or an answer without a   *)
(* document: the document may be there.                                    *)
PostFails(w) ==
  /\ At(w, "post")
  /\ \/ UNCHANGED stored
     \/ view[w] \notin erased /\ stored' = stored \cup {view[w]}
  /\ Goto(w, "retry")
  /\ UNCHANGED <<row, account, erased, asked, view, answer, crashes>>

(* Another 4xx (a revoked token among them) or an unusable credential.     *)
PostRefused(w) ==
  /\ At(w, "post")
  /\ Goto(w, "fatal")
  /\ UNCHANGED <<row, account, forjd, asked, view, answer, crashes>>

Counted == IF attempts = MaxAttempts THEN attempts ELSE attempts + 1

(* The success is written whatever the row's status is by now.             *)
MarkDelivered(w) ==
  /\ pc[w] \in Marking
  /\ IF status = "deleted"
       THEN UNCHANGED row
       ELSE /\ status' = "delivered"
            /\ document' = IF At(w, "mark") THEN view[w] ELSE Unnamed
            /\ attempts' = Counted /\ due' = TRUE
            /\ UNCHANGED <<content, dest>>
  /\ Finish(w, "recorded")
  /\ UNCHANGED <<account, forjd, asked, crashes>>

(* BugReportDeadLetterError: report_issue answers, the reconciler handles  *)
(* it like any other failure.                                              *)
MeetDeadLetter(w) ==
  /\ At(w, "dead")
  /\ IF IsWeb(w) THEN Finish(w, "dead_letter")
                 ELSE Goto(w, "retry") /\ UNCHANGED <<view, answer>>
  /\ UNCHANGED <<row, account, forjd, asked, crashes>>

(* Mutant: a failure is recorded whatever the row's status is by now.      *)
RecordFailureAlways(w) ==
  /\ pc[w] \in {"retry", "fatal"}
  /\ LET dead == At(w, "fatal") \/ attempts + 1 >= MaxAttempts
     IN  \/ /\ status \notin {"absent", "deleted"}
            /\ status' = IF dead THEN "dead_letter" ELSE "pending"
            /\ due' = dead
            /\ attempts' = Counted
            /\ Finish(w, IF dead THEN "dead_letter" ELSE "queued")
         \/ /\ status \in {"absent", "deleted"}
            /\ Finish(w, "none")
            /\ UNCHANGED <<status, due, attempts>>
  /\ UNCHANGED <<content, dest, document, account, forjd, asked, crashes>>

(* Mutant: a retryable failure is not counted.                             *)
RecordFailureUncounted(w) ==
  /\ pc[w] \in {"retry", "fatal"}
  /\ \/ /\ status = "pending"
        /\ status' = IF At(w, "fatal") THEN "dead_letter" ELSE "pending"
        /\ due' = At(w, "fatal")
        /\ Finish(w, IF At(w, "fatal") THEN "dead_letter" ELSE "queued")
     \/ /\ status # "pending"
        /\ Finish(w, IF status = "deleted" THEN "none" ELSE Settled(status))
        /\ UNCHANGED <<status, due>>
  /\ UNCHANGED <<attempts, content, dest, document, account, forjd, asked, crashes>>

(* Mutant: the limit is compared before the attempt is counted.            *)
RecordFailureOffByOne(w) ==
  /\ pc[w] \in {"retry", "fatal"}
  /\ LET dead == At(w, "fatal") \/ attempts >= MaxAttempts
     IN  \/ /\ status = "pending"
            /\ status' = IF dead THEN "dead_letter" ELSE "pending"
            /\ due' = dead
            /\ attempts' = Counted
            /\ Finish(w, IF dead THEN "dead_letter" ELSE "queued")
         \/ /\ status # "pending"
            /\ Finish(w, IF status = "deleted" THEN "none" ELSE Settled(status))
            /\ UNCHANGED <<status, due, attempts>>
  /\ UNCHANGED <<content, dest, document, account, forjd, asked, crashes>>

(* _record_delivery_failure under the row's lock: only a PENDING row       *)
(* counts the attempt, backs off or becomes a dead letter.                 *)
RecordFailure(w) ==
  /\ pc[w] \in {"retry", "fatal"}
  /\ LET dead == At(w, "fatal") \/ attempts + 1 >= MaxAttempts
     IN  \/ /\ status = "pending"
            /\ status' = IF dead THEN "dead_letter" ELSE "pending"
            /\ due' = dead
            /\ attempts' = Counted
            /\ Finish(w, IF dead THEN "dead_letter" ELSE "queued")
         \/ /\ status # "pending"
            /\ Finish(w, IF status = "deleted" THEN "none" ELSE Settled(status))
            /\ UNCHANGED <<status, due, attempts>>
  /\ UNCHANGED <<content, dest, document, account, forjd, asked, crashes>>

-----------------------------------------------------------------------------
(* Time, crashes and the operator.                                         *)

BackoffElapses ==
  /\ status = "pending"
  /\ ~due
  /\ due' = TRUE
  /\ UNCHANGED <<status, content, dest, document, attempts, account, forjd, pc, asked,
                 view, answer, crashes>>

Crash(w) ==
  /\ ~At(w, "idle")
  /\ crashes < MaxCrashes
  /\ crashes' = crashes + 1
  /\ Finish(w, "none")
  /\ UNCHANGED <<row, account, forjd, asked>>

(* manage.py requeue_dead_letter_reports.                                  *)
Requeue ==
  /\ status = "dead_letter"
  /\ status' = "pending" /\ attempts' = 0 /\ due' = TRUE
  /\ UNCHANGED <<content, dest, document, account, forjd, pc, asked, view, answer, crashes>>

(* Mutant: the old tenant is dropped from the associations.                *)
RemapForgets(t) ==
  /\ phase = "open"
  /\ t # mapping
  /\ t \notin erased
  /\ mapping' = t
  /\ associated' = (associated \ {mapping}) \cup {t}
  /\ UNCHANGED <<row, active, manifest, behind, phase, forjd, pc, asked, view, answer,
                 crashes>>

(* manage.py map_forjd_tenant; refused while a deletion is in progress.    *)
Remap(t) ==
  /\ phase = "open"
  /\ t # mapping
  /\ mapping' = t
  /\ associated' = associated \cup ({mapping, t} \ {Nothing})
  /\ UNCHANGED <<row, active, manifest, behind, phase, forjd, pc, asked, view, answer,
                 crashes>>

-----------------------------------------------------------------------------
(* The deletion of the account, as far as its reports see it.              *)

(* request_account_deletion; a second one behind the barrier adds to the   *)
(* manifest.                                                               *)
Bar ==
  /\ phase \in {"open", "barred"}
  /\ phase' = "barred"
  /\ manifest' = manifest \cup associated
  /\ active' = FALSE
  /\ UNCHANGED <<row, mapping, associated, behind, forjd, pc, asked, view, answer, crashes>>

(* _persist_mapping for a request that was authenticated before the        *)
(* barrier: the mapping is active again, on a tenant FORJD has minted or   *)
(* has minted a token for.  (Before the barrier it is a case of Remap.)    *)
Provision(t) ==
  /\ phase = "barred"
  /\ t \notin erased
  /\ mapping' = t
  /\ active' = TRUE
  /\ associated' = associated \cup ({mapping, t} \ {Nothing})
  /\ behind' = behind \cup {t}
  /\ UNCHANGED <<row, manifest, phase, forjd, pc, asked, view, answer, crashes>>

(* POST /tenants/{t}/erase: the wipe also revokes the tenant's token.      *)
EraseTenant(t) ==
  /\ phase = "barred"
  /\ t \in manifest \ erased
  /\ stored' = stored \ {t}
  /\ erased' = erased \cup {t}
  /\ UNCHANGED <<row, account, pc, asked, view, answer, crashes>>

(* The final transaction deletes the account's reports and mappings.       *)
CloseAccount ==
  /\ phase = "barred"
  /\ manifest \subseteq erased
  /\ phase' = "gone"
  /\ status' = IF status = "absent" THEN "absent" ELSE "deleted"
  /\ content' = Nothing /\ document' = Nothing
  /\ attempts' = 0 /\ due' = FALSE
  /\ mapping' = Nothing /\ active' = FALSE /\ associated' = {}
  /\ UNCHANGED <<dest, manifest, behind, forjd, pc, asked, view, answer, crashes>>

-----------------------------------------------------------------------------
Deliver(w) ==
  \/ Reread(w)
  \/ AssignDestination(w)
  \/ Post(w)
  \/ PostUnnamed(w)
  \/ PostFails(w)
  \/ PostRefused(w)
  \/ MarkDelivered(w)
  \/ MeetDeadLetter(w)
  \/ RecordFailure(w)

(* Nothing more can happen once the account is gone.                       *)
AllQuiet ==
  /\ phase = "gone"
  /\ \A w \in Workers : At(w, "idle")
  /\ UNCHANGED vars

Next ==
  \/ \E w \in WebThreads, s \in Submissions : Submit(w, s)
  \/ \E w \in Reconcilers : Claim(w)
  \/ \E w \in Workers : Deliver(w) \/ Crash(w)
  \/ BackoffElapses
  \/ Requeue
  \/ \E t \in Tenants : Remap(t) \/ Provision(t) \/ EraseTenant(t)
  \/ Bar
  \/ CloseAccount
  \/ AllQuiet

Spec == Init /\ [][Next]_vars

(* A delivery that has begun goes on, reconcilers keep polling and time    *)
(* passes.  No client, operator or deletion is ever obliged to act.        *)
Fairness ==
  /\ \A w \in Workers : WF_vars(Deliver(w))
  /\ WF_vars(\E w \in Reconcilers : Claim(w))
  /\ WF_vars(BackoffElapses)

FairSpec == Spec /\ Fairness

-----------------------------------------------------------------------------
(* Properties.                                                             *)

(* However often the report is sent, retried, remapped or answered late,   *)
(* FORJD holds at most one document of it, in the tenant the row was       *)
(* assigned to.                                                            *)
OneDocument == stored \subseteq {dest}

(* A DELIVERED row that names a document names the one of its own tenant,  *)
(* and it was stored (an account deletion may have wiped it since).  Only  *)
(* an answer without an id makes a row DELIVERED that names none.          *)
DeliveredIsTrue ==
  status = "delivered" /\ document # Unnamed => document = dest /\ dest \in stored \cup erased

(* A client that is told "recorded" sent exactly the recorded content, and *)
(* the document was stored, unless FORJD has answered without its id.      *)
AnswerIsHonest ==
  \A w \in WebThreads :
    answer[w] = "recorded" /\ status # "deleted"
      => asked[w] = content /\ (document = Unnamed \/ dest \in stored \cup erased)

(* A PENDING row always has an attempt left.                               *)
PendingHasAttemptsLeft == status = "pending" => attempts < MaxAttempts

(* Once the account is deleted no document of the report is left, wherever *)
(* the account was mapped when it was sent and however late the delivery.  *)
(* The exception is a tenant that was provisioned behind the barrier and   *)
(* that no deletion request has named since.                               *)
NoReportSurvivesDeletion == phase = "gone" => stored \subseteq behind \ manifest

(* DELIVERED is final for the row: late failures, requeues and repeated    *)
(* submissions leave it and its document alone; only an answer without an  *)
(* id leaves the document's name open or unsets it.                        *)
(* Only the operator revives a dead letter; a success in flight may still  *)
(* overtake it.                                                            *)
SettledIsFinal ==
  [][/\ status = "delivered" =>
          \/ /\ status' = "delivered" /\ dest' = dest
             /\ document' = document \/ Unnamed \in {document, document'}
          \/ status' = "deleted"
     /\ status = "dead_letter" /\ status' # status
          => Requeue \/ status' \in {"delivered", "deleted"}]_vars

(* A pending report does not wait for ever: it is delivered or becomes a   *)
(* dead letter even if FORJD keeps failing, or goes with its account.      *)
PendingSettles == status = "pending" ~> status # "pending"
=============================================================================
