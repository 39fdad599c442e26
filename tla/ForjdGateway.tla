------------------------------ MODULE ForjdGateway ------------------------------
(***************************************************************************)
(* The gateway of backend/forjd: the HTTP adapters through which product   *)
(* users, visitors and embedded widgets reach FORJD.  An adapter checks    *)
(* who asks (policy.py), leaves an audit row before and after what is      *)
(* privileged, finds the FORJD credential of the asker's account           *)
(* (tenancy.py, provision.py), makes its calls, and turns what comes back  *)
(* into an answer, which the cutover modes (cutover.py) may soften.        *)
(*                                                                         *)
(* An adapter is written down as what the code does, in its order: a       *)
(* sequence of steps, each of which is an action below.  A step goes on to *)
(* the next or concludes the request with an answer.  Coroutines switch    *)
(* between steps, and the client may leave between any two, which cancels  *)
(* the coroutine.  Each call is one of ForjdCall, which ForjdClient        *)
(* implements.  The tenant of an account is named like the account.        *)
(***************************************************************************)
EXTENDS Naturals, Sequences, SequencesExt

CONSTANTS
  Requests,     \* requests served at one time
  Accounts,     \* product accounts, and the FORJD tenant of each
  Platform,     \* the platform's tenant, FORJD_TENANT_ID
  Visitor,      \* who asks without a credential
  Nobody,       \* no credential, no tenant
  Pages,        \* status pages
  NoPage,       \* the request names none
  Owner,        \* the tenant of each page
  Published,    \* pages in the public directory
  Deployments   \* the modes [write, read] the service may be run with

ASSUME NamesAssumption ==
  /\ Platform \notin Accounts /\ Visitor \notin Accounts /\ Nobody \notin Accounts
  /\ Platform # Visitor /\ Platform # Nobody /\ Visitor # Nobody
  /\ NoPage \notin Pages
ASSUME OwnerAssumption == Owner \in [Pages -> Accounts \cup {Platform}]
ASSUME PublishedAssumption == Published \subseteq Pages
ASSUME DeploymentsAssumption ==
  Deployments \subseteq [write : {"off", "forjd", "dual"}, read : {"off", "forjd", "dual"}]

VARIABLES
  mode,      \* write_mode(), read_mode()
  mapping,   \* ForjdTenantMapping of each account: "none", "own" or "platform"
  req,       \* the request each coroutine serves
  rows,      \* the AuditLog rows it has written
  receipt,   \* the ForjdShadowReceipt it has written
  call       \* its last call of FORJD

Call == INSTANCE ForjdCall WITH Callers <- Requests

vars == <<mode, mapping, req, rows, receipt, call>>

(* platform-status, the one slug no product account may touch.             *)
Reserved == {p \in Pages : Owner[p] = Platform}

-----------------------------------------------------------------------------
(* Policy.                                                                 *)

Roles == {"Viewer", "Operator", "Security Admin"}

(* ACTION_POLICIES, by what they ask: a role, and for some a Pro account.  *)
(* An action the matrix does not know asks for an administrator.           *)
Policy(action) ==
  [roles |-> CASE action = "read" -> Roles
               [] action \in {"operate", "operatePro"} -> Roles \ {"Viewer"}
               [] OTHER -> {"Security Admin"},
   pro |-> action \in {"operatePro", "administerPro"}]

Privileged(action) == action # "read"

(* What a request to a retired facade may come to.                         *)
NativeActions == {"operate", "operatePro", "administer", "administerPro"}

WritesEnabled == mode.write # "off"
ShadowWrites == mode.write = "dual"
ReadsFromForjd == mode.read \in {"forjd", "dual"}
EmptyReadFallback == mode.read \in {"off", "dual"}

-----------------------------------------------------------------------------
(* The adapters.                                                           *)

(* fallback: the path may answer with an empty envelope.  sealed: a shadow *)
(* receipt follows the call.  reshapes: FORJD's answer is read and put in  *)
(* the shape Angular knows.  escapes: Django's own body limit is met in a  *)
(* place where the adapter does not catch what it raises.                  *)
Adapter(action, steps) ==
  [action |-> action, steps |-> steps,
   fallback |-> FALSE, sealed |-> FALSE, reshapes |-> FALSE, escapes |-> FALSE]

Reshaped(adapter) == [adapter EXCEPT !.reshapes = TRUE]

(* require_forjd_action: authorize, and put the rows around what is        *)
(* privileged; the row of the result is written when the view concludes.   *)
Decorated(action, steps) ==
  Adapter(action, (IF Privileged(action) THEN <<"authorize", "attempt">>
                                         ELSE <<"authorize">>) \o steps)

(* native_forjd_proxy does the same for itself.                            *)
NativeProxy(action, method, binding, fallback) ==
  [Decorated(action,
     (CASE method # "GET" -> <<"writes">>
        [] method = "GET" /\ fallback -> <<"skip">>
        [] OTHER -> <<>>)
     \o <<"credential", "bind", IF method = "GET" THEN "read" ELSE "write">>)
   EXCEPT !.fallback = fallback, !.sealed = binding = "sealed",
          !.escapes = binding \in {"query", "body"}]

PublicProxy == Adapter("public", <<"read">>)

(* The routes of config/urls.py that lead to native_forjd_proxy.  Only the *)
(* bindings sealed and sealed_batch leave receipts, not sealed_method.     *)
NativeRoutes ==
  {NativeProxy("operate", "POST", "sealed", FALSE),         \* ingest, events:batch
   NativeProxy("read", "GET", "query", TRUE),               \* events, results, sessions
   NativeProxy("operate", "POST", "sealed_method", FALSE),  \* events
   NativeProxy("operate", "POST", "body", FALSE),           \* sessions
   PublicProxy}                                             \* health, ready

IngestProcessingStatus == NativeProxy("read", "GET", "query", FALSE)
SessionRevoke == NativeProxy("administer", "DELETE", "query", FALSE)

(* native_status_page_proxy: the slug in one spelling or more, then the    *)
(* directory, then the slug found there.                                   *)
PublicPage == {Adapter("public", s \o <<"slug", "heal", "slugAgain">>) :
                 s \in {<<>>, <<"slug">>}}

Capabilities == Adapter("public", <<"capabilities", "ready">>)

(* status_pages_list_proxy.  A visitor reads the public directory, an      *)
(* account its own pages.                                                  *)
StatusPagesList(who) ==
  {Reshaped(Adapter("read", IF who = Visitor
              THEN <<"directory">>
              ELSE <<"reads", "authorize", "credential", "read">>)),
   Reshaped(Decorated("operate", <<"writes", "credential", "payload", "write">>))}

(* status_page_detail_proxy: the page is looked up before it is deleted or *)
(* changed.                                                                *)
StatusPageDetail ==
  {Decorated("operate", <<"writes", "credential", "owned", "write">>),
   Reshaped(Decorated("operate", <<"writes", "credential", "owned", "payload", "write">>))}

(* status_page_services_proxy; the page's incidents work alike.            *)
StatusPageServices(who) ==
  {Reshaped(Adapter("read", IF who = Visitor
              THEN <<"reads", "published">>
              ELSE <<"reads", "authorize", "credential", "owned", "read">>)),
   Reshaped(Decorated("operate", <<"writes", "credential", "owned", "payload", "write">>))}

StatusPageIncidents(who) == StatusPageServices(who)

(* A service or an incident is deleted by its own id; no page is looked up. *)
StatusServiceDelete == Decorated("operate", <<"writes", "credential", "write">>)
StatusIncidentDelete == StatusServiceDelete

ForjdTenant == Decorated("read", <<"credential", "tell">>)

(* unsupported_forjd_proxy                                                 *)
Unsupported ==
  {Decorated("read", <<"retired">>)}
    \cup {Decorated(a, <<"writes", "retired">>) : a \in NativeActions}

(* The headless API finds the credential before it writes its first row.   *)
ApiIngest ==
  [Adapter("operate", <<"authorize", "credential", "attempt", "writes", "bind", "write">>)
   EXCEPT !.sealed = TRUE]
ApiIngestBatch == ApiIngest
ApiHealth == Adapter("public", <<"read">>)

(* widget_telemetry_proxy, send_widget_telemetry, seal_and_ingest          *)
WidgetTelemetry ==
  Adapter("public", <<"writes", "payload", "resolve", "resolve",
                      "widgetCredential", "session", "seal">>)

(* send_heartbeat_batch with a count of two                                *)
Heartbeat == Adapter("public", <<"beat", "beatSeal", "beat", "beatSeal">>)

PageAdapters(who) ==
  StatusPageDetail \cup StatusPageServices(who) \cup StatusPageIncidents(who)

OtherAdapters(who) ==
  NativeRoutes \cup PublicPage \cup StatusPagesList(who) \cup Unsupported
    \cup {IngestProcessingStatus, SessionRevoke, Capabilities, StatusServiceDelete,
          StatusIncidentDelete, ForjdTenant, ApiIngest, ApiIngestBatch, ApiHealth}

-----------------------------------------------------------------------------
(* A request.                                                              *)

CallSteps ==
  {"read", "write", "owned", "published", "directory", "slug", "heal", "slugAgain",
   "capabilities", "ready", "resolve", "session", "seal", "beat", "beatSeal"}
WriteSteps == {"write", "session", "seal", "beat", "beatSeal"}

(* Answers, by what they tell the asker: below 400 are data, done (FORJD   *)
(* has done it), local (from DEML's tables), empty (the degraded envelope),*)
(* listed (an empty list: the page carries its own), soft (the widget's    *)
(* 202) and counted; the others are errors.  gone: the client left.        *)
Good == {"data", "done", "local", "empty", "listed", "soft", "counted"}
Errors == {"denied", "bad", "rejected", "missing", "notFound", "degraded", "off",
           "unsupported", "escaped"}

Blank ==
  [who |-> Nobody, page |-> NoPage, adapter |-> Adapter("public", <<>>),
   tenant |-> Nobody, word |-> "none", answer |-> "gone"]

Step(r) == req[r].adapter.steps
Settled(r) == Step(r) = <<>>
At(r, step) == ~Settled(r) /\ Head(Step(r)) = step

Go(r) == req' = [req EXCEPT ![r].adapter.steps = Tail(@)]

Attempted(r) == Contains(rows[r], "attempted")

(* Mutant: what fails leaves no row.                                       *)
ConcludeAfterSilent(r, answer, steps) ==
  req' = [req EXCEPT ![r].answer = answer,
            ![r].adapter.steps =
               steps \o (IF Attempted(r) /\ answer \in Good THEN <<"result">> ELSE <<>>)]

(* The view returns or raises; the row of the result is still to come.     *)
ConcludeAfter(r, answer, steps) ==
  req' = [req EXCEPT ![r].answer = answer,
            ![r].adapter.steps = steps \o (IF Attempted(r) THEN <<"result">> ELSE <<>>)]

Conclude(r, answer) == ConcludeAfter(r, answer, <<>>)

Log(r, row) == rows' = [rows EXCEPT ![r] = Append(@, row)]

Local == UNCHANGED <<mode, mapping, rows, receipt, call>>

Serve(r, who, page, adapter, tenant) ==
  /\ Settled(r)
  /\ req' = [req EXCEPT ![r] =
       [who |-> who, page |-> page, adapter |-> adapter,
        tenant |-> tenant, word |-> "none", answer |-> "none"]]
  /\ rows' = [rows EXCEPT ![r] = <<>>]
  /\ receipt' = [receipt EXCEPT ![r] = "none"]
  /\ call' = [call EXCEPT ![r] = Call!Idle]
  /\ UNCHANGED <<mode, mapping>>

(* A request passes the middleware: its credential, if it has one, is good. *)
Arrive(r) ==
  \E who \in Accounts \cup {Visitor} :
    \/ \E adapter \in OtherAdapters(who) : Serve(r, who, NoPage, adapter, Nobody)
    \/ \E adapter \in PageAdapters(who), page \in Pages :
         Serve(r, who, page, adapter, Nobody)
    \/ \E page \in Pages : Serve(r, who, page, WidgetTelemetry, Nobody)

(* The worker's heartbeat has the platform's credential.                   *)
Beat(r) == Serve(r, Platform, NoPage, Heartbeat, Platform)

(* 401 without a credential, 403 without an account, 403 and a row of it   *)
(* for who lacks the role or the subscription.                             *)
Authorize(r) ==
  /\ At(r, "authorize")
  /\ LET policy == Policy(req[r].adapter.action) IN
       \/ Conclude(r, "denied") /\ Local
       \/ /\ req[r].who # Visitor
          /\ \E role \in Roles, pro \in BOOLEAN :
               IF role \in policy.roles /\ (policy.pro => pro)
                 THEN Go(r) /\ Local
                 ELSE /\ Conclude(r, "denied")
                      /\ Log(r, "denied")
                      /\ UNCHANGED <<mode, mapping, receipt, call>>

Attempt(r) ==
  /\ At(r, "attempt")
  /\ Go(r)
  /\ Log(r, "attempted")
  /\ UNCHANGED <<mode, mapping, receipt, call>>

(* Gates: writes switched off; reads switched off for a path that has an   *)
(* envelope; reads switched off for a page that must not come out empty.   *)
Gate(r) ==
  /\ \/ At(r, "writes") /\ IF WritesEnabled THEN Go(r) ELSE Conclude(r, "off")
     \/ At(r, "skip") /\ IF ReadsFromForjd THEN Go(r) ELSE Conclude(r, "empty")
     \/ At(r, "reads") /\ IF ReadsFromForjd THEN Go(r) ELSE Conclude(r, "off")
  /\ Local

(* Mutant: the platform's mapping will do.                                 *)
ResolvesAny(a) == mapping[a] # "none"

(* resolve_forjd_tenant_credential: an active mapping that is not the      *)
(* platform's.                                                             *)
Resolves(a) == mapping[a] = "own"

TenantOf(a) == IF mapping[a] = "own" THEN a ELSE Platform

Bound(r, tenant) ==
  req' = [req EXCEPT ![r].tenant = tenant, ![r].adapter.steps = Tail(@)]

(* ensure_forjd_tenant_credential: a tenant provisioned now replaces the   *)
(* row.                                                                    *)
Provisions(r, a) == Bound(r, a) /\ mapping' = [mapping EXCEPT ![a] = "own"]

(* The mapped tenant and its secret; failing that, a tenant provisioned    *)
(* now; failing that, 503.                                                 *)
Credential(r) ==
  /\ At(r, "credential")
  /\ UNCHANGED <<mode, rows, receipt, call>>
  /\ LET a == req[r].who IN
       \/ Resolves(a) /\ Bound(r, TenantOf(a)) /\ UNCHANGED mapping
       \/ Provisions(r, a)
       \/ Conclude(r, "degraded") /\ UNCHANGED mapping

(* _credential_for_tenant: whoever owns the page the widget is on.         *)
WidgetCredential(r) ==
  /\ At(r, "widgetCredential")
  /\ Local
  /\ LET tenant == Owner[req[r].page] IN
       \/ Conclude(r, "soft")
       \/ tenant \in Accounts /\ Resolves(tenant) /\ Bound(r, tenant)
       \/ /\ tenant = Platform
          /\ \A a \in Accounts : mapping[a] # "platform"
          /\ Bound(r, Platform)

(* The body and the query name the asker's tenant or none, and have the    *)
(* shape they must have.                                                   *)
Bind(r) ==
  /\ At(r, "bind")
  /\ \/ Go(r)
     \/ Conclude(r, "bad")
     \/ /\ req[r].adapter.escapes
        /\ req' = [req EXCEPT ![r].answer = "escaped", ![r].adapter.steps = <<>>]
  /\ Local

(* Fields of a page, a service or an incident; the reserved slug is        *)
(* refused.                                                                *)
Payload(r) ==
  /\ At(r, "payload")
  /\ \/ Go(r)
     \/ \E answer \in {"bad", "denied"} : Conclude(r, answer)
  /\ Local

Tell(r) == At(r, "tell") /\ Conclude(r, "local") /\ Local

Retired(r) == At(r, "retired") /\ Conclude(r, "unsupported") /\ Local

-----------------------------------------------------------------------------
(* Calls of FORJD.                                                         *)

InCall(r) == call[r].phase = "open"

Issue(r) ==
  /\ \E step \in CallSteps : At(r, step) /\ Call!Begin(r, step \in WriteSteps)
  /\ req' = [req EXCEPT ![r].word = "none"]
  /\ UNCHANGED <<mode, mapping, rows, receipt>>

(* FORJD takes the request.  It does it or shows the page (yes), shows     *)
(* others (no), or answers with an error; of page lists it shows only what *)
(* is the caller's.                                                        *)
ForjdTakes(r) ==
  /\ Call!Reach(r)
  /\ \E word \in {"yes", "no", "error"} :
       /\ word = "yes" /\ At(r, "owned") => Owner[req[r].page] = req[r].tenant
       /\ word = "no" =>
            \E step \in {"owned", "published", "heal", "resolve"} : At(r, step)
       /\ req' = [req EXCEPT ![r].word = word]
  /\ UNCHANGED <<mode, mapping, rows, receipt>>

(* The call of this step ends like that.                                   *)
Ends(r, step, how) ==
  /\ At(r, step)
  /\ Call!End(r, how)
  /\ how = "ok" => req[r].word \in {"yes", "no"}
  /\ how = "rejected" => req[r].word = "error"
  /\ UNCHANGED <<mode, mapping, rows, receipt>>

Ways == {"ok", "rejected", "failed", "blocked", "refused"}
Failures == Ways \ {"ok"}

(* Mutant: a failed call is a rejected one.                                *)
ErrorOfFailure(how) == IF how = "blocked" THEN "degraded" ELSE "rejected"

(* _forjd_error_response, _upstream_error_response, _adapter_error_response *)
ErrorOf(how) == IF how \in {"failed", "blocked"} THEN "degraded" ELSE "rejected"

(* Only a declared path in a mode that allows it softens an outage.        *)
ReadAnswer(r, how) ==
  IF /\ ErrorOf(how) = "degraded"
     /\ req[r].adapter.fallback /\ EmptyReadFallback
  THEN "empty" ELSE ErrorOf(how)

(* An answer that cannot be read as what was asked for is an outage.       *)
ReadReturns(r) ==
  \E how \in Ways :
    /\ Ends(r, "read", how)
    /\ \/ how = "ok" /\ Conclude(r, "data")
       \/ how = "ok" /\ req[r].adapter.reshapes /\ Conclude(r, "degraded")
       \/ how # "ok" /\ Conclude(r, ReadAnswer(r, how))

(* _maybe_shadow_sealed: a receipt follows, of an answer or of an error.   *)
Shadowed(r) == IF req[r].adapter.sealed /\ ShadowWrites THEN <<"shadow">> ELSE <<>>

(* FORJD may have done what the asker is told has failed.                  *)
WriteReturns(r) ==
  \E how \in Ways :
    /\ Ends(r, "write", how)
    /\ \/ how = "ok" /\ ConcludeAfter(r, "done", Shadowed(r))
       \/ how = "ok" /\ req[r].adapter.reshapes /\ Conclude(r, "degraded")
       \/ how # "ok" /\ ConcludeAfter(r, ErrorOf(how), Shadowed(r))

(* _require_owned_status_page                                              *)
OwnedReturns(r) ==
  \E how \in Ways :
    /\ Ends(r, "owned", how)
    /\ IF how # "ok" THEN Conclude(r, ErrorOf(how))
       ELSE \/ Conclude(r, "degraded")
            \/ req[r].word = "no" /\ Conclude(r, "missing")
            \/ /\ req[r].word = "yes"
               /\ IF req[r].page \in Reserved THEN Conclude(r, "denied") ELSE Go(r)

(* _published_directory_pages                                              *)
InDirectory(page) == page \in Published \cup Reserved

(* The public directory, for a visitor: as it is, or for the one page the  *)
(* visitor asks about, which has nothing more to show than the directory.  *)
DirectoryReturns(r) ==
  \E how \in Ways :
    \/ /\ Ends(r, "directory", how)
       /\ IF how = "ok" THEN \E answer \in {"data", "degraded"} : Conclude(r, answer)
                        ELSE Conclude(r, ErrorOf(how))
    \/ /\ Ends(r, "published", how)
       /\ IF how # "ok" THEN Conclude(r, ErrorOf(how))
          ELSE \/ Conclude(r, "degraded")
               \/ Conclude(r, IF req[r].word = "yes" /\ InDirectory(req[r].page)
                                THEN "listed" ELSE "missing")

(* The spellings one after the other.  Whether the directory is asked, and *)
(* what is said at last, depends on the last of them only.                 *)
SlugReturns(r) ==
  \E how \in Ways :
    \/ /\ Ends(r, "slug", how)
       /\ IF how = "ok" THEN \E answer \in {"data", "degraded"} : Conclude(r, answer)
          ELSE \/ Tail(Step(r))[1] = "slug" /\ Go(r)
               \/ Tail(Step(r))[1] = "heal" /\ how = "rejected" /\ Go(r)
               \/ Tail(Step(r))[1] = "heal" /\ Conclude(r, ErrorOf(how))
    \/ /\ Ends(r, "heal", how)
       /\ IF how # "ok" THEN Conclude(r, "degraded")
          ELSE IF req[r].word = "yes" THEN Go(r) ELSE Conclude(r, "notFound")
    \/ /\ Ends(r, "slugAgain", how)
       /\ IF how = "ok" THEN \E answer \in {"data", "degraded", "notFound"} : Conclude(r, answer)
                        ELSE Conclude(r, "notFound")

(* The two probes run at once; which one fails first does not matter.      *)
CapabilitiesReturn(r) ==
  \E how \in Ways :
    \/ /\ Ends(r, "capabilities", how)
       /\ \/ how = "ok" /\ Go(r)
          \/ Conclude(r, IF how = "ok" THEN "degraded" ELSE ErrorOf(how))
    \/ /\ Ends(r, "ready", how)
       /\ \/ how = "ok" /\ Conclude(r, "data")
          \/ Conclude(r, "degraded")

(* Whose page the widget is on: the platform's client is asked first, then *)
(* the public one.  The visitor learns nothing from the answer.            *)
ResolveReturns(r) ==
  \E how \in Ways :
    /\ Ends(r, "resolve", how)
    /\ IF how = "ok" /\ req[r].word = "yes"
       THEN IF InDirectory(req[r].page)
              THEN req' = [req EXCEPT ![r].adapter.steps =
                             IF Tail(@)[1] = "resolve" THEN Tail(Tail(@)) ELSE Tail(@)]
              ELSE Conclude(r, "soft")
       ELSE IF Tail(Step(r))[1] = "resolve" THEN Go(r) ELSE Conclude(r, "soft")

(* seal_and_ingest: a crypto session, then the event.                      *)
SealReturns(r) ==
  \E how \in Ways :
    \/ /\ Ends(r, "session", how)
       /\ IF how = "ok" THEN Go(r) ELSE Conclude(r, "degraded")
    \/ /\ Ends(r, "seal", how)
       /\ Conclude(r, IF how = "ok" THEN "done" ELSE "degraded")

(* The heartbeat counts what fails and goes on.                            *)
BeatReturns(r) ==
  \E how \in Ways, step \in {"beat", "beatSeal"} :
    /\ Ends(r, step, how)
    /\ LET rest == IF step = "beat" /\ how # "ok" THEN Tail(Tail(Step(r)))
                                                  ELSE Tail(Step(r)) IN
         req' = [req EXCEPT ![r].adapter.steps = rest,
                   ![r].answer = IF rest = <<>> THEN "counted" ELSE @]

(* record_shadow_receipt swallows whatever keeps it from writing.          *)
Shadow(r) ==
  /\ At(r, "shadow")
  /\ Go(r)
  /\ receipt' \in {receipt,
       [receipt EXCEPT ![r] = IF call[r].phase = "ok" THEN "accepted" ELSE "failed"]}
  /\ UNCHANGED <<mode, mapping, rows, call>>

Result(r) ==
  /\ At(r, "result")
  /\ Go(r)
  /\ Log(r, IF req[r].answer \in Good THEN "succeeded" ELSE "failed")
  /\ UNCHANGED <<mode, mapping, receipt, call>>

(* The client hangs up: the coroutine is cancelled where it waits, and the *)
(* decorator's "except Exception" does not see it.                         *)
ClientLeaves(r) ==
  /\ ~Settled(r)
  /\ req' = [req EXCEPT ![r].answer = "gone", ![r].adapter.steps = <<>>]
  /\ IF InCall(r) THEN Call!End(r, "dropped") ELSE UNCHANGED call
  /\ UNCHANGED <<mode, mapping, rows, receipt>>

(* Others: the deletion saga deactivates a mapping, another request or an  *)
(* operator makes one.                                                     *)
Remap(a) ==
  /\ \E m \in {"none", "own"} \ {mapping[a]} : mapping' = [mapping EXCEPT ![a] = m]
  /\ UNCHANGED <<mode, req, rows, receipt, call>>

-----------------------------------------------------------------------------
Init ==
  /\ mode \in Deployments
  /\ mapping \in [Accounts -> {"none", "own", "platform"}]
  /\ req = [r \in Requests |-> Blank]
  /\ rows = [r \in Requests |-> <<>>]
  /\ receipt = [r \in Requests |-> "none"]
  /\ Call!CallInit

Works(r) ==
  \/ Authorize(r) \/ Attempt(r) \/ Gate(r) \/ Credential(r) \/ WidgetCredential(r)
  \/ Bind(r) \/ Payload(r) \/ Tell(r) \/ Retired(r) \/ Issue(r)
  \/ ReadReturns(r) \/ WriteReturns(r) \/ OwnedReturns(r) \/ DirectoryReturns(r)
  \/ SlugReturns(r) \/ CapabilitiesReturn(r) \/ ResolveReturns(r) \/ SealReturns(r)
  \/ BeatReturns(r) \/ Shadow(r) \/ Result(r)

Next ==
  \/ \E r \in Requests :
       Arrive(r) \/ Beat(r) \/ Works(r) \/ ForjdTakes(r) \/ ClientLeaves(r)
  \/ \E a \in Accounts : Remap(a)

Spec == Init /\ [][Next]_vars /\ \A r \in Requests : WF_vars(Works(r))

-----------------------------------------------------------------------------
(* Properties.                                                             *)

(* The audit trail of a request tells its story.  No write that takes a    *)
(* role reaches FORJD before the row of the attempt; a row of success      *)
(* means that FORJD has done it and said so, and so does a shadow receipt; *)
(* who was denied has called nobody; a request that was answered has one   *)
(* row of its result, except where an exception of Django's escapes from   *)
(* native_forjd_proxy.                                                     *)
AuditTrail ==
  \A r \in Requests :
    LET Has(row) == Contains(rows[r], row)
        Written == call[r].write /\ call[r].seen = 1
        Confirmed == Written /\ call[r].phase = "ok" /\ req[r].word = "yes"
        Results == {i \in DOMAIN rows[r] : rows[r][i] \in {"succeeded", "failed"}}
    IN /\ Written /\ req[r].adapter.action # "public" => Has("attempted")
       /\ Has("succeeded") \/ receipt[r] = "accepted" => Confirmed
       /\ Has("denied") => call[r].phase = "idle"
       /\ Settled(r) /\ Has("attempted") /\ req[r].answer \notin {"gone", "escaped"} =>
            \E i \in DOMAIN rows[r] : Results = {i}

(* A call carries the credential of the account that asks, or none; only   *)
(* the widget and the heartbeat use another, the tenant's whose public     *)
(* page the widget is on and the platform's.  A page is read or changed    *)
(* for an account only if it is the account's and not the platform's.      *)
OwnTenantOnly ==
  \A r \in Requests : InCall(r) =>
    LET Sealing == At(r, "session") \/ At(r, "seal") IN
    /\ req[r].who \in Accounts /\ ~Sealing => req[r].tenant \in {req[r].who, Nobody}
    /\ Sealing => /\ req[r].page \in Published \cup Reserved
                  /\ req[r].tenant = Owner[req[r].page]
    /\ (At(r, "read") \/ At(r, "write")) /\ req[r].page # NoPage =>
         Owner[req[r].page] = req[r].who /\ req[r].page \notin Reserved

(* An answer says no more than FORJD did.  Data, success and the absence   *)
(* of a page come from an answer of FORJD; nothing empty stands in for an  *)
(* outage but the degraded envelope, on its paths and in its modes; and    *)
(* who is told anything but success or an outage may count on it that      *)
(* FORJD has not done what was asked.                                      *)
HonestAnswer ==
  \A r \in Requests : Settled(r) =>
    LET answer == req[r].answer IN
    /\ answer \in {"data", "done", "listed", "missing"} => call[r].phase = "ok"
    /\ answer = "empty" =>
         req[r].adapter.fallback /\ mode.read # "forjd" /\ call[r].phase # "ok"
    /\ call[r].write /\ req[r].word = "yes" =>
         answer \in {"done", "degraded", "counted", "gone"}
=============================================================================
