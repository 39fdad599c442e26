------------------------------ MODULE BrowserReads ------------------------------
(***************************************************************************)
(* The sites of an account as the Settings page of the Angular app shows   *)
(* them: loadSites, saveSite and deleteSite of Settings over               *)
(* MonitorService and the stale-while-revalidate cache of                  *)
(* src/app/core/cache, in one tab.                                         *)
(*                                                                         *)
(* A read is joined by every load that comes while it is under way, fills  *)
(* the cache when it is answered, and may be answered after a write it     *)
(* knows nothing of.  Microtasks run before any other event, so what       *)
(* follows an answer in the loads and saves that wait for it is one step   *)
(* with it.                                                                *)
(*                                                                         *)
(* One account, whose other devices do not write, and one write at a time, *)
(* as the page has it.  A list gives each site its version, 0 for a site   *)
(* that is not there; the platform's page, which is filtered out, is none  *)
(* of Sites.  Messages, the callout for a stale list and the button's own  *)
(* spinner (sitesRetrying) are left out.                                   *)
(***************************************************************************)
EXTENDS Naturals

CONSTANTS
  Sites,
  Reads,       \* BOUND: reads under way at once
  Versions,    \* BOUND: versions of a site
  Writes       \* BOUND: writes sent

ASSUME VersionsAssumption == Versions \in Nat \ {0}

VARIABLES
  \* The account.
  server,      \* its list
  born,        \* ids given out; none is given out twice
  authed,      \* isAuthenticated()
  \* MemorySwrCache, under the key of the owned sites.
  entry,
  inflight,    \* the read in the map
  reads,       \* those that have not ended
  \* Settings.
  sites, loading, failed, busy,   \* sites, sitesLoading, sitesLoadFailed, siteBusy
  latest,      \* the load of sitesLoadGeneration, while it waits
  superseded,  \* earlier loads that saveSite or deleteSite wait for
  write,       \* the request of saveSite or deleteSite
  sent,        \* requests so far
  \* HISTORY.
  answered,    \* writes answered
  told,        \* this page has been given a list, or has saved a site
  saved        \* what the last write answered to this page, signed in, has done

account == <<server, born, authed>>
cache == <<entry, inflight, reads>>
waits == <<latest, superseded>>
page == <<sites, loading, failed, busy, waits>>
writes == <<write, sent>>
vars == <<account, cache, page, writes, answered, told, saved>>

None == [none |-> TRUE]
Empty == [s \in Sites |-> 0]

(* A list that is on the page or in the cache; crossed, HISTORY: it has    *)
(* been asked for before a write was answered, and has come after it.      *)
Nothing == [list |-> Empty, crossed |-> FALSE]

(* asked, HISTORY, is what "answered" was when a read was sent.            *)
Sent == [list |-> Empty, found |-> FALSE, asked |-> answered']

Arrived(late) == [list |-> late.list, crossed |-> late.asked < answered]

(* invalidateStatusReads: the entry, and not the read under way.           *)
(* Mutant: a write leaves the entry where it is.                           *)
InvalidatedNot == entry
Invalidated == None

-----------------------------------------------------------------------------
(* Loads.                                                                  *)

(* filterOwnedStatusPages(peekOwnedStatusPages()): its age does not count. *)
Peek(cached) == IF cached = None THEN Nothing ELSE cached.held

Paints(cached) == authed' /\ Peek(cached).list # Empty

(* What saveSite and deleteSite do after their load: a save remembers the  *)
(* list it has merged, a deletion ends with its load.                      *)
Done == [done |-> TRUE]
Superseded ==
  superseded \cup {l \in {latest} : l # None /\ l.next # None}

(* loadSites up to its wait, and observe below it, on a page that shows    *)
(* "shown" and over the cache entry "cached".  A read under way is joined. *)
Load(shown, cached, before, next) ==
  /\ entry' = cached
  /\ sites' = IF Paints(cached) THEN cached.held ELSE shown
  /\ loading' = (authed' /\ ~Paints(cached))
  /\ failed' = (~authed' /\ failed /\ next \in {None, Done})
  /\ IF ~authed'
     THEN UNCHANGED <<inflight, reads, waits>>
     ELSE /\ \E r \in Reads :
               /\ IF inflight # None
                  THEN r = inflight /\ UNCHANGED <<inflight, reads>>
                  ELSE /\ reads[r] = None
                       /\ inflight' = r /\ reads' = [reads EXCEPT ![r] = Sent]
               /\ latest' = [read |-> r, next |-> next,
                             stale |-> IF cached # None /\ ~cached.aged
                                       THEN cached.held ELSE None]
          /\ superseded' = before

(* The finally of loadSites: the latest load alone ends the wait.          *)
(* Mutant: every load does.                                                *)
StillLoadingNot(joined) == FALSE
StillLoading(joined) == loading /\ ~joined

(* Read r has ended, with a list or with None; warm is the cache by then.  *)
(* The latest load goes on first, then the saves and deletions whose loads *)
(* have joined the read.                                                   *)
Settle(r, outcome, warm) ==
  LET joined == latest # None /\ latest.read = r
      ended == {l \in superseded \cup {latest} : l # None /\ l.read = r}
      given == IF outcome # None THEN outcome ELSE latest.stale
      keep == IF Peek(warm).list # Empty THEN warm.held ELSE sites
      lost == IF joined THEN given = None /\ keep.list = Empty ELSE failed
      merged == {Arrived(l.next) : l \in {k \in ended : k.next \notin {None, Done}}}
  IN /\ latest' = IF joined THEN None ELSE latest
     /\ superseded' = superseded \ ended
     /\ loading' = StillLoading(joined)
     /\ failed' = (lost /\ merged = {})
     /\ busy' = (busy /\ \A l \in ended : l.next # Done)
     /\ told' = (told \/ (joined /\ ~lost))
     /\ IF lost /\ merged # {}
        THEN sites' \in merged
        ELSE sites' = IF ~joined THEN sites
                      ELSE IF given # None THEN given ELSE keep

(* Settings is opened again: a new component over the old cache.  A        *)
(* request of the old one goes on without a page.                          *)
Reopen ==
  /\ UNCHANGED <<account, sent, answered, saved>>
  /\ IF authed
     THEN Load(Nothing, entry, {}, None)
     ELSE /\ sites' = Nothing /\ loading' = TRUE /\ failed' = FALSE
          /\ latest' = None /\ superseded' = {}
          /\ UNCHANGED cache
  /\ busy' = FALSE /\ told' = Paints(entry)
  /\ write' = IF write = None THEN None ELSE [write EXCEPT !.mine = FALSE]

Retry ==
  /\ failed
  /\ UNCHANGED <<account, answered, saved, writes, busy>>
  /\ Load(sites, entry, Superseded, None)
  /\ told' = (told \/ Paints(entry))

(* The effect on reconnectGeneration.                                      *)
Reconnect ==
  /\ authed
  /\ UNCHANGED <<account, answered, saved, writes, busy, told>>
  /\ Load(sites, Invalidated, Superseded, None)

-----------------------------------------------------------------------------
(* Reads.                                                                  *)

Serve(r) ==
  /\ reads[r] # None /\ ~reads[r].found
  /\ reads' = [reads EXCEPT ![r] = [@ EXCEPT !.found = TRUE, !.list = server]]
  /\ UNCHANGED <<account, entry, inflight, page, writes, answered, told, saved>>

Answer(r) ==
  /\ reads[r] # None /\ reads[r].found
  /\ entry' = [held |-> Arrived(reads[r]), aged |-> FALSE]
  /\ Settle(r, Arrived(reads[r]), entry')
  /\ inflight' = None /\ reads' = [reads EXCEPT ![r] = None]
  /\ UNCHANGED <<account, writes, answered, saved>>

(* A read fails or times out.  Its loads get the list that the cache had   *)
(* when they came, or the error.                                           *)
ReadFails(r) ==
  /\ reads[r] # None
  /\ Settle(r, None, entry)
  /\ inflight' = None /\ reads' = [reads EXCEPT ![r] = None]
  /\ UNCHANGED <<account, entry, writes, answered, saved>>

(* Five minutes have passed.                                               *)
Ages ==
  /\ entry # None /\ ~entry.aged
  /\ entry' = [entry EXCEPT !.aged = TRUE]
  /\ UNCHANGED <<account, inflight, reads, page, writes, answered, told, saved>>

-----------------------------------------------------------------------------
(* Writes.                                                                 *)

Start(s, value) ==
  /\ authed /\ write = None /\ ~busy /\ sent < Writes /\ sent' = sent + 1
  /\ write' = [site |-> s, value |-> value, prior |-> sites, mine |-> TRUE,
               create |-> sites.list[s] = 0, applied |-> FALSE]
  /\ busy' = TRUE
  /\ saved' = IF saved # None /\ saved.site = s THEN None ELSE saved
  /\ UNCHANGED <<server, authed, cache, loading, failed, waits, answered, told>>

(* saveSite, with an id that is new.  The page does not open the editor    *)
(* once its load has failed, but leaves it open if it was.                 *)
Create(s) ==
  /\ s \notin born /\ born' = born \cup {s}
  /\ Start(s, 1) /\ UNCHANGED sites

Update(s) ==
  /\ sites.list[s] # 0 /\ server[s] \in 1..(Versions - 1)
  /\ Start(s, server[s] + 1) /\ UNCHANGED <<born, sites>>

(* deleteSite, once it is confirmed: out of the list before it is gone.    *)
Delete(s) ==
  /\ sites.list[s] # 0
  /\ Start(s, 0)
  /\ sites' = [sites EXCEPT !.list[s] = 0]
  /\ UNCHANGED born

Apply ==
  /\ write # None /\ ~write.applied
  /\ write' = [write EXCEPT !.applied = TRUE]
  /\ server' = [server EXCEPT ![write.site] = write.value]
  /\ UNCHANGED <<born, authed, cache, page, sent, answered, told, saved>>

(* The list merged by saveSite, the list deleteSite finds.                 *)
Merged ==
  IF write.create \/ (write.value # 0 /\ sites.list[write.site] # 0)
  THEN [sites.list EXCEPT ![write.site] = write.value] ELSE sites.list

Misses == Merged[write.site] # write.value

(* A write is answered: invalidateStatusReads, the merge, and the load of  *)
(* saveSite or deleteSite, which joins a read that is under way.  Without  *)
(* its page only the cache is left to tell.                                *)
WriteAnswered ==
  /\ write # None /\ write.applied
  /\ write' = None /\ answered' = answered + 1
  /\ UNCHANGED <<account, sent>>
  /\ IF write.mine
     THEN /\ Load([list |-> Merged, crossed |-> Misses], Invalidated, Superseded,
                  IF write.value = 0 THEN Done
                  ELSE [list |-> Merged,
                        asked |-> IF Misses THEN answered ELSE answered + 1])
          /\ busy' = (write.value = 0 /\ authed)
          /\ told' = TRUE
          /\ saved' = IF authed THEN [site |-> write.site, value |-> write.value] ELSE None
     ELSE /\ entry' = Invalidated /\ saved' = None
          /\ IF authed /\ inflight = None
             THEN \E r \in Reads :
                    /\ reads[r] = None
                    /\ inflight' = r /\ reads' = [reads EXCEPT ![r] = Sent]
             ELSE UNCHANGED <<inflight, reads>>
          /\ UNCHANGED <<page, told>>

(* A write fails or times out; if it has not been taken by then, it is not *)
(* taken at all.                                                           *)
WriteFails ==
  /\ write # None
  /\ write' = None
  /\ IF write.mine
     THEN busy' = FALSE /\ sites' = IF write.value = 0 THEN write.prior ELSE sites
     ELSE UNCHANGED <<busy, sites>>
  /\ UNCHANGED <<account, cache, loading, failed, waits, sent, answered, told, saved>>

-----------------------------------------------------------------------------
(* The session.                                                            *)

(* A page opened by nobody loads at the first sign-in.                     *)
SignIn ==
  /\ ~authed /\ authed' = TRUE
  /\ UNCHANGED <<server, born, writes, busy, answered, saved>>
  /\ IF loading /\ latest = None
     THEN Load(sites, entry, Superseded, None) /\ told' = (told \/ Paints(entry))
     ELSE UNCHANGED <<cache, sites, loading, failed, waits, told>>

(* logout(): the cache is cleared, reads that are under way are not.       *)
LogOut ==
  /\ authed
  /\ entry' = None /\ inflight' = None
  /\ UNCHANGED <<account, reads, page, writes, answered, told, saved>>

(* logout() is done, or the session has ended without it.                  *)
SignedOut ==
  /\ authed /\ authed' = FALSE
  /\ UNCHANGED <<server, born, cache, page, writes, answered, told, saved>>

-----------------------------------------------------------------------------
Init ==
  /\ server \in [Sites -> 0..1] /\ born = {s \in Sites : server[s] # 0}
  /\ authed = FALSE
  /\ entry = None /\ inflight = None /\ reads = [r \in Reads |-> None]
  /\ sites = Nothing /\ loading = TRUE /\ failed = FALSE /\ busy = FALSE
  /\ latest = None /\ superseded = {}
  /\ write = None /\ sent = 0 /\ answered = 0 /\ told = FALSE /\ saved = None

Next ==
  \/ Reopen \/ Retry \/ Reconnect \/ Ages
  \/ \E r \in Reads : Serve(r) \/ Answer(r) \/ ReadFails(r)
  \/ \E s \in Sites : Create(s) \/ Update(s) \/ Delete(s)
  \/ Apply \/ WriteAnswered \/ WriteFails
  \/ SignIn \/ LogOut \/ SignedOut

Spec == Init /\ [][Next]_vars

-----------------------------------------------------------------------------
(* Properties.                                                             *)

ShowsEmpty == ~failed /\ ~loading /\ sites.list = Empty

(* "Nothing published yet" is not said before the page has been given a    *)
(* list: a load that failed or was superseded does not look like one that  *)
(* found nothing (settings.html).                                          *)
HonestEmpty == ShowsEmpty => told

(* What a write did is on the page that was told so, and stays there until *)
(* the next write to the site, whatever fails meanwhile; unless the page   *)
(* has a list that was asked for before the write was answered and that    *)
(* came after it, or that came in the middle of it.                        *)
ReadYourWrites ==
  saved # None /\ told /\ ~sites.crossed =>
    sites.list[saved.site] = saved.value
=============================================================================
