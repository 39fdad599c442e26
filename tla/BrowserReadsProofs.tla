-------------------------- MODULE BrowserReadsProofs --------------------------
(***************************************************************************)
(* Proofs about BrowserReads, for any numbers of sites, reads, versions    *)
(* and writes.  The inductive invariant IInv has two parts.  ToldInv: the  *)
(* page has been told whenever it shows, merges or deletes something.      *)
(* SavedInv: what the last write did is in the server's list and in every  *)
(* list on its way to the page that was asked for after the write was      *)
(* answered, in the cache, in a read, in a load's stale list, in the list  *)
(* a save remembers and in the one a failed deletion puts back.            *)
(***************************************************************************)
EXTENDS BrowserReads, TLAPS

-----------------------------------------------------------------------------
(* The inductive invariant.                                                *)

Lists == [Sites -> 0..Versions]
Held == [list : Lists, crossed : BOOLEAN]
Nexts == {None, Done} \cup [list : Lists, asked : Nat]
LoadTypes == [read : Reads, next : Nexts, stale : {None} \cup Held]
ReadTypes == [list : Lists, found : BOOLEAN, asked : Nat]
WriteTypes ==
  [site : Sites, value : 0..Versions, prior : Held, mine : BOOLEAN,
   create : BOOLEAN, applied : BOOLEAN]

(* Type correctness.                                                       *)
TypeOK ==
  /\ server \in Lists
  /\ authed \in BOOLEAN
  /\ entry \in {None} \cup [held : Held, aged : BOOLEAN]
  /\ inflight \in {None} \cup Reads
  /\ reads \in [Reads -> {None} \cup ReadTypes]
  /\ sites \in Held
  /\ loading \in BOOLEAN /\ failed \in BOOLEAN /\ busy \in BOOLEAN
  /\ latest \in {None} \cup LoadTypes
  /\ superseded \subseteq LoadTypes
  /\ write \in {None} \cup WriteTypes
  /\ sent \in Nat /\ answered \in Nat /\ told \in BOOLEAN
  /\ saved \in {None} \cup [site : Sites, value : 0..Versions]

(* The loads that wait, and whether a load is that of a save.              *)
Waiting == {l \in superseded \cup {latest} : l # None}
Merges(l) == l.next \notin {None, Done}

(* Nothing is shown, merged or put back that the page was not told.        *)
ToldInv ==
  /\ sites.list # Empty => told
  /\ \A l \in Waiting : Merges(l) => told
  /\ write # None /\ write.mine /\ write.value = 0 => told
  /\ HonestEmpty

(* A list has what the last write did.                                     *)
Has(list) == saved # None => list[saved.site] = saved.value

(* So has the server, and every list on its way that was asked for after   *)
(* that write was answered.                                                *)
SavedInv ==
  /\ Has(server)
  /\ saved # None /\ write # None => write.site # saved.site
  /\ write # None /\ write.applied => server[write.site] = write.value
  /\ \A r \in Reads : reads[r] # None =>
       /\ reads[r].asked <= answered
       /\ reads[r].found /\ reads[r].asked = answered => Has(reads[r].list)
  /\ entry # None /\ ~entry.held.crossed => Has(entry.held.list)
  /\ latest # None /\ latest.stale # None /\ ~latest.stale.crossed => Has(latest.stale.list)
  /\ \A l \in Waiting : Merges(l) =>
       /\ l.next.asked <= answered
       /\ l.next.asked = answered => Has(l.next.list)
  /\ write # None /\ write.mine /\ write.value = 0 /\ ~write.prior.crossed => Has(write.prior.list)
  /\ ReadYourWrites

IInv == TypeOK /\ ToldInv /\ SavedInv
(* The same of what is saved after a step.                                 *)
HasNext(list) == saved' # None => list[saved'.site] = saved'.value

-----------------------------------------------------------------------------
(* Records and what they are made of.                                      *)

LEMMA NoneIsNoRecord ==
  /\ None \notin Held
  /\ None \notin [held : Held, aged : BOOLEAN]
  /\ None \notin LoadTypes
  /\ None # Done
  /\ None \notin [list : Lists, asked : Nat] /\ Done \notin [list : Lists, asked : Nat]
<1>1. \A h \in Held : DOMAIN h = {"list", "crossed"}
  BY DEF Held
<1>2. \A h \in [held : Held, aged : BOOLEAN] : DOMAIN h = {"held", "aged"}
  OBVIOUS
<1>3. \A h \in LoadTypes : DOMAIN h = {"read", "next", "stale"}
  BY DEF LoadTypes
<1>4. \A h \in [list : Lists, asked : Nat] : DOMAIN h = {"list", "asked"}
  OBVIOUS
<1>5. DOMAIN None = {"none"} /\ DOMAIN Done = {"done"}
  BY DEF None, Done
<1> QED
  BY <1>1, <1>2, <1>3, <1>4, <1>5

LEMMA EmptyIsAList == Empty \in Lists /\ Nothing \in Held /\ Nothing.list = Empty
BY VersionsAssumption DEF Empty, Lists, Nothing, Held

(* A list that has come.                                                   *)
LEMMA ArrivedFacts ==
  ASSUME NEW late, late.list \in Lists, late.asked \in Nat, answered \in Nat
  PROVE  /\ Arrived(late) \in Held
         /\ Arrived(late).list = late.list
         /\ late.asked <= answered /\ ~Arrived(late).crossed => late.asked = answered
         /\ Arrived(late) # None
<1> DEFINE late_crossed == late.asked < answered
<1>1. late_crossed \in BOOLEAN
  OBVIOUS
<1>2. Arrived(late) = [list |-> late.list, crossed |-> late_crossed]
  BY DEF Arrived
<1>3. late.asked <= answered /\ ~late_crossed => late.asked = answered
  OBVIOUS
<1> HIDE DEF late_crossed
<1>4. Arrived(late) \in Held
  BY <1>1, <1>2 DEF Held
<1> QED
  BY <1>2, <1>3, <1>4, NoneIsNoRecord

LEMMA SentFacts ==
  ASSUME answered' \in Nat
  PROVE  Sent \in ReadTypes /\ Sent.asked = answered' /\ ~Sent.found
BY EmptyIsAList DEF Sent, ReadTypes

-----------------------------------------------------------------------------
(* A load.                                                                 *)

(* What a load does to the page and the cache.                             *)
LEMMA LoadChanges ==
  ASSUME TypeOK, authed' \in BOOLEAN, answered' \in Nat,
         NEW shown \in Held, NEW cached \in {None, entry},
         NEW before \in {{}, Superseded}, NEW next \in Nexts, Load(shown, cached, before, next)
  PROVE  /\ entry' = cached
         /\ Paints(cached) =>
              /\ authed' /\ cached # None
              /\ sites' = cached.held /\ sites'.list # Empty /\ ~loading'
         /\ ~Paints(cached) => sites' = shown /\ (loading' <=> authed')
         /\ ~authed' =>
              /\ (failed' => failed) /\ (failed /\ next \in {None, Done} => failed')
              /\ inflight' = inflight /\ reads' = reads
              /\ latest' = latest /\ superseded' = superseded
         /\ authed' =>
              /\ ~failed' /\ superseded' = before /\ latest'.next = next
              /\ latest'.stale # None => cached # None /\ latest'.stale = cached.held
         /\ \A r \in Reads : reads'[r] = reads[r] \/ reads'[r] = Sent
         /\ entry' \in {None} \cup [held : Held, aged : BOOLEAN]
         /\ inflight' \in {None} \cup Reads
         /\ reads' \in [Reads -> {None} \cup ReadTypes]
         /\ sites' \in Held /\ loading' \in BOOLEAN /\ failed' \in BOOLEAN
         /\ latest' \in {None} \cup LoadTypes
         /\ superseded' \subseteq LoadTypes
<1>1. entry' = cached /\ cached \in {None} \cup [held : Held, aged : BOOLEAN]
  BY DEF Load, TypeOK
<1>2. Paints(cached) =>
        /\ authed' /\ cached # None
        /\ sites' = cached.held /\ sites'.list # Empty /\ ~loading'
  BY EmptyIsAList DEF Load, Paints, Peek
<1>3. ~Paints(cached) => sites' = shown /\ (loading' <=> authed')
  BY DEF Load
<1>4. ~authed' =>
        /\ (failed' => failed) /\ (failed /\ next \in {None, Done} => failed')
        /\ inflight' = inflight /\ reads' = reads
        /\ latest' = latest /\ superseded' = superseded
  BY DEF Load, waits
<1>5. loading' \in BOOLEAN /\ failed' \in BOOLEAN /\ (authed' => ~failed')
  BY DEF Load
<1>6. sites' \in Held
  BY <1>1, <1>2, <1>3
<1>7. before \subseteq LoadTypes
  BY DEF Superseded, TypeOK
<1>8. CASE ~authed'
  BY <1>1, <1>2, <1>3, <1>4, <1>5, <1>6, <1>8 DEF TypeOK, waits
<1>9. CASE authed'
  <2> DEFINE stale == IF cached # None /\ ~cached.aged THEN cached.held ELSE None
  <2>1. PICK r \in Reads :
          /\ IF inflight # None
             THEN r = inflight /\ UNCHANGED <<inflight, reads>>
             ELSE /\ reads[r] = None
                  /\ inflight' = r /\ reads' = [reads EXCEPT ![r] = Sent]
          /\ latest' = [read |-> r, next |-> next, stale |-> stale]
    BY <1>9 DEF Load
  <2>2. superseded' = before
    BY <1>9 DEF Load
  <2>3. Sent \in ReadTypes
    BY SentFacts
  <2>4. /\ inflight' \in {None} \cup Reads
        /\ reads' \in [Reads -> {None} \cup ReadTypes]
        /\ \A p \in Reads : reads'[p] = reads[p] \/ reads'[p] = Sent
    BY <2>1, <2>3 DEF TypeOK
  <2>5. stale \in {None} \cup Held /\ (stale # None => cached # None /\ stale = cached.held)
    BY <1>1
  <2> HIDE DEF stale
  <2>6. /\ latest' \in LoadTypes /\ latest'.next = next /\ latest'.stale = stale
    BY <2>1, <2>5 DEF LoadTypes
  <2> QED
    BY <1>1, <1>2, <1>3, <1>5, <1>6, <1>7, <1>9, <2>2, <2>4, <2>5, <2>6
<1> QED
  BY <1>8, <1>9

(* The loads that wait after a load waited before it, or are new.          *)
LEMMA LoadWaits ==
  ASSUME TypeOK, authed' \in BOOLEAN, answered' \in Nat,
         NEW shown \in Held, NEW cached \in {None, entry},
         NEW before \in {{}, Superseded}, NEW next \in Nexts, Load(shown, cached, before, next),
         NEW l \in Waiting'
  PROVE  /\ l \in LoadTypes
         /\ \/ l \in Waiting /\ (before = {} => ~authed')
            \/ authed' /\ l.next = next
<1>1. l \in superseded' \cup {latest'} /\ l # None
  BY DEF Waiting
<1>2. CASE ~authed'
  <2>1. latest' = latest /\ superseded' = superseded
    BY <1>2 DEF Load, waits
  <2> QED
    BY <1>1, <1>2, <2>1 DEF Waiting, TypeOK
<1>3. CASE authed'
  <2>1. superseded' = before /\ latest'.next = next
    BY <1>3, LoadChanges
  <2>2. latest' \in {None} \cup LoadTypes
    BY LoadChanges
  <2>3. CASE l = latest'
    BY <1>1, <1>3, <2>1, <2>2, <2>3
  <2>4. CASE l # latest'
    BY <1>1, <2>1, <2>4 DEF Waiting, Superseded, TypeOK
  <2> QED
    BY <2>3, <2>4
<1> QED
  BY <1>2, <1>3

(* What the page was told, after a load.                                   *)
LEMMA LoadTold ==
  ASSUME TypeOK, ToldInv, authed' \in BOOLEAN, answered' \in Nat,
         NEW shown \in Held, NEW cached \in {None, entry},
         NEW before \in {{}, Superseded}, NEW next \in Nexts, Load(shown, cached, before, next),
         shown.list # Empty => told',
         Paints(cached) => told',
         next \notin {None, Done} => told',
         told => told' \/ (before = {} /\ authed'),
         authed' \/ failed' \/ told'
  PROVE  /\ sites'.list # Empty => told'
         /\ \A l \in Waiting' : Merges(l) => told'
         /\ HonestEmpty'
<1>1. sites'.list # Empty => told'
  BY LoadChanges
<1>2. ASSUME NEW l \in Waiting', Merges(l) PROVE told'
  <2>1. CASE l \in Waiting /\ (before = {} => ~authed')
    BY <1>2, <2>1 DEF ToldInv
  <2>2. CASE l.next = next
    BY <1>2, <2>2 DEF Merges
  <2> QED
    BY <2>1, <2>2, LoadWaits
<1>3. ~failed' /\ ~loading' => told'
  BY LoadChanges
<1> QED
  BY <1>1, <1>2, <1>3 DEF HonestEmpty, ShowsEmpty

(* What was saved is in every list on its way, after a load.               *)
LEMMA LoadSaved ==
  ASSUME TypeOK, SavedInv, authed' \in BOOLEAN, answered' \in Nat,
         NEW shown \in Held, NEW cached \in {None, entry},
         NEW before \in {{}, Superseded}, NEW next \in Nexts, Load(shown, cached, before, next),
         answered <= answered',
         answered' = answered => saved' = saved,
         answered' # answered => cached = None /\ (saved' # None => authed'),
         told' /\ ~Paints(cached) /\ ~shown.crossed => HasNext(shown.list),
         next \notin {None, Done} =>
           next.asked <= answered' /\ (next.asked = answered' => HasNext(next.list))
  PROVE  /\ \A r \in Reads : reads'[r] # None =>
              /\ reads'[r].asked <= answered'
              /\ reads'[r].found /\ reads'[r].asked = answered' => HasNext(reads'[r].list)
         /\ entry' # None /\ ~entry'.held.crossed => HasNext(entry'.held.list)
         /\ latest' # None /\ latest'.stale # None /\ ~latest'.stale.crossed
              => HasNext(latest'.stale.list)
         /\ \A l \in Waiting' : Merges(l) =>
              /\ l.next.asked <= answered'
              /\ l.next.asked = answered' => HasNext(l.next.list)
         /\ ReadYourWrites'
<1>1. answered \in Nat
  BY DEF TypeOK
<1>2. ASSUME NEW r \in Reads, reads'[r] # None
      PROVE  /\ reads'[r].asked <= answered'
             /\ reads'[r].found /\ reads'[r].asked = answered' => HasNext(reads'[r].list)
  <2>1. CASE reads'[r] = Sent
    BY <2>1, SentFacts
  <2>2. CASE reads'[r] = reads[r]
    <3>1. reads[r].asked \in Nat
      BY <1>2, <2>2 DEF TypeOK, ReadTypes
    <3>2. /\ reads[r].asked <= answered
          /\ reads[r].found /\ reads[r].asked = answered => Has(reads[r].list)
      BY <1>2, <2>2 DEF SavedInv
    <3>3. reads[r].asked <= answered' /\ (reads[r].asked = answered' => answered' = answered)
      BY <1>1, <3>1, <3>2
    <3> QED
      BY <2>2, <3>2, <3>3 DEF Has, HasNext
  <2> QED
    BY <2>1, <2>2, LoadChanges
<1>3. entry' # None /\ ~entry'.held.crossed => HasNext(entry'.held.list)
  <2>1. entry' = cached
    BY LoadChanges
  <2>2. entry' # None => entry' = entry /\ saved' = saved
    BY <2>1
  <2> QED
    BY <2>2 DEF SavedInv, Has, HasNext
<1>4. latest' # None /\ latest'.stale # None /\ ~latest'.stale.crossed
        => HasNext(latest'.stale.list)
  <2>1. CASE authed'
    BY <1>3, <2>1, LoadChanges
  <2>2. CASE ~authed'
    <3>1. latest' = latest /\ (saved' # None => saved' = saved)
      BY <2>2, LoadChanges
    <3> QED
      BY <3>1 DEF SavedInv, Has, HasNext
  <2> QED
    BY <2>1, <2>2
<1>5. ASSUME NEW l \in Waiting', Merges(l)
      PROVE  /\ l.next.asked <= answered'
             /\ l.next.asked = answered' => HasNext(l.next.list)
  <2>1. CASE l \in Waiting
    <3>1. l.next.asked \in Nat
      BY <1>5, LoadWaits DEF LoadTypes, Nexts, Merges
    <3>2. /\ l.next.asked <= answered
          /\ l.next.asked = answered => Has(l.next.list)
      BY <1>5, <2>1 DEF SavedInv
    <3>3. l.next.asked <= answered' /\ (l.next.asked = answered' => answered' = answered)
      BY <1>1, <3>1, <3>2
    <3> QED
      BY <3>2, <3>3 DEF Has, HasNext
  <2>2. CASE l.next = next
    BY <1>5, <2>2 DEF Merges
  <2> QED
    BY <2>1, <2>2, LoadWaits
<1>6. told' /\ ~sites'.crossed => HasNext(sites'.list)
  BY <1>3, LoadChanges
<1> QED
  BY <1>2, <1>3, <1>4, <1>5, <1>6 DEF ReadYourWrites, HasNext

-----------------------------------------------------------------------------
(* The end of a read.                                                      *)

(* What the end of read r does to the page: it shows the list that a save  *)
(* remembers, the one that came, the stale one of its load or the cached   *)
(* one, or what it has shown before.                                       *)
LEMMA SettleChanges ==
  ASSUME TypeOK, NEW r \in Reads, NEW outcome, NEW warm, Settle(r, outcome, warm)
  PROVE  /\ latest' \in {None, latest} /\ superseded' \subseteq superseded
         /\ loading' \in BOOLEAN /\ failed' \in BOOLEAN /\ busy' \in BOOLEAN
         /\ told' \in BOOLEAN /\ (told => told')
         /\ \/ \E l \in Waiting : Merges(l) /\ sites' = Arrived(l.next)
            \/ sites' = outcome /\ outcome # None /\ told'
            \/ latest # None /\ latest.stale # None /\ sites' = latest.stale /\ told'
            \/ warm # None /\ sites' = warm.held /\ told'
            \/ sites' = sites /\ sites.list # Empty
            \/ sites' = sites /\ told' = told /\ failed'
            \/ /\ sites' = sites /\ told' = told /\ loading' = loading
               /\ failed' = failed \/ \E l \in Waiting : Merges(l)
<1> DEFINE joined == latest # None /\ latest.read = r
           ended == {l \in superseded \cup {latest} : l # None /\ l.read = r}
           given == IF outcome # None THEN outcome ELSE latest.stale
           keep == IF Peek(warm).list # Empty THEN warm.held ELSE sites
           lost == IF joined THEN given = None /\ keep.list = Empty ELSE failed
           mergers == {k \in ended : k.next \notin {None, Done}}
           merged == {Arrived(l.next) : l \in mergers}
<1>1. /\ latest' = IF joined THEN None ELSE latest
      /\ superseded' = superseded \ ended
      /\ loading' = (loading /\ ~joined)
      /\ failed' = (lost /\ merged = {})
      /\ busy' = (busy /\ \A l \in ended : l.next # Done)
      /\ told' = (told \/ (joined /\ ~lost))
      /\ IF lost /\ merged # {}
         THEN sites' \in merged
         ELSE sites' = IF ~joined THEN sites
                       ELSE IF given # None THEN given ELSE keep
  BY DEF Settle, StillLoading
<1>2. \A l \in mergers : l \in Waiting /\ Merges(l)
  BY DEF Waiting, Merges
<1>3. loading \in BOOLEAN /\ failed \in BOOLEAN /\ told \in BOOLEAN
  BY DEF TypeOK
<1>4. lost \in BOOLEAN
  BY <1>3
<1>5. given # None => \/ given = outcome /\ outcome # None
                      \/ given = latest.stale
  OBVIOUS
<1>6. \/ keep = sites
      \/ keep = warm.held /\ keep.list # Empty /\ warm # None
  BY EmptyIsAList DEF Peek
<1>7. merged # {} => \E l \in Waiting : Merges(l)
  BY <1>2
<1>8. sites' \in merged => \E l \in Waiting : Merges(l) /\ sites' = Arrived(l.next)
  BY <1>2
<1>9. joined \in BOOLEAN /\ (joined => latest # None)
  OBVIOUS
<1>10. joined => (lost <=> given = None /\ keep.list = Empty)
  OBVIOUS
<1>11. ~joined => (lost <=> failed)
  BY <1>3
<1>12. latest' \in {None, latest} /\ superseded' \subseteq superseded
  BY <1>1
<1>13. busy' \in BOOLEAN
  BY <1>1
<1> HIDE DEF joined, ended, given, keep, lost, mergers, merged
<1>14. /\ loading' \in BOOLEAN /\ failed' \in BOOLEAN
       /\ told' \in BOOLEAN /\ (told => told')
  BY <1>1, <1>3, <1>4, <1>9
<1>15. CASE lost /\ merged # {}
  BY <1>1, <1>8, <1>12, <1>13, <1>14, <1>15
<1>16. CASE joined /\ given # None /\ ~(lost /\ merged # {})
  <2>1. sites' = given /\ told'
    BY <1>1, <1>10, <1>16
  <2> QED
    BY <1>5, <1>9, <1>12, <1>13, <1>14, <1>16, <2>1
<1>17. CASE joined /\ given = None /\ ~(lost /\ merged # {})
  <2>1. sites' = keep
    BY <1>1, <1>17
  <2>2. keep.list # Empty => told'
    BY <1>1, <1>10, <1>17
  <2>3. keep.list = Empty => keep = sites /\ failed' /\ told' = told
    BY <1>1, <1>3, <1>6, <1>10, <1>17
  <2> QED
    BY <1>6, <1>12, <1>13, <1>14, <2>1, <2>2, <2>3
<1>18. CASE ~joined /\ ~(lost /\ merged # {})
  <2>1. sites' = sites /\ told' = told /\ loading' = loading
    BY <1>1, <1>3, <1>18
  <2>2. merged = {} => failed' = failed
    BY <1>1, <1>3, <1>11, <1>18
  <2> QED
    BY <1>7, <1>12, <1>13, <1>14, <2>1, <2>2
<1> QED
  BY <1>9, <1>15, <1>16, <1>17, <1>18

(* The loads that wait after a read has ended waited before.               *)
LEMMA SettleWaits ==
  ASSUME TypeOK, latest' \in {None, latest}, superseded' \subseteq superseded
  PROVE  Waiting' \subseteq Waiting
BY DEF Waiting

LEMMA SettleTold ==
  ASSUME TypeOK, ToldInv, NEW r \in Reads, NEW outcome, NEW warm, Settle(r, outcome, warm)
  PROVE  /\ sites'.list # Empty => told'
         /\ \A l \in Waiting' : Merges(l) => told'
         /\ HonestEmpty'
<1>1. Waiting' \subseteq Waiting
  BY SettleChanges, SettleWaits
<1>2. told => told'
  BY SettleChanges
<1>3. (\E l \in Waiting : Merges(l)) => told'
  BY <1>2 DEF ToldInv
<1>4. sites' = sites => (sites'.list # Empty => told')
  BY <1>2 DEF ToldInv
<1>5. told' \/ sites' = sites
  BY <1>3, SettleChanges
<1>6. ~failed' /\ ~loading' /\ sites'.list = Empty => told'
  <2>1. CASE sites' = sites /\ told' = told /\ loading' = loading /\ failed' = failed
    BY <2>1 DEF ToldInv, HonestEmpty, ShowsEmpty
  <2> QED
    BY <1>3, <2>1, SettleChanges
<1> QED
  BY <1>1, <1>2, <1>4, <1>5, <1>6 DEF ToldInv, HonestEmpty, ShowsEmpty

LEMMA SettleSaved ==
  ASSUME TypeOK, ToldInv, SavedInv, NEW r \in Reads, NEW outcome \in {None} \cup Held,
         NEW warm \in {None} \cup [held : Held, aged : BOOLEAN], Settle(r, outcome, warm),
         outcome # None /\ ~outcome.crossed => Has(outcome.list),
         warm # None /\ ~warm.held.crossed => Has(warm.held.list),
         saved' = saved, answered' = answered
  PROVE  /\ sites' \in Held
         /\ latest' # None /\ latest'.stale # None /\ ~latest'.stale.crossed
              => HasNext(latest'.stale.list)
         /\ \A l \in Waiting' : Merges(l) =>
              /\ l.next.asked <= answered'
              /\ l.next.asked = answered' => HasNext(l.next.list)
         /\ ReadYourWrites'
<1>1. latest' \in {None, latest} /\ Waiting' \subseteq Waiting
  BY SettleChanges, SettleWaits
<1>2. latest' # None /\ latest'.stale # None /\ ~latest'.stale.crossed
        => HasNext(latest'.stale.list)
  BY <1>1 DEF SavedInv, Has, HasNext
<1>3. \A l \in Waiting' : Merges(l) =>
        /\ l.next.asked <= answered'
        /\ l.next.asked = answered' => HasNext(l.next.list)
  BY <1>1 DEF SavedInv, Has, HasNext
<1>4. sites' \in Held /\ (told' /\ ~sites'.crossed => HasNext(sites'.list))
  <2>1. ASSUME NEW l \in Waiting, Merges(l), sites' = Arrived(l.next)
        PROVE  sites' \in Held /\ (~sites'.crossed => HasNext(sites'.list))
    <3>1. l \in LoadTypes
      BY DEF Waiting, TypeOK
    <3>2. l.next.list \in Lists /\ l.next.asked \in Nat /\ answered \in Nat
      BY <2>1, <3>1 DEF LoadTypes, Nexts, Merges, TypeOK
    <3>3. /\ l.next.asked <= answered
          /\ l.next.asked = answered => Has(l.next.list)
      BY <2>1 DEF SavedInv
    <3>4. /\ Arrived(l.next) \in Held /\ Arrived(l.next).list = l.next.list
          /\ ~Arrived(l.next).crossed => l.next.asked = answered
      BY <3>2, <3>3, ArrivedFacts
    <3> QED
      BY <2>1, <3>3, <3>4 DEF Has, HasNext
  <2>2. CASE sites' = outcome /\ outcome # None
    BY <2>2 DEF Has, HasNext
  <2>3. CASE latest # None /\ latest.stale # None /\ sites' = latest.stale
    BY <2>3 DEF SavedInv, TypeOK, LoadTypes, Has, HasNext
  <2>4. CASE warm # None /\ sites' = warm.held
    BY <2>4 DEF Has, HasNext
  <2>5. CASE sites' = sites /\ (told' = told \/ sites.list # Empty)
    <3>1. told' => told
      BY <2>5 DEF ToldInv
    <3> QED
      BY <2>5, <3>1 DEF SavedInv, ReadYourWrites, TypeOK, HasNext
  <2> QED
    BY <2>1, <2>2, <2>3, <2>4, <2>5, SettleChanges
<1> QED
  BY <1>2, <1>3, <1>4 DEF ReadYourWrites, HasNext

LEMMA SettleTypes ==
  ASSUME TypeOK, NEW r \in Reads, NEW outcome, NEW warm, Settle(r, outcome, warm)
  PROVE  /\ loading' \in BOOLEAN /\ failed' \in BOOLEAN /\ busy' \in BOOLEAN
         /\ told' \in BOOLEAN
         /\ latest' \in {None} \cup LoadTypes /\ superseded' \subseteq LoadTypes
BY SettleChanges DEF TypeOK

-----------------------------------------------------------------------------
(* The steps of the cache and of its reads.                                *)

LEMMA ServeKeeps ==
  ASSUME IInv, NEW r \in Reads, Serve(r) PROVE IInv'
<1> USE DEF IInv
<1> DEFINE read == [reads[r] EXCEPT !.found = TRUE, !.list = server]
<1>1. reads[r] \in ReadTypes /\ server \in Lists
  BY DEF Serve, TypeOK
<1>2. /\ read \in ReadTypes
      /\ read.list = server /\ read.asked = reads[r].asked
  BY <1>1 DEF ReadTypes
<1>3. reads' = [reads EXCEPT ![r] = read]
  BY DEF Serve
<1> HIDE DEF read
<1>4. UNCHANGED <<account, entry, inflight, page, writes, answered, told, saved>>
  BY DEF Serve
<1>5. TypeOK'
  BY <1>2, <1>3, <1>4 DEF TypeOK, account, page, waits, writes
<1>6. ToldInv'
  BY <1>4 DEF ToldInv, Waiting, HonestEmpty, ShowsEmpty, account, page, waits, writes
<1>7. SavedInv'
  <2>1. ASSUME NEW p \in Reads, reads'[p] # None
        PROVE  /\ reads'[p].asked <= answered'
               /\ reads'[p].found /\ reads'[p].asked = answered' => HasNext(reads'[p].list)
    <3>1. CASE p = r
      <4>1. reads[r].asked <= answered /\ Has(server) /\ reads'[p] = read
        BY <1>1, <1>3, <3>1 DEF SavedInv, Serve, TypeOK
      <4> QED
        BY <1>2, <1>4, <4>1 DEF Has, HasNext
    <3>2. CASE p # r
      BY <1>3, <1>4, <2>1, <3>2 DEF SavedInv, Has, HasNext, TypeOK
    <3> QED
      BY <3>1, <3>2
  <2> QED
    BY <1>4, <2>1
    DEF SavedInv, Has, HasNext, Waiting, ReadYourWrites, account, page, waits, writes
<1> QED
  BY <1>5, <1>6, <1>7

LEMMA AnswerKeeps ==
  ASSUME IInv, NEW r \in Reads, Answer(r) PROVE IInv'
<1> USE DEF IInv
<1> DEFINE outcome == Arrived(reads[r])
           warm == [held |-> outcome, aged |-> FALSE]
<1>1. /\ reads[r] \in ReadTypes /\ reads[r].found
      /\ reads[r].list \in Lists /\ reads[r].asked \in Nat /\ answered \in Nat
  BY DEF Answer, TypeOK, ReadTypes
<1>2. /\ reads[r].asked <= answered
      /\ reads[r].asked = answered => Has(reads[r].list)
  BY <1>1 DEF Answer, SavedInv
<1>3. /\ outcome \in Held /\ outcome # None
      /\ ~outcome.crossed => Has(outcome.list)
  BY <1>1, <1>2, ArrivedFacts
<1>4. /\ entry' = warm /\ Settle(r, outcome, warm)
      /\ inflight' = None /\ reads' = [reads EXCEPT ![r] = None]
      /\ UNCHANGED <<account, writes, answered, saved>>
  BY DEF Answer
<1> HIDE DEF outcome
<1>5. warm \in [held : Held, aged : BOOLEAN] /\ warm.held = outcome /\ warm # None
  <2>1. warm \in [held : Held, aged : BOOLEAN] /\ warm.held = outcome
    BY <1>3
  <2> QED
    BY <2>1, NoneIsNoRecord
<1> HIDE DEF warm
<1>6. /\ sites' \in Held
      /\ latest' # None /\ latest'.stale # None /\ ~latest'.stale.crossed
           => HasNext(latest'.stale.list)
      /\ \A l \in Waiting' : Merges(l) =>
           /\ l.next.asked <= answered'
           /\ l.next.asked = answered' => HasNext(l.next.list)
      /\ ReadYourWrites'
  BY <1>3, <1>4, <1>5, SettleSaved
<1>7. TypeOK'
  BY <1>4, <1>5, <1>6, SettleTypes DEF TypeOK, account, writes
<1>8. ToldInv'
  BY <1>4, SettleTold, SettleChanges DEF ToldInv, writes
<1>9. SavedInv'
  BY <1>3, <1>4, <1>5, <1>6 DEF SavedInv, Has, HasNext, account, writes, TypeOK
<1> QED
  BY <1>7, <1>8, <1>9

LEMMA ReadFailsKeeps ==
  ASSUME IInv, NEW r \in Reads, ReadFails(r) PROVE IInv'
<1> USE DEF IInv
<1>1. /\ Settle(r, None, entry) /\ UNCHANGED entry
      /\ inflight' = None /\ reads' = [reads EXCEPT ![r] = None]
      /\ UNCHANGED <<account, writes, answered, saved>>
  BY DEF ReadFails
<1>2. /\ entry \in {None} \cup [held : Held, aged : BOOLEAN]
      /\ entry # None /\ ~entry.held.crossed => Has(entry.held.list)
  BY DEF TypeOK, SavedInv
<1>3. /\ sites' \in Held
      /\ latest' # None /\ latest'.stale # None /\ ~latest'.stale.crossed
           => HasNext(latest'.stale.list)
      /\ \A l \in Waiting' : Merges(l) =>
           /\ l.next.asked <= answered'
           /\ l.next.asked = answered' => HasNext(l.next.list)
      /\ ReadYourWrites'
  BY <1>1, <1>2, SettleSaved
<1>4. TypeOK'
  BY <1>1, <1>2, <1>3, SettleTypes DEF TypeOK, account, writes
<1>5. ToldInv'
  BY <1>1, SettleTold, SettleChanges DEF ToldInv, writes
<1>6. SavedInv'
  BY <1>1, <1>2, <1>3 DEF SavedInv, Has, HasNext, account, writes, TypeOK
<1> QED
  BY <1>4, <1>5, <1>6

LEMMA AgesKeeps ==
  ASSUME IInv, Ages PROVE IInv'
<1> USE DEF IInv
<1>1. /\ entry \in [held : Held, aged : BOOLEAN] /\ entry' = [entry EXCEPT !.aged = TRUE]
      /\ UNCHANGED <<account, inflight, reads, page, writes, answered, told, saved>>
  BY DEF Ages, TypeOK
<1>2. entry' \in [held : Held, aged : BOOLEAN] /\ entry'.held = entry.held /\ entry # None
  BY <1>1, NoneIsNoRecord
<1>3. TypeOK'
  BY <1>1, <1>2 DEF TypeOK, account, page, waits, writes
<1>4. ToldInv'
  BY <1>1 DEF ToldInv, Waiting, HonestEmpty, ShowsEmpty, account, page, waits, writes
<1>5. SavedInv'
  BY <1>1, <1>2 DEF SavedInv, Has, Waiting, ReadYourWrites, account, page, waits, writes
<1> QED
  BY <1>3, <1>4, <1>5

-----------------------------------------------------------------------------
(* The steps that load and write nothing.                                  *)

LEMMA ReopenKeeps ==
  ASSUME IInv, Reopen PROVE IInv'
<1> USE DEF IInv
<1>1. /\ UNCHANGED <<account, sent, answered, saved>>
      /\ busy' = FALSE /\ (told' <=> Paints(entry)) /\ told' \in BOOLEAN
      /\ write' = IF write = None THEN None ELSE [write EXCEPT !.mine = FALSE]
  <2>1. told' = Paints(entry)
    BY DEF Reopen
  <2>2. told' \in BOOLEAN
    BY <2>1 DEF Paints
  <2> QED
    BY <2>1, <2>2 DEF Reopen
<1>2. /\ write' \in {None} \cup WriteTypes
      /\ write' # None => ~write'.mine /\ write # None
      /\ write' # None => write'.site = write.site /\ write'.value = write.value
      /\ write' # None => (write'.applied <=> write.applied)
  <2>1. CASE write = None
    BY <1>1, <2>1
  <2>2. CASE write # None
    <3>1. write \in WriteTypes /\ write' = [write EXCEPT !.mine = FALSE]
      BY <1>1, <2>2 DEF TypeOK
    <3> QED
      BY <2>2, <3>1 DEF WriteTypes
  <2> QED
    BY <2>1, <2>2
<1>3. answered \in Nat /\ authed \in BOOLEAN /\ (saved' = saved) /\ answered' = answered
      /\ authed' = authed /\ server' = server
  BY <1>1 DEF TypeOK, account
<1>4. CASE authed
  <2>1. Load(Nothing, entry, {}, None)
    BY <1>4 DEF Reopen
  <2>2. None \in Nexts /\ Nothing \in Held /\ Nothing.list = Empty
    BY EmptyIsAList DEF Nexts
  <2>3. /\ sites'.list # Empty => told'
        /\ \A l \in Waiting' : Merges(l) => told'
        /\ HonestEmpty'
    BY <1>1, <1>3, <1>4, <2>1, <2>2, LoadTold
  <2>4. /\ \A r \in Reads : reads'[r] # None =>
             /\ reads'[r].asked <= answered'
             /\ reads'[r].found /\ reads'[r].asked = answered' => HasNext(reads'[r].list)
        /\ entry' # None /\ ~entry'.held.crossed => HasNext(entry'.held.list)
        /\ latest' # None /\ latest'.stale # None /\ ~latest'.stale.crossed
             => HasNext(latest'.stale.list)
        /\ \A l \in Waiting' : Merges(l) =>
             /\ l.next.asked <= answered'
             /\ l.next.asked = answered' => HasNext(l.next.list)
        /\ ReadYourWrites'
    BY <1>1, <1>3, <2>1, <2>2, LoadSaved
  <2>5. TypeOK'
    BY <1>1, <1>2, <1>3, <2>1, <2>2, LoadChanges DEF TypeOK, account
  <2>6. ToldInv'
    BY <1>2, <2>3 DEF ToldInv
  <2>7. SavedInv'
    BY <1>2, <1>3, <2>4 DEF SavedInv, Has, HasNext
  <2> QED
    BY <2>5, <2>6, <2>7
<1>5. CASE ~authed
  <2>1. /\ sites' = Nothing /\ loading' = TRUE /\ failed' = FALSE
        /\ latest' = None /\ superseded' = {}
        /\ UNCHANGED cache
    BY <1>5 DEF Reopen
  <2>2. Waiting' = {}
    BY <2>1 DEF Waiting
  <2>3. ~told'
    BY <1>1, <1>3, <1>5 DEF Paints
  <2>4. TypeOK'
    BY <1>1, <1>2, <1>3, <2>1, EmptyIsAList DEF TypeOK, account, cache
  <2>5. ToldInv'
    BY <1>2, <2>1, <2>2, EmptyIsAList DEF ToldInv, HonestEmpty, ShowsEmpty
  <2>6. SavedInv'
    BY <1>2, <1>3, <2>1, <2>2, <2>3 DEF SavedInv, Has, HasNext, ReadYourWrites, cache
  <2> QED
    BY <2>4, <2>5, <2>6
<1> QED
  BY <1>3, <1>4, <1>5

(* A load of the page that goes on: Retry, Reconnect and the sign-in.      *)
LEMMA LoadKeeps ==
  ASSUME IInv, authed' \in BOOLEAN, NEW cached \in {None, entry},
         Load(sites, cached, Superseded, None),
         UNCHANGED <<server, write, sent, answered, saved, busy>>,
         told' \in BOOLEAN, told => told', Paints(cached) => told', told' => told \/ Paints(cached),
         authed' \/ failed
  PROVE  IInv'
<1> USE DEF IInv
<1>1. /\ sites \in Held /\ Superseded \in {{}, Superseded} /\ None \in Nexts
      /\ answered \in Nat /\ answered' = answered /\ saved' = saved
  BY DEF TypeOK, Nexts
<1>2. authed' \/ failed' \/ told'
  BY <1>1, LoadChanges
<1>3. /\ sites'.list # Empty => told'
      /\ \A l \in Waiting' : Merges(l) => told'
      /\ HonestEmpty'
  <2>1. sites.list # Empty => told'
    BY DEF ToldInv
  <2> QED
    BY <1>1, <1>2, <2>1, LoadTold
<1>4. told' /\ ~Paints(cached) /\ ~sites.crossed => HasNext(sites.list)
  BY <1>1 DEF SavedInv, ReadYourWrites, HasNext
<1>5. /\ \A r \in Reads : reads'[r] # None =>
           /\ reads'[r].asked <= answered'
           /\ reads'[r].found /\ reads'[r].asked = answered' => HasNext(reads'[r].list)
      /\ entry' # None /\ ~entry'.held.crossed => HasNext(entry'.held.list)
      /\ latest' # None /\ latest'.stale # None /\ ~latest'.stale.crossed
           => HasNext(latest'.stale.list)
      /\ \A l \in Waiting' : Merges(l) =>
           /\ l.next.asked <= answered'
           /\ l.next.asked = answered' => HasNext(l.next.list)
      /\ ReadYourWrites'
  BY <1>1, <1>4, LoadSaved
<1>6. TypeOK'
  BY <1>1, LoadChanges DEF TypeOK
<1>7. ToldInv'
  BY <1>3 DEF ToldInv
<1>8. SavedInv'
  BY <1>1, <1>5 DEF SavedInv, Has, HasNext
<1> QED
  BY <1>6, <1>7, <1>8

LEMMA RetryKeeps ==
  ASSUME IInv, Retry PROVE IInv'
<1>1. /\ failed /\ UNCHANGED <<account, answered, saved, writes, busy>>
      /\ Load(sites, entry, Superseded, None) /\ told' = (told \/ Paints(entry))
  BY DEF Retry
<1>2. UNCHANGED <<server, write, sent, answered, saved, busy>>
  BY <1>1 DEF account, writes
<1>3. authed' \in BOOLEAN /\ told \in BOOLEAN
  BY <1>1 DEF IInv, TypeOK, account
<1>4. Paints(entry) \in BOOLEAN
  BY DEF Paints
<1>5. /\ told' \in BOOLEAN /\ (told => told') /\ (Paints(entry) => told')
      /\ told' => told \/ Paints(entry)
  BY <1>1, <1>3, <1>4
<1> QED
  BY <1>1, <1>2, <1>3, <1>5, LoadKeeps

LEMMA ReconnectKeeps ==
  ASSUME IInv, Reconnect PROVE IInv'
<1>1. /\ authed /\ UNCHANGED <<account, answered, saved, writes, busy, told>>
      /\ Load(sites, None, Superseded, None)
  BY DEF Reconnect, Invalidated
<1>2. /\ UNCHANGED <<server, write, sent, answered, saved, busy>>
      /\ told' = told /\ authed'
  BY <1>1 DEF account, writes
<1>3. authed' \in BOOLEAN /\ told' \in BOOLEAN
  BY <1>1 DEF IInv, TypeOK, account
<1>4. ~Paints(None)
  BY EmptyIsAList DEF Paints, Peek
<1> QED
  BY <1>1, <1>2, <1>3, <1>4, LoadKeeps

LEMMA SignInKeeps ==
  ASSUME IInv, SignIn PROVE IInv'
<1>1. /\ authed' = TRUE
      /\ UNCHANGED <<server, born, writes, busy, answered, saved>>
  BY DEF SignIn
<1>2. CASE loading /\ latest = None
  <2>1. Load(sites, entry, Superseded, None) /\ told' = (told \/ Paints(entry))
    BY <1>2 DEF SignIn
  <2>2. UNCHANGED <<server, write, sent, answered, saved, busy>>
    BY <1>1 DEF writes
  <2>3. told \in BOOLEAN
    BY DEF IInv, TypeOK
  <2>4. Paints(entry) \in BOOLEAN
    BY DEF Paints
  <2>5. /\ told' \in BOOLEAN /\ (told => told') /\ (Paints(entry) => told')
        /\ told' => told \/ Paints(entry)
    BY <2>1, <2>3, <2>4
  <2> QED
    BY <1>1, <2>1, <2>2, <2>5, LoadKeeps
<1>3. CASE ~(loading /\ latest = None)
  <2>1. UNCHANGED <<cache, sites, loading, failed, waits, told>>
    BY <1>3 DEF SignIn
  <2>2. TypeOK'
    BY <1>1, <2>1 DEF IInv, TypeOK, cache, waits, writes
  <2>3. ToldInv'
    BY <1>1, <2>1 DEF IInv, ToldInv, Waiting, HonestEmpty, ShowsEmpty, waits, writes
  <2>4. SavedInv'
    BY <1>1, <2>1 DEF IInv, SavedInv, Has, Waiting, ReadYourWrites, cache, waits, writes
  <2> QED
    BY <2>2, <2>3, <2>4 DEF IInv
<1> QED
  BY <1>2, <1>3

LEMMA SessionEndsKeeps ==
  ASSUME IInv, LogOut \/ SignedOut PROVE IInv'
<1> USE DEF IInv
<1>1. CASE LogOut
  <2>1. TypeOK'
    BY <1>1 DEF LogOut, TypeOK, account, page, waits, writes
  <2>2. ToldInv'
    BY <1>1 DEF LogOut, ToldInv, Waiting, HonestEmpty, ShowsEmpty, page, waits, writes
  <2>3. SavedInv'
    BY <1>1 DEF LogOut, SavedInv, Has, Waiting, ReadYourWrites, account, page, waits, writes
  <2> QED
    BY <2>1, <2>2, <2>3
<1>2. CASE SignedOut
  <2>1. TypeOK'
    <3>1. /\ server' = server /\ entry' = entry /\ inflight' = inflight /\ reads' = reads
          /\ authed' = FALSE
      BY <1>2 DEF SignedOut, cache
    <3>2. /\ sites' = sites /\ loading' = loading /\ failed' = failed /\ busy' = busy
          /\ latest' = latest /\ superseded' = superseded
      BY <1>2 DEF SignedOut, page, waits
    <3>3. /\ write' = write /\ sent' = sent /\ answered' = answered
          /\ told' = told /\ saved' = saved
      BY <1>2 DEF SignedOut, writes
    <3>4. TypeOK /\ authed' \in BOOLEAN
      BY <3>1
    <3> HIDE DEF IInv
    <3> QED
      BY ONLY <3>1, <3>2, <3>3, <3>4, Zenon DEF TypeOK
  <2>2. ToldInv'
    BY <1>2 DEF SignedOut, ToldInv, Waiting, HonestEmpty, ShowsEmpty, page, waits, writes
  <2>3. SavedInv'
    BY <1>2 DEF SignedOut, SavedInv, Has, Waiting, ReadYourWrites, cache, page, waits, writes
  <2> QED
    BY <2>1, <2>2, <2>3
<1> QED
  BY <1>1, <1>2

-----------------------------------------------------------------------------
(* The writes.                                                             *)

(* A write starts: a deletion, of a site that is shown, takes it out of    *)
(* the list.                                                               *)
LEMMA StartKeeps ==
  ASSUME IInv, NEW s \in Sites, NEW value \in 0..Versions, Start(s, value),
         \/ value # 0 /\ sites' = sites
         \/ value = 0 /\ sites.list[s] # 0 /\ sites' = [sites EXCEPT !.list[s] = 0]
  PROVE  IInv'
<1> USE DEF IInv
<1> DEFINE fresh == sites.list[s] = 0
<1>1. fresh \in BOOLEAN
  OBVIOUS
<1>2. /\ sent' = sent + 1 /\ busy' = TRUE
      /\ write' = [site |-> s, value |-> value, prior |-> sites, mine |-> TRUE,
                   create |-> fresh, applied |-> FALSE]
      /\ saved' = IF saved # None /\ saved.site = s THEN None ELSE saved
      /\ UNCHANGED <<server, authed, cache, loading, failed, waits, answered, told>>
  BY DEF Start
<1> HIDE DEF fresh
<1>3. sites \in Held /\ sites.list \in Lists
  BY DEF TypeOK, Held
<1>4. write' \in WriteTypes
  BY <1>1, <1>2, <1>3 DEF WriteTypes
<1>5. /\ sites' \in Held /\ sites'.crossed = sites.crossed
      /\ \A p \in Sites : p # s => sites'.list[p] = sites.list[p]
  <2>1. CASE sites' = sites
    BY <1>3, <2>1
  <2>2. CASE sites' = [sites EXCEPT !.list[s] = 0]
    BY <1>3, <2>2, VersionsAssumption DEF Held, Lists
  <2> QED
    BY <2>1, <2>2
<1>6. sites' # sites \/ value = 0 => told
  BY <1>3 DEF Empty, ToldInv
<1>7. saved' # None => saved' = saved /\ saved.site # s /\ saved.site \in Sites
  BY <1>2 DEF TypeOK
<1>8. TypeOK'
  BY <1>2, <1>4, <1>5, <1>7 DEF TypeOK, cache, waits
<1>9. ToldInv'
  BY <1>2, <1>6 DEF ToldInv, Waiting, HonestEmpty, ShowsEmpty, waits
<1>10. SavedInv'
  <2>1. saved' # None /\ told => (~sites.crossed => sites.list[saved.site] = saved.value)
    BY <1>7 DEF SavedInv, ReadYourWrites
  <2>2. ReadYourWrites'
    BY <1>2, <1>5, <1>7, <2>1 DEF ReadYourWrites
  <2>3. write'.value = 0 /\ ~write'.prior.crossed => HasNext(write'.prior.list)
    BY <1>2, <1>6, <1>7, <2>1 DEF HasNext
  <2>4. saved' # None => write'.site # saved'.site
    BY <1>2, <1>7
  <2> QED
    BY <1>2, <1>7, <2>2, <2>3, <2>4 DEF SavedInv, Has, HasNext, Waiting, cache, waits
<1> QED
  BY <1>8, <1>9, <1>10

LEMMA WriteStartsKeeps ==
  ASSUME IInv, NEW s \in Sites, Create(s) \/ Update(s) \/ Delete(s) PROVE IInv'
<1>1. CASE Create(s)
  <2>1. 1 \in 0..Versions /\ Start(s, 1) /\ sites' = sites
    BY <1>1, VersionsAssumption DEF Create
  <2> QED
    BY <2>1, StartKeeps
<1>2. CASE Update(s)
  <2> DEFINE value == server[s] + 1
  <2>1. value \in 0..Versions /\ value # 0 /\ Start(s, value) /\ sites' = sites
    BY <1>2, VersionsAssumption DEF Update
  <2> HIDE DEF value
  <2> QED
    BY <2>1, StartKeeps
<1>3. CASE Delete(s)
  <2>1. /\ 0 \in 0..Versions /\ Start(s, 0)
        /\ sites.list[s] # 0 /\ sites' = [sites EXCEPT !.list[s] = 0]
    BY <1>3, VersionsAssumption DEF Delete
  <2> QED
    BY <2>1, StartKeeps
<1> QED
  BY <1>1, <1>2, <1>3

LEMMA ApplyKeeps ==
  ASSUME IInv, Apply PROVE IInv'
<1> USE DEF IInv
<1>1. /\ write \in WriteTypes
      /\ write' = [write EXCEPT !.applied = TRUE]
      /\ server' = [server EXCEPT ![write.site] = write.value]
      /\ UNCHANGED <<born, authed, cache, page, sent, answered, told, saved>>
  BY DEF Apply, TypeOK
<1>2. /\ write' \in WriteTypes /\ write.site \in Sites /\ write.value \in 0..Versions
      /\ write'.site = write.site /\ write'.value = write.value
      /\ write'.mine = write.mine /\ write'.prior = write.prior
  BY <1>1 DEF WriteTypes
<1>3. write # None
  BY DEF Apply
<1>4. server' \in Lists /\ server'[write.site] = write.value
  BY <1>1, <1>2 DEF TypeOK, Lists
<1>5. TypeOK'
  BY <1>1, <1>2, <1>4 DEF TypeOK, cache, page, waits
<1>6. ToldInv'
  BY <1>1, <1>2, <1>3 DEF ToldInv, Waiting, HonestEmpty, ShowsEmpty, page, waits
<1>7. Has(server)'
  BY <1>1, <1>2, <1>3 DEF SavedInv, Has, TypeOK, Lists
<1>8. SavedInv'
  BY <1>1, <1>2, <1>3, <1>4, <1>7 DEF SavedInv, Has, Waiting, ReadYourWrites, cache, page, waits
<1> QED
  BY <1>5, <1>6, <1>8

LEMMA WriteFailsKeeps ==
  ASSUME IInv, WriteFails PROVE IInv'
<1> USE DEF IInv
<1>1. /\ write \in WriteTypes /\ write # None /\ write' = None
      /\ UNCHANGED <<account, cache, loading, failed, waits, sent, answered, told, saved>>
  BY DEF WriteFails, TypeOK
<1>2. /\ busy' \in BOOLEAN
      /\ \/ sites' = sites
         \/ write.mine /\ write.value = 0 /\ sites' = write.prior
  BY DEF WriteFails, TypeOK
<1>3. sites' \in Held
  BY <1>1, <1>2 DEF TypeOK, WriteTypes
<1>4. sites' = sites \/ told
  BY <1>1, <1>2 DEF ToldInv
<1>5. ReadYourWrites'
  BY <1>1, <1>2 DEF SavedInv, Has, ReadYourWrites
<1>6. TypeOK'
  BY <1>1, <1>2, <1>3 DEF TypeOK, account, cache, waits
<1>7. ToldInv'
  BY <1>1, <1>4 DEF ToldInv, Waiting, HonestEmpty, ShowsEmpty, waits
<1>8. SavedInv'
  BY <1>1, <1>5 DEF SavedInv, Has, Waiting, account, cache, waits
<1> QED
  BY <1>6, <1>7, <1>8

(* The answer to a write of this page: the list it merges has what the     *)
(* write did, unless it misses it.                                         *)
LEMMA MineAnsweredKeeps ==
  ASSUME IInv, WriteAnswered, write.mine PROVE IInv'
<1> USE DEF IInv
<1> DEFINE shown == [list |-> Merged, crossed |-> Misses]
           asked == IF Misses THEN answered ELSE answered + 1
           next == IF write.value = 0 THEN Done ELSE [list |-> Merged, asked |-> asked]
<1>1. /\ write # None /\ write \in WriteTypes /\ write.applied /\ write' = None
      /\ answered' = answered + 1 /\ answered \in Nat
      /\ UNCHANGED <<account, sent>>
  BY DEF WriteAnswered, TypeOK
<1>2. /\ Load(shown, None, Superseded, next)
      /\ busy' = (write.value = 0 /\ authed)
      /\ told' = TRUE
      /\ saved' = IF authed THEN [site |-> write.site, value |-> write.value] ELSE None
  BY DEF WriteAnswered, Invalidated
<1>3. /\ write.site \in Sites /\ write.value \in 0..Versions
      /\ authed' = authed /\ server' = server /\ authed \in BOOLEAN
  BY <1>1 DEF WriteTypes, account, TypeOK
<1>4. busy' \in BOOLEAN
  BY <1>2, <1>3
<1>5. Merged \in Lists
  BY <1>3 DEF Merged, TypeOK, Held, Lists
<1>6. Misses \in BOOLEAN /\ (~Misses => Merged[write.site] = write.value)
  BY DEF Misses
<1>7. shown \in Held /\ shown.list = Merged /\ (shown.crossed <=> Misses)
  BY <1>5, <1>6 DEF Held
<1>8. asked \in Nat /\ asked <= answered' /\ (asked = answered' => ~Misses)
  BY <1>1, <1>6
<1> HIDE DEF shown, asked
<1>9. /\ next \in Nexts
      /\ next \notin {None, Done} => next.list = Merged /\ next.asked = asked
  BY <1>5, <1>8 DEF Nexts
<1> HIDE DEF next
<1>10. /\ saved' # None => authed'
       /\ ~Misses => HasNext(Merged)
       /\ saved' \in {None} \cup [site : Sites, value : 0..Versions]
       /\ HasNext(server)
  <2>1. server[write.site] = write.value
    BY <1>1 DEF SavedInv
  <2>2. CASE authed
    <3>1. saved' = [site |-> write.site, value |-> write.value]
      BY <1>2, <2>2
    <3> QED
      BY <1>3, <1>6, <2>1, <2>2, <3>1 DEF HasNext
  <2>3. CASE ~authed
    <3>1. saved' = None
      BY <1>2, <2>3
    <3> QED
      BY <3>1 DEF HasNext
  <2> QED
    BY <2>2, <2>3
<1>11. authed' \in BOOLEAN /\ answered' \in Nat /\ Superseded \in {{}, Superseded}
  BY <1>1, <1>3
<1>12. ~Paints(None)
  BY EmptyIsAList DEF Paints, Peek
<1>13. /\ sites'.list # Empty => told'
       /\ \A l \in Waiting' : Merges(l) => told'
       /\ HonestEmpty'
  BY <1>2, <1>7, <1>9, <1>11, LoadTold
<1>14. /\ \A r \in Reads : reads'[r] # None =>
            /\ reads'[r].asked <= answered'
            /\ reads'[r].found /\ reads'[r].asked = answered' => HasNext(reads'[r].list)
       /\ entry' # None /\ ~entry'.held.crossed => HasNext(entry'.held.list)
       /\ latest' # None /\ latest'.stale # None /\ ~latest'.stale.crossed
            => HasNext(latest'.stale.list)
       /\ \A l \in Waiting' : Merges(l) =>
            /\ l.next.asked <= answered'
            /\ l.next.asked = answered' => HasNext(l.next.list)
       /\ ReadYourWrites'
  <2>1. answered <= answered' /\ answered' # answered
    BY <1>1
  <2>2. ~shown.crossed => HasNext(shown.list)
    BY <1>7, <1>10
  <2>3. next \notin {None, Done} =>
          next.asked <= answered' /\ (next.asked = answered' => HasNext(next.list))
    BY <1>8, <1>9, <1>10
  <2> QED
    BY <1>2, <1>7, <1>9, <1>10, <1>11, <2>1, <2>2, <2>3, LoadSaved
<1>15. TypeOK'
  <2>1. /\ entry' \in {None} \cup [held : Held, aged : BOOLEAN]
        /\ inflight' \in {None} \cup Reads
        /\ reads' \in [Reads -> {None} \cup ReadTypes]
        /\ sites' \in Held /\ loading' \in BOOLEAN /\ failed' \in BOOLEAN
        /\ latest' \in {None} \cup LoadTypes
        /\ superseded' \subseteq LoadTypes
    BY <1>2, <1>7, <1>9, <1>11, LoadChanges
  <2> QED
    BY <1>1, <1>2, <1>3, <1>4, <1>10, <1>11, <2>1 DEF TypeOK
<1>16. ToldInv'
  BY <1>1, <1>13 DEF ToldInv
<1>17. SavedInv'
  BY <1>1, <1>3, <1>10, <1>14 DEF SavedInv, Has, HasNext
<1> QED
  BY <1>15, <1>16, <1>17

LEMMA OthersAnsweredKeeps ==
  ASSUME IInv, WriteAnswered, ~write.mine PROVE IInv'
<1> USE DEF IInv
<1>1. /\ write' = None /\ answered' = answered + 1 /\ answered \in Nat
      /\ UNCHANGED <<account, sent>>
      /\ entry' = None /\ saved' = None
      /\ UNCHANGED <<page, told>>
  BY DEF WriteAnswered, Invalidated, TypeOK
<1>2. Sent \in ReadTypes /\ Sent.asked = answered'
  BY <1>1, SentFacts
<1>3. /\ inflight' \in {None} \cup Reads
      /\ reads' \in [Reads -> {None} \cup ReadTypes]
      /\ \A r \in Reads : reads'[r] \in {reads[r], Sent}
  <2>1. CASE authed /\ inflight = None
    <3>1. PICK r \in Reads : inflight' = r /\ reads' = [reads EXCEPT ![r] = Sent]
      BY <2>1 DEF WriteAnswered
    <3> QED
      BY <1>2, <3>1 DEF TypeOK
  <2>2. CASE ~(authed /\ inflight = None)
    BY <2>2 DEF WriteAnswered, TypeOK
  <2> QED
    BY <2>1, <2>2
<1>4. TypeOK'
  BY <1>1, <1>3 DEF TypeOK, account, page, waits
<1>5. ToldInv'
  BY <1>1 DEF ToldInv, Waiting, HonestEmpty, ShowsEmpty, page, waits
<1>6. ASSUME NEW r \in Reads, reads'[r] # None PROVE reads'[r].asked <= answered'
  <2>1. CASE reads'[r] = Sent
    BY <1>1, <1>2, <2>1
  <2>2. CASE reads'[r] = reads[r]
    BY <1>1, <1>6, <2>2 DEF SavedInv, TypeOK, ReadTypes
  <2> QED
    BY <1>3, <2>1, <2>2
<1>7. ASSUME NEW l \in Waiting', Merges(l) PROVE l.next.asked <= answered'
  <2>1. l \in Waiting
    BY <1>1 DEF Waiting, page, waits
  <2>2. l \in LoadTypes
    BY <2>1 DEF Waiting, TypeOK
  <2>3. l.next.asked \in Nat
    BY <1>7, <2>2 DEF LoadTypes, Nexts, Merges
  <2> QED
    BY <1>1, <1>7, <2>1, <2>3 DEF SavedInv
<1>8. SavedInv'
  BY <1>1, <1>6, <1>7 DEF SavedInv, Has, ReadYourWrites
<1> QED
  BY <1>4, <1>5, <1>8

-----------------------------------------------------------------------------
(* The theorems.                                                           *)

LEMMA InitIInv == Init => IInv
<1> SUFFICES ASSUME Init PROVE IInv
  OBVIOUS
<1>1. Empty \in Lists /\ Nothing \in Held /\ Nothing.list = Empty
  BY EmptyIsAList
<1>2. server \in Lists
  BY VersionsAssumption DEF Init, Lists
<1>3. TypeOK
  BY <1>1, <1>2 DEF Init, TypeOK
<1>4. ToldInv
  BY <1>1 DEF Init, ToldInv, Waiting, HonestEmpty, ShowsEmpty
<1>5. SavedInv
  BY DEF Init, SavedInv, Has, Waiting, ReadYourWrites
<1> QED
  BY <1>3, <1>4, <1>5 DEF IInv

LEMMA NextKeepsIInv == IInv /\ [Next]_vars => IInv'
<1> SUFFICES ASSUME IInv, [Next]_vars PROVE IInv'
  OBVIOUS
<1>1. CASE Reopen \/ Retry \/ Reconnect \/ Ages
  BY <1>1, ReopenKeeps, RetryKeeps, ReconnectKeeps, AgesKeeps
<1>2. ASSUME NEW r \in Reads, Serve(r) \/ Answer(r) \/ ReadFails(r) PROVE IInv'
  BY <1>2, ServeKeeps, AnswerKeeps, ReadFailsKeeps
<1>3. ASSUME NEW s \in Sites, Create(s) \/ Update(s) \/ Delete(s) PROVE IInv'
  BY <1>3, WriteStartsKeeps
<1>4. CASE Apply \/ WriteAnswered \/ WriteFails
  BY <1>4, ApplyKeeps, MineAnsweredKeeps, OthersAnsweredKeeps, WriteFailsKeeps
<1>5. CASE SignIn \/ LogOut \/ SignedOut
  BY <1>5, SignInKeeps, SessionEndsKeeps
<1>6. CASE UNCHANGED vars
  <2>1. TypeOK'
    BY <1>6 DEF IInv, TypeOK, vars, account, cache, page, waits, writes
  <2>2. ToldInv'
    BY <1>6 DEF IInv, ToldInv, Waiting, HonestEmpty, ShowsEmpty, vars, page, waits, writes
  <2>3. SavedInv'
    BY <1>6 DEF IInv, SavedInv, Has, Waiting, ReadYourWrites, vars, account, cache, page, waits, writes
  <2> QED
    BY <2>1, <2>2, <2>3 DEF IInv
<1> QED
  BY <1>1, <1>2, <1>3, <1>4, <1>5, <1>6 DEF Next

(* The inductive invariant.                                                *)
THEOREM ReadsInvariant == Spec => []IInv
<1> QED
  BY InitIInv, NextKeepsIInv, PTL DEF Spec

(* The page does not say that nothing has been published before it has     *)
(* been given a list (loadSites, saveSite and deleteSite of Settings).     *)
THEOREM HonestEmptyHolds == Spec => []HonestEmpty
<1>1. IInv => HonestEmpty
  BY DEF IInv, ToldInv
<1> QED
  BY <1>1, ReadsInvariant, PTL

(* What a write that this page was told of has done is on the page until   *)
(* the next write to the site, for any number of reads and writes.         *)
THEOREM ReadYourWritesHolds == Spec => []ReadYourWrites
<1>1. IInv => ReadYourWrites
  BY DEF IInv, SavedInv
<1> QED
  BY <1>1, ReadsInvariant, PTL
=============================================================================
