--------------------------- MODULE BrowserIdleProofs ---------------------------
(***************************************************************************)
(* No tab in use is timed out early, whatever the number of tabs, the      *)
(* times and the lateness of timers.  The inductive invariant relates the  *)
(* deadline of every tab to what every tab has done: Spares(u, t) says     *)
(* that t's deadline is at least as far away as the throttles of u allow,  *)
(* counted from u's last broadcast, its last handled activity and its last *)
(* activity in turn; or the news is still on its way, and no time has      *)
(* passed since u was used.                                                *)
(***************************************************************************)
EXTENDS BrowserIdle, TLAPS

-----------------------------------------------------------------------------
(* The inductive invariant.                                                *)

(* A tab without a session is at rest.                                     *)
AtRest(t) == left[t] = Off /\ timers[t] = {} /\ ~bound[t] /\ ~warning[t]

(* What is left to t after what u has done.                                *)
FarEnough(u, t) ==
  /\ sent[u] < TabThrottle => left[t] >= IdleTime - sent[u]
  /\ handled[u] < Throttle => left[t] >= IdleTime - handled[u] - (TabThrottle - 1)
  /\ active[u] < Quiet => left[t] >= Quiet - active[u]

Underway(u, t) == "extend" \in inbox[t] /\ active[u] = 0

Spares(u, t) == Underway(u, t) \/ FarEnough(u, t)

(* A tab that has expired is on its way out; a tab that is not signed in   *)
(* may have been used without prolonging itself ("Continue session").      *)
Counts(u, t) == ~expired[t] /\ (t = u => authed[t])

IInv ==
  /\ TypeOK
  /\ \A t \in Tabs : ~tracked[t] => AtRest(t)
  /\ \A t, u \in Tabs : Counts(u, t) => Spares(u, t)

-----------------------------------------------------------------------------
(* Types.                                                                  *)

(* The times are numbers, and the bounds of "left" lie where they should.  *)
LEMMA Times ==
  /\ IdleTime \in Nat /\ Throttle \in Nat /\ TabThrottle \in Nat /\ Late \in Nat
  /\ Logouts \in Nat /\ Logouts >= 1
  /\ WarningLead \in Nat /\ IdleTime >= 1 /\ Throttle >= 1 /\ TabThrottle >= 1
  /\ Off = IdleTime + 1 /\ Off \in (-Late)..Off /\ IdleTime \in (-Late)..Off
  /\ Quiet \in Int /\ Quiet = IdleTime - TabThrottle - Throttle + 2
BY TimesAssumption DEF Off, Quiet

LEMMA ArmTypes ==
  ASSUME TypeOK, NEW t \in Tabs, Arm(t)
  PROVE  left' \in [Tabs -> (-Late)..Off] /\ timers' \in [Tabs -> SUBSET {"warn", "logout"}]
BY Times DEF Arm, TypeOK

LEMMA StopTypes ==
  ASSUME TypeOK, NEW t \in Tabs, Stop(t)
  PROVE  /\ left' \in [Tabs -> (-Late)..Off] /\ timers' \in [Tabs -> SUBSET {"warn", "logout"}]
         /\ expired' \in [Tabs -> BOOLEAN] /\ warning' \in [Tabs -> BOOLEAN]
         /\ bound' \in [Tabs -> BOOLEAN]
BY Times DEF Stop, TypeOK

LEMMA PostTypes ==
  ASSUME TypeOK, NEW t \in Tabs, NEW messages \in SUBSET Messages, Post(messages, t)
  PROVE  inbox' \in [Tabs -> SUBSET Messages]
BY DEF Post, TypeOK

LEMMA LeavingTypes ==
  ASSUME TypeOK, NEW t \in Tabs, BeginLogout(t)
  PROVE  leaving' \in [Tabs -> 0..Logouts]
<1>1. leaving[t] \in 0..Logouts  BY DEF TypeOK
<1>2. Capped(leaving[t] + 1, Logouts) \in 0..Logouts  BY <1>1, Times DEF Capped
<1>3. QED  BY <1>2 DEF BeginLogout, TypeOK

LEMMA ExpireTypes ==
  ASSUME TypeOK, NEW t \in Tabs, Expire(t)
  PROVE  TypeOK'
<1>1. inbox' \in [Tabs -> SUBSET Messages]  BY PostTypes DEF Expire, Messages
<1>2. leaving' \in [Tabs -> 0..Logouts]  BY LeavingTypes DEF Expire
<1>3. QED  BY <1>1, <1>2 DEF Expire, TypeOK, clocks

LEMMA ShowWarningTypes ==
  ASSUME TypeOK, NEW t \in Tabs, NEW pending \in SUBSET {"warn", "logout"},
         ShowWarning(t, pending)
  PROVE  TypeOK'
BY ExpireTypes DEF ShowWarning, TypeOK, auth, clocks

LEMMA TypeStep ==
  ASSUME TypeOK, [Next]_vars
  PROVE  TypeOK'
<1> USE DEF TypeOK
<1>1. ASSUME NEW t \in Tabs, WarnTimer(t) PROVE TypeOK'
  <2>1. timers[t] \ {"warn"} \in SUBSET {"warn", "logout"}  OBVIOUS
  <2>2. QED  BY <1>1, <2>1, ShowWarningTypes DEF WarnTimer, auth, clocks
<1>2. ASSUME NEW t \in Tabs, LogoutTimer(t) PROVE TypeOK'
  BY <1>2, ExpireTypes DEF LogoutTimer
<1>3. ASSUME NEW t \in Tabs, SyncAuthState(t) PROVE TypeOK'
  <2>1. CASE authed[t]
    BY <1>3, <2>1, ArmTypes DEF SyncAuthState, Start, auth, clocks
  <2>2. CASE ~authed[t]
    BY <1>3, <2>2, StopTypes DEF SyncAuthState, auth, clocks
  <2>3. QED  BY <2>1, <2>2
<1>4. ASSUME NEW t \in Tabs, ReceiveExtend(t) PROVE TypeOK'
  <2>1. inbox' \in [Tabs -> SUBSET Messages]  BY <1>4 DEF ReceiveExtend, Heard
  <2>2. /\ left' \in [Tabs -> (-Late)..Off]
        /\ timers' \in [Tabs -> SUBSET {"warn", "logout"}]
        /\ warning' \in [Tabs -> BOOLEAN]
    BY <1>4, ArmTypes DEF ReceiveExtend
  <2>3. QED  BY <1>4, <2>1, <2>2 DEF ReceiveExtend, auth, clocks
<1>5. ASSUME NEW t \in Tabs, ReceiveLogout(t) PROVE TypeOK'
  <2>1. inbox' \in [Tabs -> SUBSET Messages]  BY <1>5 DEF ReceiveLogout, Heard
  <2>2. CASE authed[t]
    BY <1>5, <2>1, <2>2, StopTypes, LeavingTypes DEF ReceiveLogout, clocks
  <2>3. CASE ~authed[t]
    BY <1>5, <2>1, <2>3 DEF ReceiveLogout, idle, clocks
  <2>4. QED  BY <2>2, <2>3
<1>6. ASSUME NEW t \in Tabs, ReceiveSignedOut(t) PROVE TypeOK'
  <2>1. Forgets \subseteq Messages  BY DEF Forgets, Messages
  <2>2. QED  BY <1>6, <2>1 DEF ReceiveSignedOut, idle, clocks
<1>7. ASSUME NEW t \in Tabs, LogoutDone(t) PROVE TypeOK'
  <2>1. {"signedOut"} \cup Forgets \subseteq Messages  BY DEF Forgets, Messages
  <2>2. inbox' \in [Tabs -> SUBSET Messages]  BY <1>7, <2>1, PostTypes DEF LogoutDone
  <2>3. leaving' \in [Tabs -> 0..Logouts]  BY <1>7, Times DEF LogoutDone
  <2>4. QED  BY <1>7, <2>2, <2>3 DEF LogoutDone, idle, clocks
<1>8. ASSUME NEW t \in Tabs, Activity(t) PROVE TypeOK'
  <2>1. left' \in [Tabs -> (-Late)..Off] /\ timers' \in [Tabs -> SUBSET {"warn", "logout"}]
    BY <1>8, ArmTypes DEF Activity
  <2>2. inbox' \in [Tabs -> SUBSET Messages]  BY <1>8, PostTypes DEF Activity, Messages
  <2>3. /\ handled' \in [Tabs -> 0..Throttle] /\ sent' \in [Tabs -> 0..TabThrottle]
        /\ active' \in [Tabs -> {0, Quiet} \cup 0..Quiet]
    BY <1>8, Times DEF Activity
  <2>4. QED  BY <1>8, <2>1, <2>2, <2>3 DEF Activity, auth
<1>9. ASSUME NEW t \in Tabs, Stay(t) PROVE TypeOK'
  <2>1. left' \in [Tabs -> (-Late)..Off] /\ timers' \in [Tabs -> SUBSET {"warn", "logout"}]
    BY <1>9, ArmTypes DEF Stay
  <2>2. inbox' \in [Tabs -> SUBSET Messages]  BY <1>9, PostTypes DEF Stay, Messages
  <2>3. QED  BY <1>9, <2>1, <2>2 DEF Stay, auth
<1>10. ASSUME NEW t \in Tabs, SignOutNow(t) PROVE TypeOK'
  BY <1>10, ExpireTypes DEF SignOutNow
<1>11. ASSUME NEW t \in Tabs, LogOut(t) PROVE TypeOK'
  BY <1>11, LeavingTypes DEF LogOut, idle, clocks
<1>12. ASSUME NEW t \in Tabs, SignIn(t) PROVE TypeOK'
  BY <1>12 DEF SignIn, idle, clocks
<1>13. ASSUME NEW t \in Tabs, Visible(t) PROVE TypeOK'
  BY <1>13, ExpireTypes, ShowWarningTypes DEF Visible
<1>14. CASE Tick
  <2>1. left' \in [Tabs -> (-Late)..Off]  BY <1>14, Times DEF Tick
  <2>2. handled' \in [Tabs -> 0..Throttle] /\ sent' \in [Tabs -> 0..TabThrottle]
    BY <1>14, Times DEF Tick, Capped
  <2>3. active' \in [Tabs -> {0, Quiet} \cup 0..Quiet]  BY <1>14, Times DEF Tick, Capped
  <2>4. QED  BY <1>14, <2>1, <2>2, <2>3 DEF Tick, auth
<1>15. CASE UNCHANGED vars
  BY <1>15 DEF vars, auth, idle, clocks
<1>16. QED
  BY <1>1, <1>2, <1>3, <1>4, <1>5, <1>6, <1>7, <1>8, <1>9, <1>10, <1>11, <1>12, <1>13, <1>14, <1>15
     DEF Next, Runs, Uses

-----------------------------------------------------------------------------
(* Rest.                                                                   *)

(* A tab without a session stays at rest until SyncAuthState starts one:   *)
(* nobody else sets its deadline, its timers or its warning.               *)
LEMMA RestStep ==
  ASSUME TypeOK, NEW t \in Tabs, ~tracked[t] => AtRest(t), [Next]_vars
  PROVE  (~tracked[t] => AtRest(t))'
<1> SUFFICES ASSUME ~tracked'[t] PROVE AtRest(t)'
  OBVIOUS
<1> USE DEF AtRest, TypeOK
<1>1. ASSUME NEW v \in Tabs, Expire(v) PROVE AtRest(t)'
  BY <1>1 DEF Expire, clocks
<1>2. ASSUME NEW v \in Tabs, NEW pending, ShowWarning(v, pending), bound[v] \/ timers[v] # {}
      PROVE AtRest(t)'
  BY <1>1, <1>2 DEF ShowWarning, auth, clocks
<1>3. ASSUME NEW v \in Tabs, WarnTimer(v) PROVE AtRest(t)'
  BY <1>2, <1>3 DEF WarnTimer, auth, clocks
<1>4. ASSUME NEW v \in Tabs, LogoutTimer(v) PROVE AtRest(t)'
  BY <1>1, <1>4 DEF LogoutTimer
<1>5. ASSUME NEW v \in Tabs, SyncAuthState(v) PROVE AtRest(t)'
  BY <1>5 DEF SyncAuthState, Followed, Start, Stop, Arm, auth, clocks
<1>6. ASSUME NEW v \in Tabs, ReceiveExtend(v) PROVE AtRest(t)'
  BY <1>6 DEF ReceiveExtend, Followed, Arm, auth, clocks
<1>7. ASSUME NEW v \in Tabs, ReceiveLogout(v) PROVE AtRest(t)'
  BY <1>7, Times DEF ReceiveLogout, Stop, idle, clocks
<1>8. ASSUME NEW v \in Tabs, ReceiveSignedOut(v) \/ LogoutDone(v) \/ LogOut(v) \/ SignIn(v)
      PROVE AtRest(t)'
  BY <1>8 DEF ReceiveSignedOut, LogoutDone, LogOut, SignIn, idle, clocks
<1>9. ASSUME NEW v \in Tabs, Activity(v) PROVE AtRest(t)'
  BY <1>9 DEF Activity, Arm, auth
<1>10. ASSUME NEW v \in Tabs, Stay(v) PROVE AtRest(t)'
  BY <1>10 DEF Stay, Arm, auth
<1>11. ASSUME NEW v \in Tabs, SignOutNow(v) PROVE AtRest(t)'
  BY <1>1, <1>11 DEF SignOutNow
<1>12. ASSUME NEW v \in Tabs, Visible(v) PROVE AtRest(t)'
  BY <1>1, <1>2, <1>12 DEF Visible
<1>13. CASE Tick
  BY <1>13 DEF Tick, auth
<1>14. CASE UNCHANGED vars
  BY <1>14 DEF vars, auth, idle, clocks
<1>15. QED
  BY <1>3, <1>4, <1>5, <1>6, <1>7, <1>8, <1>9, <1>10, <1>11, <1>12, <1>13, <1>14
     DEF Next, Runs, Uses

-----------------------------------------------------------------------------
(* Deadlines.                                                              *)

(* A deadline that is set now, or is not set at all, is far enough.        *)
LEMMA NewDeadline ==
  ASSUME TypeOK', NEW t \in Tabs, NEW u \in Tabs, left'[t] \in {IdleTime, Off}
  PROVE  Spares(u, t)'
<1>1. sent'[u] \in 0..TabThrottle /\ handled'[u] \in 0..Throttle
  BY DEF TypeOK
<1>2. active'[u] < Quiet => active'[u] \in 0..Quiet
  BY Times DEF TypeOK
<1>3. left'[t] \in Int /\ left'[t] >= IdleTime
  BY Times
<1>4. QED  BY <1>1, <1>2, <1>3, Times DEF Spares, FarEnough

(* What a tab is spared depends on its deadline, on what the other has     *)
(* done and on the news on its way.                                        *)
LEMMA SameDeadline ==
  ASSUME NEW t \in Tabs, NEW u \in Tabs, Spares(u, t),
         left'[t] = left[t], UNCHANGED <<sent, handled, active>>,
         "extend" \in inbox[t] => "extend" \in inbox'[t]
  PROVE  Spares(u, t)'
BY DEF Spares, Underway, FarEnough

(* Nobody's deadline comes closer by what is done in no time.              *)
LEMMA ExpireSpares ==
  ASSUME TypeOK, NEW t \in Tabs, NEW u \in Tabs, Counts(u, t) => Spares(u, t),
         NEW v \in Tabs, Expire(v), Counts(u, t)'
  PROVE  Spares(u, t)'
<1>1. Counts(u, t)
  BY DEF Expire, Counts, TypeOK
<1>2. "extend" \in inbox[t] => "extend" \in inbox'[t]
  BY DEF Expire, Post
<1>3. QED  BY <1>1, <1>2, SameDeadline DEF Expire, clocks

LEMMA ShowWarningSpares ==
  ASSUME TypeOK, NEW t \in Tabs, NEW u \in Tabs, Counts(u, t) => Spares(u, t),
         NEW v \in Tabs, NEW pending, ShowWarning(v, pending), Counts(u, t)'
  PROVE  Spares(u, t)'
<1>1. CASE Expire(v)
  BY <1>1, ExpireSpares
<1>2. CASE ~Expire(v)
  BY <1>2, SameDeadline DEF ShowWarning, Counts, auth, clocks
<1>3. QED  BY <1>1, <1>2

(* Activity: a tab that has been used and has not told the others has told *)
(* them within TabThrottle of an activity that it handled, and that was    *)
(* within Throttle.                                                        *)
LEMMA ActivitySpares ==
  ASSUME TypeOK, TypeOK', NEW t \in Tabs, NEW u \in Tabs, Counts(u, t) => Spares(u, t),
         NEW v \in Tabs, Activity(v), Counts(u, t)'
  PROVE  Spares(u, t)'
<1>1. Counts(u, t) /\ Spares(u, t)
  BY DEF Activity, Counts, auth
<1>2. CASE left'[t] = IdleTime
  BY <1>2, NewDeadline
<1>3. CASE left'[t] # IdleTime /\ u # v
  <2>1. left'[t] = left[t] /\ sent'[u] = sent[u] /\ handled'[u] = handled[u] /\ active'[u] = active[u]
    BY <1>3 DEF Activity, Arm, TypeOK
  <2>2. "extend" \in inbox[t] => "extend" \in inbox'[t]
    BY DEF Activity, Post
  <2>3. QED  BY <1>1, <2>1, <2>2 DEF Spares, Underway, FarEnough
<1>4. CASE left'[t] # IdleTime /\ u = v
  <2>1. left'[t] = left[t] /\ active'[u] = 0 /\ left[t] \in Int
    BY <1>4 DEF Activity, Arm, TypeOK
  <2>2. "extend" \in inbox[t] => "extend" \in inbox'[t]
    BY DEF Activity, Post
  <2>3. CASE "extend" \in inbox'[t]
    BY <2>1, <2>3 DEF Spares, Underway
  <2>4. CASE "extend" \notin inbox'[t]
    <3>1. FarEnough(u, t)
      BY <1>1, <2>2, <2>4 DEF Spares, Underway
    <3>2. sent[u] \in 0..TabThrottle /\ handled[u] \in 0..Throttle
      BY DEF TypeOK
    <3>3. CASE handled[u] < Throttle
      <4>1. sent'[u] = sent[u] /\ handled'[u] = handled[u]
        BY <1>4, <3>3 DEF Activity
      <4>2. left[t] >= Quiet
        BY <2>1, <3>1, <3>2, <3>3, Times DEF FarEnough
      <4>3. QED  BY <2>1, <3>1, <4>1, <4>2, Times DEF Spares, FarEnough
    <3>4. CASE ~(handled[u] < Throttle)
      <4>1. t # u
        BY <1>4, <3>4 DEF Activity, Arm, TypeOK
      <4>2. sent[u] < TabThrottle /\ sent'[u] = sent[u] /\ handled'[u] = 0
        BY <1>4, <2>4, <3>2, <3>4, <4>1, Times DEF Activity, Post, TypeOK
      <4>3. left[t] >= IdleTime - sent[u]
        BY <3>1, <4>2 DEF FarEnough
      <4>4. QED  BY <2>1, <3>2, <4>2, <4>3, Times DEF Spares, FarEnough
    <3>5. QED  BY <3>3, <3>4
  <2>5. QED  BY <2>3, <2>4
<1>5. QED  BY <1>2, <1>3, <1>4

(* "Continue session" tells every other tab, and prolongs its own if it is *)
(* signed in.                                                              *)
LEMMA StaySpares ==
  ASSUME TypeOK, TypeOK', NEW t \in Tabs, NEW u \in Tabs, Counts(u, t) => Spares(u, t),
         NEW v \in Tabs, Stay(v), Counts(u, t)'
  PROVE  Spares(u, t)'
<1>1. Counts(u, t) /\ Spares(u, t)
  BY DEF Stay, Counts, auth
<1>2. CASE left'[t] = IdleTime
  BY <1>2, NewDeadline
<1>3. CASE left'[t] # IdleTime /\ t = v
  <2>1. ~authed[v] /\ u # v
    BY <1>1, <1>3 DEF Stay, Arm, Counts, TypeOK
  <2>2. left' = left /\ active'[u] = active[u] /\ inbox'[t] = inbox[t] /\ UNCHANGED <<sent, handled>>
    BY <1>3, <2>1 DEF Stay, Post, TypeOK
  <2>3. QED  BY <1>1, <2>2 DEF Spares, Underway, FarEnough
<1>4. CASE left'[t] # IdleTime /\ t # v
  <2>1. /\ left'[t] = left[t] /\ "extend" \in inbox'[t] /\ UNCHANGED <<sent, handled>>
        /\ active'[u] = IF u = v THEN 0 ELSE active[u]
    BY <1>4 DEF Stay, Arm, Post, TypeOK
  <2>2. CASE active'[u] = 0
    BY <2>1, <2>2 DEF Spares, Underway
  <2>3. CASE active'[u] # 0
    BY <1>1, <2>1, <2>3 DEF Spares, Underway, FarEnough
  <2>4. QED  BY <2>2, <2>3
<1>5. QED  BY <1>2, <1>3, <1>4

(* Time: nothing is on its way any more, and what is left shrinks no       *)
(* faster than the rest grows.                                             *)
LEMMA TickSpares ==
  ASSUME TypeOK, TypeOK', NEW t \in Tabs, NEW u \in Tabs, Counts(u, t) => Spares(u, t),
         Tick, Counts(u, t)'
  PROVE  Spares(u, t)'
<1>1. Counts(u, t) /\ FarEnough(u, t)
  BY DEF Tick, OnTime, Counts, Spares, Underway, auth
<1>2. CASE left[t] = Off
  <2>1. left'[t] = Off  BY <1>2 DEF Tick
  <2>2. QED  BY <2>1, NewDeadline
<1>3. CASE left[t] # Off
  <2>1. left[t] \in Int /\ left'[t] \in Int /\ left'[t] >= left[t] - 1
    BY <1>3, Times DEF Tick, TypeOK
  <2>2. sent'[u] < TabThrottle => sent[u] < TabThrottle /\ sent'[u] = sent[u] + 1
    BY Times DEF Tick, Capped, TypeOK
  <2>3. handled'[u] < Throttle => handled[u] < Throttle /\ handled'[u] = handled[u] + 1
    BY Times DEF Tick, Capped, TypeOK
  <2>4. active'[u] < Quiet => active[u] < Quiet /\ active'[u] = active[u] + 1
    BY Times DEF Tick, Capped, TypeOK
  <2>5. sent[u] \in Int /\ handled[u] \in Int /\ active[u] \in Int
    BY Times DEF TypeOK
  <2>6. QED  BY <1>1, <2>1, <2>2, <2>3, <2>4, <2>5, Times DEF Spares, FarEnough
<1>4. QED  BY <1>2, <1>3

LEMMA SparesStep ==
  ASSUME TypeOK, TypeOK', NEW t \in Tabs, NEW u \in Tabs,
         ~tracked[t] => AtRest(t), Counts(u, t) => Spares(u, t), [Next]_vars
  PROVE  (Counts(u, t) => Spares(u, t))'
<1> SUFFICES ASSUME Counts(u, t)' PROVE Spares(u, t)'
  OBVIOUS
<1>1. ASSUME left'[t] \in {IdleTime, Off} PROVE Spares(u, t)'
  BY <1>1, NewDeadline
<1>2. ASSUME NEW v \in Tabs, WarnTimer(v) PROVE Spares(u, t)'
  <2>1. CASE ShowWarning(v, timers[v] \ {"warn"})
    BY <2>1, ShowWarningSpares
  <2>2. CASE ~ShowWarning(v, timers[v] \ {"warn"})
    BY <1>2, <2>2, SameDeadline DEF WarnTimer, Counts, auth, clocks
  <2>3. QED  BY <2>1, <2>2
<1>3. ASSUME NEW v \in Tabs, LogoutTimer(v) PROVE Spares(u, t)'
  BY <1>3, ExpireSpares DEF LogoutTimer
<1>4. ASSUME NEW v \in Tabs, SyncAuthState(v) PROVE Spares(u, t)'
  <2>1. CASE t = v
    BY <1>1, <1>4, <2>1 DEF SyncAuthState, Start, Stop, Arm, TypeOK
  <2>2. CASE t # v
    <3>1. left'[t] = left[t] /\ expired'[t] = expired[t]
      BY <1>4, <2>2 DEF SyncAuthState, Start, Stop, Arm, TypeOK
    <3>2. QED  BY <1>4, <3>1, SameDeadline DEF SyncAuthState, Counts, auth, clocks
  <2>3. QED  BY <2>1, <2>2
<1>5. ASSUME NEW v \in Tabs, ReceiveExtend(v) PROVE Spares(u, t)'
  <2>1. Counts(u, t)
    BY <1>5 DEF ReceiveExtend, Counts, auth
  <2>2. CASE t = v
    <3>1. CASE authed[v]
      BY <1>1, <1>5, <2>1, <2>2, <3>1 DEF ReceiveExtend, Arm, Counts, TypeOK
    <3>2. CASE ~authed[v]
      BY <1>1, <1>5, <2>2, <3>2 DEF ReceiveExtend, Followed, AtRest
    <3>3. QED  BY <3>1, <3>2
  <2>3. CASE t # v
    <3>1. left'[t] = left[t] /\ inbox'[t] = inbox[t]
      BY <1>5, <2>3 DEF ReceiveExtend, Heard, Arm, TypeOK
    <3>2. QED  BY <1>5, <2>1, <3>1, SameDeadline DEF ReceiveExtend, clocks
  <2>4. QED  BY <2>2, <2>3
<1>6. ASSUME NEW v \in Tabs, ReceiveLogout(v) PROVE Spares(u, t)'
  <2>1. "extend" \in inbox[t] => "extend" \in inbox'[t]
    BY <1>6 DEF ReceiveLogout, Heard, TypeOK
  <2>2. CASE t = v /\ authed[v]
    BY <1>1, <1>6, <2>2 DEF ReceiveLogout, Stop, TypeOK
  <2>3. CASE ~(t = v /\ authed[v])
    <3>1. left'[t] = left[t] /\ expired'[t] = expired[t]
      BY <1>6, <2>3 DEF ReceiveLogout, Stop, TypeOK, idle
    <3>2. QED  BY <1>6, <2>1, <3>1, SameDeadline DEF ReceiveLogout, Counts, clocks
  <2>4. QED  BY <2>2, <2>3
<1>7. ASSUME NEW v \in Tabs, ReceiveSignedOut(v) \/ LogoutDone(v) PROVE Spares(u, t)'
  <2>1. "extend" \in inbox[t] => "extend" \in inbox'[t]
    BY <1>7 DEF ReceiveSignedOut, LogoutDone, Post
  <2>2. Counts(u, t)
    BY <1>7 DEF ReceiveSignedOut, LogoutDone, Counts, TypeOK, idle
  <2>3. QED  BY <1>7, <2>1, <2>2, SameDeadline DEF ReceiveSignedOut, LogoutDone, idle, clocks
<1>8. ASSUME NEW v \in Tabs, Activity(v) PROVE Spares(u, t)'
  BY <1>8, ActivitySpares
<1>9. ASSUME NEW v \in Tabs, Stay(v) PROVE Spares(u, t)'
  BY <1>9, StaySpares
<1>10. ASSUME NEW v \in Tabs, SignOutNow(v) PROVE Spares(u, t)'
  BY <1>10, ExpireSpares DEF SignOutNow
<1>11. ASSUME NEW v \in Tabs, LogOut(v) PROVE Spares(u, t)'
  BY <1>11, SameDeadline DEF LogOut, Counts, idle, clocks
<1>12. ASSUME NEW v \in Tabs, SignIn(v) PROVE Spares(u, t)'
  <2>1. CASE t = v
    BY <1>1, <1>12, <2>1 DEF SignIn, Followed, AtRest, idle
  <2>2. CASE t # v
    BY <1>12, <2>2, SameDeadline DEF SignIn, Counts, TypeOK, idle, clocks
  <2>3. QED  BY <2>1, <2>2
<1>13. ASSUME NEW v \in Tabs, Visible(v) PROVE Spares(u, t)'
  BY <1>13, ExpireSpares, ShowWarningSpares DEF Visible
<1>14. CASE Tick
  BY <1>14, TickSpares
<1>15. CASE UNCHANGED vars
  BY <1>15, SameDeadline DEF vars, Counts, auth, idle, clocks
<1>16. QED
  BY <1>2, <1>3, <1>4, <1>5, <1>6, <1>7, <1>8, <1>9, <1>10, <1>11, <1>12, <1>13, <1>14, <1>15
     DEF Next, Runs, Uses

-----------------------------------------------------------------------------
(* The theorems.                                                           *)

LEMMA IdleStep == IInv /\ [Next]_vars => IInv'
<1> SUFFICES ASSUME IInv, [Next]_vars PROVE IInv'
  OBVIOUS
<1>1. TypeOK /\ TypeOK'
  BY TypeStep DEF IInv
<1>2. ASSUME NEW t \in Tabs PROVE (~tracked[t] => AtRest(t))'
  BY <1>1, RestStep DEF IInv
<1>3. ASSUME NEW t \in Tabs, NEW u \in Tabs PROVE (Counts(u, t) => Spares(u, t))'
  BY <1>1, SparesStep DEF IInv
<1>4. QED  BY <1>1, <1>2, <1>3 DEF IInv

LEMMA IdleInit == Init => IInv
<1> SUFFICES ASSUME Init PROVE IInv
  OBVIOUS
<1>1. TypeOK
  <2>1. /\ Throttle \in 0..Throttle /\ TabThrottle \in 0..TabThrottle
        /\ Quiet \in {0, Quiet} \cup 0..Quiet /\ 0 \in 0..Logouts
    BY Times
  <2>2. QED  BY <2>1, Times DEF Init, TypeOK
<1>2. \A t \in Tabs : AtRest(t)
  BY DEF Init, AtRest
<1>3. \A t, u \in Tabs : Spares(u, t)
  BY Times DEF Init, Spares, FarEnough
<1>4. QED  BY <1>1, <1>2, <1>3 DEF IInv

(* The types, rest without a session, and deadlines that are far enough,   *)
(* in every state.                                                         *)
THEOREM IdleInvariant == Spec => []IInv
<1>1. QED  BY IdleInit, IdleStep, PTL DEF Spec

(* NoneTimedOutEarly: a session runs out in a tab of SessionIdleService    *)
(* only if every tab in use has been left alone for the idle time less     *)
(* what activityThrottleMs and crossTabThrottleMs keep from the others.    *)
THEOREM NoneTimedOutEarlyHolds == Spec => NoneTimedOutEarly
<1>1. ASSUME IInv, [Next]_vars, NEW t \in Tabs, ~expired[t], left[t] <= 0,
             NEW u \in Tabs, authed[u]
      PROVE  active[u] \in {0, Quiet}
  <2>1. Spares(u, t)
    BY <1>1 DEF IInv, Counts
  <2>2. CASE Underway(u, t)
    BY <2>2 DEF Underway
  <2>3. CASE FarEnough(u, t)
    <3>1. left[t] \in Int /\ active[u] \in {0, Quiet} \cup 0..Quiet
      BY <1>1 DEF IInv, TypeOK
    <3>2. ~(active[u] < Quiet)
      BY <1>1, <2>3, <3>1, Times DEF FarEnough
    <3>3. QED  BY <3>1, <3>2, Times
  <2>4. QED  BY <2>1, <2>2, <2>3 DEF Spares
<1>2. IInv /\ [Next]_vars =>
        [\A t \in Tabs : ~expired[t] /\ expired'[t] /\ left[t] <= 0 =>
           \A u \in Tabs : bound[u] /\ authed[u] => active[u] \in {0, Quiet}]_vars
  BY <1>1
<1>3. QED  BY <1>2, IdleInvariant, PTL DEF Spec, NoneTimedOutEarly

================================================================================
