------------------------------- MODULE BrowserIdle -------------------------------
(***************************************************************************)
(* The idle session of the Angular app: SessionIdleService and             *)
(* SessionStateService of src/app/services, one of each in every tab.  A   *)
(* tab warns and then signs out when nobody touches it; touching one tab   *)
(* prolongs the others, and signing out of one signs out the others.       *)
(*                                                                         *)
(* Tabs share a BroadcastChannel, localStorage and Firebase's persisted    *)
(* user, and nothing else: what one does reaches the others as messages.   *)
(* An event handler runs to its end, the continuation of the warning       *)
(* included, which is a microtask; only logout() waits for the network.  A *)
(* timer fires when it is due or later: browsers throttle the timers of    *)
(* hidden tabs, and a laptop sleeps.                                       *)
(*                                                                         *)
(* Times are kept as what is left or what has passed, up to where it no    *)
(* longer matters, so that no bound on the clock is needed.                *)
(***************************************************************************)
EXTENDS Integers

CONSTANTS
  Tabs,
  IdleTime,       \* idleMs
  WarningLead,    \* warningLeadMs
  Throttle,       \* activityThrottleMs
  TabThrottle,    \* crossTabThrottleMs
  Late,           \* BOUND: ticks by which a timer may be late
  Logouts         \* BOUND: runs of logout() that wait at once in a tab

ASSUME TimesAssumption ==
  /\ {IdleTime, Throttle, TabThrottle} \subseteq Nat \ {0}
  /\ WarningLead \in 1..(IdleTime - 1) /\ Late \in Nat /\ Logouts \in Nat \ {0}

VARIABLES
  \* AuthService, as the idle session sees it.
  authed,    \* isAuthenticated()
  leaving,   \* runs of logout() that wait for the network
  status,    \* localStorage has deml_auth_status
  \* SessionStateService.
  tracked,   \* previousAuthState
  inbox,    \* messages not handled yet
  \* SessionIdleService.
  bound,     \* the listeners are bound
  left,      \* time to logoutAt, Off without a deadline
  timers,    \* those that are set: "warn", "logout"
  warning,   \* warningOpen
  expired,
  handled,   \* time since lastActivityHandledAt
  sent,      \* time since lastCrossTabBroadcastAt
  active     \* HISTORY: time since somebody used the tab

auth == <<authed, leaving, status>>
clocks == <<handled, sent, active>>
idle == <<bound, left, timers, warning, expired>>
vars == <<auth, tracked, inbox, idle, clocks>>

Off == IdleTime + 1

(* What the two throttles leave of the idle time.                          *)
Quiet == IdleTime - TabThrottle - Throttle + 2

Capped(n, cap) == IF n < cap THEN n ELSE cap

-----------------------------------------------------------------------------
(* What the tabs tell each other.                                          *)

Post(messages, t) ==
  inbox' = [u \in Tabs |-> IF u = t THEN inbox[u] ELSE inbox[u] \cup messages]

(* extend and logout are sent by postSessionMessage, over the channel and  *)
(* once more over localStorage: one message here, for the second "extend"  *)
(* finds the tab just prolonged, and the second "logout" starts what       *)
(* "status" starts.  What comes back to the tab itself is ignored.         *)
(* status: deml_auth_status was there and has been removed.  signedOut:    *)
(* Firebase has no user any more.                                          *)
Messages == {"extend", "logout", "status", "signedOut"}

Forgets == IF status THEN {"status"} ELSE {}

-----------------------------------------------------------------------------
(* The deadline.  Arm and StopTimers are the effect of armIdleTimers and   *)
(* stop() on one tab.                                                      *)

Arm(t) ==
  /\ left' = [left EXCEPT ![t] = IdleTime]
  /\ timers' = [timers EXCEPT ![t] = {"warn", "logout"}]

Start(t) ==
  /\ Arm(t)
  /\ expired' = [expired EXCEPT ![t] = FALSE]
  /\ warning' = [warning EXCEPT ![t] = FALSE]
  /\ bound' = [bound EXCEPT ![t] = TRUE]

Stop(t) ==
  /\ left' = [left EXCEPT ![t] = Off]
  /\ timers' = [timers EXCEPT ![t] = {}]
  /\ expired' = [expired EXCEPT ![t] = FALSE]
  /\ warning' = [warning EXCEPT ![t] = FALSE]
  /\ bound' = [bound EXCEPT ![t] = FALSE]

(* Beyond the bound, a run is one with a run that waits already.           *)
BeginLogout(t) == leaving' = [leaving EXCEPT ![t] = Capped(@ + 1, Logouts)]

(* expireSession: the others are told first, then logout() is called.      *)
Expire(t) ==
  /\ ~expired[t]
  /\ expired' = [expired EXCEPT ![t] = TRUE]
  /\ timers' = [timers EXCEPT ![t] = {}]
  /\ warning' = [warning EXCEPT ![t] = FALSE]
  /\ Post({"logout"}, t)
  /\ BeginLogout(t)
  /\ UNCHANGED <<authed, status, tracked, bound, left, clocks>>

(* showWarning; pending are the timers still set.                          *)
ShowWarning(t, pending) ==
  /\ ~warning[t] /\ ~expired[t] /\ authed[t]
  /\ \/ left[t] <= 0 /\ Expire(t)
     \/ /\ left[t] > 0
        /\ warning' = [warning EXCEPT ![t] = TRUE]
        /\ timers' = [timers EXCEPT ![t] = pending]
        /\ UNCHANGED <<auth, tracked, inbox, bound, left, expired, clocks>>

WarnTimer(t) ==
  /\ "warn" \in timers[t] /\ left[t] <= WarningLead
  /\ \/ ShowWarning(t, timers[t] \ {"warn"})
     \/ /\ warning[t] \/ expired[t] \/ ~authed[t]
        /\ timers' = [timers EXCEPT ![t] = @ \ {"warn"}]
        /\ UNCHANGED <<auth, tracked, inbox, bound, left, warning, expired, clocks>>

LogoutTimer(t) == "logout" \in timers[t] /\ left[t] <= 0 /\ Expire(t)

(* reconcileDeadline: the tab becomes visible.                             *)
Visible(t) ==
  /\ bound[t] /\ authed[t] /\ ~expired[t] /\ left[t] # Off
  /\ \/ left[t] <= 0 /\ Expire(t)
     \/ left[t] \in 1..WarningLead /\ ShowWarning(t, timers[t])

-----------------------------------------------------------------------------
(* The user.                                                               *)

(* Mutant: the throttle starts anew with every activity.                   *)
ActivityStarves(t) ==
  /\ bound[t] /\ authed[t] /\ ~expired[t] /\ ~warning[t]
  /\ active' = [active EXCEPT ![t] = 0]
  /\ UNCHANGED <<auth, tracked, bound, warning, expired>>
  /\ IF handled[t] < Throttle
     THEN UNCHANGED <<left, timers, handled, sent, inbox>>
     ELSE /\ Arm(t)
          /\ handled' = [handled EXCEPT ![t] = 0]
          /\ sent' = [sent EXCEPT ![t] = 0]
          /\ IF sent[t] >= TabThrottle THEN Post({"extend"}, t) ELSE UNCHANGED inbox

(* onActivity: a pointer, a key, a scroll, the focus.  Nothing asks if the *)
(* deadline has passed already.                                            *)
Activity(t) ==
  /\ bound[t] /\ authed[t] /\ ~expired[t] /\ ~warning[t]
  /\ active' = [active EXCEPT ![t] = 0]
  /\ UNCHANGED <<auth, tracked, bound, warning, expired>>
  /\ IF handled[t] < Throttle
     THEN UNCHANGED <<left, timers, handled, sent, inbox>>
     ELSE /\ Arm(t)
          /\ handled' = [handled EXCEPT ![t] = 0]
          /\ IF sent[t] >= TabThrottle
             THEN sent' = [sent EXCEPT ![t] = 0] /\ Post({"extend"}, t)
             ELSE UNCHANGED <<sent, inbox>>

(* "Continue session"                                                      *)
Stay(t) ==
  /\ warning[t]
  /\ warning' = [warning EXCEPT ![t] = FALSE]
  /\ IF authed[t] THEN Arm(t) ELSE UNCHANGED <<left, timers>>
  /\ active' = [active EXCEPT ![t] = 0]
  /\ Post({"extend"}, t)
  /\ UNCHANGED <<auth, tracked, bound, expired, handled, sent>>

(* "Sign out now", Escape, or another dialog in its place.                 *)
SignOutNow(t) == warning[t] /\ Expire(t)

(* The navbar's Log out, or a 401 answered to a product request.           *)
LogOut(t) ==
  /\ authed[t] /\ leaving[t] = 0
  /\ BeginLogout(t)
  /\ UNCHANGED <<authed, status, tracked, inbox, idle, clocks>>

(* What changes isAuthenticated and what other tabs say comes over the     *)
(* network or from another process.  The effect of SessionStateService     *)
(* does not, and is faster; a timer or the user may come before it.        *)
Followed(t) == tracked[t] = authed[t]

(* A sign-in has come through, here or, by Firebase's persisted user, in   *)
(* another tab.                                                            *)
SignIn(t) ==
  /\ ~authed[t] /\ Followed(t)
  /\ authed' = [authed EXCEPT ![t] = TRUE]
  /\ status' = TRUE
  /\ UNCHANGED <<leaving, tracked, inbox, idle, clocks>>

-----------------------------------------------------------------------------
(* The machine.                                                            *)

(* syncAuthState, run by an effect on isAuthenticated.                     *)
SyncAuthState(t) ==
  /\ ~Followed(t)
  /\ tracked' = [tracked EXCEPT ![t] = authed[t]]
  /\ IF authed[t] THEN Start(t) ELSE Stop(t)
  /\ UNCHANGED <<auth, inbox, clocks>>

(* logout() is done waiting: signed out here, and soon in the other tabs.  *)
LogoutDone(t) ==
  /\ leaving[t] > 0 /\ Followed(t)
  /\ leaving' = [leaving EXCEPT ![t] = @ - 1]
  /\ authed' = [authed EXCEPT ![t] = FALSE]
  /\ status' = FALSE
  /\ Post({"signedOut"} \cup Forgets, t)
  /\ UNCHANGED <<tracked, idle, clocks>>

Heard(t, m) == inbox' = [inbox EXCEPT ![t] = @ \ {m}]

(* Mutant: the tab passes the extension on.                                *)
ReceiveExtendEchoes(t) ==
  /\ Followed(t) /\ "extend" \in inbox[t]
  /\ inbox' = [u \in Tabs |-> IF u = t THEN inbox[u] \ {"extend"}
                                       ELSE inbox[u] \cup {"extend"}]
  /\ IF authed[t] /\ ~expired[t]
     THEN Arm(t) /\ warning' = [warning EXCEPT ![t] = FALSE]
     ELSE UNCHANGED <<left, timers, warning>>
  /\ UNCHANGED <<auth, tracked, bound, expired, clocks>>

(* syncExtendedSession: an open warning is closed as if the user stayed,   *)
(* but the news goes no further.                                           *)
ReceiveExtend(t) ==
  /\ Followed(t) /\ "extend" \in inbox[t] /\ Heard(t, "extend")
  /\ IF authed[t] /\ ~expired[t]
     THEN Arm(t) /\ warning' = [warning EXCEPT ![t] = FALSE]
     ELSE UNCHANGED <<left, timers, warning>>
  /\ UNCHANGED <<auth, tracked, bound, expired, clocks>>

(* handleMessage, onStorage: forceLocalLogout.                             *)
ReceiveLogout(t) ==
  /\ Followed(t)
  /\ \E m \in inbox[t] \cap {"logout", "status"} : Heard(t, m)
  /\ IF authed[t] THEN Stop(t) /\ BeginLogout(t) ELSE UNCHANGED <<idle, leaving>>
  /\ UNCHANGED <<authed, status, tracked, clocks>>

(* onAuthStateChanged(null).                                               *)
ReceiveSignedOut(t) ==
  /\ Followed(t) /\ "signedOut" \in inbox[t]
  /\ inbox' = [u \in Tabs |-> IF u = t THEN inbox[u] \ {"signedOut"}
                                       ELSE inbox[u] \cup Forgets]
  /\ authed' = [authed EXCEPT ![t] = FALSE]
  /\ status' = FALSE
  /\ UNCHANGED <<leaving, tracked, idle, clocks>>

(* Timers are late by Late at most; messages and effects take no time.     *)
OnTime(t) ==
  /\ inbox[t] = {} /\ Followed(t)
  /\ "warn" \in timers[t] => left[t] > WarningLead - Late
  /\ "logout" \in timers[t] => left[t] > -Late

Tick ==
  /\ \A t \in Tabs : OnTime(t)
  /\ left' = [t \in Tabs |-> IF left[t] = Off THEN Off
                             ELSE IF left[t] > -Late THEN left[t] - 1 ELSE left[t]]
  /\ handled' = [t \in Tabs |-> Capped(handled[t] + 1, Throttle)]
  /\ sent' = [t \in Tabs |-> Capped(sent[t] + 1, TabThrottle)]
  /\ active' = [t \in Tabs |-> Capped(active[t] + 1, Quiet)]
  /\ UNCHANGED <<auth, tracked, inbox, bound, timers, warning, expired>>

-----------------------------------------------------------------------------
Init ==
  /\ authed = [t \in Tabs |-> FALSE] /\ leaving = [t \in Tabs |-> 0] /\ status = FALSE
  /\ tracked = [t \in Tabs |-> FALSE] /\ inbox = [t \in Tabs |-> {}]
  /\ bound = [t \in Tabs |-> FALSE] /\ left = [t \in Tabs |-> Off]
  /\ timers = [t \in Tabs |-> {}]
  /\ warning = [t \in Tabs |-> FALSE] /\ expired = [t \in Tabs |-> FALSE]
  /\ handled = [t \in Tabs |-> Throttle] /\ sent = [t \in Tabs |-> TabThrottle]
  /\ active = [t \in Tabs |-> Quiet]

(* What happens by itself, and what the user does.                         *)
Runs(t) ==
  \/ WarnTimer(t) \/ LogoutTimer(t) \/ SyncAuthState(t)
  \/ ReceiveExtend(t) \/ ReceiveLogout(t) \/ ReceiveSignedOut(t)

Uses(t) ==
  \/ Activity(t) \/ Stay(t) \/ SignOutNow(t) \/ LogOut(t) \/ SignIn(t) \/ Visible(t)

Next == Tick \/ \E t \in Tabs : Runs(t) \/ LogoutDone(t) \/ Uses(t)

(* The event loop turns, time passes, and the requests of logout() have    *)
(* timeouts.  Nobody needs to use a tab.                                   *)
Spec ==
  /\ Init /\ [][Next]_vars
  /\ WF_vars(Tick)
  /\ \A t \in Tabs : WF_vars(Runs(t)) /\ WF_vars(LogoutDone(t))

-----------------------------------------------------------------------------
(* Properties.                                                             *)

TypeOK ==
  /\ authed \in [Tabs -> BOOLEAN] /\ leaving \in [Tabs -> 0..Logouts] /\ status \in BOOLEAN
  /\ tracked \in [Tabs -> BOOLEAN]
  /\ inbox \in [Tabs -> SUBSET Messages]
  /\ bound \in [Tabs -> BOOLEAN] /\ left \in [Tabs -> (-Late)..Off]
  /\ timers \in [Tabs -> SUBSET {"warn", "logout"}]
  /\ warning \in [Tabs -> BOOLEAN] /\ expired \in [Tabs -> BOOLEAN]
  /\ handled \in [Tabs -> 0..Throttle] /\ sent \in [Tabs -> 0..TabThrottle]
  /\ active \in [Tabs -> {0, Quiet} \cup 0..Quiet]

(* The session runs out in one tab, and with it in all, only if each tab   *)
(* in use has been left alone for the idle time less the two throttles;    *)
(* only news that is still on its way to the tab may come too late.        *)
NoneTimedOutEarly ==
  [][\A t \in Tabs : ~expired[t] /\ expired'[t] /\ left[t] <= 0 =>
       \A u \in Tabs : bound[u] /\ authed[u] =>
         active[u] \in {0, Quiet}]_vars

(* Once nobody uses a tab any more, every tab is signed out, and again      *)
(* after every sign-in.                                                    *)
IdleSessionEnds ==
  <>[][\A t \in Tabs : ~Activity(t) /\ ~Stay(t)]_vars =>
    \A t \in Tabs : []<>~authed[t]
=============================================================================
