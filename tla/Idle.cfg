\* Two tabs.  The times are in the order of the real ones: the throttles are
\* shorter than the idle time, and their sum leaves some of it.  One run of
\* logout() waits at a time in each tab.
CONSTANTS
  Tabs = {t1, t2}
  IdleTime = 3
  WarningLead = 1
  Throttle = 1
  TabThrottle = 2
  Late = 1
  Logouts = 1
SPECIFICATION Spec
PROPERTIES
  NoneTimedOutEarly
  IdleSessionEnds
