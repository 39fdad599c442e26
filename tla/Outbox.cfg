\* A web thread and a reconciler, two tenants, two submissions of one id;
\* deliveries may fail for ever, crashes stop.
CONSTANTS
  WebThreads = {w1}
  Reconcilers = {r1}
  Submissions = {s1, s2}
  Nothing = Nothing
  Unnamed = Unnamed
  Tenants = {t1, t2}
  MaxAttempts = 2
  MaxCrashes = 2
SPECIFICATION FairSpec
INVARIANTS
  OneDocument
  DeliveredIsTrue
  AnswerIsHonest
  PendingHasAttemptsLeft
  NoReportSurvivesDeletion
PROPERTIES
  SettledIsFinal
  PendingSettles
