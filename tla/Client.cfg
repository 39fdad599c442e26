\* Two coroutines, two classes of routes; two failures open a circuit for two
\* ticks and reads have two attempts.
CONSTANTS
  Callers = {p1, p2}
  Classes = {status, default}
  NoClass = NoClass
  FailureThreshold = 2
  Cooldown = 2
  ReadAttempts = 2
SPECIFICATION ClientSpec
INVARIANTS
  OpensOnlyOnFailures
PROPERTIES
  CircuitCloses
  KeepsPromise
