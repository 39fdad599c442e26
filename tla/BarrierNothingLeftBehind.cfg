\* A request in flight when the barrier goes up.
CONSTANTS
  Workers = {w1, w2}
  NoWorker = NoWorker
  Requests = {r1, r2}
  Tenants = {t1, t2}
  Subscriptions = {s1}
  MaxAttempts = 2
  MaxFaults = 0
  EraseRepeatable = TRUE
SYMMETRY Symmetry
SPECIFICATION BarrierSpec
INVARIANTS
  NothingLeftBehind
