\* Two deletion workers and two ordinary requests.
CONSTANTS
  Workers = {w1, w2}
  NoWorker = NoWorker
  Requests = {r1, r2}
  Tenants = {t1, t2}
  Subscriptions = {s1}
  MaxAttempts = 2
  MaxFaults = 0
  EraseRepeatable = FALSE
SYMMETRY Symmetry
SPECIFICATION BarrierSpec
INVARIANTS
  QuietBarrier
