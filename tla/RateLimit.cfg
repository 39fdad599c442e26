\* Two requests with scopes in common, replicas whose clocks disagree, a purge.
CONSTANTS
  r1 = r1
  r2 = r2
  Requests = {r1, r2}
  Scopes = {1, 2, 3}
  ScopesOf <- Overlapping
  NoRequest = NoRequest
  Purger = Purger
  Capacity = 1
  Minute = 2
  MaxAge = 4
  Skew = 1
  MaxClock = 2
SPECIFICATION Spec
INVARIANTS
  RateBound
  NoTokenLost
  IInv
  NoRequestCircle
