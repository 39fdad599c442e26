\* Two users of one session id, two web threads, one code; clocks off by one.
CONSTANTS
  Sessions = {s1}
  Users = {u1, u2}
  NoUser = NoUser
  Codes = {c1}
  Requests = {r1, r2}
  NoRequest = NoRequest
  TTL = 7
  TouchInterval = 1
  Skew = 1
  MaxClock = 6
SYMMETRY Symmetry
SPECIFICATION Spec
INVARIANTS
  LiveWhileUsed
  RevokedServesNothing
  CodeSpentOnce
  IInv
