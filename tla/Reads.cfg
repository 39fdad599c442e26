\* Two sites, one of which can be deleted while the other is saved, and two
\* reads: one under way across a logout, and one after it.
CONSTANTS
  Sites = {s1, s2}
  Reads = {r1, r2}
  Versions = 2
  Writes = 2
SPECIFICATION Spec
SYMMETRY Symmetric
CHECK_DEADLOCK FALSE
INVARIANTS
  HonestEmpty
  ReadYourWrites
