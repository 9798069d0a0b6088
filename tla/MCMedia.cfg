SPECIFICATION Spec
CONSTANTS
  Media = {m1, m2}
  Post = {p1, p2}
  Request = {r1, r2}
  None = None
  MaxFaults = 1
SYMMETRY Symmetry
INVARIANTS FilesMatchRows UsesAreKept PurgeAgrees
CHECK_DEADLOCK FALSE
