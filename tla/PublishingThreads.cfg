SPECIFICATION Spec
CONSTANTS
  Post = {p1, p2, p3}
  NoPost = NoPost
  MaxAttempts = 1
  ClaimLimit = 2
  MaxFaults = 1
  MaxSteps = 3
  MaxOps = 2
SYMMETRY Symmetry
INVARIANTS
  IInv
  ThreadInOrder
