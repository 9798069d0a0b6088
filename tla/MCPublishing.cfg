SPECIFICATION Spec
CONSTANTS
  Post = {p1, p2}
  NoPost = NoPost
  MaxAttempts = 2
  ClaimLimit = 2
  MaxFaults = 1
  MaxSteps = 2
  MaxOps = 3
SYMMETRY Symmetry
INVARIANTS
  FailedHasDeadLetter
  CopiesAccounted
  PublishedAsWritten
PROPERTIES
  PublishedIsFinal
  OnlyOutcomeSettles
