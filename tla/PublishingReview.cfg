SPECIFICATION Spec
CONSTANTS
  Post = {p1}
  NoPost = NoPost
  MaxAttempts = 1
  ClaimLimit = 1
  MaxFaults = 0
  MaxSteps = 1
  MaxOps = 3
PROPERTIES
  ReviewIsNeverClaimed
