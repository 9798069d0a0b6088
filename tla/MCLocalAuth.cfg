SPECIFICATION Spec
CONSTANTS
  Session = {s1}
  Client = {c1, c2}
  Request = {r1, r2}
  MaxPages = 2
  MaxCodes = 2
  MaxTokens = 3
  MaxFaults = 1
SYMMETRY Symmetry
INVARIANTS
  CodeRedeemedOnce
  OneLine
  GrantIsApproved
  CredentialsOnlyHelp
CHECK_DEADLOCK FALSE
