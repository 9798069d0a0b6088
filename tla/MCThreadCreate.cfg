SPECIFICATION FairSpec
CONSTANTS
  Request = {a, b}
  NoOne = NoOne
  Key = {k1}
  NoKey = NoKey
  NumAccounts = 2
  NumSteps = 2
  MaxOps = 1
  MaxFaults = 1
INVARIANTS
  OnePostPerKey
  StepFollowsStep
PROPERTIES
  RequestsEnd
CHECK_DEADLOCK FALSE
