SPECIFICATION FairSpec
CONSTANTS
  NumPosts = 2
  Text = {t1, t2}
  Unread = Unread
  Worker = worker
  Caller = {api}
  Batch = 1
  MaxOps = 2
  MaxFaults = 1
INVARIANTS
  ReasonsAgree
PROPERTIES
  UndecidedIsDecided
  SweepsGoOn
CHECK_DEADLOCK FALSE
