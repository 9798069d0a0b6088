SPECIFICATION Spec
CONSTANTS
  Account = {a1, a2}
  Campaign = {c1}
  Text = {t1, t2}
  Request = {r1, r2}
  NoCampaign = NoCampaign
  NumPosts = 3
  NumDrafts = 2
  MaxSlot = 2
  Apart = 0
  Recent = 1
  MaxOps = 2
  MaxFaults = 1
SYMMETRY Symmetry
INVARIANTS TypeOK SlotsApart DraftsOnce
PROPERTIES ArchiveHolds
CHECK_DEADLOCK FALSE
