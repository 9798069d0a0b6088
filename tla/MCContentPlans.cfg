SPECIFICATION FairSpec
CONSTANTS
  Plan = {p1, p2}
  NoPlan = NoPlan
  NumItems = 1
  NumVariants = 2
  Copy = {c1}
  Blank = Blank
  Client = {a}
  MaxOps = 3
  MaxFaults = 1
INVARIANTS
  WaitsForAJob
  CanceledIsIdle
PROPERTIES
  WorkerKeepsCancel
  GenerationEnds
CHECK_DEADLOCK FALSE
