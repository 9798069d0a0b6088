SPECIFICATION Spec
CONSTANTS
  Ident = {m, p}
  Member = m
  Flow = {f}
  Client = {c1, c2}
  NoIdent = NoIdent
  NoFlow = NoFlow
  MaxOps = 5
  MaxFaults = 1
SYMMETRY Symmetry
INVARIANTS CallbackOnce RotatedTokenIsStored PostsHaveAccounts ConnectedIsUsable
CHECK_DEADLOCK FALSE
