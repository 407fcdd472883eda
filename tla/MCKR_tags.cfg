SPECIFICATION Spec
CONSTANTS
  Params = {p1}
  Ctxs = {c1, c2}
  Tags = {1, 2}
  RelinTags = {}
  Indices = {1}
  MapIds = {1, 2, 3}
  Gens = {0}
  RelinKeys = 1
  KeepReleased = TRUE
  None = None
SYMMETRY Symmetry
INVARIANTS KeysBelongToTag IInv
