SPECIFICATION Spec
CONSTANTS
  Params = {p1}
  Ctxs = {c1, c2}
  Tags = {1}
  RelinTags = {1}
  Indices = {1, 2}
  MapIds = {1, 2, 3}
  Gens = {0, 1}
  RelinKeys = 2
  KeepReleased = FALSE
  None = None
SYMMETRY Symmetry
INVARIANTS TypeOK OneContextPerTag GrantedKeysStay
PROPERTY KeysNotReplaced
