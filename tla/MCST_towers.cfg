SPECIFICATION Spec
CONSTANTS
  A = A
  B = B
  Threads = {t1, t2, t3}
  Master = t1
  Contexts = {A, B}
  Dim <- MCDim
  Towers <- MCTowers
  PlaintextModulus <- MCPlaintextModulus
  CreatedBy = {"generated", "loaded hybrid"}
  UseAfterClear = FALSE
  TeamsWhenStale = FALSE
  TeamsPack = FALSE
INVARIANTS NoDataRace OwnTables DecodeMatchesEncode
PROPERTY RegionsEnd
