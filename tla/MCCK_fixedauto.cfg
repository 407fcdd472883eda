SPECIFICATION Spec
SYMMETRY Symmetry
INVARIANTS
  DecodesRight
CONSTANTS
  P = 101
  Zero = 0
  One = 1
  Factors <- MCFactors
  Times <- MCTimes
  Over <- MCOver
  Techniques = {"FIXEDAUTO"}
  SizeQ = 6
  moduliQ <- MCmoduliQ
  TwoToP = 95
  CompositeDegree = 2
  FirstRoom = 1
  EncodeLevels <- AllLevels
  Ciphertexts = {c1, c2}
  MaxDeg = 4
  NoCt = NoCt
