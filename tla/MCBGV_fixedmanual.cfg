SPECIFICATION Spec
INVARIANTS
  TowersMatchLevel
  IInv
PROPERTIES
  CallsReturn
CONSTANTS
  t = 3
  Zero = 0
  One = 1
  Zt <- MCZt
  Units <- MCUnits
  ModAdd <- MCModAdd
  ModNeg <- MCModNeg
  ModMul <- MCModMul
  ModInverse <- MCModInverse
  SizeQ = 3
  qModt <- MCqOne
  ScalTech = "FIXEDMANUAL"
  Ciphertexts = {c1, c2}
  EncodeLevels <- AllLevels
  EncodeDegs = {1, 2}
  Aliasing = TRUE
  MaxDeg = 4
  DegMod = 8
  NoCt = NoCt
