SPECIFICATION Spec
SYMMETRY Symmetry
INVARIANTS
  TypeOK
  DecryptCorrect
  ScaleAgreement
  DegreeOneOrTwo
  TowersMatchLevel
  IInv
CONSTANTS
  t = 5
  Zero = 0
  One = 1
  Zt <- MCZt
  Units <- MCUnits
  ModAdd <- MCModAdd
  ModNeg <- MCModNeg
  ModMul <- MCModMul
  ModInverse <- MCModInverse
  SizeQ = 4
  qModt <- MCqModt
  ScalTech = "FLEXIBLEAUTOEXT"
  Ciphertexts = {c1, c2}
  EncodeLevels <- AllButLast
  EncodeDegs = {1, 2}
  Aliasing = FALSE
  MaxDeg = 4
  DegMod = 8
  NoCt = NoCt
