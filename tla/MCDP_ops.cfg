SPECIFICATION Spec
CONSTANTS
  MaxBits = 14
  RingDim = 8
  NTTModuli <- MCModuli
  Q <- MCQ
  P <- MCP
  R <- MCR
  InitialPolynomials <- MCInitial
  Operands <- MCOperands
  AutomorphismIndices = {3, 15}
  Scalars = {40}
  PlaintextModuli = {4, 5}
  DecryptPrecisions <- MCPrecisions
  ScaleFormats = {"EVALUATION"}
  MaxCalls = 3
INVARIANT WellFormed
PROPERTY ImplementsRing
CHECK_DEADLOCK FALSE
