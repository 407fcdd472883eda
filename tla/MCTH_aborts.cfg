SPECIFICATION Spec
CONSTANTS
  Moduli <- ThreeTowers
  Word = 256
  CompressionLevel = 1
  MessageTowers = 1
  Schemes <- ThreeParties
  Secrets = {1, 1000}
  Tapes <- OneTape
  Messages = {2}
  MaxCiphertexts = 2
  MaxAdds = 1
INVARIANTS TypeOK RecoveryExact
PROPERTY ImplementsIdeal
CHECK_DEADLOCK FALSE
