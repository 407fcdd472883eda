SPECIFICATION Spec
CONSTANTS
  N = 256
  q = 256
  Q = 114689
  Beta = 8
  BaseR = 23
  NumAutoKeys = 10
  LargeMod = 8192
  SmallMod = 256
  MediumMod = 4096
  Secrets <- SmallSecrets
  Masks <- FreshMasks
  BootMasks <- ResultMasks
  Noise <- SmallNoise
  BootNoise <- SmallNoise
  LargeMessages <- SomeLarge
  FuncMessages <- SomeInputs
  Functions <- SomeFunctions
  Contexts <- AllContexts
  Threads = {t1}
  Rekeys = FALSE
  LargeDim = FALSE
INVARIANTS TypeOK DecryptsRight KeysMatchBase GadgetRecomposes
