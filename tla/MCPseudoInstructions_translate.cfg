SPECIFICATION Spec
CONSTANTS
  ByteBits = 1
  Registers <- FiveRegisters
  FloatRegisters <- FourRegisters
  Conditions <- TwoFlags
  Memory <- TwoWords
  AndBits <- BitwiseAnd
  OrBits <- BitwiseOr
  XorBits <- BitwiseXor
  Lines <- AllLines
  Builds <- AllBuilds
  Values <- Boundaries
  Memories <- TwoContents
INVARIANTS
  TypeOK
  MeansWhatItSays
CHECK_DEADLOCK FALSE
