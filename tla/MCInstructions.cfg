CONSTANTS
  BITS = 2
  And <- MCAnd
  Or <- MCOr
  Xor <- MCXor
  FpResult <- MCFpResult
  FpRelation <- MCFpRelation
  Decode <- AllDecode
  Programs <- AllPrograms
  Operands <- MCOperands
  FewOperands <- MCFewOperands
  Sources <- MCSources
  Targets <- MCTargets
  Services <- MCServiceNumbers
  Addresses <- MCAddresses
  Lengths <- MCLengths
  MaxInput = 2
  Frames = 4
  Entries = {0}
  JREGION = 64
  GPU_FLUSH = 192
  GPU_INPUT = 196
  Keys = {0, 2, 3}
  Ints = {1, 255}
  Inputs <- MCInputs
SPECIFICATION Spec
INVARIANTS FpuPairs FpuBranches InputIsKey
PROPERTIES DivisionRebuilds ProductInPair LeadingCounts OverflowFlag ArithmeticShift
  BytesInPlace StoreFootprint ServiceFootprint NoStaleTail ReadReportsLength
