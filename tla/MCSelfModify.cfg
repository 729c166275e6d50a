CONSTANTS
  BITS = 1
  And <- MCAnd
  Or <- MCOr
  Xor <- MCXor
  FpResult <- MCFpResult
  FpRelation <- MCFpRelation
  Decode <- MCDecode
  Programs <- MCPrograms
  Entries = {0}
  JREGION = 8
  GPU_FLUSH = 8
  GPU_INPUT = 12
  Keys = {}
  Ints = {}
  Inputs = {}
  CACHE_SIZE = 2
  MAX_BLOCK = 2
  RESERVE = 40
  CODE_CAP = 100
SPECIFICATION JitSpec
INVARIANT JitTypeOK
PROPERTY StaleByStore
