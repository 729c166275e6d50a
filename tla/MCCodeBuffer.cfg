CONSTANTS
  BITS = 2
  And <- MCAnd
  Or <- MCOr
  Xor <- MCXor
  FpResult <- MCFpResult
  FpRelation <- MCFpRelation
  Decode <- MCDecode
  Programs <- MCPrograms
  Entries = {0}
  JREGION = 64
  GPU_FLUSH = 192
  GPU_INPUT = 196
  Keys = {}
  Ints = {}
  Inputs = {}
  CACHE_SIZE = 16
  MAX_BLOCK = 32
  RESERVE = 256
  CODE_CAP = 700
SPECIFICATION JitSpec
INVARIANT CursorInside
