CONSTANTS
  BITS = 1
  And <- MCAnd
  Or <- MCOr
  Xor <- MCXor
  FpResult <- MCFpResult
  FpRelation <- MCFpRelation
  Decode <- MCDecode
  Programs <- MCPrograms
  CodeWords = 3
  Entries = {0}
  JREGION = 8
  GPU_FLUSH = 8
  GPU_INPUT = 12
  Keys = {}
  Ints = {}
  Inputs = {}
  CACHE_SIZE = 2
  MAX_BLOCK = 2
  RESERVE = 73
  CODE_CAP = 170
SPECIFICATION JitSpec
INVARIANTS CacheCoherent CursorInside NoBlockInDelaySlot
PROPERTIES ImplementsInterpreter DispatcherReturns
