CONSTANTS
  BITS = 2
  And <- MCAnd
  Or <- MCOr
  Xor <- MCXor
  FpResult <- MCFpResult
  FpRelation <- MCFpRelation
  Decode <- MCDecode
  Programs <- MCPrograms
  Operands <- MCOperands
  Entries = {0}
  JREGION = 64
  GPU_FLUSH = 192
  GPU_INPUT = 196
  Keys = {}
  Ints = {}
  Inputs = {}
  CACHE_SIZE = 4
  MAX_BLOCK = 20
  RESERVE = 451
  CODE_CAP = 2000
SPECIFICATION JitSpec
PROPERTY ImplementsInterpreter
