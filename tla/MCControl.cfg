CONSTANTS
  BITS = 1
  And <- MCAnd
  Or <- MCOr
  Xor <- MCXor
  FpResult <- MCFpResult
  FpRelation <- MCFpRelation
  Decode <- MCDecode
  Programs <- MCPrograms
  Entries = {0, 4}
  JREGION = 8
  GPU_FLUSH = 8
  GPU_INPUT = 12
  Keys = {}
  Ints = {}
  Inputs = {}
SPECIFICATION Spec
INVARIANTS TypeOK ZeroRegister
PROPERTY DelaySlotSpec
