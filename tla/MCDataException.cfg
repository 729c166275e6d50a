CONSTANTS
  BITS = 2
  And <- MCAnd
  Or <- MCOr
  Xor <- MCXor
  FpResult <- MCFpResult
  FpRelation <- MCFpRelation
  Decode <- MCDecode
  Programs <- MCPrograms
  Operands <- MCOperands
  FewOperands <- MCFewOperands
  Sources <- MCSources
  Targets <- MCTargets
  Entries = {0}
  JREGION = 64
  GPU_FLUSH = 192
  GPU_INPUT = 196
  Keys = {}
  Ints = {}
  Inputs = {}
SPECIFICATION Spec
INVARIANT NoRealException
