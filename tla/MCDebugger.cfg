CONSTANTS
  BITS = 1
  And <- MCAnd
  Or <- MCOr
  Xor <- MCXor
  FpResult <- MCFpResult
  FpRelation <- MCFpRelation
  Decode <- MCDecode
  Programs <- MCPrograms
  Entries = {0}
  JREGION = 8
  GPU_FLUSH = 8
  GPU_INPUT = 12
  Keys = {}
  Ints = {}
  Inputs = {}
  MAX_BREAKPOINTS = 2
  BreakAddresses = {0, 4, 8}
  StepCounts <- MCStepCounts
SPECIFICATION DebugSpec
INVARIANT DebugTypeOK
PROPERTIES ImplementsBreakpoints ImplementsCpu StepReturns
