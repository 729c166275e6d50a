CONSTANTS
  VEC_FIRST = 1
  BLOCK = 3
  MAX_KEYS = 6
SPECIFICATION Spec
INVARIANTS InputOnce CommandIsLine
PROPERTY LineComes
