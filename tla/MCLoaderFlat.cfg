CONSTANTS
  MEM_SIZE = 8
  HEADER = 2
  PHDR = 1
  NoFile = NoFile
  CommandLines <- MCCommandLines
  Lengths = {1, 3, 5, 7}
  Fills <- MCFreshHeap
  MAX_TRANSFER = 3
SPECIFICATION Spec
INVARIANT FlatBinariesLoad
