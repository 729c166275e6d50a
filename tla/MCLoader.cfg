CONSTANTS
  MEM_SIZE = 8
  HEADER = 2
  PHDR = 1
  NoFile = NoFile
  CommandLines <- MCCommandLines
  Lengths = {1, 3, 5, 7}
  Fills <- MCFills
  MAX_TRANSFER = 3
SPECIFICATION Spec
INVARIANTS StartsOnImage ErrorsStop ExitTells
PROPERTY LoadEnds
