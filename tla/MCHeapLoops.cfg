CONSTANTS
  Total = 4
  BlockSize = 4
  Word = 32
  MaxBlocks = 5
SPECIFICATION Spec
INVARIANT LoopsCompute
PROPERTIES Terminates
