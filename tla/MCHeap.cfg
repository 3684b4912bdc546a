CONSTANTS
  Total = 5
  BlockSize = 4
  Word = 32
  Sizes <- MCSizes
SPECIFICATION Spec
INVARIANTS HeapInv NoOverlap ServedInFull
PROPERTIES HeldRunsUntouched AllocatorSpec
