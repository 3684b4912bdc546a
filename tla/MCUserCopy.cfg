CONSTANTS
  Tables = 2
  Pages = 3
  PageSize = 4
  Program = 4
  KernelPages <- MCKernelPages
  HeapPages <- MCHeapPages
  Byte <- MCByte
  Cap = 2
  UserPtrs <- MCUserPtrs
  CopySizes <- MCCopySizes
SPECIFICATION Spec
INVARIANTS LeavesNoTrace KernelStaysMapped ExactCopy
PROPERTIES ProgramUntouched
