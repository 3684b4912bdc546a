CONSTANTS
  MaxAddr = 16
  Tasks <- MCTasks
  None = None
  Kernel = Kernel
  MAX_PROCESSES = 2
  MAX_FILE_DESCRIPTORS = 5
  NullFrees = TRUE
SPECIFICATION Spec
INVARIANT FilesystemMemoryKept
