CONSTANTS
  MaxAddr = 16
  Tasks <- MCTasks
  None = None
  Kernel = Kernel
  MAX_PROCESSES = 2
  MAX_FILE_DESCRIPTORS = 5
  NullFrees = FALSE
SPECIFICATION Spec
INVARIANTS OneOwner TasksMatch LossPerLoad
PROPERTIES SlotsAreKept
