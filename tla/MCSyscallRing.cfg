CONSTANTS
  t1 = t1
  t2 = t2
  Tasks <- MCTasks
  None = None
  Kernel = Kernel
  MAXIMUM_NUMBER_OF_SYSCALLS = 2
  Numbers <- MCNumbers
  Values <- MCValues
  Junk = Junk
  KernelStack = KernelStack
  Masters <- MCMasters
  Slaves <- MCSlaves
  Exceptions <- MCExceptions
SPECIFICATION Spec
INVARIANT ArgsOfCaller
CHECK_DEADLOCK FALSE
