SPECIFICATION ProcFairSpec
CONSTANTS
  MAX_TASKS = 2
  MAX_USER_TASKS = 1
  PRIO_LEVELS = 1
  PRIO_NORMAL = 0
  SubmitPrios = {0}
  Quantum <- MCQuantum
  CR3s = {7, 8}
  MASTER_CR3 = 1
  WindowPages = 7
  PtSpan = 4
  ELF_STACK_PAGES = 1
  PageSize = 2
  VMM_MAX_PAGES = 10
  MaxStacks = 3
  SegPages = {0, 1, 5}
  Increments = {0, 1, 3}
INVARIANTS ShellWaits MemorySound PromptHoldsNothing
PROPERTIES KeepsItsPages ShellReturns
