SPECIFICATION FairSpec
CONSTANTS
  MAX_TASKS = 3
  MAX_USER_TASKS = 2
  PRIO_LEVELS = 2
  PRIO_NORMAL = 1
  SubmitPrios = {0, 1}
  Quantum <- MCQuantum
  CR3s = {7}
  MASTER_CR3 = 1
  MaxStacks = 4
INVARIANTS
  TaskPlacement
  ContextIsCurrent
  PendingSwitchWindow
  TimesliceLive
PROPERTIES
  SwitchesRight
  ReadyRuns
