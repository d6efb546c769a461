SPECIFICATION SchedSpec
CONSTANTS
  t1 = t1
  t2 = t2
  t3 = t3
  Idle = idle
  Tasks <- MCTasks
  BlockedStates <- MCBlockedStates
  SCHED_PRIORITY_MAX = 3
  MAX_LOCK_COUNT = 2
  DEBUG_ASSERTIONS = TRUE
INVARIANTS
  SchedTypeOK
  ListsConsistent
  IdleAtTheEnd
  PendingOnlyWhileLocked
  PrioritizedListsSorted
  ReadyToRunSorted
  HighestPriorityRuns
  HeadHasCPU
PROPERTIES
  LockKeepsCPU
  StaleOnlyInPlace
