SPECIFICATION MCSpec
CONSTANTS
  t1 = t1
  t2 = t2
  t3 = t3
  Idle = idle
  IRQ = irq
  NULL = null
  lock = lock
  event = event
  Tasks <- MCTasks
  BlockedStates <- MCBlockedStates
  SCHED_PRIORITY_MAX = 3
  MAX_LOCK_COUNT = 1
  DEBUG_ASSERTIONS = FALSE
  Sems = {lock, event}
  Locks = {lock}
  InitCount <- MCInitCount2
  SEM_VALUE_MAX = 1
  PREALLOCHOLDERS = 2
  NNESTPRIO = 1
  ParamPriorities = {}
  TimedWaiters = {}
  Signalled = {t2}
  Killers = {}
INVARIANTS
  HoldersLive
PROPERTIES
  LocksKeepPromise
