CONSTANTS
  Threads = {t1, t2, t3}
  Counts <- MCCounts
  NeedCounts <- MCNeedCounts
  SignalCounts <- MCSignalCounts
  CancelCounts <- MCCancelCounts
  Priorities <- MCPriorities
  CountFloor <- MCCountFloor
SPECIFICATION Spec
INVARIANTS NoLostWakeup UnitsConserved CancelTally
PROPERTIES NoPriorityInversion DeletionEnds
CHECK_DEADLOCK FALSE
