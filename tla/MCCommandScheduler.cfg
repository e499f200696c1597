CONSTANTS
  Owner = Owner  Runner = Runner
  Others = {u1}
  BufferCount = 2
  TickMax = 3
  OpMax = 2
SPECIFICATION Spec
INVARIANTS RunsAfterItsWork ClosedLeavesNothing
PROPERTIES WaitCoversEarlier PriorityOperationRuns
CHECK_DEADLOCK FALSE
