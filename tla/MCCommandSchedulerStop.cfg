CONSTANTS
  Owner = Owner  Runner = Runner
  Others = {}
  BufferCount = 2
  TickMax = 1
  OpMax = 1
SPECIFICATION Spec
PROPERTIES ShutdownFinishes
CHECK_DEADLOCK FALSE
