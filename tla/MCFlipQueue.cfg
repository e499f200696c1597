CONSTANTS
  Submitters = {app}
  Controllers = {owner}
  Indices = {"buffer"}
  Special = {}
  Capacity = 2
  Pool = 1
  Rates = {1}
  Cycle = 2
  ReqMax = 3
  GenMax = 3
SPECIFICATION Spec
INVARIANTS QueueStaysConsistent StatusExact FramesAccounted
PROPERTIES ImplementsFlipService WorkDrains
CHECK_DEADLOCK FALSE
