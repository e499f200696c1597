CONSTANTS
  Submitters = {app}
  Controllers = {owner}
  Indices = {"buffer"}
  Special = {}
  Capacity = 1
  Pool = 1
  Rates = {1}
  Cycle = 2
  ReqMax = 1
  GenMax = 3
SPECIFICATION Spec
INVARIANTS PortReopens
CHECK_DEADLOCK FALSE
