CONSTANTS
  c0 = c0
  c1 = c1
  c2 = c2
  Clients = {c0, c1}
  MaxNumOfNode = 3
  Setups <- UnequalSetups
SPECIFICATION Spec
PROPERTIES EverybodyStops
CHECK_DEADLOCK FALSE
