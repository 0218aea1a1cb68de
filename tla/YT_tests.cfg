CONSTANTS
  c0 = c0
  c1 = c1
  c2 = c2
  Clients = {c0, c1, c2}
  MaxNumOfNode = 3
  Setups <- AllSetups
SPECIFICATION Spec
INVARIANTS TypeOK SameRound NodesServeTheTest RecordCoversTheRound NodesKilled
PROPERTIES EverybodyStops EveryTestIsRun
