CONSTANTS
  k1 = k1
  k2 = k2
  n1 = n1
  n2 = n2
  Threads = {t1, t2}
  Keys = {k1, k2}
  Values = {v1}
  Nodes = {n1, n2}
  Successor <- Ring
  UserMode = TRUE
  AnswersDos = TRUE
  AttrCacheSize = 1
  MaxLate = 1
  NoValue = NoValue
  NoNode = NoNode
  NoList = NoList
SPECIFICATION Spec
SYMMETRY Symmetry
INVARIANTS TypeOK ListAtHome
PROPERTIES KeepsStorePromise
