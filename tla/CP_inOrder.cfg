CONSTANTS
  Threads = {t1, t2}
  Bindings = {b1, b2}
  Packages = {p1, p2}
  Builds = {"enclave", "plain"}
  InOrder = TRUE
  NullPtr = NullPtr
  Addrs = {1, 2}
  FirstAddr = 1
  LastAddrs = {0, 1, 2}
  Conns = {c1, c2, c3}
  NoAddr = NoAddr
  NoConn = NoConn
SPECIFICATION PoolSpec
SYMMETRY Symmetry
INVARIANTS PoolTypeOK UsedIsReady ReadyIsHeld
  RightPlace OnePlace
CHECK_DEADLOCK FALSE
