CONSTANTS
  Threads = {t1}
  Bindings = {b1}
  Packages = {p1, p2}
  Builds = {"enclave", "plain"}
  InOrder = FALSE
  NullPtr = NullPtr
SPECIFICATION Spec
INVARIANTS NeedsClient
CHECK_DEADLOCK FALSE
