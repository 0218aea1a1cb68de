CONSTANTS
  Threads = {t1}
  KnownAddr = {a1, a2}
  ForeignAddr = {}
  Sessions = {s1, s2, s3, s4}
  CacheSize = 3
  OpCountMaxValues <- OffAndThree
  CountPerSession = FALSE
  AllNodes = AllNodes
  NoAddr = NoAddr
  NoSession = NoSession
  MaxUses = 4
  MaxCount = 5
SPECIFICATION Spec
SYMMETRY Symmetry
INVARIANTS TicketBudget
PROPERTIES KeepsTicketPromise
