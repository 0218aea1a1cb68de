CONSTANTS
  Threads = {t1, t2}
  KnownAddr = {a1}
  ForeignAddr = {}
  Sessions = {s1, s2, s3}
  CacheSize = 1
  OpCountMaxValues <- Two
  CountPerSession = FALSE
  AllNodes = AllNodes
  NoAddr = NoAddr
  NoSession = NoSession
  MaxUses = 3
  MaxCount = 3
SPECIFICATION Spec
SYMMETRY Symmetry
INVARIANTS TicketBudget
