CONSTANTS
  Threads = {t1}
  KnownAddr = {a1, a2}
  ForeignAddr = {f1}
  Sessions = {s1, s2, s3}
  CacheSize = 2
  OpCountMaxValues <- OffAndThree
  CountPerSession = TRUE
  AllNodes = AllNodes
  NoAddr = NoAddr
  NoSession = NoSession
  MaxUses = 4
  MaxCount = 5
SPECIFICATION Spec
PROPERTIES KeepsTicketPromise
