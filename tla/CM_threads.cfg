CONSTANTS
  Threads = {t1, t2}
  KnownAddr = {a1}
  ForeignAddr = {f1}
  Sessions = {s1, s2, s3}
  CacheSize = 2
  OpCountMaxValues <- OffAndTwo
  CountPerSession = FALSE
  AllNodes = AllNodes
  NoAddr = NoAddr
  NoSession = NoSession
  MaxUses = 2
  MaxCount = 3
SPECIFICATION Spec
SYMMETRY Symmetry
INVARIANTS TypeOK SessionAtHome
PROPERTIES CachedWhenFresh
