CONSTANTS
  Ops = {"READ", "READ-FAILED"}
  FailedOps = {"READ-FAILED"}
  Timestamps = {0, 1, 2, 3}
  Latency <- Latencies
  Percentile = 1
  Whole = 2
  RoundedUp = {3}
  SvrStat <- Samples
  NumFiles = 2
  WarmupT = 1
  TerminateT = 1
  MaxLines = 6
  NumDirs = 2
  Forms <- SomeForms
  BadForms = {2}
  Wild <- SomeWild
  NoNumbers = {3}
  Unlimited = 1000
  MaxFiles = 3
SPECIFICATION ResultsSpec
INVARIANTS TablesAsWritten RowIsRight NoRowIsRight
  MatchedIsRight EachInOnePair OrderIsIrrelevant
CHECK_DEADLOCK FALSE
