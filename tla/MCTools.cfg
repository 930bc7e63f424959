SPECIFICATION Spec
CONSTANTS
  Turns = {t1, t2}
  Queries = {"q"}
  URLs = {"u1", "u2"}
  Host <- MCHost
  CacheMax = 2
  TTL = 1
  RateMax = 2
  Interval = 1
  MaxNow = 2
  MaxCalls = 5
  NoFile = NoFile
  Calls = {c1, c2, c3, c4}
  Paths = {"n", "x/n"}
  Titles = {"a b", "a/b"}
  Base <- MCBase
  SafeName <- MCSafeName
  MaxClock = 1
INVARIANTS CachedIsOrdered WindowsRespectLimit AppendsKept
PROPERTIES TrashKeepsWhatItHad
SYMMETRY Symmetry
CHECK_DEADLOCK FALSE
