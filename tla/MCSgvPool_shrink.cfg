CONSTANTS
  Threads = {t1}
  Shrinker = sh
  Pools = {p1, p2}
  Clustered = {p2}
  Objs = {o1, o2}
  NOrders = 2
  LocalOrder = 0
  ReqPages = {1}
  FlagSets <- MCFlagsNone
  HiWmk = 8
  LoWmk = 0
  MaxMem = 8
  ShrinkNr = {2}
  ShrinkAfter = 1
  PurgeAfter = 2
  MaxPerPool = 2
  MaxTime = 2
  NoFailOK = FALSE
  NULL = NULL
SPECIFICATION Spec
SYMMETRY MCSymmetry
VIEW MCView
INVARIANT ActiveListConsistent
INVARIANT CacheCounters
INVARIANT PageAccounting
