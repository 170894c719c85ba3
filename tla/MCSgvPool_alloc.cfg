CONSTANTS
  Threads = {t1, t2}
  Shrinker = sh
  Pools = {p1}
  Clustered = {p1}
  Objs = {o1, o2}
  NOrders = 2
  LocalOrder = 0
  ReqPages = {1, 2}
  FlagSets <- MCFlagsNone
  HiWmk = 8
  LoWmk = 1
  MaxMem = 3
  ShrinkNr = {}
  ShrinkAfter = 1
  PurgeAfter = 2
  MaxPerPool = 2
  MaxTime = 2
  NoFailOK = FALSE
  NULL = NULL
SPECIFICATION Spec
SYMMETRY MCSymmetry
VIEW MCView
INVARIANT TypeOK
INVARIANT PageAccounting
INVARIANT CacheCounters
INVARIANT ObjectOwnership
INVARIANT PurgeCoverage
INVARIANT ArraysOwned
PROPERTY ImplementsSgvCache
