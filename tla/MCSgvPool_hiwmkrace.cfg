CONSTANTS
  Threads = {t1, t2}
  Shrinker = sh
  Pools = {p1}
  Clustered = {p1}
  Objs = {o1, o2}
  NOrders = 2
  LocalOrder = 0
  ReqPages = {1}
  FlagSets <- MCFlagsNone
  HiWmk = 1
  LoWmk = 0
  MaxMem = 4
  ShrinkNr = {}
  ShrinkAfter = 1
  PurgeAfter = 2
  MaxPerPool = 2
  MaxTime = 2
  NoFailOK = FALSE
  NULL = NULL
SPECIFICATION Spec
INVARIANT HiWmkRespected
