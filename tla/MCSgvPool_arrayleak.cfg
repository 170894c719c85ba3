CONSTANTS
  Threads = {t1}
  Shrinker = sh
  Pools = {p1}
  Clustered = {}
  Objs = {o1}
  NOrders = 2
  LocalOrder = 0
  ReqPages = {2}
  FlagSets <- MCFlagsShellReuse
  HiWmk = 4
  LoWmk = 0
  MaxMem = 4
  ShrinkNr = {}
  ShrinkAfter = 1
  PurgeAfter = 2
  MaxPerPool = 2
  MaxTime = 2
  NoFailOK = FALSE
  NULL = NULL
SPECIFICATION Spec
INVARIANT ArraysOwned
