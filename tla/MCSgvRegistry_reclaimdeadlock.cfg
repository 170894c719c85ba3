\* The shrinker, run by direct reclaim inside sgv_pool_create with
\* sgv_pools_mutex held, drops the last reference of a deleted pool.
SPECIFICATION Spec
CONSTANTS
  Users = {u1}
  Kswapd = kswapd
  Slots = {s1, s2}
  Names = {n1, n2}
  Shared = {FALSE}
  MM = mm1
  MMOf <- MCMMOf
  ShrinkNr = 2
  MaxCache = 1
  MaxHandles = 1
  DirectReclaim = TRUE
  NULL = NULL
INVARIANT NoSelfDeadlock
VIEW MCView
