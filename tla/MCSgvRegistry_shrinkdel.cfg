\* __sgv_shrink pins, with sgv_pool_get, a pool whose last sgv_pool_put
\* has started sgv_pool_destroy but not yet flushed it off the active list.
SPECIFICATION Spec
CONSTANTS
  Users = {u1}
  Kswapd = kswapd
  Slots = {s1, s2}
  Names = {n1, n2}
  Shared = {FALSE}
  MM = mm1
  MMOf <- MCMMOf
  ShrinkNr = 2
  MaxCache = 1
  MaxHandles = 1
  DirectReclaim = FALSE
  NULL = NULL
INVARIANT DestroyExclusive
VIEW MCView
