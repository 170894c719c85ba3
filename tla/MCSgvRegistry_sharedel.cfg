\* A shared sgv_pool_create takes a reference on a pool whose last
\* sgv_pool_put has already started sgv_pool_destroy.
SPECIFICATION Spec
CONSTANTS
  Users = {u1, u2}
  Kswapd = kswapd
  Slots = {s1, s2}
  Names = {n1, n2}
  Shared = {TRUE}
  MM = mm1
  MMOf <- MCMMOf
  ShrinkNr = 2
  MaxCache = 1
  MaxHandles = 1
  DirectReclaim = FALSE
  NULL = NULL
INVARIANT DestroyExclusive
VIEW MCView
