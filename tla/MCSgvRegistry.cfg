\* One user thread creating shared and private pools of one name, using
\* and deleting them, its creates entering direct reclaim, while kswapd
\* shrinks and the workqueue runs the purge work.  The reclaim
\* self-deadlock (run reclaimdeadlock) really stops both threads.
SPECIFICATION Spec
CONSTANTS
  Users = {u1}
  Kswapd = kswapd
  Slots = {s1, s2}
  Names = {n1}
  Shared = {FALSE, TRUE}
  MM = mm1
  MMOf <- MCMMOf
  ShrinkNr = 2
  MaxCache = 1
  MaxHandles = 2
  DirectReclaim = TRUE
  NULL = NULL
INVARIANTS
  TypeOK
  RefCountExact
  ActiveListConsistent
VIEW MCView
CHECK_DEADLOCK FALSE
