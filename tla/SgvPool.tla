------------------------------ MODULE SgvPool ------------------------------
(***************************************************************************)
(* The SGV pool allocator of SCST (src/trunk/scst/src/scst_mem.c): per-    *)
(* order caches of scatter-gather vector objects, the global page counter  *)
(* sgv_pages_total with its high-watermark gate, the per-device mem_lim    *)
(* quota, the per-pool delayed purge work and the memory-pressure shrinker *)
(* that walks the active pools round-robin.                                *)
(*                                                                         *)
(* Consumer threads run sgv_pool_alloc / sgv_pool_free / scst_alloc /      *)
(* scst_free.  Every section the code runs under sgv_pool_lock or          *)
(* sgv_pools_lock is one atomic step; every atomic_t operation done        *)
(* outside a lock is a step of its own, so the steps of different threads  *)
(* interleave exactly where the code lets them.  Pages, SG entries and     *)
(* byte lengths are abstracted to page counts and sg_count.                *)
(***************************************************************************)
EXTENDS Integers, Sequences, SequencesExt, FiniteSets, FiniteSetsExt

CONSTANTS
  Threads,        \* consumer threads calling the allocator
  Shrinker,       \* the memory-pressure caller of sgv_shrink()
  Pools,          \* the pools (sgv_pool) that exist
  Clustered,      \* pools whose clustering_type is not sgv_no_clustering
  Objs,           \* slots for sgv_pool_obj allocations
  NOrders,        \* SGV_POOL_ELEMENTS: number of cached orders
  LocalOrder,     \* sgv_max_local_order: larger orders kmalloc() arrays
  ReqPages,       \* request sizes, in pages
  FlagSets,       \* allowed sets of SCST_POOL_* flags of a request
  HiWmk, LoWmk,   \* sgv_hi_wmk, sgv_lo_wmk (pages)
  MaxMem,         \* mem_lim->max_allowed_pages
  ShrinkNr,       \* page counts the shrinker may be asked to free
  ShrinkAfter,    \* SHRINK_TIME_AFTER (ticks)
  PurgeAfter,     \* PURGE_TIME_AFTER = PURGE_INTERVAL (ticks)
  MaxPerPool,     \* MAX_PAGES_PER_POOL
  MaxTime,        \* bound on the jiffies clock
  NoFailOK,       \* whether scst_alloc() callers may pass __GFP_NOFAIL
  NULL

ASSUME /\ Clustered \subseteq Pools
       /\ NOrders \in Nat \ {0} /\ LocalOrder \in Nat
       /\ ReqPages \subseteq Nat \ {0}
       /\ ShrinkAfter < PurgeAfter

\* The request flags of sgv_pool_alloc (SCST_POOL_*).
NoCached    == "NO_CACHED"
NoAllocMiss == "NO_ALLOC_ON_CACHE_MISS"
ReturnObj   == "RETURN_OBJ_ON_ALLOC_FAIL"

Actors == Threads \cup {Shrinker}

VARIABLES
  total,          \* sgv_pages_total
  alloced,        \* mem_lim->alloced_pages
  now,            \* jiffies
  objState,       \* "None" | "Building" | "InUse" | "Cached" | "Dtor"
  objPool,        \* owner_pool
  objOrder,       \* order_or_pages: k >= 0 cached, -pages for a big obj
  objSg,          \* sg_count (0: no pages attached)
  objTs,          \* time_stamp
  objArr,         \* sg_entries (and trans_tbl) kmalloc()ed apart from obj
  arrays,         \* SG arrays kmalloc()ed and not yet kfree()d
  recycling,      \* recycling_lists[order] of every pool
  sorted,         \* sorted_recycling_list of every pool (LRU, oldest first)
  cachedEntries,  \* pool->cached_entries
  cachedPages,    \* pool->cached_pages
  inactive,       \* pool->inactive_cached_pages
  purgeSched,     \* pool->purge_work_scheduled
  active,         \* sgv_active_pools_list
  cur,            \* sgv_cur_purge_pool
  workPending,    \* sgv_purge_work queued (timer armed)
  workDue,        \* jiffies at which the queued work may run
  workPc,         \* "Idle" | "Dtor": sgv_purge_work_fn running
  workTime,       \* cur_time of the running sgv_purge_work_fn
  workObj,        \* object it is destroying with the lock dropped
  pc,             \* program counter of each actor
  req,            \* the call a thread is executing
  tobj,           \* the object that call works on (obj / *sgv)
  held,           \* object a thread owns between calls
  other,          \* pages a thread owns from scst_alloc()
  hwOn,           \* hiwmk_checked
  memOn,          \* allowed_mem_checked
  ret,            \* where __sgv_shrink() returns to
  nr, prevNr, circle, shTime, shAfter, shPool, shFreed, shObj
                  \* locals of __sgv_shrink() and sgv_shrink_pool()

objVars  == <<objState, objPool, objOrder, objSg, objTs, objArr, arrays>>
listVars == <<recycling, sorted, inactive, purgeSched>>
cntVars  == <<cachedEntries, cachedPages, active, cur>>
workVars == <<workPending, workDue, workPc, workTime, workObj>>
thVars   == <<req, tobj, held, other, hwOn, memOn>>
shVars   == <<ret, nr, prevNr, circle, shTime, shAfter, shPool, shFreed, shObj>>
vars == <<total, alloced, now, objVars, listVars, cntVars, workVars, pc,
          thVars, shVars>>

-----------------------------------------------------------------------------
(* Helpers.                                                                *)

\* get_order() of a request of n pages: the least k with 2^k >= n.
Order(n) == CHOOSE k \in 0..n : 2^k >= n /\ \A j \in 0..(k-1) : 2^j < n

\* Pages an object stands for: 1 << order_or_pages, or -order_or_pages.
ObjPages(o) == IF objOrder[o] >= 0 THEN 2^objOrder[o] ELSE -objOrder[o]

\* sg_count an allocation of n pages may end with: clustering merges
\* physically adjacent pages into one entry, so any of 1..n can result.
SgChoices(p, n) == IF p \in Clustered THEN 1..n ELSE {n}

FreeSlots == {o \in Objs : objState[o] = "None"}

\* time_after_eq(a, b), for a clock that does not wrap within MaxTime.
TimeAfterEq(a, b) == a >= b

\* The successor of p in the active list, or NULL when p is the last one.
Succ(s, p) == LET i == SelectInSeq(s, LAMBDA q : q = p)
              IN IF i < Len(s) THEN s[i + 1] ELSE NULL

\* Mutant of DelFromActive: sgv_cur_purge_pool is left on the unlinked pool.
DelFromActiveNoCursor(p) ==
  /\ active' = RemoveFirst(active, p)
  /\ UNCHANGED cur

\* sgv_del_from_active(): unlink p, and move sgv_cur_purge_pool off it to
\* the next pool, wrapping to the first, or to NULL when none is left.
DelFromActive(p) ==
  LET rest == RemoveFirst(active, p)
      nxt  == Succ(active, p)
  IN /\ active' = rest
     /\ cur' = IF cur # p THEN cur
               ELSE IF nxt # NULL THEN nxt
               ELSE IF rest = <<>> THEN NULL ELSE Head(rest)

\* Mutant of DecCachedEntries: cached_pages is not decreased.
DecCachedEntriesNoPages(p, pages) ==
  /\ cachedEntries' = [cachedEntries EXCEPT ![p] = @ - 1]
  /\ UNCHANGED cachedPages
  /\ IF cachedEntries[p] = 1 THEN DelFromActive(p)
                             ELSE UNCHANGED <<active, cur>>

\* sgv_dec_cached_entries(), under sgv_pool_lock.
DecCachedEntries(p, pages) ==
  /\ cachedEntries' = [cachedEntries EXCEPT ![p] = @ - 1]
  /\ cachedPages' = [cachedPages EXCEPT ![p] = @ - pages]
  /\ IF cachedEntries[p] = 1 THEN DelFromActive(p)
                             ELSE UNCHANGED <<active, cur>>

\* Mutant of PurgeFromCache: sgv_pages_total is not decreased.
PurgeFromCacheKeepTotal(o) ==
  LET p == objPool[o]
      k == objOrder[o]
  IN /\ recycling' = [recycling EXCEPT ![p][k] = RemoveFirst(@, o)]
     /\ sorted' = [sorted EXCEPT ![p] = RemoveFirst(@, o)]
     /\ inactive' = [inactive EXCEPT ![p] = @ - 2^k]
     /\ DecCachedEntries(p, 2^k)
     /\ UNCHANGED total
     /\ objState' = [objState EXCEPT ![o] = "Dtor"]

\* Mutant of PurgeFromCache: o stays on its recycling list.
PurgeFromCacheKeepRecycling(o) ==
  LET p == objPool[o]
      k == objOrder[o]
  IN /\ UNCHANGED recycling
     /\ sorted' = [sorted EXCEPT ![p] = RemoveFirst(@, o)]
     /\ inactive' = [inactive EXCEPT ![p] = @ - 2^k]
     /\ DecCachedEntries(p, 2^k)
     /\ total' = total - 2^k
     /\ objState' = [objState EXCEPT ![o] = "Dtor"]

\* Mutant of PurgeFromCache: inactive_cached_pages is not decreased.
PurgeFromCacheKeepInactive(o) ==
  LET p == objPool[o]
      k == objOrder[o]
  IN /\ recycling' = [recycling EXCEPT ![p][k] = RemoveFirst(@, o)]
     /\ sorted' = [sorted EXCEPT ![p] = RemoveFirst(@, o)]
     /\ UNCHANGED inactive
     /\ DecCachedEntries(p, 2^k)
     /\ total' = total - 2^k
     /\ objState' = [objState EXCEPT ![o] = "Dtor"]

\* __sgv_purge_from_cache(): unlink o from both lists and uncount it.
PurgeFromCache(o) ==
  LET p == objPool[o]
      k == objOrder[o]
  IN /\ recycling' = [recycling EXCEPT ![p][k] = RemoveFirst(@, o)]
     /\ sorted' = [sorted EXCEPT ![p] = RemoveFirst(@, o)]
     /\ inactive' = [inactive EXCEPT ![p] = @ - 2^k]
     /\ DecCachedEntries(p, 2^k)
     /\ total' = total - 2^k
     /\ objState' = [objState EXCEPT ![o] = "Dtor"]

\* kmem_cache_free() or kfree() of the object itself, with its pages.
FreeObjSlot(o) ==
  /\ objState' = [objState EXCEPT ![o] = "None"]
  /\ objPool' = [objPool EXCEPT ![o] = NULL]
  /\ objOrder' = [objOrder EXCEPT ![o] = 0]
  /\ objSg' = [objSg EXCEPT ![o] = 0]
  /\ objTs' = [objTs EXCEPT ![o] = 0]
  /\ objArr' = [objArr EXCEPT ![o] = FALSE]

\* kfree() of the trans_tbl and sg_entries an object kmalloc()ed apart.
FreeArrays(o) == arrays' = IF objArr[o] THEN arrays - 1 ELSE arrays

\* Mutant of DtorAndFree: the separately allocated arrays are not freed.
DtorAndFreeKeepArrays(o) == FreeObjSlot(o) /\ UNCHANGED arrays

\* sgv_dtor_and_free(): pages, arrays and object go back to the system.
DtorAndFree(o) == FreeArrays(o) /\ FreeObjSlot(o)

\* Mutant of Unwind: a call that passed sgv_hiwmk_check() skips
\* sgv_uncheck_allowed_mem().
UnwindSkipMem(t) == IF hwOn[t] THEN "UnHw" ELSE "Idle"

\* Where a failed call goes: sgv_hiwmk_uncheck() then
\* sgv_uncheck_allowed_mem(), each only if its check was passed.
Unwind(t) == IF hwOn[t] THEN "UnHw" ELSE IF memOn[t] THEN "UnMem" ELSE "Idle"

Goto(a, l) == pc' = [pc EXCEPT ![a] = l]

\* sgv_put_obj() keeps a recycling list of a clustered pool sorted by
\* ascending sg_count, a new object going before the first one with an
\* equal or larger sg_count; other pools push the object at the head.
InsertFree(p, s, o) ==
  IF p \in Clustered
  THEN LET i == SelectInSeq(s, LAMBDA q : objSg[o] <= objSg[q])
       IN IF i = 0 THEN Append(s, o) ELSE InsertAt(s, i, o)
  ELSE <<o>> \o s

\* schedule_delayed_work(): a no-op while the work is already queued.
Schedule(p) ==
  IF workPending[p] THEN UNCHANGED <<workPending, workDue>>
  ELSE /\ workPending' = [workPending EXCEPT ![p] = TRUE]
       /\ workDue' = [workDue EXCEPT ![p] = now + PurgeAfter]

NoReq == [kind |-> "none", pool |-> NULL, n |-> 0, ord |-> 0, flags |-> {},
          nofail |-> FALSE]

-----------------------------------------------------------------------------
Init ==
  /\ total = 0
  /\ alloced = 0
  /\ now = 0
  /\ objState = [o \in Objs |-> "None"]
  /\ objPool = [o \in Objs |-> NULL]
  /\ objOrder = [o \in Objs |-> 0]
  /\ objSg = [o \in Objs |-> 0]
  /\ objTs = [o \in Objs |-> 0]
  /\ objArr = [o \in Objs |-> FALSE]
  /\ arrays = 0
  /\ recycling = [p \in Pools |-> [k \in 0..(NOrders - 1) |-> <<>>]]
  /\ sorted = [p \in Pools |-> <<>>]
  /\ cachedEntries = [p \in Pools |-> 0]
  /\ cachedPages = [p \in Pools |-> 0]
  /\ inactive = [p \in Pools |-> 0]
  /\ purgeSched = [p \in Pools |-> FALSE]
  /\ active = <<>>
  /\ cur = NULL
  /\ workPending = [p \in Pools |-> FALSE]
  /\ workDue = [p \in Pools |-> 0]
  /\ workPc = [p \in Pools |-> "Idle"]
  /\ workTime = [p \in Pools |-> 0]
  /\ workObj = [p \in Pools |-> NULL]
  /\ pc = [a \in Actors |-> "Idle"]
  /\ req = [t \in Threads |-> NoReq]
  /\ tobj = [t \in Threads |-> NULL]
  /\ held = [t \in Threads |-> NULL]
  /\ other = [t \in Threads |-> 0]
  /\ hwOn = [t \in Threads |-> FALSE]
  /\ memOn = [t \in Threads |-> FALSE]
  /\ ret = [a \in Actors |-> "Idle"]
  /\ nr = [a \in Actors |-> 0]
  /\ prevNr = [a \in Actors |-> 0]
  /\ circle = [a \in Actors |-> FALSE]
  /\ shTime = [a \in Actors |-> 0]
  /\ shAfter = [a \in Actors |-> 0]
  /\ shPool = [a \in Actors |-> NULL]
  /\ shFreed = [a \in Actors |-> 0]
  /\ shObj = [a \in Actors |-> NULL]

-----------------------------------------------------------------------------
(* sgv_pool_alloc(), *sgv == NULL: choose the cached or the big path.     *)
StartAlloc(t) ==
  /\ pc[t] = "Idle" /\ held[t] = NULL /\ other[t] = 0
  /\ \E p \in Pools, pages \in ReqPages, f \in FlagSets :
       LET k == Order(pages)
           cached == k < NOrders /\ NoCached \notin f
       IN req' = [req EXCEPT ![t] =
                   [kind |-> IF cached THEN "cached" ELSE "big", pool |-> p,
                    n |-> IF cached THEN 2^k ELSE pages, ord |-> k,
                    flags |-> f, nofail |-> FALSE]]
  /\ Goto(t, "MemCheck")
  /\ UNCHANGED <<total, alloced, now, objVars, listVars, cntVars, workVars,
                 tobj, held, other, hwOn, memOn, shVars>>

(* sgv_pool_alloc() with *sgv set: fill the object an earlier call        *)
(* returned without pages.                                                *)
StartSupplied(t) ==
  /\ pc[t] = "Idle"
  /\ held[t] # NULL /\ objSg[held[t]] = 0 /\ objOrder[held[t]] >= 0
  /\ \E f \in FlagSets :
       LET o == held[t]
       IN req' = [req EXCEPT ![t] =
                   [kind |-> "supplied", pool |-> objPool[o],
                    n |-> 2^objOrder[o], ord |-> objOrder[o], flags |-> f,
                    nofail |-> FALSE]]
  /\ tobj' = [tobj EXCEPT ![t] = held[t]]
  /\ held' = [held EXCEPT ![t] = NULL]
  /\ objState' = [objState EXCEPT ![held[t]] = "Building"]
  /\ Goto(t, "MemCheck")
  /\ UNCHANGED <<total, alloced, now, objPool, objOrder, objSg, objTs,
                 objArr, arrays,
                 listVars, cntVars, workVars, other, hwOn, memOn, shVars>>

(* sgv_check_allowed_mem(): atomic_add_return(), compared with the limit. *)
MemCheck(t) ==
  LET r == req[t]
      new == alloced + r.n
  IN /\ pc[t] = "MemCheck"
     /\ alloced' = new
     /\ IF new > MaxMem
        THEN Goto(t, "MemUndo") /\ UNCHANGED memOn
        ELSE /\ memOn' = [memOn EXCEPT ![t] = TRUE]
             /\ Goto(t, CASE r.kind = "cached" -> "GetObj"
                          [] r.kind = "supplied" -> "HwRead"
                          [] NoAllocMiss \in r.flags -> "UnMem"
                          [] OTHER -> "BigNew")
     /\ UNCHANGED <<total, now, objVars, listVars, cntVars, workVars, req,
                    tobj, held, other, hwOn, shVars>>

(* ... over the limit: atomic_sub() the charge back and fail; a supplied  *)
(* object is destroyed (out_fail_free_sg_entries).                        *)
MemUndo(t) ==
  /\ pc[t] = "MemUndo"
  /\ alloced' = alloced - req[t].n
  /\ Goto(t, IF req[t].kind = "supplied" THEN "FailFreeSg" ELSE "Idle")
  /\ UNCHANGED <<total, now, objVars, listVars, cntVars, workVars, thVars,
                 shVars>>

\* Mutant of GetObj: recycling_lists is indexed by order 0 whatever the
\* order asked for.
GetObjOrderZero(t) ==
  LET p == req[t].pool
      k == 0
      o == Head(recycling[p][k])
  IN /\ pc[t] = "GetObj"
     /\ IF recycling[p][k] # <<>>
        THEN /\ recycling' = [recycling EXCEPT ![p][k] = Tail(@)]
             /\ sorted' = [sorted EXCEPT ![p] = RemoveFirst(@, o)]
             /\ inactive' = [inactive EXCEPT ![p] = @ - 2^k]
             /\ IF objSg[o] # 0
                THEN /\ objState' = [objState EXCEPT ![o] = "InUse"]
                     /\ held' = [held EXCEPT ![t] = o]
                     /\ memOn' = [memOn EXCEPT ![t] = FALSE]
                     /\ Goto(t, "Idle")
                     /\ UNCHANGED tobj
                ELSE /\ objState' = [objState EXCEPT ![o] = "Building"]
                     /\ tobj' = [tobj EXCEPT ![t] = o]
                     /\ Goto(t, "NewObj")
                     /\ UNCHANGED <<held, memOn>>
             /\ UNCHANGED cntVars
        ELSE /\ active' = IF cachedEntries[p] = 0 THEN Append(active, p)
                                                  ELSE active
             /\ cachedEntries' = [cachedEntries EXCEPT ![p] = @ + 1]
             /\ cachedPages' = [cachedPages EXCEPT ![p] = @ + 2^k]
             /\ tobj' = [tobj EXCEPT ![t] = NULL]
             /\ Goto(t, "NewObj")
             /\ UNCHANGED <<recycling, sorted, inactive, objState, held,
                            memOn, cur>>
     /\ UNCHANGED <<total, alloced, now, objPool, objOrder, objSg, objTs,
                    objArr, arrays,
                    purgeSched, workVars, req, other, hwOn, shVars>>

(* sgv_get_obj(): under sgv_pool_lock, pop the head of recycling_lists    *)
(* [order]; on a miss count a new entry and put the pool on the active    *)
(* list if it had none.  A popped object with pages is a cache hit and    *)
(* the call succeeds at once.                                             *)
GetObj(t) ==
  LET p == req[t].pool
      k == req[t].ord
      o == Head(recycling[p][k])
  IN /\ pc[t] = "GetObj"
     /\ IF recycling[p][k] # <<>>
        THEN /\ recycling' = [recycling EXCEPT ![p][k] = Tail(@)]
             /\ sorted' = [sorted EXCEPT ![p] = RemoveFirst(@, o)]
             /\ inactive' = [inactive EXCEPT ![p] = @ - 2^k]
             /\ IF objSg[o] # 0
                THEN /\ objState' = [objState EXCEPT ![o] = "InUse"]
                     /\ held' = [held EXCEPT ![t] = o]
                     /\ memOn' = [memOn EXCEPT ![t] = FALSE]
                     /\ Goto(t, "Idle")
                     /\ UNCHANGED tobj
                ELSE /\ objState' = [objState EXCEPT ![o] = "Building"]
                     /\ tobj' = [tobj EXCEPT ![t] = o]
                     /\ Goto(t, "NewObj")
                     /\ UNCHANGED <<held, memOn>>
             /\ UNCHANGED cntVars
        ELSE /\ active' = IF cachedEntries[p] = 0 THEN Append(active, p)
                                                  ELSE active
             /\ cachedEntries' = [cachedEntries EXCEPT ![p] = @ + 1]
             /\ cachedPages' = [cachedPages EXCEPT ![p] = @ + 2^k]
             /\ tobj' = [tobj EXCEPT ![t] = NULL]
             /\ Goto(t, "NewObj")
             /\ UNCHANGED <<recycling, sorted, inactive, objState, held,
                            memOn, cur>>
     /\ UNCHANGED <<total, alloced, now, objPool, objOrder, objSg, objTs,
                    objArr, arrays,
                    purgeSched, workVars, req, other, hwOn, shVars>>

(* What sgv_pool_alloc() does with an object that has no pages yet: fail  *)
(* if the caller forbade allocation on a miss ("nomiss", out_fail_free);  *)
(* point sg_entries at the embedded array, or, for an order above         *)
(* sgv_max_local_order, at newly kmalloc()ed arrays, which may fail       *)
(* ("arrfail": sgv_alloc_arrays() leaves sg_entries NULL); hand an empty  *)
(* object back when NO_ALLOC_ON_CACHE_MISS and RETURN_OBJ_ON_ALLOC_FAIL   *)
(* are both set (out_return); otherwise go on to the watermark check.     *)
NewObjOutcomes(f, k) ==
  IF NoAllocMiss \in f /\ ReturnObj \notin f THEN {"nomiss"}
  ELSE (IF k > LocalOrder THEN {"arrfail"} ELSE {})
       \cup {IF NoAllocMiss \in f THEN "shell" ELSE "go"}

\* Mutant of ApplyNewObj: out_return does not store the empty object in
\* *sgv.
ApplyNewObjNoHand(t, o, r, k) ==
  /\ objState' = [objState EXCEPT ![o] = IF r = "shell" THEN "InUse"
                                                        ELSE "Building"]
  /\ objArr' = IF r = "nomiss" THEN objArr
               ELSE [objArr EXCEPT ![o] = r # "arrfail" /\ k > LocalOrder]
  /\ arrays' = IF r \in {"go", "shell"} /\ k > LocalOrder THEN arrays + 1
                                                          ELSE arrays
  /\ UNCHANGED held
  /\ tobj' = [tobj EXCEPT ![t] = o]
  /\ Goto(t, CASE r \in {"nomiss", "arrfail"} -> "FailFree"
               [] r = "shell" -> Unwind(t)
               [] r = "go" -> "HwRead")

ApplyNewObj(t, o, r, k) ==
  /\ objState' = [objState EXCEPT ![o] = IF r = "shell" THEN "InUse"
                                                        ELSE "Building"]
  /\ objArr' = IF r = "nomiss" THEN objArr
               ELSE [objArr EXCEPT ![o] = r # "arrfail" /\ k > LocalOrder]
  /\ arrays' = IF r \in {"go", "shell"} /\ k > LocalOrder THEN arrays + 1
                                                          ELSE arrays
  /\ held' = IF r = "shell" THEN [held EXCEPT ![t] = o] ELSE held
  /\ tobj' = [tobj EXCEPT ![t] = o]
  /\ Goto(t, CASE r \in {"nomiss", "arrfail"} -> "FailFree"
               [] r = "shell" -> Unwind(t)
               [] r = "go" -> "HwRead")

(* The miss path after sgv_get_obj(): kmem_cache_alloc() a new object     *)
(* (which may fail: sgv_get_obj() then uncounts the entry), or go on with *)
(* an object without pages that was popped from the cache.                *)
NewObj(t) ==
  LET p == req[t].pool
      k == req[t].ord
      f == req[t].flags
  IN /\ pc[t] = "NewObj"
     /\ IF tobj[t] = NULL
        THEN \/ /\ Goto(t, "FailFree")
                /\ UNCHANGED <<objVars, tobj, held>>
             \/ \E o \in FreeSlots, r \in NewObjOutcomes(f, k) :
                  /\ ApplyNewObj(t, o, r, k)
                  /\ objPool' = [objPool EXCEPT ![o] = p]
                  /\ objOrder' = [objOrder EXCEPT ![o] = k]
                  /\ UNCHANGED <<objSg, objTs>>
        ELSE \E r \in NewObjOutcomes(f, k) :
               /\ ApplyNewObj(t, tobj[t], r, k)
               /\ UNCHANGED <<objPool, objOrder, objSg, objTs>>
     /\ UNCHANGED <<total, alloced, now, listVars, cntVars, workVars, req,
                    other, hwOn, memOn, shVars>>

(* The big / NO_CACHED path: kmalloc() an object of exactly n pages,      *)
(* order_or_pages = -n.                                                   *)
BigNew(t) ==
  /\ pc[t] = "BigNew"
  /\ \/ /\ Goto(t, Unwind(t))
        /\ UNCHANGED <<objVars, tobj>>
     \/ \E o \in FreeSlots :
          /\ objState' = [objState EXCEPT ![o] = "Building"]
          /\ objPool' = [objPool EXCEPT ![o] = req[t].pool]
          /\ objOrder' = [objOrder EXCEPT ![o] = -req[t].n]
          /\ tobj' = [tobj EXCEPT ![t] = o]
          /\ Goto(t, "HwRead")
          /\ UNCHANGED <<objSg, objTs, objArr, arrays>>
  /\ UNCHANGED <<total, alloced, now, listVars, cntVars, workVars, req, held,
                 other, hwOn, memOn, shVars>>

(* sgv_hiwmk_check(): read sgv_pages_total; over the high watermark,      *)
(* call __sgv_shrink(excess, 0) before deciding.                          *)
HwRead(t) ==
  LET pages == req[t].n + total
  IN /\ pc[t] = "HwRead"
     /\ IF pages <= HiWmk
        THEN Goto(t, "HwAdd") /\ UNCHANGED shVars
        ELSE /\ nr' = [nr EXCEPT ![t] = pages - HiWmk]
             /\ prevNr' = [prevNr EXCEPT ![t] = pages - HiWmk]
             /\ circle' = [circle EXCEPT ![t] = FALSE]
             /\ shTime' = [shTime EXCEPT ![t] = now]
             /\ shAfter' = [shAfter EXCEPT ![t] = 0]
             /\ ret' = [ret EXCEPT ![t] = "HwDone"]
             /\ Goto(t, "ShPick")
             /\ UNCHANGED <<shPool, shFreed, shObj>>
     /\ UNCHANGED <<total, alloced, now, objVars, listVars, cntVars,
                    workVars, thVars>>

(* ... after the shrink: fail if pages are still missing.  scst_alloc()   *)
(* with __GFP_NOFAIL instead adds its pages anyway (uncheck(-pages)).     *)
HwDone(t) ==
  LET r == req[t]
  IN /\ pc[t] = "HwDone"
     /\ IF nr[t] > 0
        THEN IF r.kind = "other"
             THEN IF r.nofail
                  THEN /\ total' = total + r.n
                       /\ hwOn' = [hwOn EXCEPT ![t] = TRUE]
                       /\ Goto(t, "OtherAlloc")
                  ELSE Goto(t, "Idle") /\ UNCHANGED <<total, hwOn>>
             ELSE Goto(t, "FailFreeSg") /\ UNCHANGED <<total, hwOn>>
        ELSE Goto(t, "HwAdd") /\ UNCHANGED <<total, hwOn>>
     /\ UNCHANGED <<alloced, now, objVars, listVars, cntVars, workVars, req,
                    tobj, held, other, memOn, shVars>>

(* ... then atomic_add() the pages to sgv_pages_total.                    *)
HwAdd(t) ==
  /\ pc[t] = "HwAdd"
  /\ total' = total + req[t].n
  /\ hwOn' = [hwOn EXCEPT ![t] = TRUE]
  /\ Goto(t, IF req[t].kind = "other" THEN "OtherAlloc" ELSE "Fill")
  /\ UNCHANGED <<alloced, now, objVars, listVars, cntVars, workVars, req,
                 tobj, held, other, memOn, shVars>>

(* sgv_alloc_sg_entries(): allocate the pages one by one, clustering      *)
(* them.  On success the caller owns the object.  A page allocation       *)
(* failure frees what was allocated; with RETURN_OBJ_ON_ALLOC_FAIL a      *)
(* cached object is handed back empty (out_return1), otherwise it is      *)
(* destroyed (out_fail_free_sg_entries).                                  *)
Fill(t) ==
  LET r == req[t]
      o == tobj[t]
  IN /\ pc[t] = "Fill"
     /\ \/ \E sg \in SgChoices(r.pool, r.n) :
             /\ objSg' = [objSg EXCEPT ![o] = sg]
             /\ objState' = [objState EXCEPT ![o] = "InUse"]
             /\ held' = [held EXCEPT ![t] = o]
             /\ hwOn' = [hwOn EXCEPT ![t] = FALSE]
             /\ memOn' = [memOn EXCEPT ![t] = FALSE]
             /\ Goto(t, "Idle")
        \/ /\ ReturnObj \in r.flags /\ r.kind # "big"
           /\ objState' = [objState EXCEPT ![o] = "InUse"]
           /\ held' = [held EXCEPT ![t] = o]
           /\ Goto(t, Unwind(t))
           /\ UNCHANGED <<objSg, hwOn, memOn>>
        \/ /\ ~(ReturnObj \in r.flags /\ r.kind # "big")
           /\ Goto(t, "FailFreeSg")
           /\ UNCHANGED <<objState, objSg, held, hwOn, memOn>>
     /\ UNCHANGED <<total, alloced, now, objPool, objOrder, objTs, objArr,
                    arrays, listVars,
                    cntVars, workVars, req, tobj, other, shVars>>

(* out_fail_free_sg_entries (pc "FailFreeSg") kfree()s the arrays that   *)
(* sg_entries points to apart from the object; then out_fail_free: a      *)
(* cached object is uncounted from its pool under sgv_pool_lock and       *)
(* freed, a big one is kfree()d.                                          *)
FailFree(t) ==
  LET r == req[t]
      o == tobj[t]
  IN /\ pc[t] \in {"FailFree", "FailFreeSg"}
     /\ IF r.kind = "big"
        THEN UNCHANGED <<cachedEntries, cachedPages, active, cur>>
        ELSE DecCachedEntries(r.pool, r.n)
     /\ IF o = NULL THEN UNCHANGED objVars
        ELSE /\ FreeObjSlot(o)
             /\ IF pc[t] = "FailFreeSg" THEN FreeArrays(o) ELSE UNCHANGED arrays
     /\ tobj' = [tobj EXCEPT ![t] = NULL]
     /\ Goto(t, Unwind(t))
     /\ UNCHANGED <<total, alloced, now, listVars, workVars, req, held, other,
                    hwOn, memOn, shVars>>

\* Mutant of UnHw: sgv_hiwmk_uncheck() leaves sgv_pages_total alone.
UnHwKeepTotal(t) ==
  /\ pc[t] = "UnHw"
  /\ hwOn' = [hwOn EXCEPT ![t] = FALSE]
  /\ Goto(t, IF memOn[t] THEN "UnMem" ELSE "Idle")
  /\ UNCHANGED <<total, alloced, now, objVars, listVars, cntVars, workVars,
                 req, tobj, held, other, memOn, shVars>>

(* sgv_hiwmk_uncheck() of a failed call.                                  *)
UnHw(t) ==
  /\ pc[t] = "UnHw"
  /\ total' = total - req[t].n
  /\ hwOn' = [hwOn EXCEPT ![t] = FALSE]
  /\ Goto(t, IF memOn[t] THEN "UnMem" ELSE "Idle")
  /\ UNCHANGED <<alloced, now, objVars, listVars, cntVars, workVars, req,
                 tobj, held, other, memOn, shVars>>

(* sgv_uncheck_allowed_mem() of a failed call or of sgv_pool_free().      *)
UnMem(t) ==
  /\ pc[t] = "UnMem"
  /\ alloced' = alloced - req[t].n
  /\ memOn' = [memOn EXCEPT ![t] = FALSE]
  /\ Goto(t, "Idle")
  /\ UNCHANGED <<total, now, objVars, listVars, cntVars, workVars, req, tobj,
                 held, other, hwOn, shVars>>

\* Mutant of PutObj: the time_stamp is the expiry, not the release.
PutObjStampExpiry(p, o) ==
  LET k == objOrder[o]
  IN /\ recycling' = [recycling EXCEPT ![p][k] = InsertFree(p, @, o)]
     /\ sorted' = [sorted EXCEPT ![p] = Append(@, o)]
     /\ objTs' = [objTs EXCEPT ![o] = now + PurgeAfter]
     /\ objState' = [objState EXCEPT ![o] = "Cached"]
     /\ inactive' = [inactive EXCEPT ![p] = @ + 2^k]
     /\ purgeSched' = [purgeSched EXCEPT ![p] = TRUE]
     /\ IF purgeSched[p] THEN UNCHANGED <<workPending, workDue>>
                         ELSE Schedule(p)

\* sgv_put_obj(), under sgv_pool_lock: o goes on its recycling list and on
\* the tail of the LRU, stamped with jiffies, and the purge work is
\* scheduled unless purge_work_scheduled says it already is.
PutObj(p, o) ==
  LET k == objOrder[o]
  IN /\ recycling' = [recycling EXCEPT ![p][k] = InsertFree(p, @, o)]
     /\ sorted' = [sorted EXCEPT ![p] = Append(@, o)]
     /\ objTs' = [objTs EXCEPT ![o] = now]
     /\ objState' = [objState EXCEPT ![o] = "Cached"]
     /\ inactive' = [inactive EXCEPT ![p] = @ + 2^k]
     /\ purgeSched' = [purgeSched EXCEPT ![p] = TRUE]
     /\ IF purgeSched[p] THEN UNCHANGED <<workPending, workDue>>
                         ELSE Schedule(p)

(* sgv_pool_free(): a cached object goes back to the cache (sgv_put_obj); *)
(* a big object's pages are freed and uncounted at once.  Then the        *)
(* mem_lim charge is returned, 0 pages for an object without pages.       *)
FreeObj(t) ==
  LET o == held[t]
      p == objPool[o]
      k == objOrder[o]
      pages == IF objSg[o] # 0 THEN ObjPages(o) ELSE 0
  IN /\ pc[t] = "Idle" /\ o # NULL
     /\ IF k >= 0
        THEN /\ PutObj(p, o)
             /\ UNCHANGED <<total, objPool, objOrder, objSg, objArr, arrays>>
        ELSE /\ FreeObjSlot(o) /\ UNCHANGED arrays
             /\ total' = total - pages
             /\ UNCHANGED <<listVars, workPending, workDue>>
     /\ held' = [held EXCEPT ![t] = NULL]
     /\ req' = [req EXCEPT ![t] = [NoReq EXCEPT !.n = pages]]
     /\ IF pages > 0
        THEN memOn' = [memOn EXCEPT ![t] = TRUE] /\ Goto(t, "UnMem")
        ELSE UNCHANGED <<memOn, pc>>
     /\ UNCHANGED <<alloced, now, cntVars, workPc, workTime, workObj, tobj,
                    other, hwOn, shVars>>

(* scst_alloc(): the uncached path, watermark-checked like the pool.      *)
StartScstAlloc(t) ==
  /\ pc[t] = "Idle" /\ held[t] = NULL /\ other[t] = 0
  /\ \E n \in ReqPages, nf \in IF NoFailOK THEN BOOLEAN ELSE {FALSE} :
       req' = [req EXCEPT ![t] = [NoReq EXCEPT !.kind = "other", !.n = n,
                                               !.nofail = nf]]
  /\ Goto(t, "HwRead")
  /\ UNCHANGED <<total, alloced, now, objVars, listVars, cntVars, workVars,
                 tobj, held, other, hwOn, memOn, shVars>>

(* ... kmalloc() the SG vector and allocate its pages; neither can fail   *)
(* with __GFP_NOFAIL.  A failure un-counts the pages unless no_fail.      *)
OtherAlloc(t) ==
  /\ pc[t] = "OtherAlloc"
  /\ \/ /\ other' = [other EXCEPT ![t] = req[t].n]
        /\ hwOn' = [hwOn EXCEPT ![t] = FALSE]
        /\ Goto(t, "Idle")
     \/ /\ ~req[t].nofail
        /\ Goto(t, "UnHw")
        /\ UNCHANGED <<other, hwOn>>
  /\ UNCHANGED <<total, alloced, now, objVars, listVars, cntVars, workVars,
                 req, tobj, held, memOn, shVars>>

(* scst_free(): uncount and free the pages.                               *)
ScstFree(t) ==
  /\ pc[t] = "Idle" /\ other[t] > 0
  /\ total' = total - other[t]
  /\ other' = [other EXCEPT ![t] = 0]
  /\ UNCHANGED <<alloced, now, objVars, listVars, cntVars, workVars, pc, req,
                 tobj, held, hwOn, memOn, shVars>>

-----------------------------------------------------------------------------
(* __sgv_shrink(nr, after), run by an allocating thread from              *)
(* sgv_hiwmk_check() or by the shrinker.                                  *)

(* sgv_shrink(nr > 0, ...): memory pressure asks for nr pages back.       *)
ShrinkStart ==
  /\ pc[Shrinker] = "Idle"
  /\ \E k \in ShrinkNr :
       /\ nr' = [nr EXCEPT ![Shrinker] = k]
       /\ prevNr' = [prevNr EXCEPT ![Shrinker] = k]
  /\ circle' = [circle EXCEPT ![Shrinker] = FALSE]
  /\ shTime' = [shTime EXCEPT ![Shrinker] = now]
  /\ shAfter' = [shAfter EXCEPT ![Shrinker] = ShrinkAfter]
  /\ ret' = [ret EXCEPT ![Shrinker] = "Idle"]
  /\ Goto(Shrinker, "ShPick")
  /\ UNCHANGED <<total, alloced, now, objVars, listVars, cntVars, workVars,
                 thVars, shPool, shFreed, shObj>>

(* One turn of the while (nr > 0) loop, under sgv_pools_lock: take        *)
(* sgv_cur_purge_pool (or the first active pool), advance the cursor past *)
(* it, wrapping at the end of the list; leave when nothing is active, or  *)
(* when a whole circle of the list brought no progress.                   *)
ShPick(a) ==
  LET pool == IF cur # NULL THEN cur ELSE Head(active)
      last == Succ(active, pool) = NULL
  IN /\ pc[a] = "ShPick"
     /\ IF \/ nr[a] <= 0
           \/ cur = NULL /\ active = <<>>
           \/ last /\ circle[a] /\ prevNr[a] = nr[a]
        THEN Goto(a, ret[a]) /\ UNCHANGED <<cur, circle, prevNr, shPool, shFreed>>
        ELSE /\ circle' = [circle EXCEPT ![a] = circle[a] \/ last]
             /\ prevNr' = [prevNr EXCEPT ![a] = IF last THEN nr[a] ELSE @]
             /\ cur' = IF last THEN Head(active) ELSE Succ(active, pool)
             /\ shPool' = [shPool EXCEPT ![a] = pool]
             /\ shFreed' = [shFreed EXCEPT ![a] = 0]
             /\ Goto(a, "ShPool")
     /\ UNCHANGED <<total, alloced, now, objVars, listVars, cachedEntries,
                    cachedPages, active, workVars, thVars, ret, nr, shTime,
                    shAfter, shObj>>

(* sgv_shrink_pool(), under sgv_pool_lock: while the LRU is not empty and *)
(* sgv_pages_total is above the low watermark, purge its oldest object if *)
(* it is old enough, else stop.                                           *)
ShPool(a) ==
  LET p == shPool[a]
      o == Head(sorted[p])
      pages == 2^objOrder[o]
  IN /\ pc[a] = "ShPool"
     /\ IF sorted[p] # <<>> /\ total > LoWmk
           /\ TimeAfterEq(shTime[a], objTs[o] + shAfter[a])
        THEN /\ PurgeFromCache(o)
             /\ shFreed' = [shFreed EXCEPT ![a] = @ + pages]
             /\ nr' = [nr EXCEPT ![a] = @ - pages]
             /\ shObj' = [shObj EXCEPT ![a] = o]
             /\ Goto(a, "ShDtor")
        ELSE /\ Goto(a, "ShPick")
             /\ UNCHANGED <<total, objState, listVars, cntVars, nr, shFreed,
                            shObj>>
     /\ UNCHANGED <<alloced, now, objPool, objOrder, objSg, objTs,
                    objArr, arrays, purgeSched,
                    workVars, thVars, ret, prevNr, circle, shTime, shAfter,
                    shPool>>

(* ... destroy the object with the lock dropped, then stop once nr pages  *)
(* are freed or MAX_PAGES_PER_POOL were taken from this pool.             *)
ShDtor(a) ==
  /\ pc[a] = "ShDtor"
  /\ DtorAndFree(shObj[a])
  /\ shObj' = [shObj EXCEPT ![a] = NULL]
  /\ Goto(a, IF nr[a] <= 0 \/ shFreed[a] >= MaxPerPool THEN "ShPick"
                                                       ELSE "ShPool")
  /\ UNCHANGED <<total, alloced, now, listVars, cntVars, workVars, thVars,
                 ret, nr, prevNr, circle, shTime, shAfter, shPool, shFreed>>

-----------------------------------------------------------------------------
(* sgv_purge_work_fn(), the delayed work of pool p.                       *)

\* The body of its loop, under sgv_pool_lock, with cur_time t, the work
\* queued or not (pend) and purge_work_scheduled = sched: purge the oldest
\* object if PURGE_TIME_AFTER has passed since it was released and go
\* destroy it unlocked; at the first younger one, reschedule the work for
\* a full PURGE_INTERVAL and stop; stop when the LRU is empty.
WorkIter(p, t, pend, sched) ==
  LET o == Head(sorted[p])
  IN IF sorted[p] # <<>> /\ TimeAfterEq(t, objTs[o] + PurgeAfter)
     THEN /\ PurgeFromCache(o)
          /\ workPc' = [workPc EXCEPT ![p] = "Dtor"]
          /\ workObj' = [workObj EXCEPT ![p] = o]
          /\ purgeSched' = [purgeSched EXCEPT ![p] = sched]
          /\ workPending' = [workPending EXCEPT ![p] = pend]
          /\ UNCHANGED workDue
     ELSE /\ IF sorted[p] = <<>>
             THEN /\ purgeSched' = [purgeSched EXCEPT ![p] = sched]
                  /\ workPending' = [workPending EXCEPT ![p] = pend]
                  /\ UNCHANGED workDue
             ELSE /\ purgeSched' = [purgeSched EXCEPT ![p] = TRUE]
                  /\ workPending' = [workPending EXCEPT ![p] = TRUE]
                  /\ workDue' = IF pend THEN workDue
                                ELSE [workDue EXCEPT ![p] = now + PurgeAfter]
          /\ workPc' = [workPc EXCEPT ![p] = "Idle"]
          /\ UNCHANGED <<total, objState, recycling, sorted, inactive,
                         cntVars, workObj>>

\* Mutant of WorkStart: purge_work_scheduled is not cleared.
WorkStartKeepFlag(p) ==
  /\ workPending[p] /\ now >= workDue[p] /\ workPc[p] = "Idle"
  /\ workTime' = [workTime EXCEPT ![p] = now]
  /\ WorkIter(p, now, FALSE, purgeSched[p])
  /\ UNCHANGED <<alloced, now, objPool, objOrder, objSg, objTs,
                 objArr, arrays, pc, thVars,
                 shVars>>

\* The work runs once its delay has expired: it reads jiffies, takes the
\* lock and clears purge_work_scheduled before the loop.
WorkStart(p) ==
  /\ workPending[p] /\ now >= workDue[p] /\ workPc[p] = "Idle"
  /\ workTime' = [workTime EXCEPT ![p] = now]
  /\ WorkIter(p, now, FALSE, FALSE)
  /\ UNCHANGED <<alloced, now, objPool, objOrder, objSg, objTs,
                 objArr, arrays, pc, thVars,
                 shVars>>

\* ... destroys the purged object with the lock dropped ...
WorkDtor(p) ==
  /\ workPc[p] = "Dtor"
  /\ DtorAndFree(workObj[p])
  /\ workPc' = [workPc EXCEPT ![p] = "Loop"]
  /\ workObj' = [workObj EXCEPT ![p] = NULL]
  /\ UNCHANGED <<total, alloced, now, listVars, cntVars, workPending,
                 workDue, workTime, pc, thVars, shVars>>

\* ... and retakes the lock for the next turn, with the same cur_time.
WorkLoop(p) ==
  /\ workPc[p] = "Loop"
  /\ WorkIter(p, workTime[p], workPending[p], purgeSched[p])
  /\ UNCHANGED <<alloced, now, objPool, objOrder, objSg, objTs,
                 objArr, arrays, workTime,
                 pc, thVars, shVars>>

(* jiffies advance.                                                       *)
Tick ==
  /\ now < MaxTime
  /\ now' = now + 1
  /\ UNCHANGED <<total, alloced, objVars, listVars, cntVars, workVars, pc,
                 thVars, shVars>>

-----------------------------------------------------------------------------
ThreadStep(t) ==
  \/ StartAlloc(t) \/ StartSupplied(t) \/ MemCheck(t) \/ MemUndo(t)
  \/ GetObj(t) \/ NewObj(t) \/ BigNew(t) \/ HwRead(t) \/ HwDone(t)
  \/ HwAdd(t) \/ Fill(t) \/ FailFree(t) \/ UnHw(t) \/ UnMem(t)
  \/ FreeObj(t) \/ StartScstAlloc(t) \/ OtherAlloc(t) \/ ScstFree(t)

ShrinkStep(a) == ShPick(a) \/ ShPool(a) \/ ShDtor(a)

WorkStep(p) == WorkStart(p) \/ WorkDtor(p) \/ WorkLoop(p)

Next ==
  \/ \E t \in Threads : ThreadStep(t)
  \/ ShrinkStart
  \/ \E a \in Actors : ShrinkStep(a)
  \/ \E p \in Pools : WorkStep(p)
  \/ Tick

Spec == Init /\ [][Next]_vars

-----------------------------------------------------------------------------
(* Properties.                                                            *)

PcLabels == {"Idle", "MemCheck", "MemUndo", "GetObj", "NewObj", "BigNew",
             "HwRead", "HwDone", "HwAdd", "Fill", "FailFree", "FailFreeSg",
             "UnHw", "UnMem", "OtherAlloc", "ShPick", "ShPool", "ShDtor"}

TypeOK ==
  /\ total \in Int /\ alloced \in Int /\ now \in 0..MaxTime
  /\ objState \in [Objs -> {"None", "Building", "InUse", "Cached", "Dtor"}]
  /\ objPool \in [Objs -> Pools \cup {NULL}]
  /\ objOrder \in [Objs -> Int]
  /\ objSg \in [Objs -> Nat]
  /\ objTs \in [Objs -> 0..MaxTime]
  /\ objArr \in [Objs -> BOOLEAN] /\ arrays \in Nat
  /\ recycling \in [Pools -> [0..(NOrders - 1) -> Seq(Objs)]]
  /\ sorted \in [Pools -> Seq(Objs)]
  /\ cachedEntries \in [Pools -> Int] /\ cachedPages \in [Pools -> Int]
  /\ inactive \in [Pools -> Int] /\ purgeSched \in [Pools -> BOOLEAN]
  /\ active \in Seq(Pools) /\ cur \in Pools \cup {NULL}
  /\ workPending \in [Pools -> BOOLEAN] /\ workDue \in [Pools -> Nat]
  /\ workPc \in [Pools -> {"Idle", "Dtor", "Loop"}]
  /\ workObj \in [Pools -> Objs \cup {NULL}]
  /\ pc \in [Actors -> PcLabels]
  /\ tobj \in [Threads -> Objs \cup {NULL}]
  /\ held \in [Threads -> Objs \cup {NULL}]
  /\ other \in [Threads -> Nat]
  /\ hwOn \in [Threads -> BOOLEAN] /\ memOn \in [Threads -> BOOLEAN]
  /\ nr \in [Actors -> Int] /\ shPool \in [Actors -> Pools \cup {NULL}]

\* Objects whose pages sgv_pages_total counts: alive and holding pages.
HasPages(o) == objState[o] \in {"Building", "InUse", "Cached"} /\ objSg[o] # 0

\* sgv_pages_total equals the pages of every object that has pages, plus
\* the scst_alloc() buffers, plus what in-flight calls have added after
\* passing sgv_hiwmk_check() and not yet uncounted.  Purging an object from
\* the cache (__sgv_purge_from_cache) and failing an allocation half-way
\* must both keep it so, or the watermark gate works from a wrong total.
PageAccounting ==
  total = MapThenSumSet(ObjPages, {o \in Objs : HasPages(o)})
          + MapThenSumSet(LAMBDA t : other[t], Threads)
          + MapThenSumSet(LAMBDA t : req[t].n, {t \in Threads : hwOn[t]})

\* mem_lim->alloced_pages is the pages of the objects threads own, plus
\* the charges of calls in flight; and what the owners hold together never
\* exceeds max_allowed_pages, however the check-then-undo of concurrent
\* sgv_check_allowed_mem() calls interleave.
Committed == MapThenSumSet(LAMBDA t : ObjPages(held[t]),
                           {t \in Threads : held[t] # NULL /\ objSg[held[t]] # 0})
MemLimAccounting ==
  /\ alloced = Committed
               + MapThenSumSet(LAMBDA t : req[t].n,
                               {t \in Threads : memOn[t] \/ pc[t] = "MemUndo"})
  /\ Committed <= MaxMem

\* A pool is on sgv_active_pools_list exactly while it has cached entries,
\* at most once, and sgv_cur_purge_pool is NULL or a pool of that list:
\* sgv_get_obj() adding, sgv_del_from_active() removing and moving the
\* cursor, and __sgv_shrink() advancing it, racing on the two locks.
ActiveListConsistent ==
  /\ \A p \in Pools : (\E i \in 1..Len(active) : active[i] = p)
                        <=> cachedEntries[p] > 0
  /\ \A i, j \in 1..Len(active) : active[i] = active[j] => i = j
  /\ cur = NULL \/ \E i \in 1..Len(active) : active[i] = cur

\* Calls between a cache miss in sgv_get_obj() and the object allocation:
\* the entry is counted in the pool but no object exists yet.
PendingEntry(t, p) ==
  /\ req[t].kind = "cached" /\ req[t].pool = p /\ tobj[t] = NULL
  /\ pc[t] \in {"NewObj", "FailFree"}

CountedObjs(p) == {o \in Objs : objPool[o] = p /\ objOrder[o] >= 0 /\
                       objState[o] \in {"Building", "InUse", "Cached"}}
CachedObjs(p) == {o \in CountedObjs(p) : objState[o] = "Cached"}

\* cached_entries and cached_pages of a pool count its live cached-kind
\* objects (and misses not yet backed by an object); inactive_cached_pages
\* counts the ones sitting in the cache: every path that creates, fails or
\* purges an object keeps the three counters in step.
CacheCounters ==
  \A p \in Pools :
    LET pend == {t \in Threads : PendingEntry(t, p)}
    IN /\ cachedEntries[p] = Cardinality(CountedObjs(p)) + Cardinality(pend)
       /\ cachedPages[p] = MapThenSumSet(ObjPages, CountedObjs(p))
                           + MapThenSumSet(LAMBDA t : req[t].n, pend)
       /\ inactive[p] = MapThenSumSet(ObjPages, CachedObjs(p))

\* Every object is in exactly one place: on both lists of its pool (the
\* recycling list of its order and the LRU) while cached, owned by exactly
\* one thread while in use, and on no list and in no hand otherwise; so no
\* object is handed to two callers or destroyed while in use.
ObjectOwnership ==
  /\ \A p \in Pools :
       /\ Range(sorted[p]) = CachedObjs(p)
       /\ Len(sorted[p]) = Cardinality(CachedObjs(p))
       /\ \A k \in 0..(NOrders - 1) :
            /\ Range(recycling[p][k]) = {o \in CachedObjs(p) : objOrder[o] = k}
            /\ Len(recycling[p][k]) = Cardinality(Range(recycling[p][k]))
  /\ \A o \in Objs : objState[o] = "InUse" <=>
                       Cardinality({t \in Threads : held[t] = o}) = 1
  /\ \A t \in Threads : held[t] # NULL => objState[held[t]] = "InUse"

\* While a pool has objects in its cache, its purge work is queued or
\* running, so they will be purged once idle: purge_work_scheduled,
\* cleared when the work starts and tested by sgv_put_obj() while the work
\* drops the lock, must never let both sides skip the scheduling.
PurgeCoverage ==
  \A p \in Pools :
    (sorted[p] # <<>> \/ purgeSched[p]) => (workPending[p] \/ workPc[p] # "Idle")

\* Every SG array kmalloc()ed apart from its object (orders above
\* sgv_max_local_order) is referenced by exactly one live object: the miss
\* path of sgv_pool_alloc() only calls sgv_alloc_arrays() for an object
\* that has none, and every path that frees an object (sgv_dtor_and_free,
\* out_fail_free_sg_entries, out_fail_free) frees its arrays with it.
ArraysOwned == arrays = Cardinality({o \in Objs : objArr[o]})

\* sgv_pages_total never exceeds sgv_hi_wmk at a quiescent point, when no
\* thread is inside sgv_pool_alloc()/scst_alloc() and the shrinker is idle
\* (spec section 3, invariant 6): every allocation that adds pages passes
\* sgv_hiwmk_check() first, whose read and atomic_add are separate steps.
HiWmkRespected ==
  (\A a \in Actors : pc[a] = "Idle") => total <= HiWmk

-----------------------------------------------------------------------------
(* Refinement of SgvCache: what the callers see of the objects.           *)

\* The call of t is working on tobj[t]: from the point sgv_pool_alloc()
\* has an object (supplied, popped without pages, or allocated) until it
\* is filled, handed back or freed, the __sgv_shrink() of its
\* sgv_hiwmk_check() included; elsewhere tobj is a leftover.
TobjLive(t) ==
  /\ req[t].kind \in {"cached", "supplied", "big"}
  /\ \/ pc[t] \in {"NewObj", "HwRead", "HwDone", "HwAdd", "Fill", "FailFree",
                  "FailFreeSg", "ShPick", "ShPool", "ShDtor"}
     \/ pc[t] \in {"MemCheck", "MemUndo"} /\ req[t].kind = "supplied"

\* The threads an object is lent to: its owner between calls, or the call
\* building it.
Lenders(o) ==
  CASE objState[o] = "InUse"    -> {t \in Threads : held[t] = o}
    [] objState[o] = "Building" -> {t \in Threads : TobjLive(t) /\ tobj[t] = o}
    [] OTHER                    -> {}

CacheWhere(o) ==
  CASE objState[o] \in {"Building", "InUse"} -> "lent"
    [] objState[o] = "Cached"               -> "cached"
    [] OTHER                                -> "none"

\* The key of a request: a cached (or supplied) call asks for its pool and
\* order, a big one for its pool and minus its page count.
Wanted(t) ==
  CASE pc[t] = "Idle"                         -> NULL
    [] req[t].kind \in {"cached", "supplied"} -> <<req[t].pool, req[t].ord>>
    [] req[t].kind = "big"                    -> <<req[t].pool, -req[t].n>>
    [] OTHER                                  -> NULL

CacheKeys == Pools \X ((0..(NOrders - 1)) \cup {-n : n \in ReqPages})

Cache == INSTANCE SgvCache WITH
  Keys   <- CacheKeys,
  where  <- [o \in Objs |-> CacheWhere(o)],
  owner  <- [o \in Objs |-> IF Lenders(o) = {} THEN NULL
                            ELSE CHOOSE t \in Lenders(o) : TRUE],
  key    <- [o \in Objs |-> IF CacheWhere(o) = "none" THEN NULL
                            ELSE <<objPool[o], objOrder[o]>>],
  filled <- [o \in Objs |-> CacheWhere(o) # "none" /\ objSg[o] # 0],
  want   <- [t \in Threads |-> Wanted(t)]

\* The pool implements SgvCache: sgv_get_obj() hands a thread only a
\* cached object of the pool and order it asked for, and only while it
\* holds no other; only the thread an object is lent to attaches its pages,
\* sgv_pool_free()s it to the cache or frees it; a cached object leaves
\* the cache only to a caller or to the purge work or shrinker, pages and
\* all.  Every step of every actor, lock dropped or not, must be one of
\* these or leave them alone.
ImplementsSgvCache == Cache!Spec

=============================================================================
