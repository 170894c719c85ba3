----------------------------- MODULE SgvRegistry -----------------------------
(***************************************************************************)
(* The life cycle of dynamically created SGV pools (scst_mem.c):           *)
(* sgv_pool_create / sgv_pool_init, the reference count taken by           *)
(* sgv_pool_get / sgv_pool_put, sgv_pool_del and the destruction path      *)
(* sgv_pool_destroy -> sgv_pool_deinit (cancel the purge work, flush the   *)
(* cache, unlink from sgv_pools_list, kfree), together with the actors     *)
(* that reach a pool without holding a handle of their own: the memory    *)
(* shrinker __sgv_shrink(), which finds pools on sgv_active_pools_list and *)
(* pins them with sgv_pool_get, and the per-pool purge work.               *)
(*                                                                         *)
(* The contents of a pool are abstracted to two counters: cached_entries   *)
(* (objects the pool has handed out or caches) and the cached, purgeable   *)
(* objects among them.  Objects are one page each.  Object expiry is a     *)
(* nondeterministic choice of how many of the oldest cached objects a      *)
(* purge finds expired.  The shrinker may run in the context of a user     *)
(* thread that enters direct reclaim from the GFP_KERNEL kzalloc() in      *)
(* sgv_pool_create, or in the context of kswapd.                           *)
(***************************************************************************)
EXTENDS Integers, Sequences, SequencesExt, FiniteSets, FiniteSetsExt

CONSTANTS
  Users,        \* threads that create, use and delete pools
  Kswapd,       \* the background reclaim thread calling sgv_shrink()
  Slots,        \* memory for struct sgv_pool (never reused after kfree)
  Names,        \* pool names passed to sgv_pool_create
  Shared,       \* values of the "shared" argument that callers pass
  MMOf,         \* current->mm of each user thread
  ShrinkNr,     \* nr passed to sgv_shrink() (pages)
  MaxCache,     \* bound on cached_entries of a pool
  MaxHandles,   \* bound on the pool handles a user holds at once
  DirectReclaim, \* whether sgv_pool_create's kzalloc() may enter reclaim
  NULL

ASSUME /\ Kswapd \notin Users
       /\ Shared \subseteq BOOLEAN
       /\ ShrinkNr \in Nat \ {0}
       /\ DirectReclaim \in BOOLEAN

Actors == Users \cup {Kswapd}

VARIABLES
  slot,        \* "new" | "alloc" | "live" | "freed": the pool's memory
  name,        \* pool->name
  owner,       \* pool->owner_mm
  ref,         \* pool->sgv_pool_ref
  listed,      \* pools on sgv_pools_list
  active,      \* sgv_active_pools_list, in list order
  cur,         \* sgv_cur_purge_pool
  entries,     \* pool->cached_entries
  cached,      \* objects on pool->sorted_recycling_list
  workSched,   \* pool->purge_work_scheduled (delayed work queued)
  mutex,       \* holder of sgv_pools_mutex, or NULL
  handles,     \* handles[u][s]: references u got from sgv_pool_create
  inUse,       \* inUse[u][s]: objects u allocated from s and not freed
  pc,          \* program counter of each actor
  tp,          \* the pool an actor is working on
  crName,      \* sgv_pool_create(name, ...)
  crShared,    \* sgv_pool_create(..., shared)
  putRet,      \* where an actor continues after sgv_pool_put
  shRet,       \* where an actor continues after __sgv_shrink
  shNr,        \* __sgv_shrink: nr
  prevNr,      \* __sgv_shrink: prev_nr
  circle       \* __sgv_shrink: circle

poolVars  == <<slot, name, owner, ref, listed, active, cur, entries, cached,
               workSched>>
actorVars == <<pc, tp, crName, crShared, putRet, shRet, shNr, prevNr, circle>>
vars      == <<poolVars, mutex, handles, inUse, actorVars>>

-----------------------------------------------------------------------------
(* Helpers on the active list and the pool cache.                          *)

\* Mutant: the cursor is left on the pool that leaves the list.
DelFromActiveKeepCursor(s) ==
  /\ active' = Remove(active, s)
  /\ UNCHANGED cur

\* sgv_del_from_active: unlink s; if it was sgv_cur_purge_pool, the cursor
\* moves to its successor, wrapping past the list head, or to NULL.
DelFromActive(s) ==
  LET i    == SelectInSeq(active, LAMBDA x : x = s)
      rest == Remove(active, s)
  IN /\ active' = rest
     /\ cur' = IF cur # s THEN cur
               ELSE IF rest = <<>> THEN NULL
               ELSE IF i <= Len(rest) THEN rest[i] ELSE rest[1]

\* sgv_dec_cached_entries after __sgv_purge_from_cache of k objects.
PurgeCached(s, k) ==
  /\ cached'  = [cached  EXCEPT ![s] = @ - k]
  /\ entries' = [entries EXCEPT ![s] = @ - k]
  /\ IF k > 0 /\ entries[s] = k
       THEN DelFromActive(s)
       ELSE UNCHANGED <<active, cur>>

-----------------------------------------------------------------------------
Init ==
  /\ slot = [s \in Slots |-> "new"]
  /\ name = [s \in Slots |-> NULL]
  /\ owner = [s \in Slots |-> NULL]
  /\ ref = [s \in Slots |-> 0]
  /\ listed = {}
  /\ active = <<>>
  /\ cur = NULL
  /\ entries = [s \in Slots |-> 0]
  /\ cached = [s \in Slots |-> 0]
  /\ workSched = [s \in Slots |-> FALSE]
  /\ mutex = NULL
  /\ handles = [u \in Users |-> [s \in Slots |-> 0]]
  /\ inUse = [u \in Users |-> [s \in Slots |-> 0]]
  /\ pc = [a \in Actors |-> "Idle"]
  /\ tp = [a \in Actors |-> NULL]
  /\ crName = [a \in Actors |-> NULL]
  /\ crShared = [a \in Actors |-> FALSE]
  /\ putRet = [a \in Actors |-> "Idle"]
  /\ shRet = [a \in Actors |-> "Idle"]
  /\ shNr = [a \in Actors |-> 0]
  /\ prevNr = [a \in Actors |-> 0]
  /\ circle = [a \in Actors |-> FALSE]

Goto(a, l) == pc' = [pc EXCEPT ![a] = l]

\* Releasing sgv_pools_mutex and returning to the idle loop.
Unlock(a) ==
  /\ mutex' = NULL
  /\ Goto(a, "Idle")

-----------------------------------------------------------------------------
(* Users: sgv_pool_create.                                                 *)

StartCreate(u, n, sh) ==
  /\ pc[u] = "Idle"
  /\ FoldFunctionOnSet(+, 0, handles[u], Slots) < MaxHandles
  /\ crName' = [crName EXCEPT ![u] = n]
  /\ crShared' = [crShared EXCEPT ![u] = sh]
  /\ Goto(u, "CrLock")
  /\ UNCHANGED <<poolVars, mutex, handles, inUse, tp, putRet, shRet, shNr,
                 prevNr, circle>>

\* mutex_lock(&sgv_pools_mutex) and the search of sgv_pools_list by name:
\* a shared pool of the same mm gets sgv_pool_get; any other match fails.
CrLock(u) ==
  LET found == {s \in listed : name[s] = crName[u]}
  IN /\ pc[u] = "CrLock"
     /\ mutex = NULL
     /\ IF found = {}
          THEN /\ mutex' = u
               /\ Goto(u, "CrAlloc")
               /\ UNCHANGED <<ref, handles>>
          ELSE LET s == CHOOSE x \in found : TRUE
               IN IF crShared[u] /\ owner[s] = MMOf[u]
                    THEN /\ ref' = [ref EXCEPT ![s] = @ + 1]
                         /\ handles' = [handles EXCEPT ![u][s] = @ + 1]
                         /\ Unlock(u)
                    ELSE /\ Unlock(u)
                         /\ UNCHANGED <<ref, handles>>
     /\ UNCHANGED <<slot, name, owner, listed, active, cur, entries, cached,
                    workSched, inUse, tp, crName, crShared, putRet, shRet,
                    shNr, prevNr, circle>>

\* kzalloc(GFP_KERNEL) under sgv_pools_mutex: it fails, returns a new
\* struct sgv_pool, or first enters direct reclaim, which calls
\* sgv_shrink(nr) in this thread with the mutex still held.
CrAlloc(u) ==
  /\ pc[u] = "CrAlloc"
  /\ \/ /\ Unlock(u)
        /\ UNCHANGED <<slot, tp, shRet, shNr, prevNr, circle>>
     \/ \E s \in Slots :
          /\ slot[s] = "new"
          /\ slot' = [slot EXCEPT ![s] = "alloc"]
          /\ tp' = [tp EXCEPT ![u] = s]
          /\ Goto(u, "CrInit")
          /\ UNCHANGED <<mutex, shRet, shNr, prevNr, circle>>
     \/ /\ DirectReclaim
        /\ shRet' = [shRet EXCEPT ![u] = "CrAlloc"]
        /\ shNr' = [shNr EXCEPT ![u] = ShrinkNr]
        /\ prevNr' = [prevNr EXCEPT ![u] = ShrinkNr]
        /\ circle' = [circle EXCEPT ![u] = FALSE]
        /\ Goto(u, "ShLock")
        /\ UNCHANGED <<slot, mutex, tp>>
  /\ UNCHANGED <<name, owner, ref, listed, active, cur, entries, cached,
                 workSched, handles, inUse, crName, crShared, putRet>>

\* sgv_pool_init: kmem_cache_create of the caches fails (the pool is
\* kfree()d, create returns NULL) or the pool starts with sgv_pool_ref 1
\* and is added to sgv_pools_list; sgv_pool_create unlocks the mutex.
CrInit(u) ==
  LET s == tp[u]
  IN /\ pc[u] = "CrInit"
     /\ \/ /\ slot' = [slot EXCEPT ![s] = "freed"]
           /\ Unlock(u)
           /\ UNCHANGED <<name, owner, ref, listed, handles>>
        \/ /\ slot' = [slot EXCEPT ![s] = "live"]
           /\ name' = [name EXCEPT ![s] = crName[u]]
           /\ owner' = [owner EXCEPT ![s] = MMOf[u]]
           /\ ref' = [ref EXCEPT ![s] = 1]
           /\ listed' = listed \cup {s}
           /\ handles' = [handles EXCEPT ![u][s] = @ + 1]
           /\ Unlock(u)
     /\ UNCHANGED <<active, cur, entries, cached, workSched, inUse, tp,
                    crName, crShared, putRet, shRet, shNr, prevNr, circle>>

-----------------------------------------------------------------------------
(* Users: allocation from and freeing to a pool they hold, sgv_pool_del.   *)

\* sgv_get_obj: a cached object is reused, or on a miss cached_entries
\* grows and a pool whose count was 0 joins sgv_active_pools_list.  (A
\* failed kmem_cache_alloc undoes the miss and leaves nothing changed.)
AllocObj(u, s) ==
  /\ pc[u] = "Idle"
  /\ handles[u][s] > 0
  /\ inUse[u][s] = 0
  /\ \/ /\ cached[s] > 0
        /\ cached' = [cached EXCEPT ![s] = @ - 1]
        /\ UNCHANGED <<entries, active>>
     \/ /\ cached[s] = 0
        /\ entries[s] < MaxCache
        /\ entries' = [entries EXCEPT ![s] = @ + 1]
        /\ active' = IF entries[s] = 0 THEN Append(active, s) ELSE active
        /\ UNCHANGED cached
  /\ inUse' = [inUse EXCEPT ![u][s] = 1]
  /\ UNCHANGED <<slot, name, owner, ref, listed, cur, workSched, mutex,
                 handles, actorVars>>

\* Mutant: the object stays owned by the user after it is freed.
FreeObjNoClear(u, s) ==
  /\ pc[u] = "Idle"
  /\ inUse[u][s] = 1
  /\ cached' = [cached EXCEPT ![s] = @ + 1]
  /\ workSched' = [workSched EXCEPT ![s] = TRUE]
  /\ UNCHANGED <<slot, name, owner, ref, listed, active, cur, entries, mutex,
                 handles, inUse, actorVars>>

\* sgv_put_obj: the object goes back to the recycling lists and the purge
\* work is scheduled unless it already is.
FreeObj(u, s) ==
  /\ pc[u] = "Idle"
  /\ inUse[u][s] = 1
  /\ cached' = [cached EXCEPT ![s] = @ + 1]
  /\ workSched' = [workSched EXCEPT ![s] = TRUE]
  /\ inUse' = [inUse EXCEPT ![u][s] = 0]
  /\ UNCHANGED <<slot, name, owner, ref, listed, active, cur, entries, mutex,
                 handles, actorVars>>

\* sgv_pool_del(pool) by a user that freed all its objects: it gives up
\* its handle and calls sgv_pool_put.
StartDel(u, s) ==
  /\ pc[u] = "Idle"
  /\ handles[u][s] > 0
  /\ inUse[u][s] = 0
  /\ handles' = [handles EXCEPT ![u][s] = @ - 1]
  /\ tp' = [tp EXCEPT ![u] = s]
  /\ putRet' = [putRet EXCEPT ![u] = "Idle"]
  /\ Goto(u, "Put")
  /\ UNCHANGED <<poolVars, mutex, inUse, crName, crShared, shRet, shNr,
                 prevNr, circle>>

-----------------------------------------------------------------------------
(* sgv_pool_put and sgv_pool_destroy, run by whoever drops the last ref.   *)

\* atomic_dec_and_test(&pool->sgv_pool_ref): reaching 0 destroys.
Put(a) ==
  LET s == tp[a]
  IN /\ pc[a] = "Put"
     /\ ref' = [ref EXCEPT ![s] = @ - 1]
     /\ Goto(a, IF ref[s] = 1 THEN "DCancel" ELSE putRet[a])
     /\ UNCHANGED <<slot, name, owner, listed, active, cur, entries, cached,
                    workSched, mutex, handles, inUse, tp, crName, crShared,
                    putRet, shRet, shNr, prevNr, circle>>

\* sgv_pool_deinit: cancel_delayed_work_sync(&pool->sgv_purge_work).  The
\* purge work is one atomic step, so it is never half done here.
DCancel(a) ==
  /\ pc[a] = "DCancel"
  /\ workSched' = [workSched EXCEPT ![tp[a]] = FALSE]
  /\ Goto(a, "DFlush")
  /\ UNCHANGED <<slot, name, owner, ref, listed, active, cur, entries, cached,
                 mutex, handles, inUse, tp, crName, crShared, putRet, shRet,
                 shNr, prevNr, circle>>

\* sgv_pool_flush: each cached object is purged under sgv_pool_lock and
\* destroyed; objects still handed out stay counted in cached_entries.
DFlush(a) ==
  LET s == tp[a]
  IN /\ pc[a] = "DFlush"
     /\ IF cached[s] > 0
          THEN /\ PurgeCached(s, 1)
               /\ UNCHANGED pc
          ELSE /\ Goto(a, "DListDel")
               /\ UNCHANGED <<cached, entries, active, cur>>
     /\ UNCHANGED <<slot, name, owner, ref, listed, workSched, mutex, handles,
                    inUse, tp, crName, crShared, putRet, shRet, shNr, prevNr,
                    circle>>

\* mutex_lock(&sgv_pools_mutex); list_del(&pool->sgv_pools_list_entry);
\* mutex_unlock.  The step waits while any thread holds the mutex.
DListDel(a) ==
  /\ pc[a] = "DListDel"
  /\ mutex = NULL
  /\ listed' = listed \ {tp[a]}
  /\ Goto(a, "DFree")
  /\ UNCHANGED <<slot, name, owner, ref, active, cur, entries, cached,
                 workSched, mutex, handles, inUse, tp, crName, crShared,
                 putRet, shRet, shNr, prevNr, circle>>

\* kmem_cache_destroy of the caches and kfree(pool); put returns.
DFree(a) ==
  /\ pc[a] = "DFree"
  /\ slot' = [slot EXCEPT ![tp[a]] = "freed"]
  /\ Goto(a, putRet[a])
  /\ UNCHANGED <<name, owner, ref, listed, active, cur, entries, cached,
                 workSched, mutex, handles, inUse, tp, crName, crShared,
                 putRet, shRet, shNr, prevNr, circle>>

-----------------------------------------------------------------------------
(* The shrinker, __sgv_shrink(nr), and the purge work.                     *)

\* kswapd calls sgv_shrink(nr) with nr > 0 at any time.
KswapdStart ==
  /\ pc[Kswapd] = "Idle"
  /\ shRet' = [shRet EXCEPT ![Kswapd] = "Idle"]
  /\ shNr' = [shNr EXCEPT ![Kswapd] = ShrinkNr]
  /\ prevNr' = [prevNr EXCEPT ![Kswapd] = ShrinkNr]
  /\ circle' = [circle EXCEPT ![Kswapd] = FALSE]
  /\ Goto(Kswapd, "ShLock")
  /\ UNCHANGED <<poolVars, mutex, handles, inUse, tp, crName, crShared,
                 putRet>>

\* Mutant: the shrinker uses the pool without sgv_pool_get.
ShLockNoGet(a) ==
  LET pool == IF cur # NULL THEN cur
              ELSE IF active = <<>> THEN NULL ELSE Head(active)
      i    == SelectInSeq(active, LAMBDA x : x = pool)
      last == i = Len(active)
  IN /\ pc[a] = "ShLock"
     /\ IF shNr[a] <= 0 \/ pool = NULL
          THEN /\ Goto(a, shRet[a])
               /\ UNCHANGED <<cur, tp, putRet, prevNr, circle>>
          ELSE /\ tp' = [tp EXCEPT ![a] = pool]
               /\ IF last /\ circle[a] /\ prevNr[a] = shNr[a]
                    THEN /\ putRet' = [putRet EXCEPT ![a] = shRet[a]]
                         /\ Goto(a, "Put")
                         /\ UNCHANGED <<cur, prevNr, circle>>
                    ELSE /\ circle' = [circle EXCEPT ![a] = circle[a] \/ last]
                         /\ prevNr' = [prevNr EXCEPT ![a] =
                                         IF last THEN shNr[a] ELSE @]
                         /\ cur' = IF last THEN active[1] ELSE active[i + 1]
                         /\ Goto(a, "ShPool")
                         /\ UNCHANGED putRet
     /\ UNCHANGED <<slot, name, owner, ref, listed, active, entries, cached,
                    workSched, mutex, handles, inUse, crName, crShared, shRet,
                    shNr>>

\* One turn of the while (nr > 0) loop under sgv_pools_lock: the pool is
\* sgv_cur_purge_pool or the head of the active list; it is pinned with
\* sgv_pool_get; at the tail a full circle without progress leaves through
\* out_unlock_put, otherwise the cursor advances, wrapping at the tail.
ShLock(a) ==
  LET pool == IF cur # NULL THEN cur
              ELSE IF active = <<>> THEN NULL ELSE Head(active)
      i    == SelectInSeq(active, LAMBDA x : x = pool)
      last == i = Len(active)
  IN /\ pc[a] = "ShLock"
     /\ IF shNr[a] <= 0 \/ pool = NULL
          THEN /\ Goto(a, shRet[a])
               /\ UNCHANGED <<ref, cur, tp, putRet, prevNr, circle>>
          ELSE /\ ref' = [ref EXCEPT ![pool] = @ + 1]
               /\ tp' = [tp EXCEPT ![a] = pool]
               /\ IF last /\ circle[a] /\ prevNr[a] = shNr[a]
                    THEN /\ putRet' = [putRet EXCEPT ![a] = shRet[a]]
                         /\ Goto(a, "Put")
                         /\ UNCHANGED <<cur, prevNr, circle>>
                    ELSE /\ circle' = [circle EXCEPT ![a] = circle[a] \/ last]
                         /\ prevNr' = [prevNr EXCEPT ![a] =
                                         IF last THEN shNr[a] ELSE @]
                         /\ cur' = IF last THEN active[1] ELSE active[i + 1]
                         /\ Goto(a, "ShPool")
                         /\ UNCHANGED putRet
     /\ UNCHANGED <<slot, name, owner, listed, active, entries, cached,
                    workSched, mutex, handles, inUse, crName, crShared,
                    shRet, shNr>>

\* sgv_shrink_pool(pool, nr): purges the expired oldest cached objects,
\* at most nr pages; then sgv_pool_put(pool) and the loop goes on.
ShPool(a) ==
  LET s == tp[a]
  IN /\ pc[a] = "ShPool"
     /\ \E k \in 0..Min({shNr[a], cached[s]}) :
          /\ PurgeCached(s, k)
          /\ shNr' = [shNr EXCEPT ![a] = @ - k]
     /\ putRet' = [putRet EXCEPT ![a] = "ShLock"]
     /\ Goto(a, "Put")
     /\ UNCHANGED <<slot, name, owner, ref, listed, workSched, mutex, handles,
                    inUse, tp, crName, crShared, shRet, prevNr, circle>>

\* sgv_purge_work_fn: purges the expired objects; if one is not expired
\* yet, the work is rescheduled, otherwise purge_work_scheduled stays false.
PurgeWork(s) ==
  /\ workSched[s]
  /\ \E k \in 0..cached[s] :
       /\ PurgeCached(s, k)
       /\ workSched' = [workSched EXCEPT ![s] = k < cached[s]]
  /\ UNCHANGED <<slot, name, owner, ref, listed, mutex, handles, inUse,
                 actorVars>>

-----------------------------------------------------------------------------
\* The steps of an actor once it is inside create, put or the shrinker.
Step(a) ==
  \/ CrLock(a) \/ CrAlloc(a) \/ CrInit(a)
  \/ Put(a) \/ DCancel(a) \/ DFlush(a) \/ DListDel(a) \/ DFree(a)
  \/ ShLock(a) \/ ShPool(a)

\* What a user may start from its idle loop.
UserCall(u) ==
  \/ \E n \in Names, sh \in Shared : StartCreate(u, n, sh)
  \/ \E s \in Slots : AllocObj(u, s) \/ FreeObj(u, s) \/ StartDel(u, s)

Next ==
  \/ \E u \in Users : UserCall(u)
  \/ KswapdStart
  \/ \E a \in Actors : Step(a)
  \/ \E s \in Slots : PurgeWork(s)

\* Threads inside the allocator keep being scheduled, and the workqueue
\* runs queued work; nothing forces a user or kswapd to start a call.  A
\* thread sleeping on sgv_pools_mutex sits on its FIFO wait list and is
\* woken by mutex_unlock, so one that is repeatedly able to take the mutex
\* eventually does (strong fairness on the two steps that take it).
Fairness ==
  /\ \A a \in Actors : WF_vars(Step(a))
  /\ \A a \in Actors : SF_vars(CrLock(a)) /\ SF_vars(DListDel(a))
  /\ \A s \in Slots : WF_vars(PurgeWork(s))

Spec == Init /\ [][Next]_vars /\ Fairness

-----------------------------------------------------------------------------
(* Properties.                                                             *)

PcLabels == {"Idle", "CrLock", "CrAlloc", "CrInit", "Put", "DCancel",
             "DFlush", "DListDel", "DFree", "ShLock", "ShPool"}
DestroyLabels == {"DCancel", "DFlush", "DListDel", "DFree"}

TypeOK ==
  /\ slot \in [Slots -> {"new", "alloc", "live", "freed"}]
  /\ ref \in [Slots -> Nat]
  /\ listed \subseteq Slots
  /\ active \in Seq(Slots)
  /\ cur \in Slots \cup {NULL}
  /\ entries \in [Slots -> 0..MaxCache]
  /\ cached \in [Slots -> 0..MaxCache]
  /\ workSched \in [Slots -> BOOLEAN]
  /\ mutex \in Actors \cup {NULL}
  /\ handles \in [Users -> [Slots -> 0..MaxHandles]]
  /\ inUse \in [Users -> [Slots -> 0..1]]
  /\ pc \in [Actors -> PcLabels]
  /\ shNr \in [Actors -> 0..ShrinkNr]

\* The actors whose pointer to s is backed by a reference of their own: a
\* shrinker between sgv_pool_get and sgv_pool_put, or a thread about to
\* drop the reference it gave up in sgv_pool_del.
Pins(s) == {a \in Actors : tp[a] = s /\ pc[a] \in {"ShPool", "Put"}}

Holders(s) == FoldFunctionOnSet(+, 0, [u \in Users |-> handles[u][s]], Users)
                + Cardinality(Pins(s))

\* sgv_pool_ref of a live pool equals the handles sgv_pool_create gave out
\* and not yet given back plus the shrinkers that pinned it: the get on a
\* shared create and in __sgv_shrink, the put in del and after a shrink.
RefCountExact ==
  \A s \in Slots : slot[s] = "live" => ref[s] = Holders(s)

\* sgv_active_pools_list holds each pool once, exactly the pools whose
\* cached_entries is not 0, and sgv_cur_purge_pool is NULL or on it: the
\* list_add_tail in sgv_get_obj, sgv_del_from_active's unlink and cursor
\* move, and the purges of the work, the shrinker and the flush.
ActiveListConsistent ==
  /\ IsInjective(active)
  /\ ToSet(active) = {s \in Slots : entries[s] > 0}
  /\ cur = NULL \/ cur \in ToSet(active)

\* A pool that sgv_pool_put has started to destroy, or has freed, is out
\* of everybody's reach: no user holds a handle to it, no shrinker has
\* pinned it.  Otherwise its holder uses freed memory, and its own put
\* runs sgv_pool_destroy a second time.
DestroyExclusive ==
  \A s \in Slots :
    (slot[s] = "freed" \/ \E a \in Actors : tp[a] = s /\ pc[a] \in DestroyLabels)
      => Holders(s) = 0

\* No thread waits for sgv_pools_mutex while holding it: a destroy run by
\* the shrinker inside the reclaim of sgv_pool_create's kzalloc().
NoSelfDeadlock ==
  \A a \in Actors : ~(pc[a] = "DListDel" /\ mutex = a)

=============================================================================
