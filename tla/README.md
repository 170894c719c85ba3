# TLA+ models of the SCST SGV pool allocator

This directory holds the TLA+ specifications that are kept beside
`src/trunk/scst/src/scst_mem.c`, the scatter-gather vector (SGV) pool
allocator of SCST. It also holds the TLC configurations that check them.
The two `scst_sysfs.c` files under `src/branches/` are sysfs glue that the
specification (`spec.md` §1) puts out of scope. Three parts of them are
modelled all the same:

- the user-space event helpers of the `sysfs-tree-changes` branch
  (`SysfsUserInfo.tla`), because they have a timeout racing a reply, and
  the service they promise (`SysfsUserEvents.tla`);
- that branch's management-command path parser and its LUN, group and
  initiator handlers (`SysfsMgmt.tla`);
- that branch's target `enable`, `disable` and `rel_tgt_id` stores and the
  attributes of ALUA target groups (`SysfsTarget.tla`);
- the LUN and trace-level stores of the `sysfs` branch
  (`SysfsLegacy.tla`).

The rest is listed below as not modelled.

## The system

`scst_mem.c` serves SG vectors to concurrent I/O paths.

| Part | Code | State | Operations |
|---|---|---|---|
| Bucketed pool | `sgv_get_obj`, `sgv_put_obj`, `sgv_pool_alloc`, `sgv_pool_free`, `sgv_dtor_and_free` | per pool: `recycling_lists[order]` (free lists), `sorted_recycling_list` (LRU), `cached_entries`, `cached_pages`, `inactive_cached_pages`; per object: `order_or_pages`, `sg_count`, `time_stamp`, `sg_entries`/`trans_tbl` | alloc (cache hit, miss, big/`NO_CACHED`, filling a caller-supplied `*sgv`), free |
| Watermark gate | `sgv_hiwmk_check`, `sgv_hiwmk_uncheck`, `scst_alloc`, `scst_free` | `sgv_pages_total`, `sgv_hi_wmk`, `sgv_lo_wmk` | check (may shrink), add, uncheck |
| Quota | `sgv_check_allowed_mem`, `sgv_uncheck_allowed_mem` | `mem_lim->alloced_pages` | add-then-undo, subtract |
| Purge work | `sgv_purge_work_fn` | `purge_work_scheduled`, the delayed work | purge objects older than `PURGE_TIME_AFTER`, reschedule |
| Shrinker | `sgv_shrink`, `__sgv_shrink`, `sgv_shrink_pool`, `sgv_del_from_active` | `sgv_active_pools_list`, `sgv_cur_purge_pool` | round-robin over active pools, evicting old objects |
| Registry | `sgv_pool_create/init/flush/deinit/destroy/del`, `sgv_pool_get/put` | `sgv_pools_list`, `sgv_pool_ref` | create, share, delete |
| Clusterer | `sgv_alloc_sg_entries`, `sgv_check_{full,tail}_clustering` | SG entries, `trans_tbl` | merge adjacent pages |
| Object layout | `sgv_evaluate_local_order`, the cache sizes of `sgv_pool_init`, `sgv_alloc_arrays` | `sgv_max_local_order`, `sgv_max_trans_order` | embed or kmalloc an object's `sg_entries` and `trans_tbl` |
| Statistics | `sgv_do_proc_read`, `sgv_procinfo_show` | counters | read-only |

How the parts interact:

- An allocation charges the quota, takes an object from the pool, and checks the watermark. That check can call `__sgv_shrink` on every pool. Then it fills the pages.
- Every failure unwinds those charges in reverse order.
- A free puts the object back on the free lists and arms the pool's purge work.
- The purge work, the memory-pressure shrinker and the watermark shrink all evict objects with `__sgv_purge_from_cache`, and destroy them with the pool lock dropped.

The hard behaviours are these:

- Steps of several threads interleave between the unlocked atomic operations: the watermark read-then-add and the quota add-then-undo.
- The purge work and the shrinker drop `sgv_pool_lock` around each destruction.
- `sgv_del_from_active` must move the shrinker's cursor.
- `purge_work_scheduled` is cleared by the work and tested by releases.
- Partial failures leave half-built objects, which `RETURN_OBJ_ON_ALLOC_FAIL` and `NO_ALLOC_ON_CACHE_MISS` can hand back to the caller.

## Modules

**`SgvPool.tla`** models the bucketed pool, the watermark gate, the quota, the purge work and the shrinker, in one module, because they share `sgv_pages_total` and the pool lists.

- **Locking.** Each section the code runs under `sgv_pool_lock` or `sgv_pools_lock` is one action. Each atomic operation done outside a lock is an action of its own. So steps of different actors interleave exactly where the code lets them.
- **Actors:**
  - consumer threads (`Threads`), with a program counter `pc`;
  - the memory-pressure caller of `sgv_shrink` (`Shrinker`);
  - one delayed purge work per pool (`workPc`).
- **Shared state.** The variables carry the code's names in comments: `total` is `sgv_pages_total`, `alloced` is `mem_lim->alloced_pages`, `recycling`, `sorted`, `cachedEntries`, `cachedPages`, `inactive`, `purgeSched`, `active`, `cur`. Objects are a fixed set of slots (`Objs`), with `objState`, `objPool`, `objOrder` (negative for big objects), `objSg`, `objTs`, and `objArr` (whether the object's SG arrays were kmalloc()ed apart from it). `arrays` counts the SG arrays that are allocated and not yet freed.
- **Thread locals.** `req`, `tobj`, `hwOn` and `memOn` stand for `hiwmk_checked` and `allowed_mem_checked`. `held` is the object a caller owns between calls, and `other` is its `scst_alloc` buffer.
- **`__sgv_shrink` locals.** `nr`, `prevNr`, `circle`, `shTime`, `shAfter`, `shPool`, `shFreed` and `shObj` are per actor, because a thread runs the same loop from `sgv_hiwmk_check`.

The actions follow the code's paths, one label per step:

- `sgv_pool_alloc`:
  - `StartAlloc`, `StartSupplied`, `MemCheck`, `MemUndo`, `GetObj`, `NewObj` (kmem failure, `nomiss`, `arrfail`, empty object back via `out_return`, or go on), `BigNew`, `HwRead`, `HwDone`, `HwAdd`, `Fill` (success, `out_return1`, failure);
  - `FailFree` (`out_fail_free_sg_entries` as pc `FailFreeSg`, then `out_fail_free`), `UnHw`, `UnMem`.
- `sgv_pool_free`: `FreeObj` with `PutObj` (`sgv_put_obj`).
- `scst_alloc` and `scst_free`: `StartScstAlloc`, `OtherAlloc`, `ScstFree`.
- The shrinker: `ShrinkStart`, `ShPick` (one turn of the `__sgv_shrink` loop under `sgv_pools_lock`), `ShPool` (`sgv_shrink_pool` under the pool lock), `ShDtor` (destruction with the lock dropped).
- The purge work: `WorkStart`, `WorkDtor`, `WorkLoop`.
- The clock: `Tick` advances jiffies up to `MaxTime`.

Pages, byte lengths and SG entries are abstracted to page counts and to `sg_count`. Clustering may merge the pages of one allocation into any of `1..n` entries (`SgChoices`).

- **Refinement.** `Cache == INSTANCE SgvCache WITH ...` maps the pool onto the abstract object cache, and `ImplementsSgvCache` is its specification, checked as a property.

**`SgvCache.tla`** is the abstract specification of what the pool promises about objects, as the comments of `sgv_pool_alloc`, `sgv_pool_free` and `sgv_get_obj` state it. It has no lists, counters, watermarks or purge timing. A call asks for a key: a pool and an order, or a pool and minus a page count for a big object (`Call`). A thread that holds no object is lent a new object of that key (`Make`) or a cached one of that key (`Take`). Only the thread an object is lent to attaches its pages (`Fill`), gives it back to the cache (`Put`, cached keys only) or destroys it (`Drop`). A cached object is lent again or evicted (`Evict`), pages and all. The mapping from `SgvPool`:

| `SgvCache` | `SgvPool` |
|---|---|
| `where[o]` | `"lent"` while `objState` is `Building` or `InUse`, `"cached"` while `Cached`, else `"none"` (a `Dtor` object is already evicted) |
| `owner[o]` | the thread whose `held` is `o` (in use), or whose call is building `o` (`TobjLive`: `tobj` from the point the call has the object until it is filled, handed back or freed, including the shrink run from `sgv_hiwmk_check`) |
| `key[o]` | `<<objPool, objOrder>>` of a live object |
| `filled[o]` | `objSg # 0` for a live object |
| `want[t]` | `<<pool, ord>>` of a cached or supplied call in progress, `<<pool, -n>>` of a big one |

**`SgvRegistry.tla`** models the life cycle of dynamically created pools and the actors that reach a pool without a handle of their own.

- **Actors.** User threads (`Users`) call `sgv_pool_create`, allocate from and free to the pools they hold, and call `sgv_pool_del`. `Kswapd` calls `sgv_shrink` at any time. The purge work of each pool is one atomic action (`PurgeWork`).
- **State.** `slot` is the memory of a `struct sgv_pool`: `new`, `alloc` (after `kzalloc`), `live`, or `freed`. A slot is never reused, so a dangling pointer stays visible. Also `name`, `owner` (`owner_mm`), `ref` (`sgv_pool_ref`), `listed` (`sgv_pools_list`), `active` and `cur` (the active list and `sgv_cur_purge_pool`), `entries` (`cached_entries`), `cached` (the objects on the recycling lists), `workSched`, and `mutex` (the holder of `sgv_pools_mutex`). `handles[u][s]` are the references a user got from `sgv_pool_create`.
- **Actions.**
  - `sgv_pool_create`: `StartCreate`, `CrLock` (search by name; shared get, or failure), `CrAlloc` (`kzalloc` fails, succeeds, or enters direct reclaim and runs the shrinker in this thread with the mutex held), `CrInit` (`sgv_pool_init` fails or lists the pool with ref 1).
  - Objects: `AllocObj` (`sgv_get_obj`: hit or miss, which adds the pool to the active list) and `FreeObj` (`sgv_put_obj`: cache the object and arm the purge work).
  - `sgv_pool_del` and `sgv_pool_put`: `StartDel`, `Put` (`atomic_dec_and_test`), then `sgv_pool_destroy` as `DCancel` (`cancel_delayed_work_sync`), `DFlush` (one `sgv_pool_flush` purge per step), `DListDel` (`list_del` under `sgv_pools_mutex`, waiting for it), `DFree` (`kfree`).
  - The shrinker: `KswapdStart`, `ShLock` (one turn of the `__sgv_shrink` loop under `sgv_pools_lock`: pick the pool, `sgv_pool_get`, circle check, move the cursor), `ShPool` (`sgv_shrink_pool`, then `sgv_pool_put`).
- **Abstraction.** A pool's contents are the two counters, and objects are one page each. Whether an object has expired is a nondeterministic choice of how many of the oldest cached objects a purge or a shrink removes.

**`SgvCluster.tla`** gives the clustering algorithms, abstracted away in `SgvPool`, as pure RECURSIVE operators.

- An SG entry is `[pfn, len]` with `len` in pages. Indices are the code's 0-based ones.
- `Merge`, `HeadFits` and `TailFits` are the merge and the two adjacency tests. `FullScan` and `sgv_check_full_clustering` are the hint and the backward search. `sgv_check_tail_clustering` only merges into the previous entry.
- `AllocLoop` is the page loop of `sgv_alloc_sg_entries`, with the page whose allocation fails (`out_no_mem`) as an input. `FreedPages` is `sgv_free_sys_sg_entries`.
- `TransLoop`/`TransTbl` build `trans_tbl`. `PrefixEntries` is the part of `sgv_pool_alloc` that hands out the first entries of a cached clustered object and trims the last one.
- The reference definitions are `BufferPages` (the pages in data order) and `TailRuns` (the number of runs of consecutive frames). `Orders` lists every allocation order of up to `ClusterMaxPages` distinct frames.

**`SgvJiffies.tla`** models the age test of the cache on a wrapping `jiffies`. `Wrap` is unsigned-long arithmetic on `JiffyBits`-bit words. `time_after_eq` is the kernel macro: the difference read as a signed word. `sgv_purge_from_cache` adds `after` to the stamp with wrap. `PurgeWalk` is the walk of `sgv_purge_work_fn` (and `sgv_shrink_pool`) down `sorted_recycling_list` that stops at the first object that is too young. `Histories` are the stamps `sgv_put_obj` gives: non-decreasing, starting anywhere in the word, read within half the word's range.

**`SgvLayout.tla`** models the layout policy of an SG object as operators on sizes. `sgv_evaluate_local_order` computes the two orders from `PAGE_SIZE` and the struct sizes; `get_order` (a kernel helper) is given by its effect. `CacheObjSize` is the object size `sgv_pool_init` gives each order's kmem cache. `NewObjArrays` is where `sgv_pool_alloc` puts the arrays of a brand-new cached object: inside `sg_entries_data`, with `trans_tbl` right after the SG entries, or through `sgv_alloc_arrays`. A pointer is `[at, off, bytes]`: in `sg_entries_data` at an offset, on the heap, or NULL. `IsData` is the pointer comparison with `sg_entries_data`, and `KfreedArrays` the arrays `sgv_dtor_and_free` (and `out_fail_free_sg_entries`) pass to `kfree`. The struct sizes are not in this tree (they live in headers it lacks), so they are constants ranging over the values of 32- and 64-bit builds.

**`SysfsUserInfo.tla`** models the user-space event helpers of the `sysfs-tree-changes` branch (`scst_sysfs.c`, lines 4296-4506).

- **Actors.** Kernel threads (`Requesters`) call `scst_sysfs_user_add_info`, send the event, call `scst_wait_info_completion` and `scst_sysfs_user_del_info`. Daemon reply paths (`Repliers`) call `scst_sysfs_user_get_info` and complete the info.
- **State.** `info[i]` is the memory of one `scst_sysfs_user_info`: `new`, `alloc` or `freed` (never reused), with `info_cookie`, `info_being_executed`, `info_in_list`, the completion (`done`) and `info_status`. `list` is `scst_sysfs_user_info_list` in order, `curCookie` is `scst_sysfs_info_cur_cookie`, and `events` are the events user space has not answered yet.
- **Actions.** Each section under `scst_sysfs_user_info_mutex` is one step. `AddInfo` (kzalloc failure, or the cookie loop `CookieLoop` and the list add), `WaitDone`, `WaitTimeout` (`scst_sysfs_user_info_executing`, then `-EBUSY` or the unbounded wait), `WaitRestart` (the `-ERESTARTSYS` retry, which changes nothing), `WaitFull`, `DelInfo`, `GetInfo`.
- **Signals.** `sig[q]` says a signal is pending for the requester's process. `Signal` sets it while the requester is inside the helpers, and `DelInfo` clears it, because the system call then returns to user space. With a signal pending, `wait_for_completion_interruptible_timeout` returns `-ERESTARTSYS` at once, so `WaitTimeout` is disabled and only `WaitDone` or `WaitRestart` can follow. The cookie counter is bounded below its 32-bit wrap (`MaxCookie`), so the skip of cookies still listed never runs.
- **Environment.** The callers of these helpers (iscsi-scst, scst_user) are not in this repository. `SendEvent`, `Complete` and `LoseEvent` stand for them: a send may fail, the reply sets the status and completes, and user space may never answer an event.
- **Refinement.** `UserEvents == INSTANCE SysfsUserEvents WITH ...` maps this module onto the abstract service, and `ImplementsUserEvents` is its specification, checked as a property.

**`SysfsUserEvents.tla`** is the abstract specification of what the helpers promise their callers, as their comments state it, with no cookies, list or flags. A requester opens a fresh request (`Open`), sends one event (`Send`, which may fail), and waits. User space may drop the event (`Lose`). A reply is accepted (`Accept`) only for a request whose requester still waits, and is then answered with a status (`Answer`). The waiter returns that status (`Return`), or gives up with `-EBUSY` while no reply is accepted and no signal is pending (`GiveUp`). A signal may be sent while a request is open (`Signal`). Then the request is closed (`Close`).

The refinement mapping:

| Abstract | Implementation |
|---|---|
| request `x` | info slot `x` (never reused, so each is opened once) |
| `cur[q]` | `mine[q]` |
| `phase[q]` | `idle`, `prep`, `over` from `pc` = `Idle`, `Send`, `Del`; while waiting, `answered` once the completion is done, `accepted` once `info_being_executed` is set (or in the unbounded wait), `wait` before |
| `used` | the slots that have been allocated |
| `sent` | the infos whose event user space has not taken yet |
| `reply[x]` | `info_status` once the completion is done |
| `out[q]` | `res[q]` once the requester is in `del_info` |
| `signalled` | the requesters with `sig` set |

Under this mapping, a reply dropped because its info is gone is a `Lose`, and a timeout that finds `info_being_executed` set is a stuttering step.

**`SysfsMgmt.tla`** models the management commands of the `sysfs-tree-changes` branch, which are written to the `mgmt` file as `in <path> <command>`.

- **One function per command.** Each handler runs under `scst_mutex` with activity suspended, so it is an operator from the configuration it finds to `[res, new configuration]`, not a state machine. Strings are abstracted to tokens: `Found` ("n1") names an existing object of every kind and `Unknown` ("n2") a missing one.
- **Path parsing.** `__parse_path` takes the components `comp[0..6]`.
  - `ParseTargetDriver` and `ParseDeviceGroups` are its two long branches, as `CASE` chains in the code's order of `goto err` and `goto out`.
  - `Components` lists every path of up to seven components built from the words each position is compared with (`PathVocab`).
  - After the component the `strchr` loop sets to NULL, `comp[]` is not initialized, so the entries after it are NULL or `Junk`.
  - `NamedObjects` gives the objects `scst_mgmt_store`'s dispatch dereferences for each path type.
- **Handlers.**
  - `LunsMgmtStore` is `__scst_process_luns_mgmt_store` on `acg_dev_list`, with `LunAddReplace`, `LunClear`, `LunInUse` and `ReadOnly`.
  - `IniGroupMgmtStore` is `scst_process_ini_group_mgmt_store` on `tgt_acg_list`, with the session check `AcgBusy`.
  - `AcgIniMgmtStore` and `IniMove` are `scst_process_acg_ini_mgmt_store` on each group's initiator names.
- **Helpers outside this tree.** `scst_acg_add_lun`, `scst_acg_del_lun` and `scst_acg_add_acn` are in `scst_lib.c`, which this repository does not have. `AcgAddLun`, `AcgDelLun` and `AcgAddAcn` give them by their effect: the add may fail with `-ENOMEM`. An interrupted `mutex_lock_interruptible` is also an input.
- **Inputs.** `LunCmds`, `IniGroupCmds` and `InitiatorCmds` enumerate the commands as the parsers see them: the action word, whether a blank follows it, names found or not, LUNs up to one past `SCST_MAX_LUN` (scaled to 1), and parameter lists that are empty, set `read_only`, or are malformed.

**`SysfsLegacy.tla`** models two stores of the older `sysfs` branch.

- `scst_luns_mgmt_store` maps a device in the default group. It calls `scst_create_acg_dev_sysfs`, and when that fails it rolls back by device (`out_remove_acg_dev`). `ScstAcgAddDev` and `ScstAcgRemoveDev` stand for the `scst_lib.c` helpers.
- `scst_write_trace` sets the trace mask from `all`, `none`, `default`, `value N`, `add T` or `del T`. The mask is a 4-bit word, and `del` is `& ~level` taken at that width (Bitwise). `TokenLevel` searches the local table before `scst_trace_tbl`.
- `ShownTokens` is `scst_read_trace_tlb` as `trace_level` shows it.

**`SysfsTarget.tla`** models the target stores and ALUA target-group attributes of the `sysfs-tree-changes` branch. Each store is an operator from a target state and an input to a result and a new state.

- `scst_process_tgt_enable_store` (lines 895-928): `enable` on a target without an id takes one from the generator, which may fail with `-EOVERFLOW`; a target with an id must have a unique one (`-EBADSLT`); then the driver's `enable_target` runs and may fail. A generated id is kept even when the driver fails, as in the code.
- `scst_process_rel_tgt_id_store` and `scst_rel_tgt_id_store` (lines 949-1016): the uniqueness check applies only to an enabled target that changes its id; an id out of 1..0xffff is refused unless it is 0 on a disabled target; the id is stored as a `uint16_t`. Inputs include 0x10000 and 0x10001.
- `scst_process_tgt_mgmt_store` (lines 1121-1148) dispatches `enable`, `disable`, `set_cpu_mask` (which may fail and changes no id) and anything else (`-EINVAL`).
- `gen_relative_target_port_id` and `scst_is_relative_target_port_id_unique` are in `scst_lib.c`, which this tree does not have; `GenIds` and `RelIdUnique` give them by their effect.
- `TgNumStore` is the store of `group_id`, `preferred` and a target's `rel_tgt_id` in a target group (lines 3330-3482): the first seven characters are copied into `ch[8]`, parsed by `strict_strtoul(ch, 0, ...)` (`StrictStrtoul`, with the `0x`, octal and decimal cases, hex digits of either case and one trailing newline), and range-checked. `TgNumShow` is their `"%u\n"` show, through the RECURSIVE `Decimal`.
- `scst_tg_state_show` and `scst_tg_state_store` (lines 3488-3558) search `scst_tg_state_names` from its end, cut the written text at its first newline and call `scst_tg_set_state` (in `scst_tg.c`), which may fail. The `kasprintf()` copy may fail with `-ENOMEM`.

**`MCSgvPool.tla`** instantiates `SgvPool` for TLC. It provides:

- the flag sets the callers use;
- `MCSymmetry`, which permutes threads and object slots (both are interchangeable);
- `MCView`, which ignores locals of idle actors and timer fields of idle work. Every start overwrites those fields, so states that differ only there have the same futures.

**`MCSysfs.tla`** instantiates `SysfsUserInfo` with two requesters, one replier and three info slots. It also extends `SgvCluster`, `SgvJiffies`, `SgvLayout`, `SysfsMgmt`, `SysfsLegacy` and `SysfsTarget`, whose properties are constant-level, so that one run checks all of these modules. `MCView` forgets the locals of idle requesters. TLC reports a constant invariant that is false as an evaluation error, so the run lists each constant property through a wrapper `MC<name>` that states it in every state; TLC still computes its value once.

## Properties

Each property is stated in a comment above its definition in its module. In `SgvPool.tla`:

- `TypeOK` is the type invariant.
- `PageAccounting`: `sgv_pages_total` equals the pages of the live objects that have pages, plus the `scst_alloc` buffers, plus the charges of calls in flight.
- `MemLimAccounting`: `alloced_pages` equals the owned pages plus the in-flight charges, and the owned pages never exceed `max_allowed_pages`.
- `CacheCounters`: `cached_entries`, `cached_pages` and `inactive_cached_pages` match the objects of the pool, with misses not yet backed by an object counted in.
- `ObjectOwnership`: a cached object is on both lists of its pool, exactly once; an object in use has exactly one owner; nothing else is on a list or in a hand.
- `ActiveListConsistent`: a pool is on the active list exactly while it has cached entries, at most once, and the shrinker cursor is NULL or on the list.
- `PurgeCoverage`: while a pool has cached objects or `purge_work_scheduled`, its work is queued or running.
- `ArraysOwned`: every separately kmalloc()ed SG array belongs to exactly one live object.
- `HiWmkRespected`: `sgv_pages_total <= sgv_hi_wmk` whenever every actor is idle (spec §3, invariant 6).
- `ImplementsSgvCache` (refinement): the pool implements `SgvCache` under the mapping above. Every step of every actor, with the lock dropped or not, is a step of the abstract cache or leaves it alone. So `sgv_get_obj` hands a thread only a cached object of the pool and order it asked for. An empty object handed back through `out_return` stays lent to its caller. The purge work and the shrinker evict only cached objects.

In `SgvRegistry.tla`:

- `TypeOK` is the type invariant.
- `RefCountExact`: the `sgv_pool_ref` of a live pool equals the handles given out by `sgv_pool_create` and not yet deleted, plus the shrinkers that pinned it.
- `ActiveListConsistent`: the active list holds each pool once, exactly the pools with `cached_entries > 0`, and the cursor is NULL or on the list.
- `DestroyExclusive`: a pool that is being destroyed, or has been freed, has no holder (no handle, no shrinker pin).
- `NoSelfDeadlock`: no thread waits for `sgv_pools_mutex` while holding it.

In `SgvCluster.tla` (constant-level, over every allocation order of four frames and every clustering type):

- `SgEntriesCoverPages`: a successful `sgv_alloc_sg_entries` returns `sg_count` entries that cover the allocated pages, each once, and leaves the entries past `sg_count` cleared.
- `ClusteringMatchesReference`: no clustering keeps one entry per page, tail clustering yields one entry per run of adjacent allocations, and full clustering never yields more entries than tail clustering.
- `TransTblPrefix`: for every request size, the entries `sgv_pool_alloc` hands out through `trans_tbl` cover exactly the first pages of the buffer, and the trimmed last entry is not empty.
- `OutOfMemFreesAll`: when a page allocation fails, `out_no_mem` frees exactly the pages already allocated.

In `SgvJiffies.tla`:

- `PurgeAgeWrapSafe`: from any starting `jiffies`, the purge walk frees exactly the objects at least `after` old, which are a prefix of `sorted_recycling_list`.

In `SgvLayout.tla` (constant-level, for every order below `SGV_POOL_ELEMENTS`, both clustering kinds and every combination of struct sizes):

- `ArrayLayoutSound`: the three functions agree on a new object's layout. The embedded arrays lie inside the object size the order's kmem cache was created with, and they do not overlap. A clustered pool always gets a `trans_tbl`. The destructor's pointer comparisons `kfree` exactly the arrays that were kmalloc()ed, never an embedded one. With the orders `sgv_evaluate_local_order` computes, every kmem cache object, embedded arrays included, fits in one page (spec §4.2, layout policy).

In `SysfsUserInfo.tla`:

- `TypeOK` is the type invariant; it also says that `scst_sysfs_user_info_list` holds only live infos.
- `NoUseAfterFree`: a reply being executed never works on an info its waiter has freed.
- `WaitReturns` (liveness): every `scst_wait_info_completion` returns and its info is freed, unless a signal is pending for its process. A lost event ends in `-EBUSY`, and a reply in execution is waited for.
- `ImplementsUserEvents` (refinement): the helpers implement `SysfsUserEvents` under the mapping above, liveness included. This relates every step to the promise. A reply is accepted only for the request its event was sent for, and only while that requester waits. The wait returns that reply's status, or `-EBUSY` only when no reply was accepted. Every request of a requester with no signal pending ends.

In `SysfsMgmt.tla` (constant-level, over every bounded input):

- `ParsePathResolves`: for every path, and whatever the uninitialized `comp[]` entries hold, the path type `__parse_path` returns comes with every object the dispatch dereferences for it resolved (non-NULL), and resolved to the object the path names.
- `LunsMgmtEffect`: a LUN command that succeeds leaves exactly the mapping it asks for, `read_only` flag included. One that fails for any reason but `-ENOMEM` leaves the list unchanged. Whatever the starting mapping and the command, `acg_dev_list` never ends with two entries at one LUN; `scst_acg_add_lun` does not check this, so the handler's scan must.
- `IniGroupsMgmtSafe`: `ini_groups` create and del keep `tgt_acg_list` free of duplicates and never free a group that has sessions. A failed command changes nothing.
- `InitiatorsMgmtEffect`: `add`, `del`, `clear` and `move` do exactly what they ask. A failure other than `-ENOMEM` changes no group.

In `SysfsLegacy.tla`:

- `LegacyLunsStayUnique`: the older LUN store, rollback included, never leaves two entries at one LUN.
- `TraceRoundTrip`: for every trace level, adding back each token `trace_level` shows, starting from `none`, rebuilds the level; deleting each of them clears it. A failed write leaves the level as it was.

In `SysfsTarget.tla`:

- `RelTgtIdsStayValid`: for every state of two targets (enabled or not, ids 0, 1, 2 and 0xffff) in which the enabled ones have valid distinct ids, every `enable`, `disable`, `set_cpu_mask` or `rel_tgt_id` write to either, with every id the generator may return and the driver failing or not, again leaves valid distinct ids. A `rel_tgt_id` write that fails changes nothing. It rests on the checks of two functions fitting together: the uniqueness check of the `rel_tgt_id` store applies only to enabled targets, `enable` checks at its own time, and 0 is allowed only on a disabled target.
- `TgAttrsRoundTrip`: for each numeric ALUA attribute and values around the digit and range boundaries (0, 7, 8, 9, 10, 255, 4096, 0xffff, 0x10000), writing what the show prints, its newline included, sets exactly that value and returns `count`, or is refused with the value unchanged when the value is out of range. For every state with a name the same holds for `state`; a state shown as `???` is refused.

## Runs

The `SgvPool` runs use `MCSgvPool` with MaxTime 2, PurgeAfter 2, ShrinkAfter 1, MaxPerPool 2, and LocalOrder 0. With LocalOrder 0, two-page requests use separately allocated arrays.

| Run | Bounds | Checks | Result |
|---|---|---|---|
| `alloc` | 2 threads, 1 clustered pool, 2 objects, 1- and 2-page requests, mem_lim 3 | TypeOK, PageAccounting, CacheCounters, ObjectOwnership, PurgeCoverage, ArraysOwned, ImplementsSgvCache | pass, about 148k states |
| `pressure` | 2 threads, hi_wmk 1, all plain flags, `__GFP_NOFAIL` allowed | MemLimAccounting, PageAccounting, ImplementsSgvCache | pass, about 478k states |
| `shrink` | 1 thread, 2 pools (one clustered), shrinker asked for 2 pages | ActiveListConsistent, CacheCounters, PageAccounting | pass, about 351k states |
| `shell` | 2 threads, `RETURN_OBJ_ON_ALLOC_FAIL` with and without `NO_ALLOC_ON_CACHE_MISS` | MemLimAccounting, CacheCounters, ImplementsSgvCache | pass, about 651k states |
| `shellleak` | 1 thread, empty objects handed back | PageAccounting | violation |
| `hiwmkrace` | 2 threads, hi_wmk 1 | HiWmkRespected | violation |
| `arrayleak` | 1 thread, 2-page requests, one empty-object caller and one plain caller | ArraysOwned | violation |

The `SgvRegistry` runs use `MCSgvRegistry`. In it, every user thread runs in one mm (module loads from one process), so shared creates can match. Every run uses two pool slots, `ShrinkNr` 2 and `MaxCache` 1. `MCView` forgets the dead locals of a call.

| Run | Bounds | Checks | Result |
|---|---|---|---|
| `registry` | 1 user, 1 name, shared and private creates, direct reclaim in create, up to 2 handles | TypeOK, RefCountExact, ActiveListConsistent | pass, about 177k states |
| `sharedel` | 2 users, 2 names, shared creates only | DestroyExclusive | violation |
| `shrinkdel` | 1 user, private creates only | DestroyExclusive | violation |
| `reclaimdeadlock` | 1 user, direct reclaim in create | NoSelfDeadlock | violation |

| Run | Bounds | Checks | Result |
|---|---|---|---|
| `sysfs` | 2 requesters, 1 replier, 3 infos, statuses {0, -5}; clustering over frames {0..3}, up to 4 pages; 4-bit jiffies, ages {0, 1, 3}; management paths of up to 7 components, 2 devices, LUNs {0, 1, 2}, 3 groups, 2 initiators, 4-bit trace mask; 2 targets, ids {0, 1, 2, 0xffff}; 4 KiB pages, orders 0..10, struct sizes of 32- and 64-bit builds | TypeOK, NoUseAfterFree, WaitReturns, ImplementsUserEvents, SgEntriesCoverPages, ClusteringMatchesReference, TransTblPrefix, OutOfMemFreesAll, PurgeAgeWrapSafe, ArrayLayoutSound, ParsePathResolves, LunsMgmtEffect, IniGroupsMgmtSafe, InitiatorsMgmtEffect, LegacyLunsStayUnique, TraceRoundTrip, RelTgtIdsStayValid, TgAttrsRoundTrip | pass, about 162k states |

`registry` and `reclaimdeadlock` say `CHECK_DEADLOCK FALSE`, because the reclaim self-deadlock really stops both threads.

Why these bounds are enough:

- Two threads and two object slots are enough for every pairwise race on a lock-free counter. They also let a thread interleave with another's purge or shrink of an object.
- Two orders and LocalOrder 0 exercise both the embedded arrays and the separately allocated ones.
- MaxTime 2 with PurgeAfter 2 lets objects age past the purge and the shrink thresholds, and lets younger objects cause a reschedule.
- Together the passing runs fire every action and every disjunct of `Next`.
- Each property of each passing run has a mutant in `PROJECT.json`: an operator defined just before the modelled definition, with the change a plausible bug would make. TLC finds each mutant violating its property.

- In `sysfs`, two requesters and three infos let a timed-out info leave the list while another request takes a fresh cookie, and a late reply then looks up the old cookie and is dropped. Either requester may be signalled in any of its waits. Four page frames give every adjacency pattern of up to four pages, including merges at both ends of an entry. A 4-bit `jiffies` wraps within every history that starts in its upper half. The layout check takes `sizeof(struct sgv_pool_obj)` in {64, 96, 128, 192}, `sizeof(struct scatterlist)` in {16, 24, 32, 40} and `sizeof(struct trans_tbl_ent)` in {4, 8}. That includes sizes where the number of entries that fit in a page is a power of two and sizes where it is not, which is where an off-by-one in the order shows.
- For the management handlers:
  - Two LUNs in use plus one past the maximum give every branch of the LUN handler: a free LUN, a taken one, and one too big.
  - Starting lists of up to two entries let `replace` and `clear` work on a non-trivial list.
  - Three group names, one of them the default group's, cover a group found, missing or busy, and a `move` to itself, to another group or to the default group.

## Findings

1. **Empty objects corrupt `sgv_pages_total`** (`shellleak`).
   - The miss path hands back an object with `sg_count` 0 through `out_return` (line 972) or `out_return1` (line 1022), without a watermark charge.
   - `sgv_pool_free` caches the object.
   - `__sgv_purge_from_cache` (line 190) then subtracts `1 << order` pages that were never added. The total goes negative, and the watermark gate admits more than `sgv_hi_wmk`.
   - Spec §7 says no partially-initialised object is ever published to a free-list.
2. **The watermark check races** (`hiwmkrace`). `sgv_hiwmk_check` reads the total at line 805 and adds at line 826. Two concurrent one-page `scst_alloc` calls both pass at `sgv_hi_wmk` 1, and leave the total at 2 when every actor is idle.
3. **Separately allocated SG arrays leak** (`arrayleak`).
   - An empty object of an order above `sgv_max_local_order` goes into the cache with its arrays.
   - Reusing it calls `sgv_alloc_arrays` again (line 965), which overwrites the pointers.
   - `out_fail_free` (line 945) frees such an object without its arrays.
4. **A shared create revives a pool being destroyed** (`sharedel`).
   - `sgv_pool_del` drops the last reference, and `sgv_pool_destroy` flushes the pool.
   - The pool stays on `sgv_pools_list` until the `list_del` at line 1419.
   - Meanwhile a second user's shared `sgv_pool_create` finds it by name at line 1461, takes a reference, and gets a pool that is then freed.
5. **The shrinker pins a dying pool and destroys it twice** (`shrinkdel`).
   - `__sgv_shrink` takes the pool from the active list and calls `sgv_pool_get` at line 289. The reference count may already be 0, because the destroy is flushing.
   - The shrinker's `sgv_pool_put` at line 312 brings it back to 0 and runs `sgv_pool_destroy` a second time.
6. **Direct reclaim in `sgv_pool_create` self-deadlocks** (`reclaimdeadlock`).
   - `kzalloc(GFP_KERNEL)` at line 1467 runs with `sgv_pools_mutex` held.
   - Reclaim may call `sgv_shrink`, which ignores `gfp_mask`. If its put drops the last reference of a pool, `sgv_pool_destroy` locks `sgv_pools_mutex` at line 1417 in the same thread.

The shrinker does not always terminate. While other threads churn the active list, TLC finds `__sgv_shrink` looping without progress. The code detects a full circle only when the cursor reaches the tail, and `sgv_del_from_active` moves the cursor while the pool is re-added at the tail. Spec §4.6 says the loop stops after one circle. This is recorded as the hazard at line 293, with no run, because the project keeps one run per question and this one needs a churn model too large for the run budget.

In the `sysfs-tree-changes` branch, `scst_mgmt_store` resolves the target, group or device with `__parse_path` under `scst_mutex` and unlocks it (line 4039) before the handler runs. A concurrent `ini_groups del` can free the group in between, since `scst_suspend_activity` does not exclude a second management writer. `*path_end++` (line 4026) also steps past the buffer when a path has no command after it. Both are hazards in `PROJECT.json` without a run. The parsers and handlers are modelled as functions of one command; the race needs two writers over a shared object tree.

**A signal makes the event wait spin for ever.** `scst_wait_info_completion` retries `wait_for_completion_interruptible_timeout` whenever it returns `-ERESTARTSYS` (lines 4488-4496). With a signal pending, that call returns at once every time, and the signal is not delivered until the system call returns. So if user space never answers, the writer loops in the kernel for ever; the comment at line 4452 promises at most `timeout` jiffies. TLC finds this when `WaitReturns` is stated without its signal exception: a lost event followed by a signal. The checked `WaitReturns` and the refinement exclude the signalled case. It is a hazard without a run, because the run budget is used up.

`scst_tg_state_store` `kasprintf()`s a copy of every write and never frees it (line 3547), so each write to a target group's `state` leaks that buffer. It is a hazard without a run.

Modelling the handlers turned up more hazards. None has a violation run, because the project's run budget is used up, so `PROJECT.json` records each one with a note.

- **`replace` and `move` lose what they were moving.** `replace` deletes the old LUN before `scst_acg_add_lun` (line 2254). `move` frees the source entry before `scst_acg_add_acn` (line 2826). When the add fails with `-ENOMEM`, the LUN or the initiator is gone. `LunsMgmtEffect` and `InitiatorsMgmtEffect` check that no other failure changes anything.
- **A group can be created unreachable.** `ini_groups create` accepts the default group's name (line 2526), but `__scst_lookup_acg` returns `default_acg` first, so no path reaches the new group.
- **The older LUN store rolls back the wrong entry.** Its rollback removes the device's first mapping (`sysfs` branch, line 630). If the device was already mapped at another LUN, that older mapping is removed instead of the new one.
- **An off-by-one and an uninitialized read.** `scst_devt_type_show` tests `>` where `>=` is needed (line 1164). `scst_threads_store` ignores the result of `sscanf` (line 743).

## Fairness

The `SgvPool` runs check safety only.

The registry runs check safety only. `SgvRegistry.Spec` states the fairness the shrinker-termination experiment behind the hazard at line 293 used: weak fairness of each actor's steps once the actor is inside `sgv_pool_create`, `sgv_pool_put` or the shrinker, and of each pool's queued purge work. A thread inside the allocator keeps being scheduled, and the workqueue runs queued work. Nothing forces a user or kswapd to start a call.

The two steps that take `sgv_pools_mutex` (`CrLock`, `DListDel`) have strong fairness. A sleeping waiter is on the mutex's FIFO wait list and is woken by `mutex_unlock`. Without this, a user retrying failed creates forever starves a destroy waiting for the mutex.

`SgvCache.Spec` has no fairness: the refinement checks only safety, so it asks nothing of the scheduler.

`SysfsUserInfo.Spec` assumes weak fairness of a requester's steps after it has sent its add request, and of a reply's `complete()`. The waiter's timer fires when no signal is pending: `WaitTimeout` is disabled while `sig` is set, so the fairness does not make a signalled wait time out. A kernel thread that holds a reply runs to its end. Nothing forces a request, a signal, an answer from user space, or a lost event. `SysfsUserEvents.Spec` asks the same of the abstract service: weak fairness of a requester's steps after `Open` (`GiveUp` only without a signal), and of `Answer`. The implementation's fairness implies it, and the `sysfs` run checks that. `Finished` lets the bounded run stop once every info has been allocated and no reply is outstanding, so a waiter that would block forever shows up as a `WaitReturns` violation, not as a deadlock. A signalled waiter whose event is lost keeps taking `WaitRestart`, as the code loops.

## Not modelled

- **`sgv_pool_set_allocator`.** It swaps the page allocation callbacks, and no property depends on them.
- **Shrinker termination.** The hazard at line 293 is not checked by any run; see the Findings section.
- **Clustering in `SgvPool`.** Abstracted to the resulting `sg_count`; the algorithms are checked on their own in `SgvCluster`.
- **Array sizes in `SgvPool`.** `LocalOrder` is a constant there; the arithmetic behind it is checked on its own in `SgvLayout`.
- **Statistics and /proc output.** Read-only.
- **Module init/deinit and the `scst_sgv_pool_use_*` selectors.**
- **jiffies wrap-around in `SgvPool`.** The clock is bounded there; the wrap is checked in `SgvJiffies`.
- **Reentrant work items of old kernels.** Each pool's work runs one instance at a time.
- **The rest of the sysfs branches.** Out of scope per the specification. The kobject tree and its release paths are kernel-object plumbing, and the show attributes only format text. The dev, devt, target and device-group handlers hand their work to code outside this tree, and the threads store drives the thread pool of `scst_main.c`.
- **The relative target port id.** `scst_process_rel_tgt_id_store` runs with no lock, and the `enable` command of `scst_process_tgt_enable_store` runs after `scst_mutex` is dropped. Each checks that the id is unique, then sets it or enables the target. The check is `scst_is_relative_target_port_id_unique`, in `scst_lib.c`, which is not in this tree. So the race between the check and the set is listed as a hazard, and no run checks it. `SysfsTarget` checks the two stores one after the other (`RelTgtIdsStayValid`).
- **Long ALUA writes.** The group_id, preferred and target rel_tgt_id stores read only the first seven characters of a write, so `0x000012345` sets 1 and returns success (hazard at line 3431). `SysfsTarget` models the cut; a run showing the silent acceptance would be a violation run of its own, and none is free.
- **Target-group add and del.** `scst_tg_mgmt_store`, `scst_dg_*` and `scst_tg_tgt_*` add/del hand their work to `scst_tg.c`, which this tree does not have.
- **Two management writers at once.** The handlers are modelled one command at a time; see the stale-group hazard above.

## Plan

1. `SgvPool`: pool, gate, quota, purge work, shrinker. Done.
2. `SgvRegistry`: pool create/del/refcount with the shrinker's get/put, composed with a reduced pool. Done: it found findings 4 to 6 and checks `sgv_pool_del` liveness.
3. `SgvCluster`: the clustering algorithms, the page loop and `trans_tbl` as RECURSIVE operators checked against reference definitions. Done. `SgvJiffies` (the age test under wrap) and `SysfsUserInfo` (the sysfs user-info helpers) were added alongside.
4. `SysfsUserEvents`: the abstract service of the user-info helpers, refined by `SysfsUserInfo`. Done. `SgvLayout` (the object layout arithmetic) was added alongside.
5. `SgvCache`: an abstract cache (lend, fill, put, evict), with `SgvPool` shown to refine it through INSTANCE ... WITH in the `alloc`, `shell` and `pressure` runs. Done.
6. Liveness of the pool: purge work eventually empties an idle pool. `sgv_pool_del` liveness is done.
7. The kobject release and completion lifecycle of the sysfs branches, and the `scst_mgmt_store` stale-group race. The parser and the LUN, group and initiator handlers are done (`SysfsMgmt`, `SysfsLegacy`), and so are the target and ALUA attribute stores (`SysfsTarget`).
