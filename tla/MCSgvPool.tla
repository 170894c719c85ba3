----------------------------- MODULE MCSgvPool -----------------------------
(***************************************************************************)
(* Instantiates SgvPool for TLC: two pools (the second clustered, like    *)
(* sgv_norm_pool and sgv_norm_clust_pool), two cached orders, object      *)
(* slots bounding how many sgv_pool_obj exist at once, and watermarks     *)
(* small enough that a single request can cross them.                     *)
(***************************************************************************)
EXTENDS SgvPool, TLC

\* Requests without RETURN_OBJ_ON_ALLOC_FAIL: plain cached requests,
\* NO_CACHED ones, and misses the caller fills itself.
MCFlagsPlain == {{}, {NoCached}, {NoAllocMiss}}

MCFlagsNone == {{}}

\* A caller that fills cache misses itself (scst_user style): it asks for
\* an empty object back on a miss.
MCFlagsShell == {{NoAllocMiss, ReturnObj}}

\* Requests that get their object back when page allocation fails.
MCFlagsReturn == {{ReturnObj}, {NoAllocMiss, ReturnObj}}

\* One caller that fills its misses itself and one that lets the pool
\* allocate, sharing a pool.
MCFlagsShellReuse == {{NoAllocMiss, ReturnObj}, {}}

MCSymmetry == Permutations(Threads) \cup Permutations(Objs)

\* Locals of an idle actor and the timer fields of an idle work are dead:
\* every start overwrites them.  Identifying states that differ only there
\* keeps the state space to what can influence the future.
IdleReq(t) == IF pc[t] = "Idle" THEN NoReq ELSE req[t]
IdleObj(t) == IF pc[t] = "Idle" THEN NULL ELSE tobj[t]
IdleSh(a, v) == IF pc[a] \in {"ShPick", "ShPool", "ShDtor"} THEN v ELSE 0
MCView ==
  <<total, alloced, now, objVars, listVars, cntVars,
    [p \in Pools |-> IF workPending[p] THEN workDue[p] ELSE 0], workPending,
    workPc, [p \in Pools |-> IF workPc[p] = "Idle" THEN 0 ELSE workTime[p]],
    workObj, pc, [t \in Threads |-> IdleReq(t)], [t \in Threads |-> IdleObj(t)],
    held, other, hwOn, memOn,
    [a \in Actors |-> IdleSh(a, ret[a])], [a \in Actors |-> IdleSh(a, nr[a])],
    [a \in Actors |-> IdleSh(a, prevNr[a])],
    [a \in Actors |-> IdleSh(a, circle[a])],
    [a \in Actors |-> IdleSh(a, shTime[a])],
    [a \in Actors |-> IdleSh(a, shAfter[a])],
    [a \in Actors |-> IdleSh(a, shPool[a])],
    [a \in Actors |-> IdleSh(a, shFreed[a])],
    shObj>>

=============================================================================
