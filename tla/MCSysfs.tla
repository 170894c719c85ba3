------------------------------- MODULE MCSysfs -------------------------------
(***************************************************************************)
(* Instantiates SysfsUserInfo for TLC: two kernel threads sending events,  *)
(* one daemon thread answering, three info allocations in all.  The run   *)
(* also checks the SgvCluster operators over four page frames, the       *)
(* SgvJiffies age test on 4-bit jiffies, the SgvLayout object layouts    *)
(* over 4 KiB pages and the struct sizes of 32- and 64-bit builds, and   *)
(* the management-command handlers of SysfsMgmt and SysfsLegacy over     *)
(* their bounded inputs.                                                 *)
(***************************************************************************)
EXTENDS SysfsUserInfo, SgvCluster, SgvJiffies, SgvLayout, SysfsLegacy, SysfsTarget, TLC

\* The info slots and the requesters are interchangeable; liveness is
\* checked, so the run uses no symmetry.
MCStatuses == {0, -5}

\* The view forgets the result and the info of an idle requester.
MCView == <<info, list, curCookie, events, pc,
            [q \in Requesters |-> IF pc[q] = "Idle" THEN NULL ELSE mine[q]],
            [q \in Requesters |-> IF pc[q] = "Del" THEN res[q] ELSE NULL],
            rpc, held, sig>>
(***************************************************************************)
(* The SgvCluster, SgvJiffies, SgvLayout, SysfsMgmt and SysfsLegacy       *)
(* properties are constant formulas.  TLC computes each once; the run     *)
(* checks it in every reachable state, so that a false one is reported    *)
(* as a violated invariant.                                               *)
(***************************************************************************)
InEveryState(P) == vars = vars /\ P

\* SgvCluster!SgEntriesCoverPages: a successful sgv_alloc_sg_entries covers
\* every allocated page once and leaves the entries past sg_count cleared.
MCSgEntriesCoverPages == InEveryState(SgEntriesCoverPages)

\* SgvCluster!ClusteringMatchesReference: the entry counts of the three
\* clustering types agree with the reference.
MCClusteringMatchesReference == InEveryState(ClusteringMatchesReference)

\* SgvCluster!TransTblPrefix: the entries sgv_pool_alloc hands out through
\* trans_tbl cover exactly the requested prefix of the buffer.
MCTransTblPrefix == InEveryState(TransTblPrefix)

\* SgvCluster!OutOfMemFreesAll: out_no_mem frees exactly the pages allocated.
MCOutOfMemFreesAll == InEveryState(OutOfMemFreesAll)

\* SgvJiffies!PurgeAgeWrapSafe: the purge walk frees exactly the old
\* objects, whatever value jiffies has wrapped to.
MCPurgeAgeWrapSafe == InEveryState(PurgeAgeWrapSafe)

\* SgvLayout!ArrayLayoutSound: the arrays of a new object fit the object
\* its kmem cache allocates, and the destructor frees exactly the
\* kmalloc()ed ones; the object fits in one page.
MCArrayLayoutSound == InEveryState(ArrayLayoutSound)

\* SysfsMgmt!ParsePathResolves: every path type __parse_path returns comes
\* with the objects scst_mgmt_store dereferences, the ones the path names.
MCParsePathResolves == InEveryState(ParsePathResolves)

\* SysfsMgmt!LunsMgmtEffect: a LUN command does exactly what it asks, or
\* nothing unless memory ran out, and never maps two devices at one LUN.
MCLunsMgmtEffect == InEveryState(LunsMgmtEffect)

\* SysfsMgmt!IniGroupsMgmtSafe: group names stay unique and a group with
\* sessions is never freed.
MCIniGroupsMgmtSafe == InEveryState(IniGroupsMgmtSafe)

\* SysfsMgmt!InitiatorsMgmtEffect: an initiators command does exactly what
\* it asks, or nothing unless memory ran out.
MCInitiatorsMgmtEffect == InEveryState(InitiatorsMgmtEffect)

\* SysfsLegacy!LegacyLunsStayUnique: the older luns/mgmt store never maps
\* two devices at one LUN, rollback included.
MCLegacyLunsStayUnique == InEveryState(LegacyLunsStayUnique)

\* SysfsLegacy!TraceRoundTrip: what trace_level shows, written back, is the
\* level again.
MCTraceRoundTrip == InEveryState(TraceRoundTrip)

\* SysfsTarget!RelTgtIdsStayValid: no enable, disable or rel_tgt_id write
\* leaves two enabled targets with the same or an invalid relative port id.
MCRelTgtIdsStayValid == InEveryState(RelTgtIdsStayValid)

\* SysfsTarget!TgAttrsRoundTrip: what an ALUA target-group attribute shows,
\* written back, sets the same value.
MCTgAttrsRoundTrip == InEveryState(TgAttrsRoundTrip)
=============================================================================
