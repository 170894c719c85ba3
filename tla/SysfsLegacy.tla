---------------------------- MODULE SysfsLegacy ----------------------------
(***************************************************************************)
(* The attribute stores of the older sysfs branch (branches/sysfs,         *)
(* scst_sysfs.c): the luns/mgmt file of a target's default group, which    *)
(* maps a device at a LUN and creates its kobject, and the trace_level     *)
(* files, which set a trace bit mask from a command.  Each store runs      *)
(* under a mutex (scst_mutex, scst_log_mutex) and is one function from the *)
(* state it finds to the state and result it leaves.                       *)
(*                                                                         *)
(* It reuses the tokens and the acg_dev_list shape of SysfsMgmt.           *)
(***************************************************************************)
EXTENDS SysfsMgmt, Bitwise

(***************************************************************************)
(* luns/mgmt: scst_luns_mgmt_store and scst_create_acg_dev_sysfs.          *)
(***************************************************************************)

\* The commands, as the parser reads them: action word, blank after it,
\* the device (by H:C:I:L or name: found or not), LUN and option
\* ("ro": READ_ONLY, "bad": any other word).  del reads no LUN.
LegacyLunCmds ==
  [action : {"add"}, space : BOOLEAN, dev : MgmtDevs \cup {Unknown},
   lun : 0..MgmtMaxLun, opt : {"none", "ro", "bad"}]
  \cup [action : {"del"}, space : BOOLEAN, dev : MgmtDevs \cup {Unknown}]
  \cup [action : {"other"}]

\* scst_acg_add_dev and scst_acg_remove_dev (scst_lib.c, not in this tree),
\* by their effect: the first appends or fails with -ENOMEM, the second
\* removes the first entry of the device and fails when there is none.
ScstAcgAddDev(devs, dev, lun, ro, fails) ==
  AcgAddLun(devs, lun, dev, ro, fails)

ScstAcgRemoveDev(devs, dev) ==
  IF \E k \in DOMAIN devs : devs[k].dev = dev
  THEN LET k == CHOOSE k \in DOMAIN devs :
                  devs[k].dev = dev /\ \A j \in 1..k - 1 : devs[j].dev # dev
       IN [res |-> 0, list |-> RemoveAt(devs, k)]
  ELSE [res |-> -MgmtEINVAL, list |-> devs]

\* scst_create_acg_dev_sysfs: the entry is looked up by LUN, then
\* kobject_init_and_add and sysfs_create_link run; kobjFails: one fails.
scst_create_acg_dev_sysfs(devs, lun, kobjFails) ==
  CASE ~LunInUse(devs, lun) -> -MgmtEINVAL
    [] kobjFails            -> -MgmtENOMEM
    [] OTHER                -> 0

\* Mutant: the scan of acg_dev_list for virt_lun is left out.
LegacyLunInUseNever(devs, lun) == FALSE

\* The list_for_each_entry over acg->acg_dev_list looking for virt_lun.
LegacyLunInUse(devs, lun) == LunInUse(devs, lun)

\* The add case after the device lookup; out_remove_acg_dev undoes a
\* failed kobject creation by device.
LegacyLunAdd(cmd, devs, addFails, kobjFails) ==
  CASE cmd.opt = "bad" -> [res |-> -MgmtEINVAL, list |-> devs]
    [] LegacyLunInUse(devs, cmd.lun) -> [res |-> -MgmtEINVAL, list |-> devs]
    [] OTHER ->
         LET a == ScstAcgAddDev(devs, cmd.dev, cmd.lun,
                                IF cmd.opt = "ro" THEN 1 ELSE 0, addFails)
             s == scst_create_acg_dev_sysfs(a.list, cmd.lun, kobjFails)
         IN CASE a.res # 0 -> a
              [] s # 0     -> [res |-> s, list |-> ScstAcgRemoveDev(a.list, cmd.dev).list]
              [] OTHER     -> a

\* scst_luns_mgmt_store on the default group's acg_dev_list.  suspFails:
\* scst_suspend_activity(true) is interrupted; intr: so is the lock of
\* scst_mutex.  A success returns count, shown here as 0.
scst_luns_mgmt_store(cmd, devs, suspFails, intr, addFails, kobjFails) ==
  CASE cmd.action = "other" \/ ~cmd.space -> [res |-> -MgmtEINVAL, list |-> devs]
    [] suspFails \/ intr   -> [res |-> -MgmtEINTR, list |-> devs]
    [] cmd.dev = Unknown   -> [res |-> -MgmtEINVAL, list |-> devs]
    [] cmd.action = "del"  -> ScstAcgRemoveDev(devs, cmd.dev)
    [] OTHER               -> LegacyLunAdd(cmd, devs, addFails, kobjFails)

(***************************************************************************)
(* trace_level: scst_write_trace and scst_read_trace_tlb on a mask of      *)
(* TraceBits bits (unsigned long, scaled down).                            *)
(***************************************************************************)

TraceBits == 4
TraceWord == 2 ^ TraceBits

\* scst_trace_tbl and a local table (scst_local_trace_tbl, or a dev
\* handler's trace_tbl): token -> val.  The TRACE_* values are one bit
\* each; the two tables share none.
ScstTraceTbl  == [out_of_mem |-> 1, minor |-> 2, mgmt |-> 4]
LocalTraceTbl == [retry |-> 8]
TraceTokens   == DOMAIN ScstTraceTbl \cup DOMAIN LocalTraceTbl
TraceAll      == TraceWord - 1
TraceDefault  == 5

\* Mutant: the local table passed in is not searched.
TokenLevelGlobalOnly(tbl, tok) ==
  IF tok \in DOMAIN ScstTraceTbl THEN ScstTraceTbl[tok] ELSE 0

\* The two table walks of the add / del case: the local table first, then
\* scst_trace_tbl; 0 when no token matches.
TokenLevel(tbl, tok) ==
  CASE tok \in DOMAIN tbl          -> tbl[tok]
    [] tok \in DOMAIN ScstTraceTbl -> ScstTraceTbl[tok]
    [] OTHER                       -> 0

\* A command: all, none, default, add T, del T, value N, or an unknown word.
TraceCmds ==
  [action : {"all", "none", "default", "other"}]
  \cup [action : {"add", "del"}, space : BOOLEAN, tok : TraceTokens \cup {Unknown}]
  \cup [action : {"value"}, space : BOOLEAN, val : 0..TraceWord - 1]

\* scst_write_trace: the result and the new *log_level.
scst_write_trace(cmd, log, default, tbl) ==
  LET lvl == TokenLevel(tbl, cmd.tok)
      fail == [res |-> -MgmtEINVAL, log |-> log]
  IN CASE cmd.action = "other" -> fail
       [] cmd.action \in {"add", "del", "value"} /\ ~cmd.space -> fail
       [] cmd.action = "all"     -> [res |-> 0, log |-> TraceAll]
       [] cmd.action = "default" -> [res |-> 0, log |-> default]
       [] cmd.action = "none"    -> [res |-> 0, log |-> 0]
       [] cmd.action = "value"   -> [res |-> 0, log |-> cmd.val]
       [] lvl = 0                -> fail
       [] cmd.action = "add"     -> [res |-> 0, log |-> log | lvl]
       [] OTHER                  -> [res |-> 0, log |-> log & (TraceAll - lvl)]

\* scst_read_trace_tlb over scst_trace_tbl then the local table: the
\* tokens trace_level shows for a level.
ShownTokens(log, tbl) ==
  {t \in DOMAIN ScstTraceTbl : (log & ScstTraceTbl[t]) # 0}
  \cup {t \in DOMAIN tbl : (log & tbl[t]) # 0}

\* Applying "add T" (or "del T") for each token of a set, from log.
RECURSIVE TraceApplyAll(_, _, _, _)
TraceApplyAll(action, toks, log, tbl) ==
  IF toks = {} THEN log
  ELSE LET t == CHOOSE t \in toks : TRUE
       IN TraceApplyAll(action, toks \ {t},
            scst_write_trace([action |-> action, space |-> TRUE, tok |-> t],
                             log, TraceDefault, tbl).log,
            tbl)

(***************************************************************************)
(* Properties.  Constant-level: TLC evaluates each once.                   *)
(***************************************************************************)

\* Whatever mapping the default group has and however the suspend, the
\* lock, the add or the kobject creation fails, scst_luns_mgmt_store
\* leaves no two entries of acg_dev_list at the same LUN.
LegacyLunsStayUnique ==
  \A devs \in AcgDevLists, cmd \in LegacyLunCmds,
     susp, intr, addFails, kobjFails \in BOOLEAN :
    LET r == scst_luns_mgmt_store(cmd, devs, susp, intr, addFails, kobjFails).list
    IN IsInjective([k \in DOMAIN r |-> r[k].lun])

\* trace_level round trip: for every level made of table bits, writing
\* "add T" for each token scst_trace_level_show lists, starting from
\* "none", rebuilds the level, and "del T" for each of them clears it;
\* a write that fails leaves the level as it was.
TraceRoundTrip ==
  \A log \in 0..TraceAll :
    /\ TraceApplyAll("add", ShownTokens(log, LocalTraceTbl), 0, LocalTraceTbl) = log
    /\ TraceApplyAll("del", ShownTokens(log, LocalTraceTbl), log, LocalTraceTbl) = 0
    /\ \A cmd \in TraceCmds :
         LET r == scst_write_trace(cmd, log, TraceDefault, LocalTraceTbl)
         IN r.res # 0 => r.log = log

=============================================================================
