----------------------------- MODULE SysfsMgmt -----------------------------
(***************************************************************************)
(* The management-command layer of the sysfs-tree-changes branch           *)
(* (scst_sysfs.c): scst_mgmt_store resolves the path of a command with     *)
(* __parse_path and hands the command to the handler of that path.  Every  *)
(* handler works under scst_mutex with activity suspended, so one command  *)
(* is one function from the configuration it finds to the configuration   *)
(* and the result it leaves; the operators here are those functions.      *)
(*                                                                         *)
(* Strings are abstracted to tokens: a path is the sequence of its         *)
(* components, a command the record of what its parser extracts.  The     *)
(* helpers the handlers call outside this file (scst_acg_add_lun,          *)
(* scst_acg_del_lun, scst_alloc_add_acg, scst_acg_add_acn ...) are given  *)
(* by their effect and may fail with -ENOMEM; a handler therefore has a    *)
(* set of outcomes.                                                        *)
(***************************************************************************)
EXTENDS Integers, Sequences, SequencesExt, FiniteSets

\* The kernel's error numbers the handlers return.
MgmtEINVAL == 22
MgmtEEXIST == 17
MgmtENOMEM == 12
MgmtEBUSY  == 16

\* Path components and names: "n1" names an object that exists (of every
\* kind), "n2" one that does not.
Found   == "n1"
Unknown == "n2"
NoComp  == "<null>"    \* comp[i] set to NULL by the strchr loop
Junk    == "<uninit>"  \* comp[i] never assigned: an uninitialized pointer
NoObj   == "<none>"    \* a lookup that returned NULL

\* __scst_lookup_devt, __scst_lookup_dev, __scst_lookup_tgtt,
\* __scst_lookup_acg (default_acg first, then tgt_acg_list) and the lookups
\* of targets, device groups and target groups: strcmp over a list.
Lookup(name) == IF name = Found THEN name ELSE NoObj

Has(c, i) == c[i] # NoComp

\* __parse_path on the components comp[0..6]; a result is the path type
\* and the objects it resolved (every output starts NULL).
ParseResult(type, o) ==
  [type |-> type, dev |-> o.dev, devt |-> o.devt, tgtt |-> o.tgtt,
   tgt |-> o.tgt, acg |-> o.acg, dg |-> o.dg, tg |-> o.tg]

NoObjects == [dev |-> NoObj, devt |-> NoObj, tgtt |-> NoObj, tgt |-> NoObj,
              acg |-> NoObj, dg |-> NoObj, tg |-> NoObj]

\* Mutant: the result of the group lookup is not checked.
AcgLookupUnchecked(acg) == FALSE

\* "if (!*acg) goto err;"
AcgLookupFails(acg) == acg = NoObj

ParseTargetDriver(c) ==
  LET tgtt == Lookup(c[1])
      tgt  == Lookup(c[2])
      acg  == Lookup(c[4])
      o1 == [NoObjects EXCEPT !.tgtt = tgtt]
      o2 == [o1 EXCEPT !.tgt = tgt]
      o3 == [o2 EXCEPT !.acg = acg]
      err(o) == ParseResult("PATH_NOT_RECOGNIZED", o)
  IN CASE ~Has(c, 1)               -> err(NoObjects)
       [] tgtt = NoObj             -> err(o1)
       [] ~Has(c, 2)               -> ParseResult("TARGET_TEMPLATE_PATH", o1)
       [] tgt = NoObj              -> err(o2)
       [] ~Has(c, 3)               -> ParseResult("TARGET_PATH", o2)
       [] c[3] = "luns"            -> ParseResult("TARGET_LUNS_PATH", o2)
       [] c[3] # "ini_groups"      -> err(o2)
       [] ~Has(c, 4)               -> ParseResult("TARGET_INI_GROUPS_PATH", o2)
       [] Has(c, 5) /\ Has(c, 6)   -> err(o2)
       [] AcgLookupFails(acg)      -> err(o3)
       [] ~Has(c, 5)               -> ParseResult("ACG_PATH", o3)
       [] c[5] = "luns"            -> ParseResult("ACG_LUNS_PATH", o3)
       [] c[5] = "initiators"      -> ParseResult("ACG_INITIATOR_GROUPS_PATH", o3)
       [] OTHER                    -> err(o3)

ParseDeviceGroups(c) ==
  LET dg == Lookup(c[1])
      tg == Lookup(c[3])
      o1 == [NoObjects EXCEPT !.dg = dg]
      o2 == [o1 EXCEPT !.tg = tg]
      err(o) == ParseResult("PATH_NOT_RECOGNIZED", o)
  IN CASE ~Has(c, 1)                      -> ParseResult("DGS_PATH", NoObjects)
       [] dg = NoObj \/ ~Has(c, 2)        -> err(o1)
       [] c[2] = "devices" /\ ~Has(c, 3)  -> ParseResult("DGS_DEVS_PATH", o1)
       [] c[2] # "target_groups"          -> err(o1)
       [] ~Has(c, 3)                      -> ParseResult("TGS_PATH", o1)
       [] tg = NoObj \/ Has(c, 4)         -> err(o2)
       [] OTHER                           -> ParseResult("TGS_TG_PATH", o2)

__parse_path(c) ==
  LET obj == Lookup(c[1])
      err == ParseResult("PATH_NOT_RECOGNIZED", NoObjects)
  IN CASE c[0] = "device" /\ ~Has(c, 1) -> err
       [] c[0] = "device" ->
            ParseResult(IF obj = NoObj THEN "PATH_NOT_RECOGNIZED" ELSE "DEVICE_PATH",
                        [NoObjects EXCEPT !.dev = obj])
       [] c[0] = "device_driver" /\ ~Has(c, 2) /\ ~Has(c, 1) -> err
       [] c[0] = "device_driver" /\ ~Has(c, 2) ->
            ParseResult(IF obj = NoObj THEN "PATH_NOT_RECOGNIZED" ELSE "DEVICE_TYPE_PATH",
                        [NoObjects EXCEPT !.devt = obj])
       [] c[0] = "target_driver" -> ParseTargetDriver(c)
       [] c[0] = "device_groups" -> ParseDeviceGroups(c)
       [] OTHER -> err

\* The paths checked: at each position the keywords __parse_path compares
\* with there, a found and an unknown name.  comp[] is not initialized:
\* after the component the strchr loop sets to NULL, the rest hold
\* whatever the stack held (NULL or not).
PathVocab ==
  <<{"device", "device_driver", "target_driver", "device_groups", Unknown},
    {Found, Unknown},
    {Found, Unknown, "devices", "target_groups"},
    {Found, Unknown, "luns", "ini_groups"},
    {Found, Unknown},
    {"luns", "initiators", Unknown},
    {Unknown}>>

\* The component sequences of length n, position by position.
RECURSIVE PathsOfLen(_)
PathsOfLen(n) ==
  IF n = 0 THEN {<<>>}
  ELSE {p \o <<w>> : p \in PathsOfLen(n - 1), w \in PathVocab[n]}

\* comp[0..6] for a path of n components: comp[n] is NULL, comp[n+1..6]
\* whatever the stack held.
Components ==
  UNION {{[k \in 0..6 |-> IF k < n THEN s[k + 1]
                          ELSE IF k = n THEN NoComp ELSE u[k]] :
            s \in PathsOfLen(n), u \in [n + 1..6 -> {NoComp, Junk}]} :
         n \in 1..7}

\* The objects each path type resolves, as <<field, component index>>:
\* scst_mgmt_store's dispatch dereferences them.
NamedObjects(type) ==
  CASE type = "DEVICE_PATH"          -> {<<"dev", 1>>}
    [] type = "DEVICE_TYPE_PATH"     -> {<<"devt", 1>>}
    [] type = "TARGET_TEMPLATE_PATH" -> {<<"tgtt", 1>>}
    [] type \in {"TARGET_PATH", "TARGET_LUNS_PATH", "TARGET_INI_GROUPS_PATH"} ->
         {<<"tgtt", 1>>, <<"tgt", 2>>}
    [] type \in {"ACG_PATH", "ACG_LUNS_PATH", "ACG_INITIATOR_GROUPS_PATH"} ->
         {<<"tgtt", 1>>, <<"tgt", 2>>, <<"acg", 4>>}
    [] type \in {"DGS_DEVS_PATH", "TGS_PATH"} -> {<<"dg", 1>>}
    [] type = "TGS_TG_PATH"          -> {<<"dg", 1>>, <<"tg", 3>>}
    [] OTHER                         -> {}

(***************************************************************************)
(* LUN management: __scst_process_luns_mgmt_store on acg->acg_dev_list,    *)
(* a sequence of [lun, dev, ro] in list order.                             *)
(***************************************************************************)

MgmtEINTR  == 4
MgmtMaxLun == 1                   \* SCST_MAX_LUN, scaled down
MgmtLuns   == 0..MgmtMaxLun + 1   \* the LUNs a command may name
MgmtDevs   == {"d1", "d2"}        \* registered devices (scst_dev_list)

\* The commands, as what the parser extracts: the action word, whether a
\* blank follows it, the device name, the LUN and the parameter list
\* ("ro": read_only=1, "bad": any of its four syntax errors).
LunCmds ==
  [action : {"add", "replace"}, space : BOOLEAN, dev : MgmtDevs \cup {Unknown},
   lun : MgmtLuns, params : {"none", "ro", "bad"}]
  \cup [action : {"del"}, lun : MgmtLuns]
  \cup [action : {"clear", "other"}]

\* scst_acg_del_lun and scst_acg_add_lun (scst_lib.c, not in this tree),
\* by their effect: the first unlinks the first entry with the LUN and fails
\* with -EINVAL when there is none, the second appends (list_add_tail) or
\* fails with -ENOMEM.
AcgDelLun(devs, lun) ==
  IF \E k \in DOMAIN devs : devs[k].lun = lun
  THEN LET k == CHOOSE k \in DOMAIN devs :
                  devs[k].lun = lun /\ \A j \in 1..k - 1 : devs[j].lun # lun
       IN [res |-> 0, list |-> RemoveAt(devs, k)]
  ELSE [res |-> -MgmtEINVAL, list |-> devs]

AcgAddLun(devs, lun, dev, ro, fails) ==
  IF fails THEN [res |-> -MgmtENOMEM, list |-> devs]
  ELSE [res |-> 0, list |-> Append(devs, [lun |-> lun, dev |-> dev, ro |-> ro])]

\* Mutant: the scan of acg_dev_list for the LUN is left out.
LunInUseNever(devs, lun) == FALSE

\* The list_for_each_entry over acg_dev_list looking for virt_lun.
LunInUse(devs, lun) == \E k \in DOMAIN devs : devs[k].lun = lun

\* Mutant: the read_only parameter is parsed but not passed on.
ReadOnlyDropped(params) == 0

\* read_only as scst_acg_add_lun receives it.
ReadOnly(params) == IF params = "ro" THEN 1 ELSE 0

\* The add / replace case after the device lookup.
LunAddReplace(cmd, devs, addFails) ==
  CASE cmd.lun > MgmtMaxLun -> [res |-> -MgmtEINVAL, list |-> devs]
    [] cmd.params = "bad"   -> [res |-> -MgmtEINVAL, list |-> devs]
    [] LunInUse(devs, cmd.lun) /\ cmd.action = "add" ->
         [res |-> -MgmtEEXIST, list |-> devs]
    [] OTHER ->
         LET replaced == LunInUse(devs, cmd.lun)
             d == IF replaced THEN AcgDelLun(devs, cmd.lun)
                  ELSE [res |-> 0, list |-> devs]
         IN IF d.res # 0 THEN d
            ELSE AcgAddLun(d.list, cmd.lun, cmd.dev, ReadOnly(cmd.params), addFails)

\* The clear case: scst_acg_del_lun on every entry, stopping at a failure.
RECURSIVE LunClear(_)
LunClear(devs) ==
  IF devs = <<>> THEN [res |-> 0, list |-> devs]
  ELSE LET d == AcgDelLun(devs, Head(devs).lun)
       IN IF d.res # 0 THEN d ELSE LunClear(d.list)

\* The whole handler.  intr: mutex_lock_interruptible was interrupted;
\* addFails: scst_acg_add_lun runs out of memory.
LunsMgmtStore(cmd, devs, intr, addFails) ==
  CASE cmd.action = "other" -> [res |-> -MgmtEINVAL, list |-> devs]
    [] intr                 -> [res |-> -MgmtEINTR, list |-> devs]
    [] cmd.action \in {"add", "replace"} /\ (~cmd.space \/ cmd.dev = Unknown) ->
         [res |-> -MgmtEINVAL, list |-> devs]
    [] cmd.action \in {"add", "replace"} -> LunAddReplace(cmd, devs, addFails)
    [] cmd.action = "del"   -> AcgDelLun(devs, cmd.lun)
    [] OTHER                -> LunClear(devs)

\* The acg_dev_lists a group can have: distinct LUNs, up to two entries.
AcgDevLists ==
  {l \in UNION {[1..n -> [lun : 0..MgmtMaxLun, dev : MgmtDevs, ro : {0, 1}]] :
                  n \in 0..2} :
     IsInjective([k \in DOMAIN l |-> l[k].lun])}

\* Reference: the mapping a successful command leaves, as a set.
LunsRefEffect(cmd, devs) ==
  LET old == ToSet(devs)
      new == {[lun |-> cmd.lun, dev |-> cmd.dev, ro |-> IF cmd.params = "ro" THEN 1 ELSE 0]}
  IN CASE cmd.action = "add"     -> old \cup new
       [] cmd.action = "replace" -> {e \in old : e.lun # cmd.lun} \cup new
       [] cmd.action = "del"     -> {e \in old : e.lun # cmd.lun}
       [] OTHER                  -> {}

(***************************************************************************)
(* Group management: scst_process_ini_group_mgmt_store on tgt_acg_list    *)
(* (a sequence of group names) and scst_process_acg_ini_mgmt_store on the *)
(* initiator names of each group (acn_list, a set: scst_acg_add_acn       *)
(* refuses a name the group has).                                         *)
(***************************************************************************)

MgmtDefaultAcg == "default"           \* SCST_DEFAULT_ACG_NAME
MgmtAcgNames   == {"g1", "g2", MgmtDefaultAcg}
MgmtInis       == {"i1", "i2"}
NoName         == ""                  \* p[0] == '\0' after the blanks

IniGroupCmds ==
  [action : {"create", "del"}, name : MgmtAcgNames \cup {NoName}]
  \cup [action : {"other"}]

\* Mutant: scst_acg_sess_is_empty is not consulted.
AcgSessIgnored(busy, name) == FALSE

\* "if (!scst_acg_sess_is_empty(acg))": busy is the set of groups that
\* have sessions.
AcgBusy(busy, name) == name \in busy

\* The whole handler.  allocFails: scst_alloc_add_acg returns NULL; it
\* appends to tgt_acg_list, scst_del_free_acg unlinks.
IniGroupMgmtStore(cmd, acgs, busy, intr, allocFails) ==
  LET fail(e) == [res |-> e, acgs |-> acgs]
  IN CASE cmd.action = "other" -> fail(-MgmtEINVAL)
       [] intr                 -> fail(-MgmtEINTR)
       [] cmd.name = NoName    -> fail(-MgmtEINVAL)
       [] cmd.action = "create" /\ cmd.name \in ToSet(acgs) -> fail(-MgmtEINVAL)
       [] cmd.action = "create" /\ allocFails -> fail(-MgmtENOMEM)
       [] cmd.action = "create" -> [res |-> 0, acgs |-> Append(acgs, cmd.name)]
       [] cmd.name \notin ToSet(acgs) -> fail(-MgmtEINVAL)
       [] AcgBusy(busy, cmd.name)    -> fail(-MgmtEBUSY)
       [] OTHER -> [res |-> 0, acgs |-> RemoveAt(acgs, CHOOSE k \in DOMAIN acgs : acgs[k] = cmd.name)]

\* tgt_acg_lists: distinct names.
AcgLists ==
  {l \in UNION {[1..n -> MgmtAcgNames] : n \in 0..2} : IsInjective(l)}

InitiatorCmds ==
  [action : {"add", "del"}, space : BOOLEAN, name : MgmtInis \cup {NoName}]
  \cup [action : {"move"}, space : BOOLEAN, name : MgmtInis, few : BOOLEAN,
         group : MgmtAcgNames \cup {NoName}]
  \cup [action : {"clear", "other"}]

\* scst_acg_add_acn (scst_lib.c) by its effect.
AcgAddAcn(acns, g, name, fails) ==
  CASE name \in acns[g] -> [res |-> -MgmtEINVAL, acns |-> acns]
    [] fails          -> [res |-> -MgmtENOMEM, acns |-> acns]
    [] OTHER          -> [res |-> 0, acns |-> [acns EXCEPT ![g] = @ \cup {name}]]

\* Mutant: move does not look for the name in the destination group.
MoveDestHasNameUnchecked(acns, g, name) == FALSE

\* "if (scst_find_acn(acg_dest, name) != NULL)"
MoveDestHasName(acns, g, name) == name \in acns[g]

\* The move case: scst_del_free_acn on the source, then scst_acg_add_acn on
\* the destination, which scst_tgt_find_acg looks up in tgt_acg_list only.
IniMove(cmd, acg, acns, tgtAcgs, fails) ==
  LET fail(e) == [res |-> e, acns |-> acns]
  IN CASE cmd.few                  -> fail(-MgmtEINVAL)
       [] cmd.group = NoName       -> fail(-MgmtEINVAL)
       [] cmd.name \notin acns[acg] -> fail(-MgmtEINVAL)
       [] cmd.group \notin tgtAcgs  -> fail(-MgmtEINVAL)
       [] MoveDestHasName(acns, cmd.group, cmd.name) -> fail(-MgmtEEXIST)
       [] OTHER -> AcgAddAcn([acns EXCEPT ![acg] = @ \ {cmd.name}],
                             cmd.group, cmd.name, fails)

\* The whole handler for group acg of the path.
AcgIniMgmtStore(cmd, acg, acns, tgtAcgs, intr, fails) ==
  LET fail(e) == [res |-> e, acns |-> acns]
  IN CASE cmd.action = "other" -> fail(-MgmtEINVAL)
       [] cmd.action # "clear" /\ ~cmd.space -> fail(-MgmtEINVAL)
       [] intr -> fail(-MgmtEINTR)
       [] cmd.action = "clear" -> [res |-> 0, acns |-> [acns EXCEPT ![acg] = {}]]
       [] cmd.action = "move"  -> IniMove(cmd, acg, acns, tgtAcgs, fails)
       [] cmd.name = NoName    -> fail(-MgmtEINVAL)
       [] cmd.action = "add"   -> AcgAddAcn(acns, acg, cmd.name, fails)
       [] cmd.name \notin acns[acg] -> fail(-MgmtEINVAL)
       [] OTHER -> [res |-> 0, acns |-> [acns EXCEPT ![acg] = @ \ {cmd.name}]]

\* Reference: the initiator names a successful command leaves.
IniRefEffect(cmd, acg, acns) ==
  CASE cmd.action = "add"   -> [acns EXCEPT ![acg] = @ \cup {cmd.name}]
    [] cmd.action = "del"   -> [acns EXCEPT ![acg] = @ \ {cmd.name}]
    [] cmd.action = "clear" -> [acns EXCEPT ![acg] = {}]
    [] OTHER -> [g \in DOMAIN acns |->
                   IF g = cmd.group THEN acns[g] \cup {cmd.name}
                   ELSE IF g = acg THEN acns[g] \ {cmd.name} ELSE acns[g]]

(***************************************************************************)
(* Properties.  Constant-level: TLC evaluates each once.                   *)
(***************************************************************************)

\* Whatever the path and whatever the uninitialized comp[] entries hold,
\* the type __parse_path returns comes with every object scst_mgmt_store's
\* dispatch dereferences for it (devt->add_device, tgt->default_acg,
\* acg->tgt ...) resolved, and resolved to the object the path names.
ParsePathResolves ==
  \A c \in Components :
    LET r == __parse_path(c)
    IN \A nf \in NamedObjects(r.type) :
         r[nf[1]] = c[nf[2]] /\ r[nf[1]] # NoObj


\* A command that succeeds leaves exactly the mapping it asks for (with the
\* read_only flag it names); one that fails for any reason other than an
\* allocation failure leaves acg_dev_list as it was.  (replace deletes the
\* old LUN before scst_acg_add_lun can run out of memory.)  Whatever the
\* outcome, no two entries of acg_dev_list have the same LUN:
\* scst_acg_add_lun does not check, the handler's scan of the list must.
LunsMgmtEffect ==
  \A devs \in AcgDevLists, cmd \in LunCmds, intr, fails \in BOOLEAN :
    LET r == LunsMgmtStore(cmd, devs, intr, fails)
    IN /\ r.res = 0 => ToSet(r.list) = LunsRefEffect(cmd, devs)
       /\ r.res \notin {0, -MgmtENOMEM} => r.list = devs
       /\ IsInjective([k \in DOMAIN r.list |-> r.list[k].lun])


\* ini_groups create and del keep tgt_acg_list free of duplicate names, and
\* never free a group that still has sessions; a failed command changes
\* nothing.
IniGroupsMgmtSafe ==
  \A acgs \in AcgLists, cmd \in IniGroupCmds, intr, fails \in BOOLEAN :
    \A busy \in SUBSET ToSet(acgs) :
      LET r == IniGroupMgmtStore(cmd, acgs, busy, intr, fails)
      IN /\ IsInjective(r.acgs)
         /\ busy \subseteq ToSet(r.acgs)
         /\ r.res # 0 => r.acgs = acgs

\* An initiators command that succeeds leaves exactly the names it asks for
\* (move: out of the source group, into the destination); one that fails
\* for any reason but an allocation failure leaves every group as it was.
\* (move frees the source's entry before scst_acg_add_acn can run out of
\* memory.)
InitiatorsMgmtEffect ==
  \A acg \in MgmtAcgNames, tgtAcgs \in SUBSET (MgmtAcgNames \ {MgmtDefaultAcg}),
     acns \in [MgmtAcgNames -> SUBSET MgmtInis],
     cmd \in InitiatorCmds, intr, fails \in BOOLEAN :
    LET r == AcgIniMgmtStore(cmd, acg, acns, tgtAcgs, intr, fails)
    IN /\ r.res = 0 => r.acns = IniRefEffect(cmd, acg, acns)
       /\ r.res \notin {0, -MgmtENOMEM} => r.acns = acns

=============================================================================
