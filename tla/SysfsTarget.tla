---------------------------- MODULE SysfsTarget ----------------------------
(***************************************************************************)
(* Target attributes of the sysfs-tree-changes branch (scst_sysfs.c):      *)
(*                                                                         *)
(*   - the target's mgmt commands enable and disable and its rel_tgt_id    *)
(*     attribute, which together keep the relative target port ids of the *)
(*     enabled targets valid and unique;                                   *)
(*   - the ALUA attributes of a target group (group_id, preferred, state)  *)
(*     and of a target in it (rel_tgt_id), each a show that prints the     *)
(*     value and a store that parses it back.                              *)
(*                                                                         *)
(* Each store is one function from the state it finds to the state and     *)
(* result it leaves.  The helpers it calls outside this tree are given by  *)
(* their effect: scst_is_relative_target_port_id_unique and                *)
(* gen_relative_target_port_id (scst_lib.c), the driver's enable_target,   *)
(* and the kernel's strict_strtoul, which the ALUA stores apply to text,   *)
(* so text is a sequence of characters here.                               *)
(***************************************************************************)
EXTENDS Integers, Sequences

TgtEINVAL    == 22
TgtEBADSLT   == 57
TgtEOVERFLOW == 75
TgtENOMEM    == 12
TgtEIO       == 5     \* what a failing enable_target returns here

MinRelTgtId == 1       \* SCST_MIN_REL_TGT_ID (scst.h)
MaxRelTgtId == 65535   \* SCST_MAX_REL_TGT_ID

(***************************************************************************)
(* enable / disable and rel_tgt_id of a target.                            *)
(***************************************************************************)

Tgts   == {"t1", "t2"}
NoTgt  == "<none>"
NoId   == -1
IdVals == {0, 1, 2, MaxRelTgtId}

\* What a store reads from a target: is_target_enabled() and rel_tgt_id.
TgtStates == [Tgts -> [enabled : BOOLEAN, id : IdVals]]

\* scst_is_relative_target_port_id_unique(id, t) by its effect: no enabled
\* target other than t has that (uint16_t) id.
RelIdUnique(s, id, t) ==
  \A y \in Tgts \ {t} : s[y].enabled => s[y].id # id % 2^16

\* gen_relative_target_port_id by its effect: some id in range that is
\* unique among the enabled targets, or -EOVERFLOW (NoId) when none is.
GenIds(s) ==
  LET free == {i \in IdVals \ {0} : RelIdUnique(s, i, NoTgt)}
  IN IF free = {} THEN {NoId} ELSE free

\* scst_process_tgt_enable_store: with gen the id the generator would
\* return and drvFails whether the driver's enable_target fails.  An id
\* generated is kept even when enable_target then fails.
scst_process_tgt_enable_store(s, x, enable, gen, drvFails) ==
  LET s1 == IF enable /\ s[x].id = 0 THEN [s EXCEPT ![x].id = gen] ELSE s
      drv == IF drvFails THEN [res |-> -TgtEIO, s |-> s1]
             ELSE [res |-> 0, s |-> [s1 EXCEPT ![x].enabled = enable]]
  IN CASE ~enable                             -> drv
       [] s[x].id = 0 /\ gen = NoId           -> [res |-> -TgtEOVERFLOW, s |-> s]
       [] s[x].id = 0                         -> drv
       [] ~RelIdUnique(s, s[x].id, x)         -> [res |-> -TgtEBADSLT, s |-> s]
       [] OTHER                               -> drv

\* Mutant: 0 is accepted whether or not the target is enabled.
RelTgtIdStoreZeroAlways(s, x, v) ==
  LET en == s[x].enabled
  IN CASE en /\ v # s[x].id /\ ~RelIdUnique(s, v, x) -> [res |-> -TgtEBADSLT, s |-> s]
       [] v < MinRelTgtId \/ v > MaxRelTgtId ->
            IF v = 0 THEN [res |-> 0, s |-> [s EXCEPT ![x].id = 0]]
                     ELSE [res |-> -TgtEINVAL, s |-> s]
       [] OTHER -> [res |-> 0, s |-> [s EXCEPT ![x].id = v % 2^16]]

\* scst_process_rel_tgt_id_store: an enabled target checks that a new id
\* is unique; the id must be in range, except that a disabled target may
\* be given 0 (no id); the id is stored as a uint16_t.
scst_process_rel_tgt_id_store(s, x, v) ==
  LET en == s[x].enabled
  IN CASE en /\ v # s[x].id /\ ~RelIdUnique(s, v, x) -> [res |-> -TgtEBADSLT, s |-> s]
       [] v < MinRelTgtId \/ v > MaxRelTgtId ->
            IF v = 0 /\ ~en THEN [res |-> 0, s |-> [s EXCEPT ![x].id = 0]]
                            ELSE [res |-> -TgtEINVAL, s |-> s]
       [] OTHER -> [res |-> 0, s |-> [s EXCEPT ![x].id = v % 2^16]]

\* The values a rel_tgt_id write may parse to (strict_strtoul of the whole
\* buffer), NotANumber for text that is not a number; 65537 is 1 as a
\* uint16_t.
NotANumber == -1
RelIdInputs == {0, 1, 2, MaxRelTgtId, MaxRelTgtId + 1, MaxRelTgtId + 2, NotANumber}

\* scst_rel_tgt_id_store: a success returns count, shown as 0.
scst_rel_tgt_id_store(s, x, v) ==
  IF v = NotANumber THEN [res |-> -TgtEINVAL, s |-> s]
  ELSE scst_process_rel_tgt_id_store(s, x, v)

\* The target's mgmt commands; set_cpu_mask changes no port id and fails
\* or not (cpuFails), any other word is -EINVAL.
TgtCmds ==
  [op : {"enable", "disable", "set_cpu_mask", "other"}, tgt : Tgts]
  \cup [op : {"rel_tgt_id"}, tgt : Tgts, val : RelIdInputs]

scst_process_tgt_mgmt_store(s, c, gen, drvFails, cpuFails) ==
  CASE c.op = "enable"       -> scst_process_tgt_enable_store(s, c.tgt, TRUE, gen, drvFails)
    [] c.op = "disable"      -> scst_process_tgt_enable_store(s, c.tgt, FALSE, gen, drvFails)
    [] c.op = "set_cpu_mask" -> [res |-> IF cpuFails THEN -TgtEINVAL ELSE 0, s |-> s]
    [] c.op = "rel_tgt_id"   -> scst_rel_tgt_id_store(s, c.tgt, c.val)
    [] OTHER                 -> [res |-> -TgtEINVAL, s |-> s]

\* Every enabled target has an id in range that no other enabled target has.
EnabledIdsValid(s) ==
  \A x \in Tgts :
    s[x].enabled =>
      /\ s[x].id \in MinRelTgtId..MaxRelTgtId
      /\ \A y \in Tgts \ {x} : s[y].enabled => s[y].id # s[x].id

(***************************************************************************)
(* ALUA attributes of device_groups/<dg>/target_groups/<tg>.               *)
(***************************************************************************)

HexChars == <<"0", "1", "2", "3", "4", "5", "6", "7", "8", "9",
              "a", "b", "c", "d", "e", "f">>
UpperHex == [a |-> "A", b |-> "B", c |-> "C", d |-> "D", e |-> "E", f |-> "F"]
\* isxdigit() and the digit's value, either case (simple_strtoul's
\* TOLOWER).
DigitVal(ch) == CHOOSE i \in 0..15 : HexChars[i + 1] = ch
                  \/ (i >= 10 /\ UpperHex[HexChars[i + 1]] = ch)
IsXDigit(ch) == \E i \in 0..15 : HexChars[i + 1] = ch
                  \/ (i >= 10 /\ UpperHex[HexChars[i + 1]] = ch)

\* "%u": the decimal digits of v.
RECURSIVE Decimal(_)
Decimal(v) ==
  IF v < 10 THEN <<HexChars[v + 1]>>
  ELSE Decimal(v \div 10) \o <<HexChars[(v % 10) + 1]>>

\* The digits of s from position i on, in base b: the value and the
\* position of the first character that is not one.
RECURSIVE ParseDigits(_, _, _, _)
ParseDigits(s, i, b, acc) ==
  IF i <= Len(s) /\ IsXDigit(s[i]) /\ DigitVal(s[i]) < b
  THEN ParseDigits(s, i + 1, b, acc * b + DigitVal(s[i]))
  ELSE [val |-> acc, tail |-> i]

\* simple_strtoul(cp, &tail, 0): "0x" followed by a hex digit is hex, a
\* leading 0 octal, anything else decimal.
SimpleStrtoul(s) ==
  CASE Len(s) >= 3 /\ s[1] = "0" /\ s[2] \in {"x", "X"} /\ IsXDigit(s[3])
                            -> ParseDigits(s, 3, 16, 0)
    [] Len(s) >= 1 /\ s[1] = "0" -> ParseDigits(s, 1, 8, 0)
    [] OTHER                -> ParseDigits(s, 1, 10, 0)

\* strict_strtoul(cp, 0, &res): the whole string is one number, with at
\* most one newline after it.
StrictStrtoul(s) ==
  LET r == SimpleStrtoul(s)
  IN IF Len(s) > 0 /\ r.tail > 1
        /\ (r.tail = Len(s) + 1 \/ (r.tail = Len(s) /\ s[Len(s)] = "\n"))
     THEN [ok |-> TRUE, val |-> r.val]
     ELSE [ok |-> FALSE, val |-> 0]

\* The value an ALUA attribute shows: scnprintf(buf, PAGE_SIZE, "%u\n").
TgNumShow(v) == Decimal(v) \o <<"\n">>

\* Mutant: the upper bound rejects 0xffff itself.
TgNumStoreOffByOne(buf, lo, hi, cur) ==
  LET ch == SubSeq(buf, 1, IF Len(buf) < 7 THEN Len(buf) ELSE 7)
      r  == StrictStrtoul(ch)
  IN CASE ~r.ok                          -> [res |-> -TgtEINVAL, val |-> cur]
       [] r.val < lo \/ r.val >= hi      -> [res |-> -TgtEINVAL, val |-> cur]
       [] OTHER                          -> [res |-> Len(buf), val |-> r.val]

\* scst_tg_group_id_store, scst_tg_preferred_store and
\* scst_tg_tgt_rel_tgt_id_store: the first count characters, at most
\* sizeof(ch) - 1 = 7, are copied into ch, parsed and range-checked;
\* success returns count.
TgNumStore(buf, lo, hi, cur) ==
  LET ch == SubSeq(buf, 1, IF Len(buf) < 7 THEN Len(buf) ELSE 7)
      r  == StrictStrtoul(ch)
  IN CASE ~r.ok                          -> [res |-> -TgtEINVAL, val |-> cur]
       [] r.val < lo \/ r.val > hi       -> [res |-> -TgtEINVAL, val |-> cur]
       [] OTHER                          -> [res |-> Len(buf), val |-> r.val]

\* The ranges: group_id and a target's rel_tgt_id 1..0xffff (0 and
\* larger values rejected), preferred 0 or 1.
TgNumAttrs == [group_id |-> <<1, 65535>>, rel_tgt_id |-> <<1, 65535>>,
               preferred |-> <<0, 1>>]

\* scst_tg_state_names, in table order.
TgStateNames == <<"active", "nonoptimized", "standby", "unavailable",
                  "offline", "transitioning">>
TgStates == {"OPTIMIZED", "NONOPTIMIZED", "STANDBY", "UNAVAILABLE",
             "OFFLINE", "TRANSITIONING", "OTHER"}
TgStateOf == <<"OPTIMIZED", "NONOPTIMIZED", "STANDBY", "UNAVAILABLE",
               "OFFLINE", "TRANSITIONING">>

\* The loop of scst_tg_state_show: the index of st in the table, searched
\* from the end, or 0 when st has no name.
TgStateIndex(st) ==
  IF \E i \in 1..6 : TgStateOf[i] = st
  THEN CHOOSE i \in 1..6 : TgStateOf[i] = st /\ \A j \in i + 1..6 : TgStateOf[j] # st
  ELSE 0

\* scst_tg_state_show: the name of the state, "???" if it has none.
scst_tg_state_show(st) ==
  LET i == TgStateIndex(st)
  IN <<IF i > 0 THEN TgStateNames[i] ELSE "???", "\n">>

\* scst_tg_state_store and its work function on the kasprintf()ed copy of
\* buf: cut at the first newline, look the name up from the end of the
\* table, and call scst_tg_set_state (scst_tg.c), which fails or not.  A
\* state name is one token of the text; a success returns count, shown
\* as 0.  The kasprintf() itself may fail with -ENOMEM.
scst_tg_state_store(buf, cur, allocFails, setFails) ==
  LET cut == IF \E k \in 1..Len(buf) : buf[k] = "\n"
             THEN SubSeq(buf, 1, (CHOOSE k \in 1..Len(buf) :
                                    buf[k] = "\n" /\ \A j \in 1..k - 1 : buf[j] # "\n") - 1)
             ELSE buf
      name == IF Len(cut) = 1 THEN cut[1] ELSE "<text>"
      hits == {i \in 1..6 : TgStateNames[i] = name}
  IN CASE allocFails -> [res |-> -TgtENOMEM, state |-> cur]
       [] hits = {} -> [res |-> -TgtEINVAL, state |-> cur]
       [] setFails  -> [res |-> -TgtEINVAL, state |-> cur]
       [] OTHER     -> [res |-> 0,
                        state |-> TgStateOf[CHOOSE i \in hits :
                                              \A j \in hits : j <= i]]

(***************************************************************************)
(* Properties.  Constant-level: TLC evaluates each once.                   *)
(***************************************************************************)

\* Whatever the ids and enabled flags of two targets, if the enabled ones
\* have valid distinct relative port ids, then after any enable, disable,
\* set_cpu_mask or rel_tgt_id write to either, with any id the generator
\* may pick and whether or not the driver fails, they still do: the
\* uniqueness checks of scst_process_rel_tgt_id_store (enabled targets
\* only) and scst_process_tgt_enable_store (at enable) and the 0 exception
\* for disabled targets must fit together.  A rel_tgt_id write that fails
\* changes nothing.
RelTgtIdsStayValid ==
  \A s \in TgtStates, c \in TgtCmds, drv \in BOOLEAN, cpu \in BOOLEAN :
    EnabledIdsValid(s) =>
      \A gen \in GenIds(s) :
        LET r == scst_process_tgt_mgmt_store(s, c, gen, drv, cpu)
        IN /\ EnabledIdsValid(r.s)
           /\ (c.op = "rel_tgt_id" /\ r.res # 0) => r.s = s

\* Every ALUA attribute reads back: what scst_tg_*_show prints for a
\* valid value, written to the store (the newline included, through the
\* 7-character copy, base-0 parsing and the range check), sets exactly that
\* value and returns count; for every state with a name the same holds for
\* state, and "???" is refused; a failed copy changes nothing.
TgAttrsRoundTrip ==
  /\ \A a \in DOMAIN TgNumAttrs,
        v \in {0, 1, 7, 8, 9, 10, 255, 4096, 65535, 65536} :
       LET lo == TgNumAttrs[a][1]  hi == TgNumAttrs[a][2]
           buf == TgNumShow(v)
           r == TgNumStore(buf, lo, hi, lo)
       IN /\ v \in lo..hi => r = [res |-> Len(buf), val |-> v]
          /\ v \notin lo..hi => r.val = lo /\ r.res = -TgtEINVAL
  /\ \A st \in TgStates, nomem \in BOOLEAN :
       LET r == scst_tg_state_store(scst_tg_state_show(st), "OFFLINE", nomem, FALSE)
       IN CASE nomem                -> r = [res |-> -TgtENOMEM, state |-> "OFFLINE"]
            [] TgStateIndex(st) > 0 -> r.state = st /\ r.res = 0
            [] OTHER                -> r.res = -TgtEINVAL

=============================================================================
