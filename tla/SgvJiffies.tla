----------------------------- MODULE SgvJiffies -----------------------------
(***************************************************************************)
(* The age test of the SGV cache (scst_mem.c): sgv_put_obj stamps an       *)
(* object with jiffies and appends it to sorted_recycling_list, and the    *)
(* purge work and sgv_shrink_pool walk that list from its head, purging    *)
(* while sgv_purge_from_cache says the head is old enough and stopping at *)
(* the first one that is not.  jiffies is an unsigned long that wraps, so  *)
(* the test is time_after_eq on w-bit words.  The operators here are       *)
(* checked against the same walk on unbounded time.                        *)
(***************************************************************************)
EXTENDS Integers, Sequences

CONSTANTS
  JiffyBits,   \* the width w of jiffies in the model
  Afters       \* the ages tried (PURGE_TIME_AFTER, SHRINK_TIME_AFTER)

Word == 2 ^ JiffyBits

\* unsigned long arithmetic.
Wrap(n) == n % Word

\* Mutant: the deadline compared as a plain unsigned number.
TimeAfterEqUnsigned(a, b) == a >= b

\* time_after_eq(a, b): ((long)((b) - (a)) <= 0), i.e. a - b taken modulo
\* 2^w is non-negative when read as a signed w-bit word.
time_after_eq(a, b) == Wrap(a - b) < Word \div 2

\* sgv_purge_from_cache: purge when cur_time has reached
\* obj->time_stamp + after (the sum wraps like the code's).
sgv_purge_from_cache(stamp, after, cur) == time_after_eq(cur, Wrap(stamp + after))

\* The walk of sgv_purge_work_fn / sgv_shrink_pool over the stamps of
\* sorted_recycling_list from position k on: how many are purged before
\* the first that is too young (or the list ends).
RECURSIVE PurgeWalk(_, _, _, _)
PurgeWalk(stamps, after, cur, k) ==
  IF k > Len(stamps) \/ ~sgv_purge_from_cache(stamps[k], after, cur) THEN 0
  ELSE 1 + PurgeWalk(stamps, after, cur, k + 1)

\* Reference: on unbounded time, the objects at least `after` old.
OldEnough(times, after, now) ==
  {k \in 1..Len(times) : now - times[k] >= after}

\* Histories: up to three puts at non-decreasing true times, read at a
\* later time now, all within half the jiffies range of the first put
\* (the purge work runs every PURGE_INTERVAL while the cache is not
\* empty), starting from any jiffies value so that the counter wraps.
Half == Word \div 2

Histories ==
  UNION {{[times |-> [k \in 1..n |-> base + off[k]], now |-> base + nowOff] :
            off \in {f \in [1..n -> 0..Half - 1] :
                       \A k \in 1..n - 1 : f[k] <= f[k + 1]},
            nowOff \in 0..Half - 1} :
         n \in 1..3, base \in 0..Word - 1}

(***************************************************************************)
(* Property.  Constant-level: TLC evaluates it once for the run.           *)
(***************************************************************************)

\* Whatever value jiffies has wrapped to, the purge walk of
\* sgv_purge_work_fn / sgv_shrink_pool frees exactly the objects that
\* have been cached for at least PURGE_TIME_AFTER (SHRINK_TIME_AFTER):
\* a prefix of sorted_recycling_list, and no younger object.
PurgeAgeWrapSafe ==
  \A h \in Histories, after \in Afters :
    h.now >= h.times[Len(h.times)] =>
      LET stamps == [k \in DOMAIN h.times |-> Wrap(h.times[k])]
          n      == PurgeWalk(stamps, after, Wrap(h.now), 1)
      IN 1..n = OldEnough(h.times, after, h.now)

=============================================================================
