------------------------------ MODULE SgvCache ------------------------------
(***************************************************************************)
(* What the SGV pool promises its callers about objects (the comments of   *)
(* sgv_pool_alloc, sgv_pool_free and sgv_get_obj in scst_mem.c), with no   *)
(* lists, counters, watermarks or purge timing:                            *)
(*                                                                         *)
(*   - a call asks for objects of one key: a pool and an order (a cached   *)
(*     request) or a pool and minus a page count (a big one);              *)
(*   - an object is lent to one thread at a time, which holds no other;    *)
(*     it is a new object of the key asked for, or a cached object of that *)
(*     key;                                                                *)
(*   - only its holder attaches pages to it, gives it back to the cache    *)
(*     (cached keys only) or destroys it;                                  *)
(*   - a cached object is lent again or evicted, nothing else; its pages   *)
(*     stay with it.                                                       *)
(***************************************************************************)
EXTENDS Integers

CONSTANTS
  Threads,  \* the callers
  Objs,     \* object identities
  Keys,     \* <<pool, order>> or <<pool, -pages>>
  NULL

VARIABLES
  where,    \* where[o]: "none", "lent" or "cached"
  owner,    \* owner[o]: the thread o is lent to
  key,      \* key[o]: the key o was made for
  filled,   \* filled[o]: o has its pages
  want      \* want[t]: the key t's current call asks for

cvars == <<where, owner, key, filled, want>>

Init ==
  /\ where = [o \in Objs |-> "none"]
  /\ owner = [o \in Objs |-> NULL]
  /\ key = [o \in Objs |-> NULL]
  /\ filled = [o \in Objs |-> FALSE]
  /\ want = [t \in Threads |-> NULL]

\* t holds no object.
Free(t) == \A o \in Objs : owner[o] # t

\* The step may end t's call.
Settle(t) == \E w \in {want[t], NULL} : want' = [want EXCEPT ![t] = w]

\* A call starts or ends.
Call(t) ==
  /\ \E w \in Keys \cup {NULL} : want' = [want EXCEPT ![t] = w]
  /\ UNCHANGED <<where, owner, key, filled>>

\* A new object of the key asked for, without pages.
Make(t, o) ==
  /\ where[o] = "none" /\ Free(t) /\ want[t] # NULL
  /\ where' = [where EXCEPT ![o] = "lent"]
  /\ owner' = [owner EXCEPT ![o] = t]
  /\ key' = [key EXCEPT ![o] = want[t]]
  /\ Settle(t)
  /\ UNCHANGED filled

\* A cached object of the key asked for, with or without pages.
Take(t, o) ==
  /\ where[o] = "cached" /\ Free(t) /\ want[t] = key[o]
  /\ where' = [where EXCEPT ![o] = "lent"]
  /\ owner' = [owner EXCEPT ![o] = t]
  /\ Settle(t)
  /\ UNCHANGED <<key, filled>>

Fill(t, o) ==
  /\ where[o] = "lent" /\ owner[o] = t /\ ~filled[o]
  /\ filled' = [filled EXCEPT ![o] = TRUE]
  /\ Settle(t)
  /\ UNCHANGED <<where, owner, key>>

Put(t, o) ==
  /\ where[o] = "lent" /\ owner[o] = t /\ key[o][2] >= 0
  /\ where' = [where EXCEPT ![o] = "cached"]
  /\ owner' = [owner EXCEPT ![o] = NULL]
  /\ Settle(t)
  /\ UNCHANGED <<key, filled>>

Destroy(o) ==
  /\ where' = [where EXCEPT ![o] = "none"]
  /\ owner' = [owner EXCEPT ![o] = NULL]
  /\ key' = [key EXCEPT ![o] = NULL]
  /\ filled' = [filled EXCEPT ![o] = FALSE]

Drop(t, o) ==
  /\ where[o] = "lent" /\ owner[o] = t
  /\ Destroy(o)
  /\ Settle(t)

Evict(o) ==
  /\ where[o] = "cached"
  /\ Destroy(o)
  /\ UNCHANGED want

Next ==
  \/ \E t \in Threads :
       \/ Call(t)
       \/ \E o \in Objs : Make(t, o) \/ Take(t, o) \/ Fill(t, o) \/ Put(t, o)
                         \/ Drop(t, o)
  \/ \E o \in Objs : Evict(o)

Spec == Init /\ [][Next]_cvars

=============================================================================
