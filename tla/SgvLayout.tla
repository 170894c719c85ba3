----------------------------- MODULE SgvLayout -----------------------------
(***************************************************************************)
(* The layout of an SGV object (scst_mem.c): sgv_evaluate_local_order      *)
(* computes at init the largest orders whose SG entries and translation    *)
(* table (sgv_max_local_order), or translation table alone                 *)
(* (sgv_max_trans_order), can be embedded in the object; sgv_pool_init     *)
(* sizes each order's kmem cache by that policy; sgv_pool_alloc and        *)
(* sgv_alloc_arrays place the arrays of a new object inside it (in         *)
(* sg_entries_data) or kmalloc them; sgv_dtor_and_free and the             *)
(* out_fail_free_sg_entries path decide by pointer comparison which        *)
(* arrays to kfree.  All of it is arithmetic on sizes, so these are        *)
(* operators, checked for every order and every plausible set of struct    *)
(* sizes.                                                                  *)
(*                                                                         *)
(* A pointer to an array is [at, off, bytes]: in the object's              *)
(* sg_entries_data at byte offset off, or kmalloc()ed ("heap"), or NULL.   *)
(***************************************************************************)
EXTENDS Integers

CONSTANTS
  PageSize,      \* PAGE_SIZE
  ObjSizes,      \* the values sizeof(struct sgv_pool_obj) may have
  SgSizes,       \* ... sizeof(struct scatterlist)
  TtSizes,       \* ... sizeof(struct trans_tbl_ent)
  PoolElements   \* SGV_POOL_ELEMENTS: orders 0 .. PoolElements - 1

\* The header leaves room for at least one entry of each kind.
ASSUME \A o \in ObjSizes, s \in SgSizes, t \in TtSizes : PageSize - o >= s + t

\* get_order (kernel): the smallest order whose 2^order pages hold size
\* bytes, for size > 0.
GetOrder(size) ==
  CHOOSE o \in 0..PoolElements + 16 :
    PageSize * 2^o >= size /\ (o = 0 \/ PageSize * 2^(o - 1) < size)

\* x & PAGE_MASK
PageMasked(x) == x - (x % PageSize)

\* Mutant: the final "- 1" of both orders is left out.
EvaluateOrdersNoMinus(obj, sg, tt) ==
  LET space == PageSize - obj
  IN [local |-> GetOrder(PageMasked((space \div (tt + sg)) * PageSize)),
      trans |-> GetOrder(PageMasked((space \div tt) * PageSize))]

\* sgv_evaluate_local_order: sgv_max_local_order and sgv_max_trans_order.
sgv_evaluate_local_order(obj, sg, tt) ==
  LET space == PageSize - obj
  IN [local |-> GetOrder(PageMasked((space \div (tt + sg)) * PageSize)) - 1,
      trans |-> GetOrder(PageMasked((space \div tt) * PageSize)) - 1]

\* Mutant: an embedded-arrays order is sized for its SG entries only.
CacheObjSizeNoTtbl(i, clustered, ord, obj, sg, tt) ==
  CASE i <= ord.local -> obj + 2^i * sg
    [] i <= ord.trans -> obj + 2^i * (IF clustered THEN tt ELSE 0)
    [] OTHER          -> obj

\* The object size sgv_pool_init gives the kmem cache of order i.
CacheObjSize(i, clustered, ord, obj, sg, tt) ==
  CASE i <= ord.local -> obj + 2^i * (sg + IF clustered THEN tt ELSE 0)
    [] i <= ord.trans -> obj + 2^i * (IF clustered THEN tt ELSE 0)
    [] OTHER          -> obj

NullPtr == [at |-> "null", off |-> 0, bytes |-> 0]

\* Pointer equality with obj->sg_entries_data.
IsData(p) == p.at = "data" /\ p.off = 0

\* sgv_alloc_arrays for pages_to_alloc pages of order i: sg_entries is
\* kmalloc()ed; a clustered pool's trans_tbl is embedded up to
\* sgv_max_trans_order and kzalloc()ed above it.
sgv_alloc_arrays(pages, i, clustered, ord, sg, tt) ==
  [sg_entries |-> [at |-> "heap", off |-> 0, bytes |-> pages * sg],
   trans_tbl  |-> CASE ~clustered     -> NullPtr
                    [] i <= ord.trans -> [at |-> "data", off |-> 0, bytes |-> pages * tt]
                    [] OTHER          -> [at |-> "heap", off |-> 0, bytes |-> pages * tt]]

\* The brand-new cached object of sgv_pool_alloc: up to the local order
\* both arrays are embedded, trans_tbl right after the pages_to_alloc SG
\* entries; above it sgv_alloc_arrays places them.
NewObjArrays(i, clustered, ord, sg, tt) ==
  LET pages == 2^i
  IN IF i <= ord.local
     THEN [sg_entries |-> [at |-> "data", off |-> 0, bytes |-> pages * sg],
           trans_tbl  |-> IF clustered
                          THEN [at |-> "data", off |-> pages * sg, bytes |-> pages * tt]
                          ELSE NullPtr]
     ELSE sgv_alloc_arrays(pages, i, clustered, ord, sg, tt)

\* sgv_dtor_and_free (and out_fail_free_sg_entries): the arrays passed to
\* kfree with a non-NULL pointer.
KfreedArrays(a) ==
  IF IsData(a.sg_entries) THEN {}
  ELSE {"sg_entries"}
       \cup (IF ~IsData(a.trans_tbl) /\ a.trans_tbl.at # "null"
             THEN {"trans_tbl"} ELSE {})

Sizes == ObjSizes \X SgSizes \X TtSizes

(***************************************************************************)
(* Properties.  Constant-level: TLC evaluates each once.                   *)
(***************************************************************************)

\* For every order and struct sizes, a new object of a clustered or plain
\* pool is laid out soundly across sgv_evaluate_local_order, sgv_pool_init
\* and sgv_pool_alloc: the embedded arrays lie inside the size its kmem
\* cache was created with and do not overlap, a clustered pool always has a trans_tbl, and the destructor
\* kfree()s exactly the arrays that were kmalloc()ed, never an embedded one;
\* and the object, embedded arrays included, fits in one page (spec 4.2).
ArrayLayoutSound ==
  \A s \in Sizes, clustered \in BOOLEAN, i \in 0..PoolElements - 1 :
    LET obj == s[1]  sg == s[2]  tt == s[3]
        ord == sgv_evaluate_local_order(obj, sg, tt)
        a   == NewObjArrays(i, clustered, ord, sg, tt)
        end == CacheObjSize(i, clustered, ord, obj, sg, tt) - obj
        emb == {x \in {"sg_entries", "trans_tbl"} : a[x].at = "data"}
    IN /\ clustered => a.trans_tbl.at # "null"
       /\ \A x \in emb : a[x].off + a[x].bytes <= end
       /\ emb = {"sg_entries", "trans_tbl"} =>
            a.trans_tbl.off >= a.sg_entries.off + a.sg_entries.bytes
       /\ KfreedArrays(a) = {x \in {"sg_entries", "trans_tbl"} : a[x].at = "heap"}
       /\ CacheObjSize(i, clustered, ord, obj, sg, tt) <= PageSize

=============================================================================
