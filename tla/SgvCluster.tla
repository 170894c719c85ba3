----------------------------- MODULE SgvCluster -----------------------------
(***************************************************************************)
(* The page-clustering algorithms of the SGV allocator (scst_mem.c):       *)
(* sgv_alloc_sg_entries fills a scatterlist page by page and merges each   *)
(* new page into an earlier entry when their page frames are adjacent      *)
(* (sgv_check_tail_clustering, sgv_check_full_clustering); it then builds  *)
(* trans_tbl, which sgv_pool_alloc uses to hand out a prefix of a cached   *)
(* buffer.  The algorithms are pure, so they are operators here, checked   *)
(* against reference definitions over every allocation order of a few     *)
(* page frames.                                                            *)
(*                                                                         *)
(* A scatterlist entry is [pfn, len], len in pages: every entry is written *)
(* by sgv_alloc_sys_pages with length PAGE_SIZE and only grows by whole    *)
(* entries, so the code's full_page tests are always true here.  Array     *)
(* indices are the code's 0-based indices.                                 *)
(***************************************************************************)
EXTENDS Integers, Sequences, SequencesExt, FiniteSets

CONSTANTS
  ClusterPfns,      \* page frame numbers alloc_pages may return
  ClusterMaxPages   \* the largest pages_to_alloc tried

\* sgv_clustering_types
Clusterings == {"sgv_no_clustering", "sgv_tail_clustering", "sgv_full_clustering"}

\* sg_clear: an entry with no page and length 0.
Cleared == [pfn |-> -1, len |-> 0]

\* The page frames one entry covers, in data order.
EntryPages(e) == [k \in 1..e.len |-> e.pfn + k - 1]

\* Mutant: the merged entry is not cleared (sg_clear forgotten).
MergeNoClear(sg, cur, i, head) ==
  [sg EXCEPT ![i] = [pfn |-> IF head THEN sg[cur].pfn ELSE sg[i].pfn,
                     len |-> sg[i].len + sg[cur].len]]

\* Merging entry cur into entry i (out_tail / out_head of
\* sgv_check_full_clustering): the head merge also moves i's first page.
Merge(sg, cur, i, head) ==
  [sg EXCEPT ![i]   = [pfn |-> IF head THEN sg[cur].pfn ELSE sg[i].pfn,
                       len |-> sg[i].len + sg[cur].len],
             ![cur] = Cleared]

\* The hint / loop body of sgv_check_full_clustering for candidate i.
HeadFits(sg, cur, i) == sg[i].pfn = sg[cur].pfn + sg[cur].len
TailFits(sg, cur, i) == sg[i].pfn + sg[i].len = sg[cur].pfn

\* The search loop "for (i = cur - 1; i >= 0; i--)": a result is the pair
\* <<scatterlist, merged index or -1>>.
RECURSIVE FullScan(_, _, _)
FullScan(sg, cur, i) ==
  IF i < 0 THEN <<sg, -1>>
  ELSE IF HeadFits(sg, cur, i) THEN <<Merge(sg, cur, i, TRUE), i>>
  ELSE IF TailFits(sg, cur, i) THEN <<Merge(sg, cur, i, FALSE), i>>
  ELSE FullScan(sg, cur, i - 1)

sgv_check_full_clustering(sg, cur, hint) ==
  IF hint >= 0 /\ HeadFits(sg, cur, hint) THEN <<Merge(sg, cur, hint, TRUE), hint>>
  ELSE IF hint >= 0 /\ TailFits(sg, cur, hint) THEN <<Merge(sg, cur, hint, FALSE), hint>>
  ELSE FullScan(sg, cur, cur - 1)

\* Mutant: tail clustering also merges a page that directly precedes the
\* previous entry.
TailClusteringBothEnds(sg, cur) ==
  IF cur > 0 /\ (TailFits(sg, cur, cur - 1) \/ HeadFits(sg, cur, cur - 1))
  THEN <<Merge(sg, cur, cur - 1, HeadFits(sg, cur, cur - 1)), cur - 1>>
  ELSE <<sg, -1>>

sgv_check_tail_clustering(sg, cur) ==
  IF cur > 0 /\ TailFits(sg, cur, cur - 1)
  THEN <<Merge(sg, cur, cur - 1, FALSE), cur - 1>>
  ELSE <<sg, -1>>

\* Mutant: one page freed per entry, whatever its length.
FreedPagesFirstPage(sg, count) == {sg[i].pfn : i \in 0..count-1}

\* sgv_free_sys_sg_entries: the page frames freed for entries 0..count-1.
FreedPages(sg, count) == UNION {ToSet(EntryPages(sg[i])) : i \in 0..count-1}

\* sgv_alloc_sg_entries' page loop from page pg on.  pfns[pg+1] is the page
\* alloc_pages returns for page pg; failAt is the page whose allocation
\* fails (-1: none).  The result is [sg, count, freed].
RECURSIVE AllocLoop(_, _, _, _, _, _, _)
AllocLoop(pfns, ct, failAt, sg, count, merged, pg) ==
  IF pg = Len(pfns) THEN [sg |-> sg, count |-> count, freed |-> {}]
  ELSE IF pg = failAt
  THEN [sg |-> sg, count |-> 0, freed |-> FreedPages(sg, count)]
  ELSE LET placed == [sg EXCEPT ![count] = [pfn |-> pfns[pg + 1], len |-> 1]]
           r == CASE ct = "sgv_full_clustering" ->
                       sgv_check_full_clustering(placed, count, merged)
                  [] ct = "sgv_tail_clustering" ->
                       sgv_check_tail_clustering(placed, count)
                  [] OTHER -> <<placed, -1>>
       IN AllocLoop(pfns, ct, failAt, r[1],
                    IF r[2] = -1 THEN count + 1 ELSE count, r[2], pg + 1)

\* The trans_tbl loop: entry i starts at buffer page pg_count[i], and
\* buffer page pg lies in entry sg_num[pg] - 1.
RECURSIVE TransLoop(_, _, _, _)
TransLoop(sg, tt, pg, i) ==
  IF i \notin DOMAIN sg THEN tt
  ELSE LET n == sg[i].len
       IN TransLoop(sg,
                    [k \in DOMAIN tt |->
                       [pg_count |-> IF k = i THEN pg ELSE tt[k].pg_count,
                        sg_num   |-> IF k \in pg..pg + n - 1 THEN i + 1
                                     ELSE tt[k].sg_num]],
                    pg + n, i + 1)

TransTbl(sg) ==
  TransLoop(sg, [k \in DOMAIN sg |-> [pg_count |-> 0, sg_num |-> 0]], 0, 0)

\* sgv_alloc_sg_entries on a fresh table of Len(pfns) entries.
sgv_alloc_sg_entries(pfns, ct, failAt) ==
  AllocLoop(pfns, ct, failAt,
            [i \in 0..Len(pfns) - 1 |-> Cleared], 0, -1, 0)

\* Mutant: the last entry handed out is not trimmed to the request.
PrefixEntriesUntrimmed(sg, tt, p) ==
  [i \in 0..tt[p - 1].sg_num - 1 |-> sg[i]]

\* The success path of sgv_pool_alloc for a cached, clustered object used
\* for a request of p pages: the first cnt entries, the last one trimmed.
PrefixEntries(sg, tt, p) ==
  LET cnt == tt[p - 1].sg_num
      s   == cnt - 1
  IN [i \in 0..s |-> IF i = s THEN [sg[i] EXCEPT !.len = p - tt[s].pg_count]
                     ELSE sg[i]]

\* Reference: the buffer's page frames in data order, entries i..count-1.
RECURSIVE BufferPagesFrom(_, _, _)
BufferPagesFrom(sg, i, count) ==
  IF i >= count THEN <<>>
  ELSE EntryPages(sg[i]) \o BufferPagesFrom(sg, i + 1, count)

BufferPages(sg, count) == BufferPagesFrom(sg, 0, count)

\* The allocation orders checked: every sequence of distinct page frames.
Orders == UNION {{f \in [1..n -> ClusterPfns] : IsInjective(f)} :
                   n \in 1..ClusterMaxPages}

\* Reference: how many entries tail clustering must produce, one per run
\* of consecutive allocations with consecutive page frames: one per page,
\* less one for each page that directly follows the page before it.
TailRuns(pfns) ==
  Len(pfns) - Cardinality({k \in 1..Len(pfns) - 1 : pfns[k + 1] = pfns[k] + 1})

(***************************************************************************)
(* Properties.  They are constant-level: TLC evaluates each once and     *)
(* reuses the value in every state of the run that lists it.            *)
(***************************************************************************)

\* A successful sgv_alloc_sg_entries returns sg_count entries that cover
\* exactly the pages allocated, each page once, with every entry past
\* sg_count cleared (the trans_tbl loop and sgv_free_sys_sg_entries rely on
\* both).
SgEntriesCoverPages ==
  \A pfns \in Orders, ct \in Clusterings :
    LET r == sgv_alloc_sg_entries(pfns, ct, -1)
    IN /\ r.count >= 1
       /\ IsInjective(BufferPages(r.sg, r.count))
       /\ ToSet(BufferPages(r.sg, r.count)) = ToSet(pfns)
       /\ \A i \in r.count..Len(pfns) - 1 : r.sg[i] = Cleared

\* The clustering algorithms agree with the reference: no clustering keeps
\* one entry per page, tail clustering one entry per run of adjacent
\* allocations, and full clustering never produces more entries than tail
\* clustering.
ClusteringMatchesReference ==
  \A pfns \in Orders :
    LET cnt(ct) == sgv_alloc_sg_entries(pfns, ct, -1).count
    IN /\ cnt("sgv_no_clustering") = Len(pfns)
       /\ cnt("sgv_tail_clustering") = TailRuns(pfns)
       /\ cnt("sgv_full_clustering") <= cnt("sgv_tail_clustering")

\* For every request of p pages served from a clustered object, the entries
\* sgv_pool_alloc hands out through trans_tbl cover exactly the first p
\* pages of the buffer, and the trimmed last entry is not empty.
TransTblPrefix ==
  \A pfns \in Orders, ct \in Clusterings \ {"sgv_no_clustering"} :
    LET r  == sgv_alloc_sg_entries(pfns, ct, -1)
        tt == TransTbl(r.sg)
    IN \A p \in 1..Len(pfns) :
         LET pre == PrefixEntries(r.sg, tt, p)
             s   == tt[p - 1].sg_num - 1
         IN /\ pre[s].len >= 1
            /\ BufferPages(pre, s + 1) = SubSeq(BufferPages(r.sg, r.count), 1, p)

\* When a page allocation fails (out_no_mem), sgv_alloc_sg_entries returns
\* 0 and frees exactly the pages it had allocated, however they were merged.
OutOfMemFreesAll ==
  \A pfns \in Orders, ct \in Clusterings, failAt \in 0..ClusterMaxPages - 1 :
    failAt < Len(pfns) =>
      LET r == sgv_alloc_sg_entries(pfns, ct, failAt)
      IN /\ r.count = 0
         /\ r.freed = ToSet(SubSeq(pfns, 1, failAt))

=============================================================================
