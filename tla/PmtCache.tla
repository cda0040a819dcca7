------------------------------- MODULE PmtCache -------------------------------
(***************************************************************************)
(* The cache of mapping pages (pmt_cache.c): an LRU cache of PMT sub-pages *)
(* with fix counts, dirty bits and a merge buffer of dirty pages on their  *)
(* way to flash.  A call is an operator from the cache before to the cache *)
(* after it; PmtThread makes the calls.                                    *)
(*                                                                         *)
(* A cached page stands for the DRAM page that holds it: stamp[p] is       *)
(* cached_pmt_timestamps of that page, NULL_TIMESTAMP when p is in none.   *)
(***************************************************************************)
EXTENDS Integers, FiniteSets

CONSTANTS
    PmtPages,             \* PMT page indexes
    NUM_PC_SUB_PAGES,     \* pages the cache holds
    SUB_PAGES_PER_PAGE,   \* pages the merge buffer holds
    NULL_TIMESTAMP,       \* first of the four special timestamps
    NULL_PMT_IDX          \* no page

ASSUME PmtPagesAssumption == NULL_PMT_IDX \notin PmtPages
ASSUME CacheSizeAssumption ==
    /\ NUM_PC_SUB_PAGES \in Nat /\ SUB_PAGES_PER_PAGE \in Nat \ {0}
    /\ NULL_TIMESTAMP \in Nat /\ NULL_TIMESTAMP > NUM_PC_SUB_PAGES

LOADING_TIMESTAMP == NULL_TIMESTAMP + 1
FIXED_TIMESTAMP   == NULL_TIMESTAMP + 2
EVICTED_TIMESTAMP == NULL_TIMESTAMP + 3

(***************************************************************************)
(* A cache c: stamp, dirty (the dirty bits that are set) and fixes (fix    *)
(* counts) per page; merge, the pages in the merge buffer; free, the count *)
(* of free sub-pages; now, the next timestamp; last, the page of the       *)
(* shortcut; failed, whether an ASSERT has failed.  before is history: the  *)
(* pairs of evictable pages of which the first was last used before the    *)
(* second.                                                                 *)
(***************************************************************************)
EmptyCache ==
    [stamp |-> [p \in PmtPages |-> NULL_TIMESTAMP], dirty |-> {},
     fixes |-> [p \in PmtPages |-> 0], merge |-> {}, free |-> NUM_PC_SUB_PAGES,
     now |-> 0, last |-> NULL_PMT_IDX, failed |-> FALSE, before |-> {}]

Cached(c, p)  == c.stamp[p] # NULL_TIMESTAMP
Loading(c, p) == c.stamp[p] = LOADING_TIMESTAMP
Loaded(c, p)  == Cached(c, p) /\ ~Loading(c, p)

\* Normal entries: only these can be evicted.
Normal(c) == {p \in PmtPages : c.stamp[p] < NULL_TIMESTAMP}

Older(c, p) == {q \in Normal(c) : c.stamp[q] < c.stamp[p]}

Asserted(c, condition) == [c EXCEPT !.failed = @ \/ ~condition]

\* The order of use without the pages ps; and with p as the page used last.
Without(c, ps) == {x \in c.before : x[1] \notin ps /\ x[2] \notin ps}

WithLast(c, p) == Without(c, {p}) \cup ((Normal(c) \ {p}) \X {p})

(***************************************************************************)
(* Timestamps.                                                             *)
(***************************************************************************)

\* Bug: the counter starts again, the timestamps stay.
BugForgetsOrder(c) == [c EXCEPT !.now = Cardinality(Normal(c))]

\* handle_timestamp_overflow: the normal entries are renumbered in order.
Renumbered(c) ==
    LET n == Cardinality(Normal(c)) IN
    [c EXCEPT !.stamp = [p \in PmtPages |->
                            IF p \in Normal(c) THEN Cardinality(Older(c, p)) ELSE @[p]],
              !.now = IF n = NUM_PC_SUB_PAGES THEN n ELSE n + 1]

CounterFull(now) == now >= NULL_TIMESTAMP

update_timestamp(c, p) ==
    LET d == [c EXCEPT !.stamp[p] = c.now, !.now = @ + 1, !.before = WithLast(c, p)]
    IN  IF CounterFull(d.now) THEN Renumbered(d) ELSE d

\* Entry p is no longer a normal one.
Leave(c, p, timestamp) ==
    [c EXCEPT !.stamp[p] = timestamp, !.before = Without(c, {p})]

(***************************************************************************)
(* Access.                                                                 *)
(***************************************************************************)

revoke_eviction(c, p) ==
    update_timestamp(Asserted([c EXCEPT !.merge = @ \ {p}], p \in c.merge), p)

\* get_page, for its effects: the same page again is a shortcut, an evicted
\* page is taken back, a normal one becomes the newest.
get_page(c, p) ==
    IF c.last = p
    THEN [c EXCEPT !.before = IF p \in Normal(c) THEN WithLast(c, p) ELSE @]
    ELSE IF ~Cached(c, p) THEN c
    ELSE LET d == [c EXCEPT !.last = p] IN
         IF c.stamp[p] = EVICTED_TIMESTAMP THEN revoke_eviction(d, p)
         ELSE IF c.stamp[p] < NULL_TIMESTAMP THEN update_timestamp(d, p)
         ELSE d

pmt_cache_is_full(c) == c.free = 0

pmt_cache_put(c, p) ==
    LET d == Asserted(get_page(c, p), ~Cached(c, p) /\ c.free > 0)
    IN  [d EXCEPT !.stamp[p] = LOADING_TIMESTAMP, !.last = p, !.free = @ - 1]

pmt_cache_set_loaded(c, p) ==
    update_timestamp(Asserted(get_page(c, p), Loading(c, p)), p)

pmt_cache_fix(c, p) ==
    LET d == get_page(c, p) IN
    IF d.fixes[p] = 0
    THEN [Leave(Asserted(d, d.stamp[p] < NULL_TIMESTAMP), p, FIXED_TIMESTAMP)
            EXCEPT !.fixes[p] = 1]
    ELSE [Asserted(d, d.stamp[p] = FIXED_TIMESTAMP) EXCEPT !.fixes[p] = @ + 1]

\* Bug: the first of several owners to unfix makes the page evictable.
BugUnfixesAll(c, p) == update_timestamp([get_page(c, p) EXCEPT !.fixes[p] = 0], p)

pmt_cache_unfix(c, p) ==
    LET d == Asserted(get_page(c, p), c.stamp[p] = FIXED_TIMESTAMP /\ c.fixes[p] > 0)
        e == [d EXCEPT !.fixes[p] = @ - 1]
    IN  IF e.fixes[p] = 0 THEN update_timestamp(e, p) ELSE e

pmt_cache_set_dirty(c, p) ==
    LET d == Asserted(get_page(c, p), Cached(c, p)) IN [d EXCEPT !.dirty = @ \cup {p}]

(***************************************************************************)
(* Eviction and the merge buffer.                                          *)
(***************************************************************************)

\* free_page, for a set of pages.
Freed(c, ps) ==
    [c EXCEPT !.stamp  = [p \in PmtPages |-> IF p \in ps THEN NULL_TIMESTAMP ELSE @[p]],
              !.dirty  = @ \ ps,
              !.last   = IF @ \in ps THEN NULL_PMT_IDX ELSE @,
              !.free   = @ + Cardinality(ps),
              !.before = Without(c, ps)]

\* Bug: the shortcut still finds the evicted page.
BugKeepsShortcut(c, ps) ==
    [c EXCEPT !.stamp  = [p \in PmtPages |-> IF p \in ps THEN EVICTED_TIMESTAMP ELSE @[p]],
              !.merge  = @ \cup ps,
              !.before = Without(c, ps)]

\* The dirty pages ps go to the merge buffer.
Merged(c, ps) ==
    [c EXCEPT !.stamp  = [p \in PmtPages |-> IF p \in ps THEN EVICTED_TIMESTAMP ELSE @[p]],
              !.merge  = @ \cup ps,
              !.last   = IF @ \in ps THEN NULL_PMT_IDX ELSE @,
              !.before = Without(c, ps)]

\* The loop of pmt_cache_evict takes the least recently used pages in turn.
\* These are the dirty ones it meets before a clean one or a full buffer.
ToMerge(c) ==
    {p \in Normal(c) \cap c.dirty :
        /\ Older(c, p) \subseteq c.dirty
        /\ Cardinality(Older(c, p)) < SUB_PAGES_PER_PAGE - Cardinality(c.merge)}

\* The clean page that ends the loop, if there is one.
ToFree(c) ==
    {p \in Normal(c) \ c.dirty :
        Older(c, p) \subseteq c.dirty /\ Older(c, p) = ToMerge(c)}

MergeFull(c) == Cardinality(c.merge) = SUB_PAGES_PER_PAGE

\* pmt_cache_evict; the caller has to flush if the merge buffer is full then.
pmt_cache_evict(c) ==
    LET d == Merged(c, ToMerge(c)) IN
    IF MergeFull(d) THEN d
    ELSE Asserted(Freed(d, ToFree(c)), ToFree(c) # {})

\* pmt_cache_flush.
pmt_cache_flush(c) ==
    [Freed(Asserted(c, MergeFull(c)), c.merge) EXCEPT !.merge = {}]

(***************************************************************************)
(* What a cache always is.                                                 *)
(***************************************************************************)
CacheTypeOK(c) ==
    c \in [stamp  : [PmtPages -> 0 .. EVICTED_TIMESTAMP],
          dirty  : SUBSET PmtPages,
          fixes  : [PmtPages -> Nat],
          merge  : SUBSET PmtPages,
          free   : 0 .. NUM_PC_SUB_PAGES,
          now    : 0 .. NULL_TIMESTAMP - 1,
          last   : PmtPages \cup {NULL_PMT_IDX},
          failed : BOOLEAN,
          before : SUBSET (PmtPages \X PmtPages)]

\* The tables agree: the count of free sub-pages is exact, the merge buffer
\* holds exactly the evicted pages, which are dirty, a page has the fixed mark
\* exactly while it is fixed, and the shortcut leads to a page that is cached
\* and not evicted.
CacheAgrees(c) ==
    /\ c.free + Cardinality({p \in PmtPages : Cached(c, p)}) = NUM_PC_SUB_PAGES
    /\ c.merge = {p \in PmtPages : c.stamp[p] = EVICTED_TIMESTAMP}
    /\ c.merge \subseteq c.dirty
    /\ Cardinality(c.merge) <= SUB_PAGES_PER_PAGE
    /\ \A p \in PmtPages : (c.fixes[p] > 0) = (c.stamp[p] = FIXED_TIMESTAMP)
    /\ c.last # NULL_PMT_IDX => Cached(c, c.last) /\ c.last \notin c.merge

\* The timestamps of the evictable pages are in the order of last use.
CacheIsLru(c) ==
    /\ c.before = {x \in Normal(c) \X Normal(c) : c.stamp[x[1]] < c.stamp[x[2]]}
    /\ \A p, q \in Normal(c) : c.stamp[p] = c.stamp[q] => p = q
=============================================================================
