---------------------------- MODULE Mapping_proofs ----------------------------
(***************************************************************************)
(* Where the pages are: the mapping table and the allocation of flash      *)
(* pages, two modules that share nothing.                                  *)
(*                                                                         *)
(* The first and longest part is about PmtThread, for any number of        *)
(* threads, banks and PMT pages, any sub-pages that the threads need and   *)
(* any sizes of the cache, of the merge buffer and of the timestamps: the  *)
(* tables of the cache agree and evict the least recently used page, no    *)
(* mapping is lost, pages stay while somebody has them fixed, no ended     *)
(* command and no wake-up is missed.  That no ASSERT fails is proved for a *)
(* cache as large as the code's is, compared with its threads and banks.   *)
(* The lemmas come in the order: the calls of PmtCache; the inductive      *)
(* invariant; what each action does to the threads and to the cache; each  *)
(* conjunct of the invariant; the theorems.                                *)
(*                                                                         *)
(* The second part is about Gc, for any geometry of the bank and any bad   *)
(* blocks: no page is given out twice, only pages of good blocks are, the  *)
(* pages of a block are given in order, and the count of the free blocks   *)
(* is exact where block 0 is good.                                         *)
(***************************************************************************)
EXTENDS PmtThread, Gc, FiniteSetTheorems, WellFoundedInduction, TLAPS


(***************************************************************************)
(* The cache: what each call keeps.                                        *)
(***************************************************************************)
CachedPages(c) == {p \in PmtPages : Cached(c, p)}

\* The types of a cache, with the counter possibly at its bound.
IsCache(c) ==
    c \in [stamp  : [PmtPages -> 0 .. EVICTED_TIMESTAMP],
          dirty  : SUBSET PmtPages,
          fixes  : [PmtPages -> Nat],
          merge  : SUBSET PmtPages,
          free   : 0 .. NUM_PC_SUB_PAGES,
          now    : 0 .. NULL_TIMESTAMP,
          last   : PmtPages \cup {NULL_PMT_IDX},
          failed : BOOLEAN,
          before : SUBSET (PmtPages \X PmtPages)]

\* The fields that the timestamps have no part in.
SameTables(c, d) ==
    /\ d.dirty = c.dirty /\ d.fixes = c.fixes /\ d.merge = c.merge /\ d.free = c.free
    /\ d.last = c.last /\ d.failed = c.failed

\* The same pages are marked as free, loading, fixed or evicted.
SameMarks(c, d) ==
    /\ Normal(d) = Normal(c)
    /\ \A q \in PmtPages \ Normal(c) : d.stamp[q] = c.stamp[q]

StampsBeforeNow(c) == \A q \in Normal(c) : c.stamp[q] < c.now

NewestUse(c, p) == \A q \in Normal(c) : c.stamp[q] <= c.stamp[p]

LEMMA Stamps ==
  /\ NULL_TIMESTAMP \in Nat /\ NUM_PC_SUB_PAGES \in Nat /\ NUM_PC_SUB_PAGES < NULL_TIMESTAMP
  /\ SUB_PAGES_PER_PAGE \in Nat /\ SUB_PAGES_PER_PAGE > 0
  /\ LOADING_TIMESTAMP = NULL_TIMESTAMP + 1
  /\ FIXED_TIMESTAMP = NULL_TIMESTAMP + 2
  /\ EVICTED_TIMESTAMP = NULL_TIMESTAMP + 3
  BY CacheSizeAssumption DEF LOADING_TIMESTAMP, FIXED_TIMESTAMP, EVICTED_TIMESTAMP

LEMMA StampType ==
  ASSUME NEW c, IsCache(c)
  PROVE  /\ c.stamp \in [PmtPages -> 0 .. NULL_TIMESTAMP + 3]
         /\ \A q \in PmtPages : c.stamp[q] \in Int /\ c.stamp[q] >= 0
         /\ c.now \in Int /\ c.now >= 0 /\ c.now <= NULL_TIMESTAMP
         /\ Normal(c) \in SUBSET PmtPages
  BY Stamps DEF IsCache, Normal

(***************************************************************************)
(* Renumbering keeps the order of the timestamps.                          *)
(***************************************************************************)
LEMMA RenumberOrder ==
  ASSUME NEW c, IsCache(c), IsFiniteSet(Normal(c)), CacheIsLru(c)
  PROVE  /\ \A p \in Normal(c) :
              /\ Cardinality(Older(c, p)) \in Nat
              /\ Cardinality(Older(c, p)) < Cardinality(Normal(c))
         /\ \A p, q \in Normal(c) :
              c.stamp[p] < c.stamp[q] <=> Cardinality(Older(c, p)) < Cardinality(Older(c, q))
<1>1. \A q \in Normal(c) : q \in PmtPages /\ c.stamp[q] \in Int
  BY StampType
<1>2. ASSUME NEW p \in Normal(c)
      PROVE  IsFiniteSet(Older(c, p)) /\ Cardinality(Older(c, p)) \in Nat
  <2>1. Older(c, p) \in SUBSET Normal(c)
    BY DEF Older
  <2>2. QED BY <2>1, FS_Subset, FS_CardinalityType
<1>3. ASSUME NEW p \in Normal(c)
      PROVE  Cardinality(Older(c, p)) < Cardinality(Normal(c))
  <2>1. Older(c, p) \in SUBSET Normal(c) /\ p \notin Older(c, p)
    BY <1>1 DEF Older
  <2>2. Cardinality(Older(c, p)) <= Cardinality(Normal(c)) /\ Older(c, p) # Normal(c)
    BY <2>1, FS_Subset
  <2>3. Cardinality(Older(c, p)) # Cardinality(Normal(c))
    BY <2>1, <2>2, FS_Subset
  <2>4. Cardinality(Normal(c)) \in Nat
    BY FS_CardinalityType
  <2>5. QED BY <1>2, <2>2, <2>3, <2>4
<1>4. ASSUME NEW p \in Normal(c), NEW q \in Normal(c), c.stamp[p] < c.stamp[q]
      PROVE  Cardinality(Older(c, p)) < Cardinality(Older(c, q))
  <2>1. Older(c, p) \in SUBSET Older(c, q)
    BY <1>1, <1>4 DEF Older
  <2>2. p \in Older(c, q) /\ p \notin Older(c, p)
    BY <1>1, <1>4 DEF Older
  <2>3. Cardinality(Older(c, p)) <= Cardinality(Older(c, q))
    BY <1>2, <2>1, FS_Subset
  <2>4. Cardinality(Older(c, p)) # Cardinality(Older(c, q))
    BY <1>2, <2>1, <2>2, FS_Subset
  <2>5. QED BY <1>2, <2>3, <2>4
<1>5. ASSUME NEW p \in Normal(c), NEW q \in Normal(c),
             Cardinality(Older(c, p)) < Cardinality(Older(c, q))
      PROVE  c.stamp[p] < c.stamp[q]
  <2>1. CASE c.stamp[q] < c.stamp[p]
    BY <1>2, <1>4, <1>5, <2>1
  <2>2. CASE c.stamp[q] = c.stamp[p]
    <3>1. p = q
      BY <2>2 DEF CacheIsLru
    <3>2. QED BY <1>2, <1>5, <3>1
  <2>3. QED BY <1>1, <2>1, <2>2
<1>6. QED BY <1>2, <1>3, <1>4, <1>5

LEMMA Renumber ==
  ASSUME NEW c, IsCache(c), IsFiniteSet(Normal(c)), CacheIsLru(c),
         Cardinality(Normal(c)) <= NUM_PC_SUB_PAGES
  PROVE  LET d == Renumbered(c) IN
         /\ CacheTypeOK(d) /\ SameTables(c, d) /\ SameMarks(c, d)
         /\ CacheIsLru(d) /\ StampsBeforeNow(d)
         /\ \A p, q \in Normal(c) : c.stamp[p] < c.stamp[q] <=> d.stamp[p] < d.stamp[q]
<1> DEFINE d == Renumbered(c)
           n == Cardinality(Normal(c))
           s == [p \in PmtPages |-> IF p \in Normal(c) THEN Cardinality(Older(c, p)) ELSE c.stamp[p]]
           m == IF n = NUM_PC_SUB_PAGES THEN n ELSE n + 1
<1>1. d = [c EXCEPT !.stamp = s, !.now = m]
  BY DEF Renumbered, IsCache
<1>2. n \in Nat
  BY FS_CardinalityType
<1>3. \A p \in Normal(c) : s[p] \in Nat /\ s[p] < n
  BY RenumberOrder, StampType
<1>4. \A p \in PmtPages \ Normal(c) : s[p] = c.stamp[p]
  OBVIOUS
<1>5. \A p, q \in Normal(c) : c.stamp[p] < c.stamp[q] <=> s[p] < s[q]
  BY RenumberOrder, StampType
<1>6. m \in Nat /\ m < NULL_TIMESTAMP /\ n <= m
  BY <1>2, Stamps
<1>7. s \in [PmtPages -> 0 .. EVICTED_TIMESTAMP]
  <2>1. ASSUME NEW p \in PmtPages PROVE s[p] \in 0 .. EVICTED_TIMESTAMP
    <3>1. CASE p \in Normal(c)
      <4>1. s[p] \in Nat /\ s[p] < n
        BY <1>3, <3>1
      <4>2. QED BY <1>2, <1>6, <4>1, Stamps
    <3>2. CASE p \notin Normal(c)
      BY <1>4, <3>2 DEF IsCache
    <3>3. QED BY <3>1, <3>2
  <2>2. QED BY <2>1
<1>8. /\ d.stamp = s /\ d.now = m /\ d.before = c.before
      /\ SameTables(c, d)
  BY <1>1 DEF IsCache, SameTables
<1>9. CacheTypeOK(d)
  <2>1. m \in 0 .. NULL_TIMESTAMP - 1
    BY <1>6, Stamps
  <2> HIDE DEF s, m, d
  <2>2. QED BY <1>1, <1>7, <2>1 DEF IsCache, CacheTypeOK
<1>10. \A p \in PmtPages : s[p] < NULL_TIMESTAMP <=> p \in Normal(c)
  <2>1. ASSUME NEW p \in Normal(c) PROVE s[p] < NULL_TIMESTAMP
    BY <1>2, <1>3, <1>6, Stamps
  <2>2. QED BY <1>4, <2>1 DEF Normal
<1> HIDE DEF s, m, n, d
<1>11. Normal(d) = Normal(c)
  BY <1>8, <1>10 DEF Normal
<1>12. SameMarks(c, d)
  BY <1>4, <1>8, <1>11 DEF SameMarks
<1>13. \A p, q \in Normal(c) : s[p] = s[q] => p = q
  <2>1. ASSUME NEW p \in Normal(c), NEW q \in Normal(c), s[p] = s[q] PROVE p = q
    <3>1. ~(c.stamp[p] < c.stamp[q]) /\ ~(c.stamp[q] < c.stamp[p])
      BY <1>3, <1>5, <2>1
    <3>2. c.stamp[p] = c.stamp[q]
      BY <3>1, StampType
    <3>3. QED BY <3>2 DEF CacheIsLru
  <2>2. QED BY <2>1
<1>14. CacheIsLru(d)
  <2>1. d.before = {x \in Normal(c) \X Normal(c) : s[x[1]] < s[x[2]]}
    BY <1>5, <1>8 DEF CacheIsLru
  <2>2. QED BY <1>8, <1>11, <1>13, <2>1 DEF CacheIsLru
<1>15. StampsBeforeNow(d)
  BY <1>2, <1>3, <1>6, <1>8, <1>11 DEF StampsBeforeNow
<1>16. QED BY <1>5, <1>8, <1>9, <1>12, <1>14, <1>15 DEF d

(***************************************************************************)
(* update_timestamp makes p the page used last.                            *)
(***************************************************************************)
LEMMA UpdateTimestamp ==
  ASSUME NEW c, CacheTypeOK(c), NEW p \in PmtPages,
         IsFiniteSet(Normal(c) \cup {p}),
         Cardinality(Normal(c) \cup {p}) <= NUM_PC_SUB_PAGES,
         CacheIsLru(c), StampsBeforeNow(c)
  PROVE  LET d == update_timestamp(c, p) IN
         /\ CacheTypeOK(d) /\ SameTables(c, d)
         /\ Normal(d) = Normal(c) \cup {p}
         /\ \A q \in PmtPages \ Normal(d) : d.stamp[q] = c.stamp[q]
         /\ CacheIsLru(d) /\ StampsBeforeNow(d) /\ NewestUse(d, p)
<1> DEFINE e == [c EXCEPT !.stamp[p] = c.now, !.now = @ + 1, !.before = WithLast(c, p)]
           d == update_timestamp(c, p)
<1>1. /\ c.now \in Nat /\ c.now < NULL_TIMESTAMP
      /\ c.stamp \in [PmtPages -> 0 .. EVICTED_TIMESTAMP]
      /\ IsCache(c)
  BY Stamps DEF CacheTypeOK, IsCache
<1>2. /\ e.stamp = [c.stamp EXCEPT ![p] = c.now] /\ e.now = c.now + 1
      /\ e.before = WithLast(c, p) /\ SameTables(c, e)
  BY DEF CacheTypeOK, SameTables
<1>3. WithLast(c, p) \in SUBSET (PmtPages \X PmtPages)
  BY DEF WithLast, Without, Normal, CacheTypeOK
<1>4. IsCache(e)
  <2>1. c.now + 1 \in 0 .. NULL_TIMESTAMP
    BY <1>1, Stamps
  <2>2. [c.stamp EXCEPT ![p] = c.now] \in [PmtPages -> 0 .. EVICTED_TIMESTAMP]
    BY <1>1, Stamps
  <2>3. QED BY <1>3, <2>1, <2>2 DEF IsCache, CacheTypeOK
<1> HIDE DEF e
<1>5. Normal(e) = Normal(c) \cup {p}
  BY <1>1, <1>2 DEF Normal
<1>6. \A q \in PmtPages \ Normal(e) : e.stamp[q] = c.stamp[q]
  BY <1>1, <1>2, <1>5
<1>7. \A q \in Normal(c) : c.stamp[q] \in Int /\ c.stamp[q] < c.now /\ q \in PmtPages
  BY <1>1, StampType DEF StampsBeforeNow
<1>8. \A q \in Normal(e) : e.stamp[q] = (IF q = p THEN c.now ELSE c.stamp[q])
  BY <1>1, <1>2, <1>5, <1>7
<1>9. CacheIsLru(e)
  <2>1. \A q, r \in Normal(e) : e.stamp[q] = e.stamp[r] => q = r
    BY <1>5, <1>7, <1>8, <1>1 DEF CacheIsLru
  <2>2. \A q, r \in Normal(e) : e.stamp[q] < e.stamp[r] <=>
          \/ r = p /\ q # p
          \/ r # p /\ q # p /\ c.stamp[q] < c.stamp[r]
    BY <1>1, <1>5, <1>7, <1>8
  <2>3. ASSUME NEW x
        PROVE  x \in e.before <=> x \in Normal(e) \X Normal(e) /\ e.stamp[x[1]] < e.stamp[x[2]]
    <3>1. x \in e.before <=>
            \/ /\ x \in Normal(c) \X Normal(c) /\ c.stamp[x[1]] < c.stamp[x[2]]
               /\ x[1] # p /\ x[2] # p
            \/ x \in (Normal(c) \ {p}) \X {p}
      BY <1>2 DEF WithLast, Without, CacheIsLru
    <3>2. QED BY <1>5, <2>2, <3>1
  <2>4. QED BY <2>1, <2>3 DEF CacheIsLru
<1>10. StampsBeforeNow(e)
  BY <1>1, <1>2, <1>5, <1>7, <1>8 DEF StampsBeforeNow
<1>11. NewestUse(e, p)
  BY <1>1, <1>5, <1>7, <1>8 DEF NewestUse
<1>12. d = IF CounterFull(e.now) THEN Renumbered(e) ELSE e
  BY DEF update_timestamp, e
<1>13. CASE ~CounterFull(e.now)
  <2>1. e.now \in 0 .. NULL_TIMESTAMP - 1
    BY <1>1, <1>2, <1>13, Stamps DEF CounterFull
  <2>2. CacheTypeOK(e)
    BY <1>4, <2>1 DEF IsCache, CacheTypeOK
  <2>3. QED BY <1>2, <1>5, <1>6, <1>9, <1>10, <1>11, <1>12, <1>13, <2>2
<1>14. CASE CounterFull(e.now)
  <2>1. d = Renumbered(e)
    BY <1>12, <1>14
  <2> HIDE DEF d
  <2>2. /\ CacheTypeOK(d) /\ SameTables(e, d) /\ SameMarks(e, d)
        /\ CacheIsLru(d) /\ StampsBeforeNow(d)
        /\ \A q, r \in Normal(e) : e.stamp[q] < e.stamp[r] <=> d.stamp[q] < d.stamp[r]
    BY <1>4, <1>5, <1>9, <2>1, Renumber
  <2>3. NewestUse(d, p)
    <3>1. IsCache(d)
      BY <2>2, Stamps DEF CacheTypeOK, IsCache
    <3>2. \A q \in Normal(e) : d.stamp[q] \in Int /\ e.stamp[q] \in Int
      BY <1>4, <3>1, StampType
    <3>3. \A q \in Normal(e) : ~(e.stamp[p] < e.stamp[q])
      BY <1>11, <3>2, <1>5 DEF NewestUse
    <3>4. QED BY <1>5, <2>2, <3>2, <3>3 DEF NewestUse, SameMarks
  <2>4. SameTables(c, d)
    BY <1>2, <2>2 DEF SameTables
  <2>5. QED BY <1>5, <1>6, <2>2, <2>3, <2>4 DEF SameMarks, d
<1>15. QED BY <1>13, <1>14

\* What is true of the cache between two calls.
CacheInv(c) ==
    /\ CacheTypeOK(c)
    /\ IsFiniteSet(CachedPages(c))
    /\ CacheAgrees(c)
    /\ CacheIsLru(c)
    /\ StampsBeforeNow(c)
    /\ c.last \in Normal(c) => NewestUse(c, c.last)
    /\ \A p \in c.dirty : Loaded(c, p)

\* The pages ps alone may be cached, loading or fixed in one and not in the other.
SameBut(c, d, ps) ==
    \A q \in PmtPages \ ps :
        /\ Cached(d, q) <=> Cached(c, q)
        /\ Loading(d, q) <=> Loading(c, q)

LEMMA CacheParts ==
  ASSUME NEW c, CacheTypeOK(c)
  PROVE  /\ IsCache(c)
         /\ c.stamp \in [PmtPages -> 0 .. NULL_TIMESTAMP + 3]
         /\ \A q \in PmtPages : c.stamp[q] \in Int /\ c.stamp[q] >= 0 /\ c.stamp[q] <= NULL_TIMESTAMP + 3
         /\ c.dirty \in SUBSET PmtPages /\ c.merge \in SUBSET PmtPages
         /\ c.fixes \in [PmtPages -> Nat] /\ \A q \in PmtPages : c.fixes[q] \in Nat
         /\ c.free \in Nat /\ c.free <= NUM_PC_SUB_PAGES
         /\ c.now \in Nat /\ c.now < NULL_TIMESTAMP
         /\ c.last \in PmtPages \cup {NULL_PMT_IDX}
         /\ c.failed \in BOOLEAN
         /\ c.before \in SUBSET (PmtPages \X PmtPages)
         /\ Normal(c) \in SUBSET PmtPages
<1>1. IsCache(c)
  BY Stamps DEF CacheTypeOK, IsCache
<1>2. QED BY <1>1, Stamps DEF CacheTypeOK, Normal

\* Marks: a page is free, loading, fixed, evicted or normal.
LEMMA Marks ==
  ASSUME NEW c, CacheTypeOK(c), NEW q \in PmtPages
  PROVE  /\ Cached(c, q) <=> c.stamp[q] # NULL_TIMESTAMP
         /\ Loading(c, q) <=> c.stamp[q] = NULL_TIMESTAMP + 1
         /\ Loaded(c, q) <=> c.stamp[q] # NULL_TIMESTAMP /\ c.stamp[q] # NULL_TIMESTAMP + 1
         /\ q \in Normal(c) <=> c.stamp[q] < NULL_TIMESTAMP
         /\ q \in CachedPages(c) <=> c.stamp[q] # NULL_TIMESTAMP
         /\ c.stamp[q] \in Int /\ c.stamp[q] >= 0 /\ c.stamp[q] <= NULL_TIMESTAMP + 3
  BY CacheParts, Stamps DEF Cached, Loading, Loaded, Normal, CachedPages

\* The marks of the pages of CacheInv.
LEMMA CacheInvParts ==
  ASSUME NEW c, CacheInv(c)
  PROVE  /\ CacheTypeOK(c) /\ IsFiniteSet(CachedPages(c))
         /\ c.free + Cardinality(CachedPages(c)) = NUM_PC_SUB_PAGES
         /\ Cardinality(CachedPages(c)) \in Nat
         /\ c.merge = {p \in PmtPages : c.stamp[p] = NULL_TIMESTAMP + 3}
         /\ c.merge \subseteq c.dirty
         /\ IsFiniteSet(c.merge) /\ Cardinality(c.merge) \in Nat
         /\ Cardinality(c.merge) <= SUB_PAGES_PER_PAGE
         /\ \A p \in PmtPages : c.fixes[p] > 0 <=> c.stamp[p] = NULL_TIMESTAMP + 2
         /\ c.last # NULL_PMT_IDX => Cached(c, c.last) /\ c.last \notin c.merge
         /\ CacheIsLru(c) /\ StampsBeforeNow(c)
         /\ c.last \in Normal(c) => NewestUse(c, c.last)
         /\ \A p \in c.dirty : Loaded(c, p)
<1>1. CacheTypeOK(c) /\ IsFiniteSet(CachedPages(c)) /\ CacheAgrees(c)
  BY DEF CacheInv
<1>2. c.merge = {p \in PmtPages : c.stamp[p] = NULL_TIMESTAMP + 3}
  BY <1>1, Stamps DEF CacheAgrees
<1>3. c.merge \in SUBSET CachedPages(c)
  BY <1>1, <1>2, Marks, Stamps
<1>4. IsFiniteSet(c.merge) /\ Cardinality(c.merge) \in Nat /\ Cardinality(CachedPages(c)) \in Nat
  BY <1>1, <1>3, FS_Subset, FS_CardinalityType
<1>5. c.free + Cardinality(CachedPages(c)) = NUM_PC_SUB_PAGES
  BY <1>1 DEF CacheAgrees, CachedPages
<1>6. QED BY <1>1, <1>2, <1>4, <1>5, Stamps DEF CacheInv, CacheAgrees

LEMMA Agrees ==
  ASSUME NEW c,
         c.free + Cardinality(CachedPages(c)) = NUM_PC_SUB_PAGES,
         c.merge = {p \in PmtPages : c.stamp[p] = NULL_TIMESTAMP + 3},
         c.merge \subseteq c.dirty,
         Cardinality(c.merge) <= SUB_PAGES_PER_PAGE,
         \A p \in PmtPages : c.fixes[p] > 0 <=> c.stamp[p] = NULL_TIMESTAMP + 2,
         c.last # NULL_PMT_IDX => Cached(c, c.last) /\ c.last \notin c.merge
  PROVE  CacheAgrees(c)
<1>1. c.free + Cardinality({p \in PmtPages : Cached(c, p)}) = NUM_PC_SUB_PAGES
  BY DEF CachedPages
<1>2. c.merge = {p \in PmtPages : c.stamp[p] = EVICTED_TIMESTAMP}
  BY Stamps
<1>3. \A p \in PmtPages : (c.fixes[p] > 0) = (c.stamp[p] = FIXED_TIMESTAMP)
  BY Stamps
<1>4. QED BY <1>1, <1>2, <1>3 DEF CacheAgrees

(***************************************************************************)
(* A page that becomes the newest of the normal ones, whatever it was.     *)
(***************************************************************************)
LEMMA Renew ==
  ASSUME NEW c, CacheTypeOK(c), NEW p \in PmtPages,
         IsFiniteSet(CachedPages(c)), Cached(c, p),
         c.free + Cardinality(CachedPages(c)) = NUM_PC_SUB_PAGES,
         CacheIsLru(c), StampsBeforeNow(c), c.last = p,
         c.merge = {q \in PmtPages : q # p /\ c.stamp[q] = NULL_TIMESTAMP + 3},
         c.merge \subseteq c.dirty,
         Cardinality(c.merge) <= SUB_PAGES_PER_PAGE,
         \A q \in PmtPages : q # p => (c.fixes[q] > 0 <=> c.stamp[q] = NULL_TIMESTAMP + 2),
         c.fixes[p] = 0,
         \A q \in c.dirty : q # p => Loaded(c, q)
  PROVE  LET d == update_timestamp(c, p) IN
         /\ CacheInv(d) /\ SameTables(c, d) /\ SameBut(c, d, {p})
         /\ p \in Normal(d)
<1> DEFINE d == update_timestamp(c, p)
<1>1. Normal(c) \cup {p} \in SUBSET CachedPages(c)
  BY Marks, Stamps, CacheParts
<1>2. Cardinality(CachedPages(c)) \in Nat /\ Cardinality(CachedPages(c)) <= NUM_PC_SUB_PAGES
  BY FS_CardinalityType, CacheParts, Stamps
<1>3. IsFiniteSet(Normal(c) \cup {p}) /\ Cardinality(Normal(c) \cup {p}) <= NUM_PC_SUB_PAGES
  <2>1. /\ IsFiniteSet(Normal(c) \cup {p}) /\ Cardinality(Normal(c) \cup {p}) \in Nat
        /\ Cardinality(Normal(c) \cup {p}) <= Cardinality(CachedPages(c))
    BY <1>1, FS_Subset, FS_CardinalityType
  <2>2. QED BY <1>2, <2>1, Stamps
<1>4. /\ CacheTypeOK(d) /\ SameTables(c, d)
      /\ Normal(d) = Normal(c) \cup {p}
      /\ \A q \in PmtPages \ Normal(d) : d.stamp[q] = c.stamp[q]
      /\ CacheIsLru(d) /\ StampsBeforeNow(d) /\ NewestUse(d, p)
  BY <1>3, UpdateTimestamp
<1> HIDE DEF d
<1>5. p \in Normal(d)
  BY <1>4
<1>6. \A q \in PmtPages : q # p /\ ~(d.stamp[q] = c.stamp[q]) => d.stamp[q] < NULL_TIMESTAMP /\ c.stamp[q] < NULL_TIMESTAMP
  BY <1>4, Marks
<1>7. d.stamp[p] < NULL_TIMESTAMP /\ c.stamp[p] # NULL_TIMESTAMP
  BY <1>4, <1>5, Marks
<1>8. \A q \in PmtPages : d.stamp[q] \in Int /\ c.stamp[q] \in Int
  BY <1>4, CacheParts
<1>9. SameBut(c, d, {p})
  BY <1>6, <1>8, Stamps DEF SameBut, Cached, Loading
<1>10. CachedPages(d) = CachedPages(c)
  BY <1>6, <1>7, <1>8, Stamps DEF CachedPages, Cached
<1>11. \A q \in d.dirty : Loaded(d, q)
  BY <1>4, <1>6, <1>7, <1>8, Stamps, CacheParts DEF Loaded, Cached, Loading, SameTables
<1>12. d.merge = {q \in PmtPages : d.stamp[q] = NULL_TIMESTAMP + 3}
  BY <1>4, <1>6, <1>7, <1>8, Stamps DEF SameTables
<1>13. \A q \in PmtPages : d.fixes[q] > 0 <=> d.stamp[q] = NULL_TIMESTAMP + 2
  BY <1>4, <1>6, <1>7, <1>8, Stamps DEF SameTables
<1>14. d.last # NULL_PMT_IDX => Cached(d, d.last) /\ d.last \notin d.merge
  BY <1>4, <1>7, <1>8, <1>12, Stamps DEF SameTables, Cached
<1>15. CacheAgrees(d)
  <2>1. /\ d.free + Cardinality(CachedPages(d)) = NUM_PC_SUB_PAGES
        /\ d.merge \subseteq d.dirty /\ Cardinality(d.merge) <= SUB_PAGES_PER_PAGE
    BY <1>4, <1>10 DEF SameTables
  <2>2. QED BY <1>12, <1>13, <1>14, <2>1, Agrees
<1>16. CacheInv(d)
  BY <1>4, <1>10, <1>11, <1>15 DEF CacheInv, SameTables
<1>17. QED BY <1>4, <1>5, <1>9, <1>16 DEF d

\* A condition that holds fails no assertion.
LEMMA AssertedTrue ==
  ASSUME NEW c, CacheTypeOK(c), NEW condition \in BOOLEAN, condition
  PROVE  Asserted(c, condition) = c
<1>1. (c.failed \/ ~condition) = c.failed
  BY DEF CacheTypeOK
<1>2. [c EXCEPT !.failed = c.failed] = c
  BY DEF CacheTypeOK
<1>3. QED BY <1>1, <1>2 DEF Asserted

(***************************************************************************)
(* get_page                                                                *)
(***************************************************************************)
LEMMA GetPage ==
  ASSUME NEW c, CacheInv(c), NEW p \in PmtPages
  PROVE  LET d == get_page(c, p) IN
         /\ CacheInv(d) /\ SameBut(c, d, {})
         /\ d.dirty = c.dirty /\ d.fixes = c.fixes /\ d.free = c.free /\ d.failed = c.failed
         /\ d.merge = c.merge \ {p}
         /\ Cached(c, p) => d.last = p
<1> DEFINE d == get_page(c, p)
<1> USE CacheInvParts, CacheParts
<1>1. CASE c.last = p
  <2>1. p \notin c.merge /\ Cached(c, p)
    BY <1>1, PmtPagesAssumption
  <2>2. p \in Normal(c) => WithLast(c, p) = c.before
    <3>1. SUFFICES ASSUME p \in Normal(c)
                   PROVE  WithLast(c, p) = c.before
      OBVIOUS
    <3>2. /\ c.before = {x \in Normal(c) \X Normal(c) : c.stamp[x[1]] < c.stamp[x[2]]}
          /\ \A q \in Normal(c) : c.stamp[q] = c.stamp[p] => q = p
      BY <3>1 DEF CacheIsLru
    <3>3. \A q \in Normal(c) : c.stamp[q] \in Int /\ c.stamp[q] <= c.stamp[p]
      BY <1>1, <3>1 DEF NewestUse
    <3>4. \A q \in Normal(c) : ~(c.stamp[p] < c.stamp[q]) /\ (q # p => c.stamp[q] < c.stamp[p])
      BY <3>1, <3>2, <3>3
    <3>5. QED BY <3>1, <3>2, <3>4 DEF WithLast, Without
  <2>3. d = [c EXCEPT !.before = c.before]
    BY <1>1, <2>2 DEF get_page
  <2>4. d = c
    BY <2>3 DEF CacheTypeOK
  <2>5. QED BY <1>1, <2>1, <2>4 DEF SameBut
<1>2. CASE c.last # p /\ ~Cached(c, p)
  <2>1. d = c
    BY <1>2 DEF get_page
  <2>2. p \notin c.merge
    BY <1>2, Stamps DEF Cached
  <2>3. QED BY <1>2, <2>1, <2>2 DEF SameBut
<1>3. CASE c.last # p /\ Cached(c, p)
  <2> DEFINE e == [c EXCEPT !.last = p]
  <2>1. CacheTypeOK(e)
    BY DEF CacheTypeOK
  <2>2. /\ e.stamp = c.stamp /\ e.dirty = c.dirty /\ e.fixes = c.fixes /\ e.merge = c.merge
        /\ e.free = c.free /\ e.now = c.now /\ e.last = p /\ e.failed = c.failed
        /\ e.before = c.before
    BY DEF CacheTypeOK
  <2>3. d = IF e.stamp[p] = EVICTED_TIMESTAMP THEN revoke_eviction(e, p)
            ELSE IF e.stamp[p] < NULL_TIMESTAMP THEN update_timestamp(e, p) ELSE e
    BY <1>3, <2>2 DEF get_page
  <2> HIDE DEF e, d
  <2>4. Normal(e) = Normal(c) /\ CachedPages(e) = CachedPages(c)
    BY <2>2 DEF Normal, CachedPages, Cached
  <2>5. CacheIsLru(e) /\ StampsBeforeNow(e) /\ Cached(e, p)
    BY <1>3, <2>2, <2>4 DEF CacheIsLru, StampsBeforeNow, Cached
  <2>6. \A q \in e.dirty : Loaded(e, q)
    BY <2>2 DEF Loaded, Cached, Loading
  <2>7. CASE e.stamp[p] = EVICTED_TIMESTAMP
    <3> DEFINE f == [e EXCEPT !.merge = @ \ {p}]
    <3>1. p \in e.merge
      BY <2>2, <2>7, Stamps
    <3>2. CacheTypeOK(f)
      BY <2>1 DEF CacheTypeOK
    <3>3. /\ f.stamp = e.stamp /\ f.dirty = e.dirty /\ f.fixes = e.fixes /\ f.merge = e.merge \ {p}
          /\ f.free = e.free /\ f.now = e.now /\ f.last = p /\ f.failed = e.failed
          /\ f.before = e.before
      BY <2>1, <2>2 DEF CacheTypeOK
    <3> HIDE DEF f
    <3>4. Asserted(f, p \in e.merge) = f
      BY <3>1, <3>2, AssertedTrue
    <3>5. d = update_timestamp(f, p)
      BY <2>3, <2>7, <3>4 DEF revoke_eviction, f
    <3>6. Normal(f) = Normal(e) /\ CachedPages(f) = CachedPages(e)
      BY <3>3 DEF Normal, CachedPages, Cached
    <3>7. CacheIsLru(f) /\ StampsBeforeNow(f) /\ Cached(f, p)
      BY <2>5, <3>3, <3>6 DEF CacheIsLru, StampsBeforeNow, Cached
    <3>8. f.merge = {q \in PmtPages : q # p /\ f.stamp[q] = NULL_TIMESTAMP + 3}
      BY <2>2, <3>3
    <3>9. Cardinality(f.merge) <= SUB_PAGES_PER_PAGE
      <4>1. f.merge \in SUBSET c.merge
        BY <2>2, <3>3
      <4>2. Cardinality(f.merge) \in Nat /\ Cardinality(f.merge) <= Cardinality(c.merge)
        BY <4>1, FS_Subset, FS_CardinalityType
      <4>3. QED BY <4>2, Stamps
    <3>10. /\ \A q \in PmtPages : f.fixes[q] > 0 <=> f.stamp[q] = NULL_TIMESTAMP + 2
           /\ f.fixes[p] = 0
      BY <2>2, <2>7, <3>3, Stamps
    <3>11. \A q \in f.dirty : Loaded(f, q)
      BY <2>6, <3>3 DEF Loaded, Cached, Loading
    <3>12. /\ f.merge \subseteq f.dirty
           /\ f.free + Cardinality(CachedPages(f)) = NUM_PC_SUB_PAGES
           /\ IsFiniteSet(CachedPages(f))
      BY <2>2, <2>4, <3>3, <3>6
    <3>13. CacheInv(d) /\ SameTables(f, d) /\ SameBut(f, d, {p}) /\ p \in Normal(d)
      BY <3>2, <3>3, <3>5, <3>7, <3>8, <3>9, <3>10, <3>11, <3>12, Renew
    <3>14. SameBut(c, d, {})
      <4>1. Cached(d, p) /\ ~Loading(d, p) /\ Cached(c, p) /\ ~Loading(c, p)
        BY <2>2, <2>7, <3>13, Stamps, Marks
      <4>2. QED BY <2>2, <3>3, <3>13, <4>1 DEF SameBut, Cached, Loading
    <3>15. QED BY <2>2, <3>3, <3>13, <3>14 DEF SameTables, d
  <2>8. CASE e.stamp[p] < NULL_TIMESTAMP
    <3>1. e.stamp[p] # EVICTED_TIMESTAMP
      BY <2>2, <2>8, Stamps
    <3>2. d = update_timestamp(e, p)
      BY <2>3, <2>8, <3>1
    <3>3. /\ e.merge = {q \in PmtPages : q # p /\ e.stamp[q] = NULL_TIMESTAMP + 3}
          /\ p \notin c.merge
      BY <2>2, <2>8, Stamps
    <3>4. /\ \A q \in PmtPages : e.fixes[q] > 0 <=> e.stamp[q] = NULL_TIMESTAMP + 2
          /\ e.fixes[p] = 0
      BY <2>2, <2>8, Stamps
    <3>5. CacheInv(d) /\ SameTables(e, d) /\ SameBut(e, d, {p}) /\ p \in Normal(d)
      BY <2>1, <2>2, <2>4, <2>5, <2>6, <3>2, <3>3, <3>4, Renew
    <3>6. SameBut(c, d, {})
      <4>1. Cached(d, p) /\ ~Loading(d, p) /\ Cached(c, p) /\ ~Loading(c, p)
        BY <2>2, <2>8, <3>5, Stamps, Marks
      <4>2. QED BY <2>2, <3>5, <4>1 DEF SameBut, Cached, Loading
    <3>7. QED BY <2>2, <3>3, <3>5, <3>6 DEF SameTables, d
  <2>9. CASE ~(e.stamp[p] = EVICTED_TIMESTAMP) /\ ~(e.stamp[p] < NULL_TIMESTAMP)
    <3>1. d = e
      BY <2>3, <2>9
    <3>2. p \notin c.merge /\ p \notin Normal(c)
      BY <2>2, <2>9, Stamps, Marks
    <3>3. CacheAgrees(e)
      <4>1. e.last # NULL_PMT_IDX => Cached(e, e.last) /\ e.last \notin e.merge
        BY <2>2, <2>5, <3>2
      <4>2. QED BY <2>2, <2>4, <4>1, Agrees
    <3>4. CacheInv(e)
      BY <2>1, <2>2, <2>4, <2>5, <2>6, <3>2, <3>3 DEF CacheInv
    <3>5. QED BY <2>2, <3>1, <3>2, <3>4 DEF SameBut, Cached, Loading, d
  <2>10. QED BY <2>7, <2>8, <2>9
<1>4. QED BY <1>1, <1>2, <1>3

(***************************************************************************)
(* Pages that are no longer normal leave the order of the others alone.    *)
(***************************************************************************)
LEMMA LessNormal ==
  ASSUME NEW c, CacheTypeOK(c), CacheIsLru(c), StampsBeforeNow(c),
         NEW d, NEW ps,
         Normal(d) = Normal(c) \ ps,
         \A q \in Normal(d) : d.stamp[q] = c.stamp[q],
         d.before = Without(c, ps), d.now = c.now
  PROVE  /\ CacheIsLru(d) /\ StampsBeforeNow(d)
         /\ \A q \in Normal(d) : NewestUse(c, q) => NewestUse(d, q)
<1>1. d.before = {x \in Normal(d) \X Normal(d) : d.stamp[x[1]] < d.stamp[x[2]]}
  BY DEF CacheIsLru, Without
<1>2. \A p, q \in Normal(d) : d.stamp[p] = d.stamp[q] => p = q
  BY DEF CacheIsLru
<1>3. QED BY <1>1, <1>2 DEF CacheIsLru, StampsBeforeNow, NewestUse

(***************************************************************************)
(* pmt_cache_put and pmt_cache_set_loaded                                  *)
(***************************************************************************)
LEMMA Put ==
  ASSUME NEW c, CacheInv(c), NEW p \in PmtPages, ~Cached(c, p), c.free > 0
  PROVE  LET d == pmt_cache_put(c, p) IN
         /\ CacheInv(d) /\ SameBut(c, d, {p}) /\ Loading(d, p) /\ Cached(d, p)
         /\ d.dirty = c.dirty /\ d.fixes = c.fixes /\ d.merge = c.merge
         /\ d.failed = c.failed
<1> USE CacheInvParts, CacheParts
<1> DEFINE d == pmt_cache_put(c, p)
<1>1. get_page(c, p) = c
  <2>1. c.last # p
    BY PmtPagesAssumption
  <2>2. QED BY <2>1 DEF get_page
<1>2. Asserted(c, ~Cached(c, p) /\ c.free > 0) = c
  BY AssertedTrue
<1>3. d = [c EXCEPT !.stamp[p] = LOADING_TIMESTAMP, !.last = p, !.free = @ - 1]
  BY <1>1, <1>2 DEF pmt_cache_put
<1>4. /\ d.stamp = [c.stamp EXCEPT ![p] = NULL_TIMESTAMP + 1] /\ d.dirty = c.dirty
      /\ d.fixes = c.fixes /\ d.merge = c.merge /\ d.free = c.free - 1 /\ d.now = c.now
      /\ d.last = p /\ d.failed = c.failed /\ d.before = c.before
  BY <1>3, Stamps DEF CacheTypeOK
<1>5. CacheTypeOK(d)
  <2>1. [c.stamp EXCEPT ![p] = LOADING_TIMESTAMP] \in [PmtPages -> 0 .. EVICTED_TIMESTAMP]
    BY Stamps
  <2>2. c.free - 1 \in 0 .. NUM_PC_SUB_PAGES
    BY Stamps
  <2> HIDE DEF d
  <2>3. CacheTypeOK(c)
    OBVIOUS
  <2>4. QED BY <1>3, <2>1, <2>2, <2>3 DEF CacheTypeOK
<1> HIDE DEF d
<1>6. c.stamp[p] = NULL_TIMESTAMP /\ d.stamp[p] = NULL_TIMESTAMP + 1
  BY <1>4 DEF Cached
<1>7. \A q \in PmtPages : q # p => d.stamp[q] = c.stamp[q]
  BY <1>4
<1>8. SameBut(c, d, {p}) /\ Loading(d, p) /\ Cached(d, p)
  BY <1>6, <1>7, Stamps DEF SameBut, Cached, Loading
<1>9. CachedPages(d) = CachedPages(c) \cup {p} /\ p \notin CachedPages(c)
  BY <1>6, <1>7, Stamps DEF CachedPages, Cached
<1>10. /\ IsFiniteSet(CachedPages(d))
       /\ Cardinality(CachedPages(d)) = Cardinality(CachedPages(c)) + 1
  BY <1>9, FS_AddElement
<1>11. d.free + Cardinality(CachedPages(d)) = NUM_PC_SUB_PAGES
  BY <1>4, <1>10, Stamps
<1>12. d.merge = {q \in PmtPages : d.stamp[q] = NULL_TIMESTAMP + 3}
  BY <1>4, <1>6, <1>7, Stamps
<1>13. \A q \in PmtPages : d.fixes[q] > 0 <=> d.stamp[q] = NULL_TIMESTAMP + 2
  BY <1>4, <1>6, <1>7, Stamps
<1>14. p \notin d.merge
  BY <1>6, <1>12, Stamps
<1>15. CacheAgrees(d)
  BY <1>4, <1>8, <1>11, <1>12, <1>13, <1>14, Agrees
<1>16. Normal(d) = Normal(c) /\ p \notin Normal(d)
  BY <1>6, <1>7, Stamps DEF Normal
<1>17. CacheIsLru(d) /\ StampsBeforeNow(d)
  BY <1>4, <1>7, <1>16 DEF CacheIsLru, StampsBeforeNow
<1>18. \A q \in d.dirty : Loaded(d, q)
  <2>1. p \notin c.dirty
    BY DEF Loaded
  <2>2. QED BY <1>4, <1>7, <2>1 DEF Loaded, Cached, Loading
<1>19. CacheInv(d)
  BY <1>4, <1>5, <1>10, <1>15, <1>16, <1>17, <1>18 DEF CacheInv
<1>20. QED BY <1>4, <1>8, <1>19 DEF d

LEMMA SetLoaded ==
  ASSUME NEW c, CacheInv(c), NEW p \in PmtPages, Loading(c, p)
  PROVE  LET d == pmt_cache_set_loaded(c, p) IN
         /\ CacheInv(d) /\ SameBut(c, d, {p}) /\ Loaded(d, p)
         /\ d.dirty = c.dirty /\ d.fixes = c.fixes /\ d.merge = c.merge
         /\ d.failed = c.failed
<1> DEFINE e == get_page(c, p)
           d == pmt_cache_set_loaded(c, p)
<1>1. /\ CacheInv(e) /\ SameBut(c, e, {})
      /\ e.dirty = c.dirty /\ e.fixes = c.fixes /\ e.free = c.free /\ e.failed = c.failed
      /\ e.merge = c.merge \ {p}
      /\ Cached(c, p) => e.last = p
  BY GetPage
<1>2. Cached(c, p) /\ ~(p \in c.merge)
  BY Stamps, CacheInvParts DEF Cached, Loading
<1> HIDE DEF e
<1>3. Cached(e, p) /\ Loading(e, p) /\ e.last = p /\ e.merge = c.merge
  BY <1>1, <1>2 DEF SameBut
<1> USE CacheInvParts
<1>4. e.stamp[p] = NULL_TIMESTAMP + 1
  BY <1>1, <1>3, Marks
<1>5. d = update_timestamp(e, p)
  <2>1. Asserted(e, Loading(c, p)) = e
    <3>1. Loading(c, p) \in BOOLEAN
      BY DEF Loading
    <3>2. QED BY <1>1, <3>1, AssertedTrue
  <2>2. QED BY <2>1 DEF pmt_cache_set_loaded, e
<1>6. e.merge = {q \in PmtPages : q # p /\ e.stamp[q] = NULL_TIMESTAMP + 3}
  BY <1>1, <1>4, Stamps
<1>7. e.fixes[p] = 0
  BY <1>1, <1>4, Stamps, CacheParts
<1>8. CacheTypeOK(e) /\ IsFiniteSet(CachedPages(e))
  BY <1>1
<1> HIDE DEF d
<1>9. CacheInv(d) /\ SameTables(e, d) /\ SameBut(e, d, {p}) /\ p \in Normal(d)
  BY <1>1, <1>3, <1>5, <1>6, <1>7, <1>8, Renew
<1>10. Loaded(d, p)
  BY <1>9, Marks, Stamps
<1>11. SameBut(c, d, {p})
  BY <1>1, <1>9 DEF SameBut
<1>12. QED BY <1>1, <1>3, <1>9, <1>10, <1>11 DEF SameTables, d

(***************************************************************************)
(* pmt_cache_fix, pmt_cache_set_dirty and pmt_cache_unfix                  *)
(***************************************************************************)
LEMMA Fix ==
  ASSUME NEW c, CacheInv(c), NEW p \in PmtPages, Loaded(c, p)
  PROVE  LET d == pmt_cache_fix(c, p) IN
         /\ CacheInv(d) /\ SameBut(c, d, {})
         /\ d.dirty = c.dirty /\ d.fixes = [c.fixes EXCEPT ![p] = @ + 1]
         /\ d.failed = c.failed
<1> DEFINE e == get_page(c, p)
           d == pmt_cache_fix(c, p)
<1>1. /\ CacheInv(e) /\ SameBut(c, e, {})
      /\ e.dirty = c.dirty /\ e.fixes = c.fixes /\ e.free = c.free /\ e.failed = c.failed
      /\ e.merge = c.merge \ {p}
      /\ Cached(c, p) => e.last = p
  BY GetPage
<1> HIDE DEF e
<1>2. e.last = p /\ Loaded(e, p) /\ p \notin e.merge
  BY <1>1 DEF SameBut, Loaded
<1> USE CacheInvParts, CacheParts
<1>3. /\ CacheTypeOK(e) /\ e.stamp[p] \in Int
      /\ e.stamp[p] # NULL_TIMESTAMP /\ e.stamp[p] # NULL_TIMESTAMP + 1
      /\ e.stamp[p] # NULL_TIMESTAMP + 3 /\ e.stamp[p] <= NULL_TIMESTAMP + 3
  BY <1>1, <1>2, Marks
<1>4. CASE e.fixes[p] = 0
  <2>1. e.stamp[p] < NULL_TIMESTAMP
    BY <1>1, <1>3, <1>4, Stamps
  <2>2. Asserted(e, e.stamp[p] < NULL_TIMESTAMP) = e
    BY <1>3, <2>1, AssertedTrue
  <2>3. d = [Leave(e, p, FIXED_TIMESTAMP) EXCEPT !.fixes[p] = 1]
    BY <1>4, <2>2 DEF pmt_cache_fix, e
  <2> HIDE DEF d
  <2>4. d = [e EXCEPT !.stamp[p] = FIXED_TIMESTAMP, !.before = Without(e, {p}), !.fixes[p] = 1]
    BY <1>3, <2>3 DEF Leave, CacheTypeOK
  <2>5. /\ d.stamp = [e.stamp EXCEPT ![p] = NULL_TIMESTAMP + 2] /\ d.dirty = e.dirty
        /\ d.fixes = [e.fixes EXCEPT ![p] = 1] /\ d.merge = e.merge
        /\ d.free = e.free /\ d.now = e.now
        /\ d.last = p /\ d.failed = e.failed /\ d.before = Without(e, {p})
    BY <1>2, <1>3, <2>4, Stamps DEF CacheTypeOK
  <2>6. CacheTypeOK(d)
    <3>1. [e.stamp EXCEPT ![p] = FIXED_TIMESTAMP] \in [PmtPages -> 0 .. EVICTED_TIMESTAMP]
      BY <1>3, Stamps
    <3>2. [e.fixes EXCEPT ![p] = 1] \in [PmtPages -> Nat]
      BY <1>3
    <3>3. Without(e, {p}) \in SUBSET (PmtPages \X PmtPages)
      BY <1>3 DEF Without
    <3>4. QED BY <1>3, <2>4, <3>1, <3>2, <3>3 DEF CacheTypeOK
  <2>7. d.stamp[p] = NULL_TIMESTAMP + 2 /\ \A q \in PmtPages : q # p => d.stamp[q] = e.stamp[q]
    BY <1>3, <2>5
  <2>8. SameBut(e, d, {})
    BY <1>3, <2>7, Stamps DEF SameBut, Cached, Loading
  <2>9. CachedPages(d) = CachedPages(e)
    BY <2>8 DEF SameBut, CachedPages
  <2>10. Normal(d) = Normal(e) \ {p}
    BY <1>3, <2>7, Stamps, CacheParts DEF Normal
  <2>11. CacheIsLru(d) /\ StampsBeforeNow(d)
    <3>1. \A q \in Normal(d) : d.stamp[q] = e.stamp[q]
      BY <1>3, <2>7, <2>10
    <3>2. QED BY <1>1, <1>3, <2>5, <2>10, <3>1, LessNormal
  <2>12. d.merge = {q \in PmtPages : d.stamp[q] = NULL_TIMESTAMP + 3}
    BY <1>1, <1>3, <2>5, <2>7, Stamps
  <2>13. \A q \in PmtPages : d.fixes[q] > 0 <=> d.stamp[q] = NULL_TIMESTAMP + 2
    BY <1>1, <1>3, <2>5, <2>7, Stamps
  <2>14. CacheAgrees(d)
    <3>1. d.last # NULL_PMT_IDX => Cached(d, d.last) /\ d.last \notin d.merge
      BY <1>2, <2>5, <2>7, Stamps DEF Cached
    <3>2. /\ d.free + Cardinality(CachedPages(d)) = NUM_PC_SUB_PAGES
          /\ d.merge \subseteq d.dirty /\ Cardinality(d.merge) <= SUB_PAGES_PER_PAGE
      <4>1. /\ e.free + Cardinality(CachedPages(e)) = NUM_PC_SUB_PAGES
            /\ e.merge \subseteq e.dirty /\ Cardinality(e.merge) <= SUB_PAGES_PER_PAGE
        BY <1>1, CacheInvParts
      <4> HIDE CacheInvParts, CacheParts
      <4>2. QED BY <2>5, <2>9, <4>1
    <3>3. QED BY <2>12, <2>13, <3>1, <3>2, Agrees
  <2>15. \A q \in d.dirty : Loaded(d, q)
    BY <1>1, <1>3, <2>5, <2>8 DEF SameBut, Loaded
  <2>16. CacheInv(d)
    BY <1>1, <2>5, <2>6, <2>9, <2>10, <2>11, <2>14, <2>15 DEF CacheInv
  <2>17. d.fixes = [c.fixes EXCEPT ![p] = @ + 1]
    BY <1>1, <1>4, <2>5
  <2>18. QED BY <1>1, <2>5, <2>8, <2>16, <2>17 DEF SameBut, d
<1>5. CASE e.fixes[p] # 0
  <2>1. e.stamp[p] = NULL_TIMESTAMP + 2
    BY <1>1, <1>3, <1>5, CacheParts
  <2>2. Asserted(e, e.stamp[p] = FIXED_TIMESTAMP) = e
    BY <1>3, <2>1, Stamps, AssertedTrue
  <2>3. d = [e EXCEPT !.fixes[p] = @ + 1]
    BY <1>5, <2>2 DEF pmt_cache_fix, e
  <2>4. /\ d.stamp = e.stamp /\ d.dirty = e.dirty
        /\ d.fixes = [e.fixes EXCEPT ![p] = @ + 1] /\ d.merge = e.merge
        /\ d.free = e.free /\ d.now = e.now
        /\ d.last = e.last /\ d.failed = e.failed /\ d.before = e.before
    BY <1>3, <2>3 DEF CacheTypeOK
  <2>5. CacheTypeOK(d)
    <3>1. [e.fixes EXCEPT ![p] = @ + 1] \in [PmtPages -> Nat]
      BY <1>3
    <3>2. QED BY <1>3, <2>3, <3>1 DEF CacheTypeOK
  <2> HIDE DEF d
  <2>6. Normal(d) = Normal(e) /\ CachedPages(d) = CachedPages(e) /\ SameBut(e, d, {})
    BY <2>4 DEF Normal, CachedPages, SameBut, Cached, Loading
  <2>7. CacheIsLru(d) /\ StampsBeforeNow(d)
    BY <1>1, <2>4, <2>6 DEF CacheIsLru, StampsBeforeNow
  <2>8. CacheAgrees(d)
    <3>1. \A q \in PmtPages : d.fixes[q] > 0 <=> d.stamp[q] = NULL_TIMESTAMP + 2
      BY <1>1, <1>3, <2>1, <2>4
    <3>2. d.last # NULL_PMT_IDX => Cached(d, d.last) /\ d.last \notin d.merge
      BY <1>1, <2>4 DEF Cached
    <3>3. /\ d.free + Cardinality(CachedPages(d)) = NUM_PC_SUB_PAGES
          /\ d.merge = {q \in PmtPages : d.stamp[q] = NULL_TIMESTAMP + 3}
          /\ d.merge \subseteq d.dirty /\ Cardinality(d.merge) <= SUB_PAGES_PER_PAGE
      <4>1. /\ e.free + Cardinality(CachedPages(e)) = NUM_PC_SUB_PAGES
            /\ e.merge = {q \in PmtPages : e.stamp[q] = NULL_TIMESTAMP + 3}
            /\ e.merge \subseteq e.dirty /\ Cardinality(e.merge) <= SUB_PAGES_PER_PAGE
            /\ \A q \in PmtPages : e.fixes[q] > 0 <=> e.stamp[q] = NULL_TIMESTAMP + 2
        BY <1>1, CacheInvParts
      <4>2. QED BY <2>4, <2>6, <4>1
    <3>4. QED BY <3>1, <3>2, <3>3, Agrees
  <2>9. \A q \in d.dirty : Loaded(d, q)
    BY <1>1, <2>4 DEF Loaded, Cached, Loading
  <2>10. d.last \in Normal(d) => NewestUse(d, d.last)
    BY <1>1, <2>4, <2>6 DEF NewestUse
  <2>11. CacheInv(d)
    BY <1>1, <2>5, <2>6, <2>7, <2>8, <2>9, <2>10 DEF CacheInv
  <2>12. QED BY <1>1, <2>4, <2>6, <2>11 DEF SameBut, d
<1>6. QED BY <1>4, <1>5

LEMMA SetDirty ==
  ASSUME NEW c, CacheInv(c), NEW p \in PmtPages, Loaded(c, p)
  PROVE  LET d == pmt_cache_set_dirty(c, p) IN
         /\ CacheInv(d) /\ SameBut(c, d, {})
         /\ d.dirty = c.dirty \cup {p} /\ d.fixes = c.fixes /\ d.merge = c.merge \ {p}
         /\ d.failed = c.failed
<1> DEFINE e == get_page(c, p)
           d == pmt_cache_set_dirty(c, p)
<1>1. /\ CacheInv(e) /\ SameBut(c, e, {})
      /\ e.dirty = c.dirty /\ e.fixes = c.fixes /\ e.free = c.free /\ e.failed = c.failed
      /\ e.merge = c.merge \ {p}
      /\ Cached(c, p) => e.last = p
  BY GetPage
<1> HIDE DEF e
<1> USE CacheInvParts, CacheParts
<1>2. CacheTypeOK(e) /\ Loaded(e, p)
  BY <1>1 DEF SameBut, Loaded
<1>3. Asserted(e, Cached(c, p)) = e
  <2>1. Cached(c, p) \in BOOLEAN /\ Cached(c, p)
    BY DEF Cached, Loaded
  <2>2. QED BY <1>2, <2>1, AssertedTrue
<1>4. d = [e EXCEPT !.dirty = @ \cup {p}]
  BY <1>3 DEF pmt_cache_set_dirty, e
<1>5. /\ d.stamp = e.stamp /\ d.dirty = e.dirty \cup {p} /\ d.fixes = e.fixes
      /\ d.merge = e.merge /\ d.free = e.free /\ d.now = e.now
      /\ d.last = e.last /\ d.failed = e.failed /\ d.before = e.before
  BY <1>2, <1>4 DEF CacheTypeOK
<1>6. CacheTypeOK(d)
  BY <1>2, <1>4 DEF CacheTypeOK
<1> HIDE DEF d
<1>7. Normal(d) = Normal(e) /\ CachedPages(d) = CachedPages(e) /\ SameBut(e, d, {})
  BY <1>5 DEF Normal, CachedPages, SameBut, Cached, Loading
<1>8. CacheIsLru(d) /\ StampsBeforeNow(d)
  BY <1>1, <1>5, <1>7 DEF CacheIsLru, StampsBeforeNow
<1>9. CacheAgrees(d)
  <2>1. d.last # NULL_PMT_IDX => Cached(d, d.last) /\ d.last \notin d.merge
    BY <1>1, <1>5 DEF Cached
  <2>2. d.merge \subseteq d.dirty
    BY <1>1, <1>5
  <2>3. /\ d.free + Cardinality(CachedPages(d)) = NUM_PC_SUB_PAGES
        /\ d.merge = {q \in PmtPages : d.stamp[q] = NULL_TIMESTAMP + 3}
        /\ Cardinality(d.merge) <= SUB_PAGES_PER_PAGE
        /\ \A q \in PmtPages : d.fixes[q] > 0 <=> d.stamp[q] = NULL_TIMESTAMP + 2
    <3>1. /\ e.free + Cardinality(CachedPages(e)) = NUM_PC_SUB_PAGES
          /\ e.merge = {q \in PmtPages : e.stamp[q] = NULL_TIMESTAMP + 3}
          /\ e.merge \subseteq e.dirty /\ Cardinality(e.merge) <= SUB_PAGES_PER_PAGE
          /\ \A q \in PmtPages : e.fixes[q] > 0 <=> e.stamp[q] = NULL_TIMESTAMP + 2
      BY <1>1, CacheInvParts
    <3>2. QED BY <1>5, <1>7, <3>1
  <2>4. QED BY <2>1, <2>2, <2>3, Agrees
<1>10. \A q \in d.dirty : Loaded(d, q)
  BY <1>1, <1>2, <1>5 DEF Loaded, Cached, Loading
<1>11. d.last \in Normal(d) => NewestUse(d, d.last)
  BY <1>1, <1>5, <1>7 DEF NewestUse
<1>12. CacheInv(d)
  BY <1>1, <1>6, <1>7, <1>8, <1>9, <1>10, <1>11 DEF CacheInv
<1>13. QED BY <1>1, <1>5, <1>7, <1>12 DEF SameBut, d

LEMMA Unfix ==
  ASSUME NEW c, CacheInv(c), NEW p \in PmtPages, c.fixes[p] > 0
  PROVE  LET d == pmt_cache_unfix(c, p) IN
         /\ CacheInv(d) /\ SameBut(c, d, {})
         /\ d.dirty = c.dirty /\ d.fixes = [c.fixes EXCEPT ![p] = @ - 1]
         /\ d.failed = c.failed
<1> DEFINE e == get_page(c, p)
           f == [e EXCEPT !.fixes[p] = @ - 1]
           d == pmt_cache_unfix(c, p)
<1>1. /\ CacheInv(e) /\ SameBut(c, e, {})
      /\ e.dirty = c.dirty /\ e.fixes = c.fixes /\ e.free = c.free /\ e.failed = c.failed
      /\ e.merge = c.merge \ {p}
      /\ Cached(c, p) => e.last = p
  BY GetPage
<1> HIDE DEF e
<1> USE CacheInvParts, CacheParts
<1>2. c.stamp[p] = NULL_TIMESTAMP + 2 /\ Cached(c, p)
  BY Stamps DEF Cached
<1>3. e.last = p /\ CacheTypeOK(e) /\ e.stamp[p] = NULL_TIMESTAMP + 2 /\ e.fixes[p] > 0
  BY <1>1, <1>2
<1>4. Asserted(e, c.stamp[p] = FIXED_TIMESTAMP /\ c.fixes[p] > 0) = e
  BY <1>2, <1>3, Stamps, AssertedTrue
<1>5. d = IF f.fixes[p] = 0 THEN update_timestamp(f, p) ELSE f
  BY <1>4 DEF pmt_cache_unfix, e
<1>6. /\ f.stamp = e.stamp /\ f.dirty = e.dirty
      /\ f.fixes = [e.fixes EXCEPT ![p] = @ - 1] /\ f.merge = e.merge
      /\ f.free = e.free /\ f.now = e.now
      /\ f.last = e.last /\ f.failed = e.failed /\ f.before = e.before
  BY <1>3 DEF CacheTypeOK
<1>7. CacheTypeOK(f)
  <2>1. [e.fixes EXCEPT ![p] = @ - 1] \in [PmtPages -> Nat]
    BY <1>3
  <2>2. QED BY <1>3, <2>1 DEF CacheTypeOK
<1> HIDE DEF f, d
<1>8. Normal(f) = Normal(e) /\ CachedPages(f) = CachedPages(e) /\ SameBut(e, f, {})
  BY <1>6 DEF Normal, CachedPages, SameBut, Cached, Loading
<1>9. CacheIsLru(f) /\ StampsBeforeNow(f)
  BY <1>1, <1>6, <1>8 DEF CacheIsLru, StampsBeforeNow
<1>10. \A q \in f.dirty : Loaded(f, q)
  BY <1>1, <1>6 DEF Loaded, Cached, Loading
<1>11. CASE f.fixes[p] = 0
  <2>1. \A q \in PmtPages : q # p => (f.fixes[q] > 0 <=> f.stamp[q] = NULL_TIMESTAMP + 2)
    BY <1>1, <1>6, <1>3
  <2>2. f.merge = {q \in PmtPages : q # p /\ f.stamp[q] = NULL_TIMESTAMP + 3}
    BY <1>1, <1>3, <1>6, Stamps
  <2>3. Cached(f, p)
    BY <1>3, <1>6, Stamps DEF Cached
  <2>4. d = update_timestamp(f, p)
    BY <1>5, <1>11
  <2>5. /\ f.free + Cardinality(CachedPages(f)) = NUM_PC_SUB_PAGES
        /\ IsFiniteSet(CachedPages(f)) /\ f.last = p
        /\ f.merge \subseteq f.dirty /\ Cardinality(f.merge) <= SUB_PAGES_PER_PAGE
    <3>1. /\ e.free + Cardinality(CachedPages(e)) = NUM_PC_SUB_PAGES
          /\ IsFiniteSet(CachedPages(e))
          /\ e.merge \subseteq e.dirty /\ Cardinality(e.merge) <= SUB_PAGES_PER_PAGE
      BY <1>1, CacheInvParts
    <3> HIDE CacheInvParts, CacheParts
    <3>2. QED BY <1>3, <1>6, <1>8, <3>1
  <2>6. CacheInv(d) /\ SameTables(f, d) /\ SameBut(f, d, {p}) /\ p \in Normal(d)
    <3> HIDE CacheInvParts, CacheParts
    <3>1. CacheInv(update_timestamp(f, p)) /\ SameTables(f, update_timestamp(f, p))
          /\ SameBut(f, update_timestamp(f, p), {p}) /\ p \in Normal(update_timestamp(f, p))
      BY <1>7, <1>9, <1>10, <1>11, <2>1, <2>2, <2>3, <2>5, Renew
    <3>2. QED BY <2>4, <3>1
  <2>7. SameBut(c, d, {})
    <3>1. Cached(d, p) /\ ~Loading(d, p) /\ Cached(c, p) /\ ~Loading(c, p)
      <4>1. Cached(d, p) /\ ~Loading(d, p)
        BY <2>6, Marks, Stamps
      <4>2. Cached(c, p) /\ ~Loading(c, p)
        BY <1>2, Stamps DEF Loading
      <4>3. QED BY <4>1, <4>2
    <3>2. QED BY <1>1, <1>8, <2>6, <3>1 DEF SameBut
  <2>8. QED BY <1>1, <1>6, <2>6, <2>7 DEF SameTables, d
<1>12. CASE f.fixes[p] # 0
  <2>1. d = f
    BY <1>5, <1>12
  <2>2. \A q \in PmtPages : f.fixes[q] > 0 <=> f.stamp[q] = NULL_TIMESTAMP + 2
    BY <1>1, <1>3, <1>6, <1>7, <1>12
  <2>3. f.last # NULL_PMT_IDX => Cached(f, f.last) /\ f.last \notin f.merge
    BY <1>1, <1>6 DEF Cached
  <2>4. CacheAgrees(f)
    <3>1. /\ f.free + Cardinality(CachedPages(f)) = NUM_PC_SUB_PAGES
          /\ f.merge = {q \in PmtPages : f.stamp[q] = NULL_TIMESTAMP + 3}
          /\ f.merge \subseteq f.dirty /\ Cardinality(f.merge) <= SUB_PAGES_PER_PAGE
      <4>1. /\ e.free + Cardinality(CachedPages(e)) = NUM_PC_SUB_PAGES
            /\ e.merge = {q \in PmtPages : e.stamp[q] = NULL_TIMESTAMP + 3}
            /\ e.merge \subseteq e.dirty /\ Cardinality(e.merge) <= SUB_PAGES_PER_PAGE
            /\ \A q \in PmtPages : e.fixes[q] > 0 <=> e.stamp[q] = NULL_TIMESTAMP + 2
        BY <1>1, CacheInvParts
      <4>2. QED BY <1>6, <1>8, <4>1
    <3>2. QED BY <2>2, <2>3, <3>1, Agrees
  <2>5. f.last \in Normal(f) => NewestUse(f, f.last)
    BY <1>1, <1>6, <1>8 DEF NewestUse
  <2>6. CacheInv(f)
    BY <1>1, <1>7, <1>8, <1>9, <1>10, <2>4, <2>5 DEF CacheInv
  <2>7. QED BY <1>1, <1>6, <1>8, <2>1, <2>6 DEF SameBut, d
<1>13. QED BY <1>11, <1>12

\* UpdateSubPage, for any cache.
Updated(c, p) ==
    pmt_cache_unfix(pmt_cache_set_dirty(Asserted(get_page(c, p), Loaded(c, p)), p), p)

LEMMA Update ==
  ASSUME NEW c, CacheInv(c), NEW p \in PmtPages, c.fixes[p] > 0
  PROVE  LET d == Updated(c, p) IN
         /\ CacheInv(d) /\ SameBut(c, d, {}) /\ Loaded(c, p)
         /\ d.dirty = c.dirty \cup {p} /\ d.fixes = [c.fixes EXCEPT ![p] = @ - 1]
         /\ d.failed = c.failed
<1> DEFINE e == get_page(c, p)
           f == pmt_cache_set_dirty(e, p)
           d == Updated(c, p)
<1>1. /\ CacheInv(e) /\ SameBut(c, e, {})
      /\ e.dirty = c.dirty /\ e.fixes = c.fixes /\ e.failed = c.failed
  BY GetPage
<1>2. c.stamp[p] = NULL_TIMESTAMP + 2 /\ CacheTypeOK(c)
  BY CacheInvParts
<1>3. Loaded(c, p)
  BY <1>2, Marks, Stamps
<1> HIDE DEF e
<1>4. Asserted(e, Loaded(c, p)) = e
  <2>1. CacheTypeOK(e) /\ Loaded(c, p) \in BOOLEAN
    BY <1>1, CacheInvParts DEF Loaded, Cached, Loading
  <2>2. QED BY <1>3, <2>1, AssertedTrue
<1>5. d = pmt_cache_unfix(f, p)
  BY <1>4 DEF Updated, e
<1>6. Loaded(e, p)
  BY <1>1, <1>3 DEF SameBut, Loaded
<1>7. /\ CacheInv(f) /\ SameBut(e, f, {})
      /\ f.dirty = e.dirty \cup {p} /\ f.fixes = e.fixes /\ f.failed = e.failed
  BY <1>1, <1>6, SetDirty
<1> HIDE DEF f, d
<1>8. f.fixes[p] > 0
  BY <1>1, <1>7
<1>9. /\ CacheInv(d) /\ SameBut(f, d, {})
      /\ d.dirty = f.dirty /\ d.fixes = [f.fixes EXCEPT ![p] = @ - 1]
      /\ d.failed = f.failed
  BY <1>5, <1>7, <1>8, Unfix
<1>10. SameBut(c, d, {})
  BY <1>1, <1>7, <1>9 DEF SameBut
<1>11. QED BY <1>1, <1>3, <1>7, <1>9, <1>10 DEF d

(***************************************************************************)
(* Least and greatest timestamps.                                          *)
(***************************************************************************)
LEMMA Least ==
  ASSUME NEW S, NEW D \in [S -> Nat], NEW T \in SUBSET S, T # {}
  PROVE  \E x \in T : \A y \in T : D[x] <= D[y]
<1> DEFINE W == {D[x] : x \in T}
<1>1. W \subseteq Nat /\ W # {}
  OBVIOUS
<1>2. PICK n \in W : \A m \in W : ~(<<m, n>> \in OpToRel(<, Nat))
  BY <1>1, NatLessThanWellFounded, WFMin, Zenon
<1>3. \A m \in W : ~(m < n)
  BY <1>1, <1>2 DEF OpToRel
<1>4. PICK x \in T : D[x] = n
  BY <1>2
<1>5. ASSUME NEW y \in T PROVE D[x] <= D[y]
  <2>1. D[y] \in W /\ D[y] \in Nat /\ D[x] \in Nat
    OBVIOUS
  <2>2. ~(D[y] < D[x])
    BY <1>3, <1>4, <2>1
  <2>3. QED BY <2>1, <2>2
<1>6. QED BY <1>5

(***************************************************************************)
(* The merge buffer has room for the pages that pmt_cache_evict puts in.   *)
(***************************************************************************)
LEMMA MergeRoom ==
  ASSUME NEW c, CacheInv(c)
  PROVE  /\ IsFiniteSet(ToMerge(c)) /\ c.merge \cap ToMerge(c) = {}
         /\ IsFiniteSet(c.merge \cup ToMerge(c))
         /\ Cardinality(c.merge \cup ToMerge(c)) = Cardinality(c.merge) + Cardinality(ToMerge(c))
         /\ Cardinality(ToMerge(c)) \in Nat
         /\ Cardinality(c.merge \cup ToMerge(c)) <= SUB_PAGES_PER_PAGE
<1> DEFINE T == ToMerge(c)
           room == SUB_PAGES_PER_PAGE - Cardinality(c.merge)
<1> USE CacheInvParts
<1>1. CacheTypeOK(c) /\ Cardinality(c.merge) \in Nat /\ Cardinality(c.merge) <= SUB_PAGES_PER_PAGE
  OBVIOUS
<1>2. T \in SUBSET Normal(c)
  BY DEF ToMerge
<1>3. \A p \in Normal(c) : p \in PmtPages /\ c.stamp[p] \in Nat /\ c.stamp[p] < NULL_TIMESTAMP
  BY <1>1, CacheParts DEF Normal
<1>4. Normal(c) \in SUBSET CachedPages(c) /\ T \in SUBSET CachedPages(c)
  BY <1>1, <1>2, <1>3, Marks, Stamps
<1>5. IsFiniteSet(T) /\ Cardinality(T) \in Nat /\ IsFiniteSet(Normal(c))
  BY <1>4, FS_Subset, FS_CardinalityType
<1>6. c.merge \cap T = {}
  BY <1>2, <1>3, Stamps
<1>7. IsFiniteSet(c.merge \cup T) /\ Cardinality(c.merge \cup T) = Cardinality(c.merge) + Cardinality(T)
  <2>1. Cardinality(c.merge \cap T) = 0
    BY <1>6, FS_EmptySet
  <2>2. IsFiniteSet(c.merge)
    OBVIOUS
  <2>3. /\ IsFiniteSet(c.merge \cup T)
        /\ Cardinality(c.merge \cup T)
             = Cardinality(c.merge) + Cardinality(T) - Cardinality(c.merge \cap T)
    BY <1>5, <2>2, FS_Union
  <2>4. QED BY <1>1, <1>5, <2>1, <2>3
<1>8. Cardinality(T) <= room
  <2>1. CASE T = {}
    BY <1>1, <2>1, FS_EmptySet, Stamps
  <2>2. CASE T # {}
    <3> DEFINE D == [p \in Normal(c) |-> NULL_TIMESTAMP - c.stamp[p]]
    <3>1. D \in [Normal(c) -> Nat]
      BY <1>3, Stamps
    <3>2. PICK m \in T : \A q \in T : D[m] <= D[q]
      BY <1>2, <2>2, <3>1, Least, Zenon
    <3>3. \A q \in T : c.stamp[q] <= c.stamp[m]
      <4>1. ASSUME NEW q \in T PROVE c.stamp[q] <= c.stamp[m]
        <5>1. D[m] <= D[q] /\ q \in Normal(c) /\ m \in Normal(c)
          BY <1>2, <3>2
        <5>2. D[m] = NULL_TIMESTAMP - c.stamp[m] /\ D[q] = NULL_TIMESTAMP - c.stamp[q]
          BY <5>1
        <5>3. c.stamp[m] \in Nat /\ c.stamp[q] \in Nat
          BY <1>3, <5>1
        <5>4. QED BY <5>1, <5>2, <5>3, Stamps
      <4>2. QED BY <4>1
    <3> HIDE DEF D
    <3>4. \A q \in T : q = m \/ q \in Older(c, m)
      <4>1. ASSUME NEW q \in T, q # m PROVE q \in Older(c, m)
        <5>1. c.stamp[q] # c.stamp[m]
          BY <1>2, <4>1 DEF CacheIsLru
        <5>2. c.stamp[q] < c.stamp[m]
          BY <1>2, <1>3, <3>3, <5>1
        <5>3. QED BY <1>2, <5>2 DEF Older
      <4>2. QED BY <4>1
    <3>5. Older(c, m) \in SUBSET Normal(c)
      BY DEF Older
    <3>6. IsFiniteSet(Older(c, m)) /\ Cardinality(Older(c, m)) \in Nat
      BY <1>5, <3>5, FS_Subset, FS_CardinalityType
    <3>7. Cardinality(Older(c, m)) < room
      BY DEF ToMerge
    <3>8. T \in SUBSET (Older(c, m) \cup {m})
      BY <3>4
    <3>9. /\ IsFiniteSet(Older(c, m) \cup {m})
          /\ Cardinality(Older(c, m) \cup {m}) <= Cardinality(Older(c, m)) + 1
          /\ Cardinality(Older(c, m) \cup {m}) \in Nat
      <4>1. /\ IsFiniteSet(Older(c, m) \cup {m})
            /\ Cardinality(Older(c, m) \cup {m})
                 = IF m \in Older(c, m) THEN Cardinality(Older(c, m)) ELSE Cardinality(Older(c, m)) + 1
        BY <3>6, FS_AddElement
      <4>2. QED BY <3>6, <4>1
    <3>10. Cardinality(T) <= Cardinality(Older(c, m) \cup {m})
      BY <3>8, <3>9, FS_Subset
    <3>11. QED BY <1>1, <1>5, <3>6, <3>7, <3>9, <3>10, Stamps
  <2>3. QED BY <2>1, <2>2
<1>9. Cardinality(c.merge \cup T) <= SUB_PAGES_PER_PAGE
  BY <1>1, <1>5, <1>7, <1>8, Stamps
<1>10. QED BY <1>5, <1>6, <1>7, <1>9

(***************************************************************************)
(* Dirty normal pages go to the merge buffer.                              *)
(***************************************************************************)
LEMMA Merges ==
  ASSUME NEW c, CacheInv(c), NEW ps \in SUBSET (Normal(c) \cap c.dirty),
         Cardinality(c.merge \cup ps) <= SUB_PAGES_PER_PAGE
  PROVE  LET d == Merged(c, ps) IN
         /\ CacheInv(d) /\ SameBut(c, d, {})
         /\ d.dirty = c.dirty /\ d.fixes = c.fixes /\ d.free = c.free /\ d.failed = c.failed
         /\ d.merge = c.merge \cup ps
         /\ Normal(d) = Normal(c) \ ps /\ d.last \notin ps
         /\ \A q \in Normal(d) : d.stamp[q] = c.stamp[q]
<1> DEFINE s == [p \in PmtPages |-> IF p \in ps THEN EVICTED_TIMESTAMP ELSE c.stamp[p]]
           l == IF c.last \in ps THEN NULL_PMT_IDX ELSE c.last
           d == Merged(c, ps)
<1> USE CacheInvParts
<1>1. CacheTypeOK(c)
  OBVIOUS
<1>2. d = [c EXCEPT !.stamp = s, !.merge = c.merge \cup ps, !.last = l, !.before = Without(c, ps)]
  BY <1>1 DEF Merged, CacheTypeOK
<1>3. /\ s \in [PmtPages -> 0 .. EVICTED_TIMESTAMP]
      /\ \A q \in PmtPages : s[q] = (IF q \in ps THEN NULL_TIMESTAMP + 3 ELSE c.stamp[q])
  BY <1>1, CacheParts, Stamps
<1>4. l \in PmtPages \cup {NULL_PMT_IDX} /\ l \notin ps /\ (l = c.last \/ l = NULL_PMT_IDX)
  BY <1>1, CacheParts, PmtPagesAssumption
<1>5. Without(c, ps) \in SUBSET (PmtPages \X PmtPages)
  BY <1>1, CacheParts DEF Without
<1>6. ps \in SUBSET PmtPages
  BY <1>1, CacheParts
<1> HIDE DEF s, l, d
<1>7. CacheTypeOK(d)
  BY <1>1, <1>2, <1>3, <1>4, <1>5, <1>6 DEF CacheTypeOK
<1>8. /\ d.stamp = s /\ d.dirty = c.dirty /\ d.fixes = c.fixes /\ d.merge = c.merge \cup ps
      /\ d.free = c.free /\ d.now = c.now /\ d.last = l /\ d.failed = c.failed
      /\ d.before = Without(c, ps)
  BY <1>1, <1>2 DEF CacheTypeOK
<1>9. \A q \in ps : q \in PmtPages /\ c.stamp[q] \in Int /\ c.stamp[q] < NULL_TIMESTAMP /\ q \in c.dirty
  BY <1>1, <1>6, Marks
<1>10. SameBut(c, d, {})
  BY <1>3, <1>8, <1>9, Stamps DEF SameBut, Cached, Loading
<1>11. CachedPages(d) = CachedPages(c)
  BY <1>10 DEF SameBut, CachedPages
<1>12. Normal(d) = Normal(c) \ ps
  BY <1>3, <1>8, Stamps DEF Normal
<1>13. \A q \in Normal(d) : d.stamp[q] = c.stamp[q]
  BY <1>3, <1>8, <1>12 DEF Normal
<1>14. /\ CacheIsLru(d) /\ StampsBeforeNow(d)
       /\ \A q \in Normal(d) : NewestUse(c, q) => NewestUse(d, q)
  BY <1>1, <1>8, <1>12, <1>13, LessNormal
<1>15. d.last \in Normal(d) => NewestUse(d, d.last)
  BY <1>4, <1>8, <1>12, <1>14, PmtPagesAssumption DEF Normal
<1>16. d.merge = {q \in PmtPages : d.stamp[q] = NULL_TIMESTAMP + 3}
  <2>1. c.merge = {q \in PmtPages : c.stamp[q] = NULL_TIMESTAMP + 3}
    OBVIOUS
  <2>2. QED BY <1>3, <1>6, <1>8, <2>1
<1>17. \A q \in PmtPages : d.fixes[q] > 0 <=> d.stamp[q] = NULL_TIMESTAMP + 2
  <2>1. \A q \in PmtPages : c.fixes[q] > 0 <=> c.stamp[q] = NULL_TIMESTAMP + 2
    OBVIOUS
  <2>2. QED BY <1>3, <1>8, <1>9, <2>1, Stamps
<1>18. CacheAgrees(d)
  <2>1. d.last # NULL_PMT_IDX => Cached(d, d.last) /\ d.last \notin d.merge
    BY <1>1, <1>4, <1>8, <1>10, CacheParts DEF SameBut
  <2>2. /\ d.free + Cardinality(CachedPages(d)) = NUM_PC_SUB_PAGES
        /\ d.merge \subseteq d.dirty /\ Cardinality(d.merge) <= SUB_PAGES_PER_PAGE
    BY <1>8, <1>11
  <2>3. QED BY <1>16, <1>17, <2>1, <2>2, Agrees
<1>19. \A q \in d.dirty : Loaded(d, q)
  BY <1>1, <1>8, <1>10, CacheParts DEF SameBut, Loaded
<1>20. CacheInv(d)
  BY <1>7, <1>11, <1>14, <1>15, <1>18, <1>19 DEF CacheInv
<1>21. QED BY <1>4, <1>8, <1>10, <1>12, <1>13, <1>20 DEF d

(***************************************************************************)
(* Normal and evicted pages are freed.                                     *)
(***************************************************************************)
LEMMA Frees ==
  ASSUME NEW c, CacheInv(c), NEW ps \in SUBSET (Normal(c) \cup c.merge)
  PROVE  LET d == [Freed(c, ps) EXCEPT !.merge = c.merge \ ps] IN
         /\ CacheInv(d) /\ SameBut(c, d, ps)
         /\ \A p \in ps : ~Cached(d, p) /\ ~Loading(d, p) /\ Loaded(c, p)
         /\ d.dirty = c.dirty \ ps /\ d.fixes = c.fixes /\ d.failed = c.failed
         /\ d.merge = c.merge \ ps
<1> DEFINE s == [p \in PmtPages |-> IF p \in ps THEN NULL_TIMESTAMP ELSE c.stamp[p]]
           l == IF c.last \in ps THEN NULL_PMT_IDX ELSE c.last
           n == c.free + Cardinality(ps)
           d == [Freed(c, ps) EXCEPT !.merge = c.merge \ ps]
<1> USE CacheInvParts
<1>1. CacheTypeOK(c)
  OBVIOUS
<1>2. d = [c EXCEPT !.stamp = s, !.dirty = c.dirty \ ps, !.merge = c.merge \ ps, !.last = l,
                    !.free = n, !.before = Without(c, ps)]
  BY <1>1 DEF Freed, CacheTypeOK
<1>3. /\ s \in [PmtPages -> 0 .. EVICTED_TIMESTAMP]
      /\ \A q \in PmtPages : s[q] = (IF q \in ps THEN NULL_TIMESTAMP ELSE c.stamp[q])
  BY <1>1, CacheParts, Stamps
<1>4. l \in PmtPages \cup {NULL_PMT_IDX} /\ l \notin ps /\ (l = c.last \/ l = NULL_PMT_IDX)
  BY <1>1, CacheParts, PmtPagesAssumption
<1>5. Without(c, ps) \in SUBSET (PmtPages \X PmtPages)
  BY <1>1, CacheParts DEF Without
<1>6. ps \in SUBSET PmtPages
  BY <1>1, CacheParts
<1>7. \A q \in ps : /\ c.stamp[q] \in Int
                    /\ c.stamp[q] < NULL_TIMESTAMP \/ c.stamp[q] = NULL_TIMESTAMP + 3
  BY <1>1, <1>6, Marks
<1>8. ps \in SUBSET CachedPages(c)
  BY <1>1, <1>6, <1>7, Marks, Stamps
<1>9. IsFiniteSet(ps) /\ Cardinality(ps) \in Nat /\ Cardinality(ps) <= Cardinality(CachedPages(c))
  BY <1>8, FS_Subset, FS_CardinalityType
<1>10. n \in Nat /\ n <= NUM_PC_SUB_PAGES
  <2>1. c.free \in Nat /\ Cardinality(CachedPages(c)) \in Nat
        /\ c.free + Cardinality(CachedPages(c)) = NUM_PC_SUB_PAGES
    BY <1>1, CacheParts
  <2>2. QED BY <1>9, <2>1, Stamps
<1> HIDE DEF s, l, d, n
<1>11. CacheTypeOK(d)
  <2>1. n \in 0 .. NUM_PC_SUB_PAGES
    BY <1>10, Stamps
  <2>2. QED BY <1>1, <1>2, <1>3, <1>4, <1>5, <2>1 DEF CacheTypeOK
<1>12. /\ d.stamp = s /\ d.dirty = c.dirty \ ps /\ d.fixes = c.fixes /\ d.merge = c.merge \ ps
       /\ d.free = n /\ d.now = c.now /\ d.last = l /\ d.failed = c.failed
       /\ d.before = Without(c, ps)
  BY <1>1, <1>2 DEF CacheTypeOK
<1>13. SameBut(c, d, ps) /\ \A p \in ps : ~Cached(d, p) /\ ~Loading(d, p) /\ Loaded(c, p)
  BY <1>3, <1>6, <1>7, <1>12, Stamps DEF SameBut, Cached, Loading, Loaded
<1>14. CachedPages(d) = CachedPages(c) \ ps
  BY <1>8, <1>13 DEF SameBut, CachedPages
<1>15. /\ IsFiniteSet(CachedPages(d))
       /\ Cardinality(CachedPages(d)) = Cardinality(CachedPages(c)) - Cardinality(ps)
  <2>1. CachedPages(c) \cap ps = ps
    BY <1>8
  <2>2. IsFiniteSet(CachedPages(c))
    OBVIOUS
  <2>3. /\ IsFiniteSet(CachedPages(c) \ ps)
        /\ Cardinality(CachedPages(c) \ ps)
             = Cardinality(CachedPages(c)) - Cardinality(CachedPages(c) \cap ps)
    BY <2>2, FS_Difference
  <2>4. QED BY <1>14, <2>1, <2>3
<1>16. d.free + Cardinality(CachedPages(d)) = NUM_PC_SUB_PAGES
  <2>1. c.free \in Nat /\ Cardinality(CachedPages(c)) \in Nat
        /\ c.free + Cardinality(CachedPages(c)) = NUM_PC_SUB_PAGES
    BY <1>1, CacheParts
  <2>2. QED BY <1>9, <1>12, <1>15, <2>1 DEF n
<1>17. Normal(d) = Normal(c) \ ps
  BY <1>3, <1>12, Stamps DEF Normal
<1>18. \A q \in Normal(d) : d.stamp[q] = c.stamp[q]
  BY <1>3, <1>12, <1>17 DEF Normal
<1>19. /\ CacheIsLru(d) /\ StampsBeforeNow(d)
       /\ \A q \in Normal(d) : NewestUse(c, q) => NewestUse(d, q)
  BY <1>1, <1>12, <1>17, <1>18, LessNormal
<1>20. d.last \in Normal(d) => NewestUse(d, d.last)
  BY <1>4, <1>12, <1>17, <1>19, PmtPagesAssumption DEF Normal
<1>21. d.merge = {q \in PmtPages : d.stamp[q] = NULL_TIMESTAMP + 3}
  <2>1. c.merge = {q \in PmtPages : c.stamp[q] = NULL_TIMESTAMP + 3}
    OBVIOUS
  <2>2. QED BY <1>3, <1>6, <1>12, <2>1, Stamps
<1>22. \A q \in PmtPages : d.fixes[q] > 0 <=> d.stamp[q] = NULL_TIMESTAMP + 2
  <2>1. \A q \in PmtPages : c.fixes[q] > 0 <=> c.stamp[q] = NULL_TIMESTAMP + 2
    OBVIOUS
  <2>2. QED BY <1>3, <1>7, <1>12, <2>1, Stamps
<1>23. CacheAgrees(d)
  <2>1. d.last # NULL_PMT_IDX => Cached(d, d.last) /\ d.last \notin d.merge
    BY <1>1, <1>4, <1>12, <1>13, CacheParts DEF SameBut
  <2>2. Cardinality(d.merge) <= SUB_PAGES_PER_PAGE
    <3>1. d.merge \in SUBSET c.merge
      BY <1>12
    <3>2. Cardinality(d.merge) \in Nat /\ Cardinality(d.merge) <= Cardinality(c.merge)
      BY <3>1, FS_Subset, FS_CardinalityType
    <3>3. Cardinality(c.merge) \in Nat /\ Cardinality(c.merge) <= SUB_PAGES_PER_PAGE
      OBVIOUS
    <3>4. QED BY <3>2, <3>3, Stamps
  <2>3. d.merge \subseteq d.dirty
    BY <1>12
  <2>4. QED BY <1>16, <1>21, <1>22, <2>1, <2>2, <2>3, Agrees
<1>24. \A q \in d.dirty : Loaded(d, q)
  BY <1>1, <1>12, <1>13, CacheParts DEF SameBut, Loaded
<1>25. CacheInv(d)
  BY <1>11, <1>15, <1>19, <1>20, <1>23, <1>24 DEF CacheInv
<1>26. QED BY <1>12, <1>13, <1>25 DEF d

(***************************************************************************)
(* pmt_cache_evict and pmt_cache_flush                                     *)
(***************************************************************************)
LEMMA EvictMerges ==
  ASSUME NEW c, CacheInv(c)
  PROVE  LET d == Merged(c, ToMerge(c)) IN
         /\ CacheInv(d) /\ SameBut(c, d, {})
         /\ d.dirty = c.dirty /\ d.fixes = c.fixes /\ d.failed = c.failed
         /\ d.merge = c.merge \cup ToMerge(c)
         /\ Normal(d) = Normal(c) \ ToMerge(c)
<1>1. ToMerge(c) \in SUBSET (Normal(c) \cap c.dirty)
  BY DEF ToMerge
<1>2. Cardinality(c.merge \cup ToMerge(c)) <= SUB_PAGES_PER_PAGE
  BY MergeRoom
<1>3. QED BY <1>1, <1>2, Merges

LEMMA FreedKeepsMerge ==
  ASSUME NEW c, CacheTypeOK(c), NEW ps, c.merge \cap ps = {}
  PROVE  [Freed(c, ps) EXCEPT !.merge = c.merge \ ps] = Freed(c, ps)
<1>1. c.merge \ ps = c.merge
  OBVIOUS
<1> DEFINE d == Freed(c, ps)
<1>2. d.merge = c.merge
  BY DEF Freed, CacheTypeOK
<1>3. [d EXCEPT !.merge = d.merge] = d
  BY DEF Freed, CacheTypeOK
<1>4. QED BY <1>1, <1>2, <1>3

\* An assertion may fail; nothing else depends on it.
LEMMA AssertedKeeps ==
  ASSUME NEW c, CacheInv(c), NEW condition \in BOOLEAN
  PROVE  LET d == Asserted(c, condition) IN
         /\ CacheInv(d) /\ SameBut(c, d, {})
         /\ d.dirty = c.dirty /\ d.fixes = c.fixes /\ d.merge = c.merge
         /\ condition => d.failed = c.failed
<1> DEFINE d == Asserted(c, condition)
           f == c.failed \/ ~condition
<1>1. CacheTypeOK(c)
  BY CacheInvParts
<1>2. d = [c EXCEPT !.failed = f] /\ f \in BOOLEAN
  <2>1. f \in BOOLEAN
    OBVIOUS
  <2>2. QED BY <1>1, <2>1 DEF Asserted, CacheTypeOK
<1> HIDE DEF f, d
<1>3. /\ d.stamp = c.stamp /\ d.dirty = c.dirty /\ d.fixes = c.fixes /\ d.merge = c.merge
      /\ d.free = c.free /\ d.now = c.now /\ d.last = c.last
      /\ d.before = c.before /\ CacheTypeOK(d)
  BY <1>1, <1>2 DEF CacheTypeOK
<1>4. condition => d.failed = c.failed
  BY <1>1, AssertedTrue DEF d
<1>5. Normal(d) = Normal(c) /\ CachedPages(d) = CachedPages(c) /\ SameBut(c, d, {})
  BY <1>3 DEF Normal, CachedPages, SameBut, Cached, Loading
<1>6. CacheIsLru(d) /\ StampsBeforeNow(d) /\ (d.last \in Normal(d) => NewestUse(d, d.last))
  <2>1. CacheIsLru(c) /\ StampsBeforeNow(c) /\ (c.last \in Normal(c) => NewestUse(c, c.last))
    BY DEF CacheInv
  <2>2. QED BY <1>3, <1>5, <2>1 DEF CacheIsLru, StampsBeforeNow, NewestUse
<1>7. CacheAgrees(d)
  <2>1. CacheAgrees(c)
    BY DEF CacheInv
  <2>2. \A q \in PmtPages : Cached(c, q) <=> Cached(d, q)
    BY <1>3 DEF Cached
  <2>3. {q \in PmtPages : Cached(c, q)} = {q \in PmtPages : Cached(d, q)}
    BY <2>2
  <2>4. Cached(c, c.last) = Cached(d, d.last)
    BY <1>3 DEF Cached
  <2>5. QED BY <1>3, <2>1, <2>3, <2>4 DEF CacheAgrees
<1>8. CacheInv(d)
  <2>1. IsFiniteSet(CachedPages(c)) /\ \A q \in c.dirty : Loaded(c, q)
    BY DEF CacheInv
  <2>2. \A q \in d.dirty : Loaded(d, q)
    BY <1>3, <2>1 DEF Loaded, Cached, Loading
  <2>3. QED BY <1>3, <1>5, <1>6, <1>7, <2>1, <2>2 DEF CacheInv
<1>9. QED BY <1>3, <1>4, <1>5, <1>8 DEF d

LEMMA EvictFree ==
  ASSUME NEW c, CacheInv(c), ~MergeFull(pmt_cache_evict(c))
  PROVE  LET d == pmt_cache_evict(c) IN
         /\ CacheInv(d) /\ SameBut(c, d, ToFree(c))
         /\ \A p \in ToFree(c) : ~Cached(d, p) /\ ~Loading(d, p) /\ Loaded(c, p) /\ p \notin c.dirty
         /\ d.dirty = c.dirty /\ d.fixes = c.fixes
         /\ ToFree(c) # {} => d.failed = c.failed
         /\ ~MergeFull(Merged(c, ToMerge(c)))
<1> DEFINE m == Merged(c, ToMerge(c))
           e == Freed(m, ToFree(c))
           d == pmt_cache_evict(c)
<1>1. /\ CacheInv(m) /\ SameBut(c, m, {})
      /\ m.dirty = c.dirty /\ m.fixes = c.fixes /\ m.failed = c.failed
      /\ m.merge = c.merge \cup ToMerge(c)
      /\ Normal(m) = Normal(c) \ ToMerge(c)
  BY EvictMerges
<1>2. ~MergeFull(m) /\ d = Asserted(e, ToFree(c) # {})
  BY DEF pmt_cache_evict
<1>3. ToFree(c) \in SUBSET (Normal(c) \ c.dirty)
  BY DEF ToFree
<1>4. ToMerge(c) \subseteq c.dirty /\ c.merge \subseteq c.dirty
  BY CacheInvParts DEF ToMerge
<1>5. ToFree(c) \in SUBSET (Normal(m) \cup m.merge) /\ m.merge \cap ToFree(c) = {}
  BY <1>1, <1>3, <1>4
<1> HIDE DEF m
<1>6. CacheTypeOK(m)
  BY <1>1, CacheInvParts
<1>7. [Freed(m, ToFree(c)) EXCEPT !.merge = m.merge \ ToFree(c)] = e
  BY <1>5, <1>6, FreedKeepsMerge
<1>8. /\ CacheInv(e) /\ SameBut(m, e, ToFree(c))
      /\ \A p \in ToFree(c) : ~Cached(e, p) /\ ~Loading(e, p) /\ Loaded(m, p)
      /\ e.dirty = m.dirty \ ToFree(c) /\ e.fixes = m.fixes /\ e.failed = m.failed
  <2> DEFINE f == [Freed(m, ToFree(c)) EXCEPT !.merge = m.merge \ ToFree(c)]
  <2>1. /\ CacheInv(f) /\ SameBut(m, f, ToFree(c))
        /\ \A p \in ToFree(c) : ~Cached(f, p) /\ ~Loading(f, p) /\ Loaded(m, p)
        /\ f.dirty = m.dirty \ ToFree(c) /\ f.fixes = m.fixes /\ f.failed = m.failed
    BY <1>1, <1>5, Frees
  <2>2. f = e
    BY <1>7
  <2> HIDE DEF f, e
  <2>3. QED BY <2>1, <2>2
<1> HIDE DEF e, d
<1>9. /\ CacheInv(d) /\ SameBut(e, d, {})
      /\ d.dirty = e.dirty /\ d.fixes = e.fixes
      /\ ToFree(c) # {} => d.failed = e.failed
  BY <1>2, <1>8, AssertedKeeps
<1>10. d.dirty = c.dirty
  BY <1>1, <1>3, <1>8, <1>9
<1>11. Normal(c) \subseteq PmtPages
  BY DEF Normal
<1>12. SameBut(c, d, ToFree(c))
  BY <1>1, <1>8, <1>9 DEF SameBut
<1>13. \A p \in ToFree(c) : ~Cached(d, p) /\ ~Loading(d, p) /\ Loaded(c, p) /\ p \notin c.dirty
  BY <1>1, <1>3, <1>8, <1>9, <1>11 DEF SameBut, Loaded
<1>14. QED BY <1>1, <1>2, <1>8, <1>9, <1>10, <1>12, <1>13 DEF d, m

LEMMA EvictFull ==
  ASSUME NEW c, CacheInv(c), MergeFull(pmt_cache_evict(c))
  PROVE  LET d == pmt_cache_evict(c) IN
         /\ CacheInv(d) /\ SameBut(c, d, {})
         /\ d.dirty = c.dirty /\ d.fixes = c.fixes /\ d.failed = c.failed
<1> DEFINE m == Merged(c, ToMerge(c))
           e == Freed(m, ToFree(c))
           d == pmt_cache_evict(c)
<1>1. /\ CacheInv(m) /\ SameBut(c, m, {})
      /\ m.dirty = c.dirty /\ m.fixes = c.fixes /\ m.failed = c.failed
  BY EvictMerges
<1>2. MergeFull(m)
  <2>1. SUFFICES ASSUME ~MergeFull(m) PROVE FALSE
    OBVIOUS
  <2>2. d = Asserted(e, ToFree(c) # {})
    BY <2>1 DEF pmt_cache_evict
  <2>3. CacheTypeOK(m)
    BY <1>1, CacheInvParts
  <2> HIDE DEF m
  <2>4. d.merge = m.merge
    BY <2>2, <2>3 DEF Asserted, Freed, CacheTypeOK
  <2>5. QED BY <2>1, <2>4 DEF MergeFull
<1>3. d = m
  BY <1>2 DEF pmt_cache_evict
<1>4. QED BY <1>1, <1>3

LEMMA FlushFree ==
  ASSUME NEW c, CacheInv(c), MergeFull(c)
  PROVE  LET d == pmt_cache_flush(c) IN
         /\ CacheInv(d) /\ SameBut(c, d, c.merge)
         /\ \A p \in c.merge : ~Cached(d, p) /\ ~Loading(d, p) /\ Loaded(c, p)
         /\ d.dirty = c.dirty \ c.merge /\ d.fixes = c.fixes /\ d.failed = c.failed
<1>1. CacheTypeOK(c)
  BY CacheInvParts
<1>2. Asserted(c, MergeFull(c)) = c
  <2>1. MergeFull(c) \in BOOLEAN
    BY DEF MergeFull
  <2>2. QED BY <1>1, <2>1, AssertedTrue
<1>3. pmt_cache_flush(c) = [Freed(c, c.merge) EXCEPT !.merge = c.merge \ c.merge]
  BY <1>2 DEF pmt_cache_flush
<1>4. c.merge \in SUBSET (Normal(c) \cup c.merge)
  OBVIOUS
<1>5. QED BY <1>3, <1>4, Frees

LEMMA PutLoaded ==
  ASSUME NEW c, CacheInv(c), NEW p \in PmtPages, ~Cached(c, p), c.free > 0
  PROVE  LET d == pmt_cache_set_loaded(pmt_cache_put(c, p), p) IN
         /\ CacheInv(d) /\ SameBut(c, d, {p}) /\ Loaded(d, p)
         /\ d.dirty = c.dirty /\ d.fixes = c.fixes /\ d.failed = c.failed
<1> DEFINE e == pmt_cache_put(c, p)
           d == pmt_cache_set_loaded(e, p)
<1>1. /\ CacheInv(e) /\ SameBut(c, e, {p}) /\ Loading(e, p)
      /\ e.dirty = c.dirty /\ e.fixes = c.fixes /\ e.failed = c.failed
  BY Put
<1> HIDE DEF e
<1>2. /\ CacheInv(d) /\ SameBut(e, d, {p}) /\ Loaded(d, p)
      /\ d.dirty = e.dirty /\ d.fixes = e.fixes /\ d.failed = e.failed
  BY <1>1, SetLoaded
<1>3. SameBut(c, d, {p})
  BY <1>1, <1>2 DEF SameBut
<1>4. QED BY <1>1, <1>2, <1>3 DEF e

(***************************************************************************)
(* A full cache with enough pages has a clean page to evict, or enough     *)
(* dirty ones to fill the merge buffer: enough means that the pages that   *)
(* are fixed or loading leave a merge buffer's worth.                      *)
(***************************************************************************)
Busy(c) == {p \in PmtPages : c.stamp[p] \in {LOADING_TIMESTAMP, FIXED_TIMESTAMP}}

LEMMA EvictFinds ==
  ASSUME NEW c, CacheInv(c), c.free = 0,
         IsFiniteSet(Busy(c)),
         Cardinality(Busy(c)) + SUB_PAGES_PER_PAGE <= NUM_PC_SUB_PAGES,
         ~MergeFull(Merged(c, ToMerge(c)))
  PROVE  ToFree(c) # {}
<1> DEFINE T == ToMerge(c)
           room == SUB_PAGES_PER_PAGE - Cardinality(c.merge)
<1>1. /\ CacheTypeOK(c) /\ IsFiniteSet(CachedPages(c)) /\ IsFiniteSet(c.merge)
      /\ c.free + Cardinality(CachedPages(c)) = NUM_PC_SUB_PAGES
      /\ Cardinality(CachedPages(c)) \in Nat
      /\ c.merge = {p \in PmtPages : c.stamp[p] = NULL_TIMESTAMP + 3}
      /\ Cardinality(c.merge) \in Nat
  BY CacheInvParts
<1>2. /\ IsFiniteSet(T) /\ Cardinality(T) \in Nat
      /\ IsFiniteSet(c.merge \cup T)
      /\ Cardinality(c.merge \cup T) = Cardinality(c.merge) + Cardinality(T)
      /\ Cardinality(c.merge \cup T) <= SUB_PAGES_PER_PAGE
  BY MergeRoom
<1>3. Cardinality(c.merge) + Cardinality(T) < SUB_PAGES_PER_PAGE
  <2>1. Merged(c, T).merge = c.merge \cup T
    BY EvictMerges
  <2>2. QED BY <1>1, <1>2, <2>1, Stamps DEF MergeFull
<1>4. Normal(c) \in SUBSET CachedPages(c)
  BY <1>1, Marks, Stamps, CacheParts
<1>5. IsFiniteSet(Normal(c)) /\ Cardinality(Normal(c)) \in Nat
  BY <1>1, <1>4, FS_Subset, FS_CardinalityType
<1>6. Cardinality(Normal(c)) > Cardinality(T)
  <2>1. CachedPages(c) = Normal(c) \cup (c.merge \cup Busy(c))
    <3>1. \A p \in PmtPages : c.stamp[p] \in Int /\ c.stamp[p] <= NULL_TIMESTAMP + 3
      BY <1>1, CacheParts
    <3>2. QED BY <1>1, <3>1, Stamps DEF CachedPages, Cached, Normal, Busy
  <2>2. /\ IsFiniteSet(c.merge \cup Busy(c))
        /\ Cardinality(c.merge \cup Busy(c))
             = Cardinality(c.merge) + Cardinality(Busy(c)) - Cardinality(c.merge \cap Busy(c))
    BY <1>1, FS_Union
  <2>3. /\ Cardinality(c.merge \cap Busy(c)) \in Nat /\ Cardinality(Busy(c)) \in Nat
        /\ Cardinality(c.merge \cup Busy(c)) \in Nat
    BY <1>1, <2>2, FS_Intersection, FS_CardinalityType
  <2>4. Cardinality(CachedPages(c))
          = Cardinality(Normal(c)) + Cardinality(c.merge \cup Busy(c))
              - Cardinality(Normal(c) \cap (c.merge \cup Busy(c)))
    BY <1>5, <2>1, <2>2, FS_Union
  <2>5. Cardinality(Normal(c) \cap (c.merge \cup Busy(c))) \in Nat
    BY <1>5, FS_Intersection, FS_CardinalityType
  <2>6. Cardinality(CachedPages(c)) <= Cardinality(Normal(c)) + Cardinality(c.merge) + Cardinality(Busy(c))
    BY <1>1, <1>5, <2>2, <2>3, <2>4, <2>5
  <2>7. Cardinality(CachedPages(c)) = NUM_PC_SUB_PAGES
    BY <1>1
  <2>8. QED BY <1>1, <1>2, <1>3, <1>5, <2>3, <2>6, <2>7, Stamps
<1>7. T \in SUBSET Normal(c) /\ T \subseteq c.dirty
  BY DEF ToMerge
<1>8. Normal(c) \ T # {}
  <2>1. SUFFICES ASSUME Normal(c) \ T = {} PROVE FALSE
    OBVIOUS
  <2>2. Normal(c) = T
    BY <1>7, <2>1
  <2>3. Cardinality(Normal(c)) = Cardinality(T)
    BY <2>2
  <2>4. QED BY <1>2, <1>6, <2>3
<1>9. \A p \in Normal(c) : p \in PmtPages /\ c.stamp[p] \in Nat
  BY <1>1, CacheParts DEF Normal
<1>10. PICK m \in Normal(c) \ T : \A q \in Normal(c) \ T : c.stamp[m] <= c.stamp[q]
  <2> DEFINE D == [p \in Normal(c) |-> c.stamp[p]]
  <2>1. D \in [Normal(c) -> Nat]
    BY <1>9
  <2>2. Normal(c) \ T \in SUBSET Normal(c)
    OBVIOUS
  <2>3. PICK m \in Normal(c) \ T : \A q \in Normal(c) \ T : D[m] <= D[q]
    BY <1>8, <2>1, <2>2, Least, Zenon
  <2>4. QED BY <2>3
<1>11. Older(c, m) \subseteq T
  <2>1. ASSUME NEW q \in Older(c, m), q \notin T PROVE FALSE
    <3>1. q \in Normal(c) /\ c.stamp[q] < c.stamp[m]
      BY <2>1 DEF Older
    <3>2. c.stamp[m] <= c.stamp[q]
      BY <1>10, <2>1, <3>1
    <3>3. QED BY <1>9, <3>1, <3>2
  <2>2. QED BY <2>1
<1>12. m \notin c.dirty
  <2>1. SUFFICES ASSUME m \in c.dirty PROVE FALSE
    OBVIOUS
  <2>2. Older(c, m) \in SUBSET T
    BY <1>11
  <2>3. Cardinality(Older(c, m)) \in Nat /\ Cardinality(Older(c, m)) <= Cardinality(T)
    BY <1>2, <2>2, FS_Subset, FS_CardinalityType
  <2>4. Cardinality(Older(c, m)) < room
    BY <1>1, <1>2, <1>3, <2>3, Stamps
  <2>5. m \in T
    BY <1>7, <1>11, <2>1, <2>4 DEF ToMerge
  <2>6. QED BY <2>5
<1>13. T \subseteq Older(c, m)
  <2>1. ASSUME NEW q \in T PROVE q \in Older(c, m)
    <3>1. q \in Normal(c) /\ q # m /\ c.stamp[q] # c.stamp[m]
      <4>1. CacheIsLru(c)
        BY CacheInvParts
      <4>2. QED BY <1>7, <4>1 DEF CacheIsLru
    <3>2. ~(c.stamp[m] < c.stamp[q])
      <4>1. SUFFICES ASSUME c.stamp[m] < c.stamp[q] PROVE FALSE
        OBVIOUS
      <4>2. m \in Older(c, q)
        BY <4>1 DEF Older
      <4>3. Older(c, q) \subseteq c.dirty
        BY DEF ToMerge
      <4>4. QED BY <1>12, <4>2, <4>3
    <3>3. QED BY <1>9, <3>1, <3>2 DEF Older
  <2>2. QED BY <2>1
<1>14. m \in ToFree(c)
  BY <1>7, <1>11, <1>12, <1>13 DEF ToFree
<1>15. QED BY <1>14

(***************************************************************************)
(* The inductive invariant.                                                *)
(***************************************************************************)

\* TypeOK, but for the cache and the count of buffers.
Types ==
    /\ turn \in {"pass", "pmt", "requests", "threads"}
    /\ gtd \in [PmtPages -> Banks \cup {NoBank}]
    /\ pmt_req_queue \in Seq(PmtPages)
    /\ next_pmt_idx \in PmtPages \cup {NULL_PMT_IDX}
    /\ loads \in [Banks -> PmtPages \cup {NULL_PMT_IDX}] /\ flushes \subseteq Banks
    /\ runnable \in BOOLEAN /\ wake \subseteq Banks
    /\ loadedSig \in BOOLEAN /\ overflow \in BOOLEAN
    /\ idle \subseteq Banks /\ complete \subseteq Banks
    /\ th \in [Threads -> ThreadState]
    /\ \A t \in Threads : th[t].fixed \subseteq DOMAIN th[t].want
    /\ accepts \in 0 .. MaxAccepts
    /\ newest \in [PmtPages -> SUBSET (Banks \cup {"cache", NoBank})]

\* What a thread wants and holds in each phase; only the thread that runs is in
\* the middle of a loop.
ThreadOK(r, at) ==
    /\ r.phase \in {"load", "read", "hold", "update"} => r.want \in Wants
    /\ r.phase \in {"free", "write"} => r.want = <<>>
    /\ r.phase = "read" => Len(r.want) = 1 /\ r.fixed = {} /\ r.next = 1
    /\ r.phase = "hold" => r.fixed = DOMAIN r.want
    /\ r.phase = "update" =>
         at = "threads" /\ r.next <= Len(r.want) /\ r.fixed = r.next .. Len(r.want)
    /\ r.next > 1 =>
         /\ at = "threads" /\ r.next <= Len(r.want)
         /\ r.phase = "update" \/ (r.phase = "load" /\ r.awake)

ThreadInv == \A t \in Threads : ThreadOK(th[t], turn)

\* The content of a page that is loaded and not dirty is in flash too.
NewestInv ==
    \A p \in PmtPages :
      /\ Loaded(cache, p) => "cache" \in newest[p]
      /\ ~Loaded(cache, p) \/ p \notin cache.dirty => gtd[p] \in newest[p]

\* A bank has one command at a time.
BankInv ==
    /\ \A b, c \in Banks : loads[b] = loads[c] /\ loads[b] # NULL_PMT_IDX => b = c
    /\ \A b \in flushes : loads[b] = NULL_PMT_IDX
    /\ turn = "pmt" => Unfinished \cap idle \subseteq complete
    /\ NoMissedCompletion

\* The load of page p is on its way or asked for.
Served(p) == Loading(cache, p) \/ (~Cached(cache, p) /\ p \in Requests)

\* The sub-pages that thread t has looked for in vain.
Missed(t) == {i \in DOMAIN th[t].want \ th[t].fixed : ~th[t].awake \/ i < th[t].next}

SleepInv ==
    /\ turn \in {"pass", "threads"} \/ ~loadedSig =>
         \A t \in Threads : th[t].phase \in {"load", "read"} =>
           \A i \in Missed(t) : Served(th[t].want[i])
    /\ turn \in {"pass", "threads"} /\ (pmt_req_queue # <<>> \/ next_pmt_idx # NULL_PMT_IDX)
         => runnable \/ wake # {}
    /\ turn = "pass" => ~loadedSig

WantInv == Cardinality(Wanted) <= MaxWanted

IInv ==
    /\ Types /\ CacheInv(cache) /\ ThreadInv /\ NewestInv /\ BankInv /\ SleepInv
    /\ WantInv /\ FixesMatchOwners

(***************************************************************************)
(* Types.                                                                  *)
(***************************************************************************)
LEMMA WantParts ==
  ASSUME NEW w \in Wants \cup {<<>>}
  PROVE  /\ w \in Seq(PmtPages) /\ Len(w) \in Nat /\ Len(w) <= SUB_PAGES_PER_PAGE
         /\ DOMAIN w = 1 .. Len(w) /\ (w = <<>> => Len(w) = 0 /\ DOMAIN w = {})
         /\ \A i \in DOMAIN w : i \in 1 .. SUB_PAGES_PER_PAGE /\ w[i] \in PmtPages
         /\ w \in Wants => Len(w) > 0
<1>1. w \in Seq(PmtPages) /\ Len(w) \in Nat /\ Len(w) <= SUB_PAGES_PER_PAGE
  <2>1. CASE w \in Wants
    BY <2>1, WantsAssumption, Stamps
  <2>2. CASE w = <<>>
    BY <2>2, Stamps
  <2>3. QED BY <2>1, <2>2
<1>2. DOMAIN w = 1 .. Len(w) /\ (w = <<>> => Len(w) = 0 /\ DOMAIN w = {})
  BY <1>1
<1>3. ASSUME NEW i \in DOMAIN w PROVE i \in 1 .. SUB_PAGES_PER_PAGE /\ w[i] \in PmtPages
  <2>1. i \in 1 .. Len(w)
    BY <1>2
  <2>2. QED BY <1>1, <2>1, Stamps
<1>4. w \in Wants => Len(w) > 0
  BY WantsAssumption
<1>5. QED BY <1>1, <1>2, <1>3, <1>4

LEMMA ThreadParts ==
  ASSUME Types, NEW t \in Threads
  PROVE  /\ th[t] \in ThreadState
         /\ th[t].phase \in {"free", "load", "read", "hold", "update", "write"}
         /\ th[t].awake \in BOOLEAN /\ th[t].next \in 1 .. SUB_PAGES_PER_PAGE
         /\ th[t].next \in Nat /\ th[t].next > 0
         /\ th[t].want \in Wants \cup {<<>>}
         /\ th[t].fixed \in SUBSET (1 .. SUB_PAGES_PER_PAGE)
         /\ th[t].fixed \subseteq DOMAIN th[t].want
         /\ th[t].bank \in Banks \cup {NoBank}
<1>1. th[t] \in ThreadState /\ th[t].fixed \subseteq DOMAIN th[t].want
  BY DEF Types
<1>2. QED BY <1>1, Stamps DEF ThreadState

LEMMA ThreadWants ==
  ASSUME Types, NEW t \in Threads
  PROVE  /\ th[t].want \in Seq(PmtPages) /\ Len(th[t].want) \in Nat
         /\ Len(th[t].want) <= SUB_PAGES_PER_PAGE
         /\ DOMAIN th[t].want = 1 .. Len(th[t].want)
         /\ th[t].want = <<>> => Len(th[t].want) = 0 /\ DOMAIN th[t].want = {}
         /\ \A i \in DOMAIN th[t].want : i \in 1 .. SUB_PAGES_PER_PAGE /\ th[t].want[i] \in PmtPages
         /\ th[t].want \in Wants => Len(th[t].want) > 0
<1>1. th[t].want \in Wants \cup {<<>>}
  BY ThreadParts
<1>2. QED BY <1>1, WantParts

\* The thread that runs PMT_LOAD or PMT_UPDATE looks at one of its sub-pages.
LEMMA PageIs ==
  ASSUME Types, ThreadInv, NEW t \in Threads,
         th[t].phase \in {"load", "read", "update"}
  PROVE  /\ th[t].next \in DOMAIN th[t].want /\ Page(t) \in PmtPages
         /\ th[t].want \in Wants /\ Len(th[t].want) \in Nat /\ Len(th[t].want) > 0
         /\ IsLast(t) <=> th[t].next = Len(th[t].want)
         /\ ~IsLast(t) => th[t].next + 1 \in DOMAIN th[t].want
<1>1. th[t].want \in Wants
  BY DEF ThreadInv, ThreadOK
<1>2. Len(th[t].want) > 0 /\ Len(th[t].want) \in Nat /\ DOMAIN th[t].want = 1 .. Len(th[t].want)
  BY <1>1, ThreadWants
<1>3. th[t].next \in Nat /\ th[t].next > 0
  BY ThreadParts
<1>4. th[t].next <= Len(th[t].want)
  <2>1. CASE th[t].next > 1
    BY <2>1 DEF ThreadInv, ThreadOK
  <2>2. CASE ~(th[t].next > 1)
    BY <1>2, <1>3, <2>2
  <2>3. QED BY <2>1, <2>2
<1>5. th[t].next \in DOMAIN th[t].want
  BY <1>2, <1>3, <1>4
<1>6. Page(t) \in PmtPages
  BY <1>5, ThreadWants DEF Page
<1>7. QED BY <1>1, <1>2, <1>3, <1>4, <1>5, <1>6 DEF IsLast

LEMMA FreeIsState ==
  /\ FreeThread \in ThreadState /\ FreeThread.fixed = {} /\ FreeThread.want = <<>>
  /\ FreeThread.phase = "free" /\ FreeThread.next = 1 /\ FreeThread.awake = FALSE
  BY Stamps DEF FreeThread, ThreadState

\* A new state for thread t.
LEMMA NewState ==
  ASSUME Types, NEW t \in Threads, NEW r \in ThreadState, r.fixed \subseteq DOMAIN r.want,
         th' = [th EXCEPT ![t] = r]
  PROVE  /\ th' \in [Threads -> ThreadState]
         /\ \A u \in Threads : th'[u].fixed \subseteq DOMAIN th'[u].want
         /\ th'[t] = r /\ \A u \in Threads : u # t => th'[u] = th[u]
  BY DEF Types

\* Threads that wake up.
LEMMA Wakes ==
  ASSUME Types, NEW W,
         th' = [t \in Threads |-> IF t \in W THEN [th[t] EXCEPT !.awake = TRUE] ELSE th[t]]
  PROVE  /\ th' \in [Threads -> ThreadState]
         /\ \A t \in Threads :
              /\ th'[t].phase = th[t].phase /\ th'[t].want = th[t].want
              /\ th'[t].next = th[t].next /\ th'[t].fixed = th[t].fixed
              /\ th'[t].bank = th[t].bank
              /\ t \in W => th'[t].awake = TRUE
              /\ t \notin W => th'[t].awake = th[t].awake
              /\ th'[t].fixed \subseteq DOMAIN th'[t].want
<1>1. ASSUME NEW t \in Threads
      PROVE  /\ th'[t] \in ThreadState
             /\ th'[t].phase = th[t].phase /\ th'[t].want = th[t].want
             /\ th'[t].next = th[t].next /\ th'[t].fixed = th[t].fixed
             /\ th'[t].bank = th[t].bank
             /\ t \in W => th'[t].awake = TRUE
             /\ t \notin W => th'[t].awake = th[t].awake
  <2>1. th[t] \in ThreadState
    BY ThreadParts
  <2>2. th'[t] = IF t \in W THEN [th[t] EXCEPT !.awake = TRUE] ELSE th[t]
    OBVIOUS
  <2>3. QED BY <2>1, <2>2 DEF ThreadState
<1>2. th' \in [Threads -> ThreadState]
  BY <1>1
<1>3. QED BY <1>1, <1>2, ThreadParts

(***************************************************************************)
(* The state of a thread after each of its steps.                          *)
(***************************************************************************)
OthersStay(t) == \A u \in Threads : u # t => th'[u] = th[u]

LEMMA GoesOnIs ==
  ASSUME Types, ThreadInv, NEW t \in Threads, th[t].phase = "load", th[t].awake,
         NEW fixed \in SUBSET DOMAIN th[t].want, GoesOn(t, fixed)
  PROVE  /\ th' \in [Threads -> ThreadState] /\ OthersStay(t)
         /\ \A u \in Threads : th'[u].fixed \subseteq DOMAIN th'[u].want
         /\ th'[t].fixed = fixed /\ th'[t].want = th[t].want
         /\ ~IsLast(t) => /\ th'[t].next = th[t].next + 1 /\ th'[t].awake
                          /\ th'[t].phase = "load"
         /\ IsLast(t) => /\ th'[t].next = 1 /\ ~th'[t].awake
                         /\ th'[t].phase = IF fixed = DOMAIN th[t].want THEN "hold" ELSE "load"
<1>1. th[t] \in ThreadState /\ fixed \in SUBSET (1 .. SUB_PAGES_PER_PAGE)
  BY ThreadParts, ThreadWants
<1>2. CASE IsLast(t) /\ fixed # DOMAIN th[t].want
  <2> DEFINE r == [th[t] EXCEPT !.fixed = fixed, !.next = 1, !.awake = FALSE]
  <2>1. th' = [th EXCEPT ![t] = r]
    BY <1>2 DEF GoesOn
  <2>2. /\ r \in ThreadState /\ r.fixed = fixed /\ r.want = th[t].want /\ r.next = 1
        /\ ~r.awake /\ r.phase = "load"
    <3>1. /\ r.fixed = fixed /\ r.want = th[t].want /\ r.next = 1
          /\ r.awake = FALSE /\ r.phase = "load"
      BY <1>1 DEF ThreadState
    <3>2. 1 \in 1 .. SUB_PAGES_PER_PAGE
      BY Stamps
    <3>3. r \in ThreadState
      BY <1>1, <3>2 DEF ThreadState
    <3>4. QED BY <3>1, <3>3
  <2> HIDE DEF r
  <2>3. r.fixed \subseteq DOMAIN r.want
    BY <2>2
  <2>4. QED BY <1>2, <2>1, <2>2, <2>3, NewState DEF OthersStay
<1>4. CASE IsLast(t) /\ fixed = DOMAIN th[t].want
  <2> DEFINE r == [th[t] EXCEPT !.fixed = fixed, !.next = 1, !.awake = FALSE, !.phase = "hold"]
  <2>1. th' = [th EXCEPT ![t] = r]
    BY <1>4 DEF GoesOn
  <2>2. /\ r \in ThreadState /\ r.fixed = fixed /\ r.want = th[t].want /\ r.next = 1
        /\ ~r.awake /\ r.phase = "hold"
    <3>1. /\ r.fixed = fixed /\ r.want = th[t].want /\ r.next = 1
          /\ r.awake = FALSE /\ r.phase = "hold"
      BY <1>1 DEF ThreadState
    <3>2. 1 \in 1 .. SUB_PAGES_PER_PAGE
      BY Stamps
    <3>3. r \in ThreadState
      BY <1>1, <3>2 DEF ThreadState
    <3>4. QED BY <3>1, <3>3
  <2> HIDE DEF r
  <2>3. r.fixed \subseteq DOMAIN r.want
    BY <2>2
  <2>4. QED BY <1>4, <2>1, <2>2, <2>3, NewState DEF OthersStay
<1>3. CASE ~IsLast(t)
  <2> DEFINE r == [th[t] EXCEPT !.fixed = fixed, !.next = @ + 1]
  <2>1. th' = [th EXCEPT ![t] = r]
    BY <1>3 DEF GoesOn
  <2>2. th[t].next + 1 \in 1 .. SUB_PAGES_PER_PAGE
    BY <1>3, PageIs, ThreadWants
  <2>3. /\ r \in ThreadState /\ r.fixed = fixed /\ r.want = th[t].want
        /\ r.next = th[t].next + 1 /\ r.awake /\ r.phase = "load"
    BY <1>1, <2>2 DEF ThreadState
  <2> HIDE DEF r
  <2>4. r.fixed \subseteq DOMAIN r.want
    BY <2>3
  <2>5. QED BY <1>3, <2>1, <2>3, <2>4, NewState DEF OthersStay
<1>5. QED BY <1>2, <1>3, <1>4

LEMMA PmtLoadIs ==
  ASSUME Types, ThreadInv, NEW t \in Threads, PmtLoad(t)
  PROVE  \E fixed \in SUBSET DOMAIN th[t].want :
           /\ GoesOn(t, fixed)
           /\ fixed \in {th[t].fixed, th[t].fixed \cup {th[t].next}}
<1>1. th[t].next \in DOMAIN th[t].want /\ th[t].fixed \subseteq DOMAIN th[t].want
  BY PageIs, ThreadParts DEF PmtLoad
<1>2. GoesOn(t, th[t].fixed) \/ GoesOn(t, th[t].fixed \cup {th[t].next})
  BY DEF PmtLoad
<1>3. QED BY <1>1, <1>2

LEMMA PmtReadIs ==
  ASSUME Types, ThreadInv, NEW t \in Threads, PmtRead(t)
  PROVE  /\ th' \in [Threads -> ThreadState] /\ OthersStay(t)
         /\ \A u \in Threads : th'[u].fixed \subseteq DOMAIN th'[u].want
         /\ Loaded(cache, Page(t)) => th'[t] = FreeThread
         /\ ~Loaded(cache, Page(t)) =>
              /\ th'[t].phase = "read" /\ th'[t].want = th[t].want /\ th'[t].next = 1
              /\ th'[t].fixed = {} /\ ~th'[t].awake
<1>1. th[t].phase = "read" /\ th[t].next = 1 /\ th[t].fixed = {} /\ th[t] \in ThreadState
  BY ThreadParts DEF PmtRead, ThreadInv, ThreadOK
<1>2. CASE Loaded(cache, Page(t))
  <2>1. th' = [th EXCEPT ![t] = FreeThread]
    BY <1>2 DEF PmtRead, Types
  <2>2. QED BY <1>2, <2>1, FreeIsState, NewState DEF OthersStay
<1>3. CASE ~Loaded(cache, Page(t))
  <2> DEFINE r == [th[t] EXCEPT !.awake = FALSE]
  <2>1. th' = [th EXCEPT ![t] = r]
    BY <1>3 DEF PmtRead, Types
  <2>2. /\ r \in ThreadState /\ r.fixed = {} /\ r.want = th[t].want
        /\ r.next = 1 /\ ~r.awake /\ r.phase = "read"
    BY <1>1 DEF ThreadState
  <2> HIDE DEF r
  <2>3. QED BY <1>3, <2>1, <2>2, NewState DEF OthersStay
<1>4. QED BY <1>2, <1>3

LEMMA GetBankIs ==
  ASSUME Types, ThreadInv, NEW t \in Threads, NEW b \in Banks, GetBank(t, b)
  PROVE  /\ th' \in [Threads -> ThreadState] /\ OthersStay(t)
         /\ \A u \in Threads : th'[u].fixed \subseteq DOMAIN th'[u].want
         /\ th'[t].phase = "update" /\ th'[t].want = th[t].want
         /\ th'[t].next = th[t].next /\ th'[t].fixed = th[t].fixed
<1>1. th[t] \in ThreadState /\ th[t].fixed \subseteq DOMAIN th[t].want
  BY ThreadParts
<1> DEFINE r == [th[t] EXCEPT !.phase = "update", !.bank = b]
<1>2. th' = [th EXCEPT ![t] = r]
  BY DEF GetBank, Types
<1>3. /\ r \in ThreadState /\ r.fixed = th[t].fixed /\ r.want = th[t].want
      /\ r.next = th[t].next /\ r.phase = "update"
  BY <1>1 DEF ThreadState
<1> HIDE DEF r
<1>4. QED BY <1>1, <1>2, <1>3, NewState DEF OthersStay

LEMMA PmtUpdateIs ==
  ASSUME Types, ThreadInv, NEW t \in Threads, PmtUpdate(t)
  PROVE  /\ th' \in [Threads -> ThreadState] /\ OthersStay(t)
         /\ \A u \in Threads : th'[u].fixed \subseteq DOMAIN th'[u].want
         /\ th'[t].fixed = th[t].fixed \ {th[t].next}
         /\ ~IsLast(t) => /\ th'[t].phase = "update" /\ th'[t].want = th[t].want
                          /\ th'[t].next = th[t].next + 1 /\ th'[t].awake = th[t].awake
         /\ IsLast(t) => /\ th'[t].phase = "write" /\ th'[t].want = <<>>
                         /\ th'[t].next = 1
<1>1. th[t] \in ThreadState /\ th[t].fixed \subseteq DOMAIN th[t].want /\ th[t].phase = "update"
  BY ThreadParts DEF PmtUpdate
<1>2. th[t].fixed = th[t].next .. Len(th[t].want) /\ th[t].next \in Nat
  BY <1>1, ThreadParts DEF ThreadInv, ThreadOK
<1>3. CASE IsLast(t)
  <2> DEFINE r == [FreeThread EXCEPT !.phase = "write", !.bank = th[t].bank]
  <2>1. th' = [th EXCEPT ![t] = r]
    BY <1>3 DEF PmtUpdate, Types
  <2>2. th[t].fixed \ {th[t].next} = {}
    BY <1>1, <1>2, <1>3, PageIs
  <2>3. /\ r \in ThreadState /\ r.fixed = {} /\ r.want = <<>>
        /\ r.next = 1 /\ r.phase = "write"
    BY <1>1, FreeIsState, Stamps DEF ThreadState
  <2> HIDE DEF r
  <2>4. r.fixed \subseteq DOMAIN r.want
    BY <2>3
  <2>5. QED BY <1>3, <2>1, <2>2, <2>3, <2>4, NewState DEF OthersStay
<1>4. CASE ~IsLast(t)
  <2> DEFINE r == [th[t] EXCEPT !.next = @ + 1, !.fixed = @ \ {th[t].next}]
  <2>1. th' = [th EXCEPT ![t] = r]
    BY <1>4 DEF PmtUpdate, Types
  <2>2. th[t].next + 1 \in 1 .. SUB_PAGES_PER_PAGE
    BY <1>1, <1>4, PageIs, ThreadWants
  <2>3. /\ r \in ThreadState /\ r.fixed = th[t].fixed \ {th[t].next} /\ r.want = th[t].want
        /\ r.next = th[t].next + 1 /\ r.phase = "update" /\ r.awake = th[t].awake
    BY <1>1, <2>2 DEF ThreadState
  <2> HIDE DEF r
  <2>4. r.fixed \subseteq DOMAIN r.want
    BY <1>1, <2>3
  <2>5. QED BY <1>4, <2>1, <2>3, <2>4, NewState DEF OthersStay
<1>5. QED BY <1>3, <1>4

LEMMA EndWriteIs ==
  ASSUME Types, NEW t \in Threads, EndWrite(t)
  PROVE  /\ th' \in [Threads -> ThreadState] /\ OthersStay(t)
         /\ \A u \in Threads : th'[u].fixed \subseteq DOMAIN th'[u].want
         /\ th'[t] = FreeThread
<1>1. th' = [th EXCEPT ![t] = FreeThread]
  BY DEF EndWrite
<1>2. QED BY <1>1, FreeIsState, NewState DEF OthersStay

LEMMA AcceptIs ==
  ASSUME Types, NEW t \in Threads, NEW w \in Wants, NEW phase \in {"load", "read"},
         Accept(t, w, phase)
  PROVE  /\ th' \in [Threads -> ThreadState] /\ OthersStay(t)
         /\ \A u \in Threads : th'[u].fixed \subseteq DOMAIN th'[u].want
         /\ th'[t].phase = phase /\ th'[t].want = w /\ th'[t].next = 1
         /\ th'[t].fixed = {} /\ th'[t].awake
<1> DEFINE r == [FreeThread EXCEPT !.phase = phase, !.awake = TRUE, !.want = w]
<1>1. th' = [th EXCEPT ![t] = r]
  BY DEF Accept
<1>2. /\ r \in ThreadState /\ r.phase = phase /\ r.want = w /\ r.next = 1
      /\ r.fixed = {} /\ r.awake
  BY FreeIsState, Stamps DEF ThreadState
<1> HIDE DEF r
<1>3. QED BY <1>1, <1>2, NewState DEF OthersStay

LEMMA StartPassIs ==
  ASSUME Types, StartPass
  PROVE  /\ th' \in [Threads -> ThreadState]
         /\ \A t \in Threads :
              /\ th'[t].phase = th[t].phase /\ th'[t].want = th[t].want
              /\ th'[t].next = th[t].next /\ th'[t].fixed = th[t].fixed
              /\ th'[t].fixed \subseteq DOMAIN th'[t].want
              /\ th[t].phase # "write" => th'[t].awake = th[t].awake
<1>1. PICK done \in SUBSET (Banks \ idle) :
        th' = [t \in Threads |-> IF th[t].phase = "write" /\ th[t].bank \in done
                                 THEN [th[t] EXCEPT !.awake = TRUE] ELSE th[t]]
  BY DEF StartPass
<1> DEFINE W == {t \in Threads : th[t].phase = "write" /\ th[t].bank \in done}
<1>2. th' = [t \in Threads |-> IF t \in W THEN [th[t] EXCEPT !.awake = TRUE] ELSE th[t]]
  BY <1>1
<1>3. \A t \in W : th[t].phase = "write"
  OBVIOUS
<1> HIDE DEF W
<1>4. QED BY <1>2, <1>3, Wakes

LEMMA SleepOnIs ==
  ASSUME Types, NEW signals, SleepOn(signals)
  PROVE  /\ th' \in [Threads -> ThreadState]
         /\ \A t \in Threads :
              /\ th'[t].phase = th[t].phase /\ th'[t].want = th[t].want
              /\ th'[t].next = th[t].next /\ th'[t].fixed = th[t].fixed
              /\ th'[t].fixed \subseteq DOMAIN th'[t].want
              /\ loadedSig /\ th[t].phase \in {"load", "read"} => th'[t].awake
              /\ ~loadedSig => th'[t].awake = th[t].awake
<1> DEFINE W == {t \in Threads : loadedSig /\ th[t].phase \in {"load", "read"}}
<1>1. th' = [t \in Threads |-> IF t \in W THEN [th[t] EXCEPT !.awake = TRUE] ELSE th[t]]
  BY DEF SleepOn
<1>2. \A t \in Threads : /\ loadedSig /\ th[t].phase \in {"load", "read"} => t \in W
                         /\ ~loadedSig => t \notin W
  OBVIOUS
<1> HIDE DEF W
<1>3. \A t \in Threads : /\ t \in W => th'[t].awake = TRUE
                         /\ t \notin W => th'[t].awake = th[t].awake
  BY <1>1, Wakes
<1>4. /\ th' \in [Threads -> ThreadState]
      /\ \A t \in Threads :
              /\ th'[t].phase = th[t].phase /\ th'[t].want = th[t].want
              /\ th'[t].next = th[t].next /\ th'[t].fixed = th[t].fixed
              /\ th'[t].fixed \subseteq DOMAIN th'[t].want
  BY <1>1, Wakes
<1>5. QED BY <1>2, <1>3, <1>4

(***************************************************************************)
(* What each action does to the cache.                                     *)
(***************************************************************************)
LEMMA FinishLoadCache ==
  ASSUME Types, CacheInv(cache), BankInv, NEW b \in Banks, FinishLoad(b)
  PROVE  /\ loads[b] \in PmtPages /\ Loading(cache, loads[b])
         /\ CacheInv(cache') /\ SameBut(cache, cache', {loads[b]}) /\ Loaded(cache', loads[b])
         /\ cache'.dirty = cache.dirty /\ cache'.fixes = cache.fixes
         /\ cache'.failed = cache.failed
<1>1. loads[b] \in PmtPages
  BY DEF FinishLoad, Types
<1>2. Loading(cache, loads[b])
  <2>1. loads[b] \in {loads[c] : c \in Banks} \ {NULL_PMT_IDX}
    BY DEF FinishLoad
  <2>2. QED BY <2>1 DEF BankInv, NoMissedCompletion
<1>3. cache' = pmt_cache_set_loaded(cache, loads[b])
  BY DEF FinishLoad
<1>4. QED BY <1>1, <1>2, <1>3, SetLoaded

LEMMA GetPageCache ==
  ASSUME CacheInv(cache), NEW p \in PmtPages, cache' = get_page(cache, p)
  PROVE  /\ CacheInv(cache') /\ SameBut(cache, cache', {})
         /\ cache'.dirty = cache.dirty /\ cache'.fixes = cache.fixes
         /\ cache'.failed = cache.failed
  BY GetPage

LEMMA RequestedPage ==
  ASSUME Types, Requested
  PROVE  next_pmt_idx \in PmtPages
  BY DEF Types, Requested

LEMMA EvictCleanCache ==
  ASSUME CacheInv(cache), EvictClean
  PROVE  /\ ToFree(cache) \in SUBSET PmtPages
         /\ CacheInv(cache') /\ SameBut(cache, cache', ToFree(cache))
         /\ \A p \in ToFree(cache) :
              ~Cached(cache', p) /\ ~Loading(cache', p) /\ Loaded(cache, p) /\ p \notin cache.dirty
         /\ cache'.dirty = cache.dirty /\ cache'.fixes = cache.fixes
         /\ ToFree(cache) # {} => cache'.failed = cache.failed
         /\ ~MergeFull(Merged(cache, ToMerge(cache)))
<1>1. cache' = pmt_cache_evict(cache) /\ ~MergeFull(pmt_cache_evict(cache))
  BY DEF EvictClean
<1>2. ToFree(cache) \in SUBSET PmtPages
  BY DEF ToFree, Normal
<1>3. QED BY <1>1, <1>2, EvictFree

\* The pages that Flush writes.
Flushed == pmt_cache_evict(cache).merge

LEMMA FlushCache ==
  ASSUME CacheInv(cache), NEW b \in Banks, Flush(b)
  PROVE  /\ Flushed \in SUBSET PmtPages
         /\ CacheInv(cache') /\ SameBut(cache, cache', Flushed)
         /\ \A p \in Flushed :
              ~Cached(cache', p) /\ ~Loading(cache', p) /\ Loaded(cache, p) /\ p \in cache.dirty
         /\ cache'.dirty = cache.dirty \ Flushed /\ cache'.fixes = cache.fixes
         /\ cache'.failed = cache.failed
<1> DEFINE c == pmt_cache_evict(cache)
<1>1. MergeFull(c) /\ cache' = pmt_cache_flush(c)
  BY DEF Flush
<1>2. /\ CacheInv(c) /\ SameBut(cache, c, {})
      /\ c.dirty = cache.dirty /\ c.fixes = cache.fixes /\ c.failed = cache.failed
  BY <1>1, EvictFull
<1>3. Flushed = c.merge
  BY DEF Flushed
<1> HIDE DEF c
<1>4. /\ CacheInv(cache') /\ SameBut(c, cache', c.merge)
      /\ \A p \in c.merge : ~Cached(cache', p) /\ ~Loading(cache', p) /\ Loaded(c, p)
      /\ cache'.dirty = c.dirty \ c.merge /\ cache'.fixes = c.fixes /\ cache'.failed = c.failed
  BY <1>1, <1>2, FlushFree
<1>5. c.merge \in SUBSET PmtPages /\ c.merge \subseteq c.dirty
  BY <1>2, CacheInvParts, CacheParts
<1>6. SameBut(cache, cache', c.merge)
  BY <1>2, <1>4 DEF SameBut
<1>7. \A p \in c.merge : Loaded(cache, p) /\ p \in cache.dirty
  BY <1>2, <1>4, <1>5 DEF SameBut, Loaded
<1>8. QED BY <1>2, <1>3, <1>4, <1>5, <1>6, <1>7

LEMMA WaitToFlushCache ==
  ASSUME CacheInv(cache), WaitToFlush
  PROVE  /\ CacheInv(cache') /\ SameBut(cache, cache', {})
         /\ cache'.dirty = cache.dirty /\ cache'.fixes = cache.fixes
         /\ cache'.failed = cache.failed
<1>1. cache' = pmt_cache_evict(cache) /\ MergeFull(pmt_cache_evict(cache))
  BY DEF WaitToFlush
<1>2. QED BY <1>1, EvictFull

LEMMA RoomLeft ==
  ASSUME CacheInv(cache), ~pmt_cache_is_full(cache)
  PROVE  cache.free > 0
<1>1. cache.free \in Nat
  BY CacheInvParts, CacheParts
<1>2. QED BY <1>1 DEF pmt_cache_is_full

LEMMA LoadZerosCache ==
  ASSUME Types, CacheInv(cache), LoadZeros
  PROVE  /\ next_pmt_idx \in PmtPages /\ ~Cached(cache, next_pmt_idx)
         /\ CacheInv(cache') /\ SameBut(cache, cache', {next_pmt_idx})
         /\ Loaded(cache', next_pmt_idx)
         /\ cache'.dirty = cache.dirty /\ cache'.fixes = cache.fixes
         /\ cache'.failed = cache.failed
<1>1. /\ next_pmt_idx \in PmtPages /\ ~Cached(cache, next_pmt_idx)
      /\ ~pmt_cache_is_full(cache)
      /\ cache' = pmt_cache_set_loaded(pmt_cache_put(cache, next_pmt_idx), next_pmt_idx)
  BY RequestedPage DEF LoadZeros, Misses
<1>2. QED BY <1>1, RoomLeft, PutLoaded

LEMMA IssueLoadCache ==
  ASSUME Types, CacheInv(cache), IssueLoad
  PROVE  /\ next_pmt_idx \in PmtPages /\ ~Cached(cache, next_pmt_idx)
         /\ CacheInv(cache') /\ SameBut(cache, cache', {next_pmt_idx})
         /\ Loading(cache', next_pmt_idx) /\ Cached(cache', next_pmt_idx)
         /\ cache'.dirty = cache.dirty /\ cache'.fixes = cache.fixes
         /\ cache'.failed = cache.failed
<1> DEFINE p == next_pmt_idx
           b == gtd[p]
           c == pmt_cache_put(cache, p)
<1>1. p \in PmtPages /\ ~Cached(cache, p) /\ cache.free > 0
  BY RequestedPage, RoomLeft DEF IssueLoad, Misses
<1>2. b \in idle /\ cache' = Asserted(c, b \in idle)
  BY DEF IssueLoad, CanRead
<1>3. /\ CacheInv(c) /\ SameBut(cache, c, {p}) /\ Loading(c, p) /\ Cached(c, p)
      /\ c.dirty = cache.dirty /\ c.fixes = cache.fixes /\ c.failed = cache.failed
  BY <1>1, Put
<1>4. Asserted(c, b \in idle) = c
  <2>1. CacheTypeOK(c) /\ (b \in idle) \in BOOLEAN
    BY <1>3, CacheInvParts
  <2> HIDE DEF c
  <2>2. QED BY <1>2, <2>1, AssertedTrue
<1>5. QED BY <1>1, <1>2, <1>3, <1>4

LEMMA Constants ==
  /\ MaxAccepts \in Nat /\ MaxWanted \in Nat
  /\ Banks # {} /\ IsFiniteSet(Banks) /\ IsFiniteSet(Threads)
  /\ "cache" \notin Banks /\ NoBank \notin Banks /\ NoBank # "cache"
  /\ NULL_PMT_IDX \notin PmtPages
  BY BanksAssumption, BoundAssumption, PmtPagesAssumption DEF NoBank

(***************************************************************************)
(* The types are kept.                                                     *)
(***************************************************************************)
LEMMA TypesPmt ==
  ASSUME Types, PmtStep
  PROVE  Types'
<1> USE Constants
<1>1. ASSUME NEW b \in Banks, FinishLoad(b) PROVE Types'
  <2>1. Fetched(loads[b]) \in [PmtPages -> SUBSET (Banks \cup {"cache", NoBank})]
    BY DEF Types, Fetched
  <2>2. [loads EXCEPT ![b] = NULL_PMT_IDX] \in [Banks -> PmtPages \cup {NULL_PMT_IDX}]
    BY DEF Types
  <2>3. QED BY <1>1, <2>1, <2>2 DEF FinishLoad, Types, banks
<1>2. ASSUME NEW b \in Banks, FinishFlush(b) PROVE Types'
  BY <1>2 DEF FinishFlush, Types, banks
<1>3. ASSUME NEW b \in Banks, Flush(b) PROVE Types'
  <2>1. gtd' \in [PmtPages -> Banks \cup {NoBank}]
    BY <1>3 DEF Flush, FlushedTo, Types
  <2>2. newest' \in [PmtPages -> SUBSET (Banks \cup {"cache", NoBank})]
    BY <1>3 DEF Flush, Types
  <2>3. QED BY <1>3, <2>1, <2>2 DEF Flush, Types, Misses, Requested
<1>4. CASE BeginRequests
  BY <1>4 DEF BeginRequests, Types, thread, banks
<1>5. CASE PopRequest
  <2>1. next_pmt_idx' \in PmtPages /\ pmt_req_queue' \in Seq(PmtPages)
    BY <1>5 DEF PopRequest, Types
  <2>2. QED BY <1>5, <2>1 DEF PopRequest, Types, banks
<1>6. CASE NoMoreRequests
  <2>1. SleepOn(Unfinished) /\ Unfinished \subseteq Banks
    BY <1>6 DEF NoMoreRequests, Unfinished
  <2>2. /\ th' \in [Threads -> ThreadState]
        /\ \A t \in Threads : th'[t].fixed \subseteq DOMAIN th'[t].want
    BY <2>1, SleepOnIs
  <2>3. turn' = "threads" /\ runnable' = FALSE /\ wake' \subseteq Banks
    BY <2>1 DEF SleepOn
  <2>4. QED BY <1>6, <2>2, <2>3 DEF NoMoreRequests, Types, banks
<1>7. CASE IgnoreDuplicate
  BY <1>7 DEF IgnoreDuplicate, Types, banks
<1>8. CASE EvictClean
  <2>1. newest' \in [PmtPages -> SUBSET (Banks \cup {"cache", NoBank})]
    BY <1>8 DEF EvictClean, Gone, Types
  <2>2. QED BY <1>8, <2>1 DEF EvictClean, Types, thread, banks
<1>9. CASE WaitToFlush
  <2>1. SleepOn(Banks)
    BY <1>9 DEF WaitToFlush
  <2>2. /\ th' \in [Threads -> ThreadState]
        /\ \A t \in Threads : th'[t].fixed \subseteq DOMAIN th'[t].want
    BY <2>1, SleepOnIs
  <2>3. turn' = "threads" /\ runnable' = FALSE /\ wake' \subseteq Banks
    BY <2>1 DEF SleepOn
  <2>4. QED BY <1>9, <2>2, <2>3 DEF WaitToFlush, Types, banks
<1>10. CASE LoadZeros
  <2>1. Fetched(next_pmt_idx) \in [PmtPages -> SUBSET (Banks \cup {"cache", NoBank})]
    BY DEF Types, Fetched
  <2>2. QED BY <1>10, <2>1 DEF LoadZeros, Types, banks
<1>11. CASE IssueLoad
  <2>1. next_pmt_idx \in PmtPages
    BY <1>11, RequestedPage DEF IssueLoad, Misses
  <2>2. loads' \in [Banks -> PmtPages \cup {NULL_PMT_IDX}] /\ idle' \subseteq Banks
    BY <1>11, <2>1 DEF IssueLoad, Types
  <2>3. QED BY <1>11, <2>2 DEF IssueLoad, Types
<1>12. CASE WaitToLoad
  <2> DEFINE b == gtd[next_pmt_idx]
  <2>1. next_pmt_idx \in PmtPages
    BY <1>12, RequestedPage DEF WaitToLoad, Misses
  <2>2. SleepOn(WakeForLoad(b)) /\ b # NoBank
    BY <1>12 DEF WaitToLoad
  <2>3. b \in Banks
    BY <2>1, <2>2 DEF Types
  <2>4. WakeForLoad(b) \subseteq Banks
    BY <2>3 DEF WakeForLoad, Unfinished
  <2>5. /\ th' \in [Threads -> ThreadState]
        /\ \A t \in Threads : th'[t].fixed \subseteq DOMAIN th'[t].want
    BY <2>2, SleepOnIs
  <2>6. turn' = "threads" /\ runnable' = FALSE /\ wake' \subseteq Banks
    BY <2>2, <2>4 DEF SleepOn
  <2>7. QED BY <1>12, <2>5, <2>6 DEF WaitToLoad, Types, banks
<1>13. QED
  BY <1>1, <1>2, <1>3, <1>4, <1>5, <1>6, <1>7, <1>8, <1>9, <1>10, <1>11, <1>12 DEF PmtStep

\* A request has the type of the queue.
LEMMA RequestTypes ==
  ASSUME Types, NEW t \in Threads, NEW p \in PmtPages, Request(t, p)
  PROVE  /\ pmt_req_queue' \in Seq(PmtPages) /\ overflow' \in BOOLEAN /\ runnable' \in BOOLEAN
         /\ UNCHANGED <<next_pmt_idx, loads, flushes, buffers, wake>>
<1>1. Append(pmt_req_queue, p) \in Seq(PmtPages) /\ pmt_req_queue \in Seq(PmtPages)
  BY DEF Types
<1>2. QED BY <1>1 DEF Request, WokenBy, Types

LEMMA TypesThreads ==
  ASSUME Types, ThreadInv,
         \/ StartPass \/ EndPass
         \/ \E t \in Threads : PmtLoad(t) \/ PmtRead(t) \/ PmtUpdate(t) \/ EndWrite(t)
         \/ \E t \in Threads, b \in Banks : GetBank(t, b)
         \/ \E t \in Threads, w \in Wants, phase \in {"load", "read"} : Accept(t, w, phase)
  PROVE  Types'
<1> USE Constants
<1>1. CASE StartPass
  <2>1. /\ th' \in [Threads -> ThreadState]
        /\ \A t \in Threads : th'[t].fixed \subseteq DOMAIN th'[t].want
    BY <1>1, StartPassIs
  <2>2. complete' \subseteq Banks /\ idle' \subseteq Banks /\ turn' \in {"pmt", "threads"}
    BY <1>1 DEF StartPass, Types
  <2>3. QED BY <1>1, <2>1, <2>2 DEF StartPass, Types, thread
<1>2. CASE EndPass
  BY <1>2 DEF EndPass, Types, thread
<1>3. ASSUME NEW t \in Threads, PmtLoad(t) PROVE Types'
  <2>1. PICK fixed \in SUBSET DOMAIN th[t].want : GoesOn(t, fixed)
    BY <1>3, PmtLoadIs
  <2>2. /\ th' \in [Threads -> ThreadState]
        /\ \A u \in Threads : th'[u].fixed \subseteq DOMAIN th'[u].want
    BY <1>3, <2>1, GoesOnIs DEF PmtLoad
  <2>3. Page(t) \in PmtPages
    BY <1>3, PageIs DEF PmtLoad
  <2>4. /\ pmt_req_queue' \in Seq(PmtPages) /\ overflow' \in BOOLEAN /\ runnable' \in BOOLEAN
        /\ UNCHANGED <<next_pmt_idx, loads, flushes, buffers, wake>>
    <3>1. CASE UNCHANGED <<thread, overflow>>
      BY <3>1 DEF thread, Types
    <3>2. CASE Request(t, Page(t))
      BY <2>3, <3>2, RequestTypes
    <3>3. QED BY <1>3, <3>1, <3>2 DEF PmtLoad
  <2>5. QED BY <1>3, <2>2, <2>4 DEF PmtLoad, Types, banks
<1>4. ASSUME NEW t \in Threads, PmtRead(t) PROVE Types'
  <2>1. /\ th' \in [Threads -> ThreadState]
        /\ \A u \in Threads : th'[u].fixed \subseteq DOMAIN th'[u].want
    BY <1>4, PmtReadIs
  <2>2. Page(t) \in PmtPages
    BY <1>4, PageIs DEF PmtRead
  <2>3. /\ pmt_req_queue' \in Seq(PmtPages) /\ overflow' \in BOOLEAN /\ runnable' \in BOOLEAN
        /\ UNCHANGED <<next_pmt_idx, loads, flushes, buffers, wake>>
    BY <1>4, <2>2, RequestTypes DEF PmtRead
  <2>4. QED BY <1>4, <2>1, <2>3 DEF PmtRead, Types, banks
<1>5. ASSUME NEW t \in Threads, PmtUpdate(t) PROVE Types'
  <2>1. /\ th' \in [Threads -> ThreadState]
        /\ \A u \in Threads : th'[u].fixed \subseteq DOMAIN th'[u].want
    BY <1>5, PmtUpdateIs
  <2>2. idle' \subseteq Banks
    BY <1>5 DEF PmtUpdate, Types
  <2>3. newest' \in [PmtPages -> SUBSET (Banks \cup {"cache", NoBank})]
    BY <1>5 DEF PmtUpdate, Types
  <2>4. QED BY <1>5, <2>1, <2>2, <2>3 DEF PmtUpdate, Types, thread
<1>6. ASSUME NEW t \in Threads, EndWrite(t) PROVE Types'
  <2>1. /\ th' \in [Threads -> ThreadState]
        /\ \A u \in Threads : th'[u].fixed \subseteq DOMAIN th'[u].want
    BY <1>6, EndWriteIs
  <2>2. QED BY <1>6, <2>1 DEF EndWrite, Types, thread, banks
<1>7. ASSUME NEW t \in Threads, NEW b \in Banks, GetBank(t, b) PROVE Types'
  <2>1. /\ th' \in [Threads -> ThreadState]
        /\ \A u \in Threads : th'[u].fixed \subseteq DOMAIN th'[u].want
    BY <1>7, GetBankIs
  <2>2. QED BY <1>7, <2>1 DEF GetBank, Types, thread, banks
<1>8. ASSUME NEW t \in Threads, NEW w \in Wants, NEW phase \in {"load", "read"}, Accept(t, w, phase)
      PROVE  Types'
  <2>1. /\ th' \in [Threads -> ThreadState]
        /\ \A u \in Threads : th'[u].fixed \subseteq DOMAIN th'[u].want
    BY <1>8, AcceptIs
  <2>2. accepts' \in 0 .. MaxAccepts
    <3>1. accepts' = accepts + 1 /\ accepts < MaxAccepts
      BY <1>8 DEF Accept
    <3>2. accepts \in 0 .. MaxAccepts
      BY DEF Types
    <3>3. QED BY <3>1, <3>2
  <2>3. QED BY <1>8, <2>1, <2>2 DEF Accept, Types, thread, banks
<1>9. QED BY <1>1, <1>2, <1>3, <1>4, <1>5, <1>6, <1>7, <1>8

ThreadStep ==
    \/ StartPass \/ EndPass
    \/ \E t \in Threads : PmtLoad(t) \/ PmtRead(t) \/ PmtUpdate(t) \/ EndWrite(t)
    \/ \E t \in Threads, b \in Banks : GetBank(t, b)
    \/ \E t \in Threads, w \in Wants, phase \in {"load", "read"} : Accept(t, w, phase)

(***************************************************************************)
(* ThreadInv.                                                              *)
(***************************************************************************)

\* Outside of the threads' part of a pass, no thread is in the middle of a loop.
LEMMA ThreadAtRest ==
  ASSUME Types, ThreadInv, turn # "threads", NEW t \in Threads
  PROVE  th[t].next = 1 /\ th[t].phase # "update"
<1>1. th[t].next \in Nat /\ th[t].next > 0
  BY ThreadParts
<1>2. QED BY <1>1 DEF ThreadInv, ThreadOK

\* A thread that waits between two rounds may wake up, at any time.
LEMMA StillOK ==
  ASSUME NEW r, NEW s, NEW at, NEW next, ThreadOK(r, at), r.next = 1, r.phase # "update",
         s.phase = r.phase, s.want = r.want, s.next = r.next, s.fixed = r.fixed
  PROVE  ThreadOK(s, next)
  BY DEF ThreadOK

LEMMA ThreadInvPmt ==
  ASSUME Types, ThreadInv, PmtStep
  PROVE  ThreadInv'
<1>1. turn # "threads"
  BY DEF PmtStep, FinishLoad, FinishFlush, Flush, BeginRequests, PopRequest, NoMoreRequests,
         IgnoreDuplicate, EvictClean, WaitToFlush, LoadZeros, IssueLoad, WaitToLoad, Misses,
         Requested
<1>2. ASSUME NEW signals, SleepOn(signals) PROVE ThreadInv'
  <2>1. ASSUME NEW t \in Threads PROVE ThreadOK(th'[t], turn')
    <3>1. /\ th'[t].phase = th[t].phase /\ th'[t].want = th[t].want
          /\ th'[t].next = th[t].next /\ th'[t].fixed = th[t].fixed
      BY <1>2, SleepOnIs
    <3>2. ThreadOK(th[t], turn)
      BY DEF ThreadInv
    <3>3. th[t].next = 1 /\ th[t].phase # "update"
      BY <1>1, ThreadAtRest
    <3>4. QED BY <3>1, <3>2, <3>3, StillOK
  <2>2. QED BY <2>1 DEF ThreadInv
<1>3. CASE UNCHANGED th
  <2>1. ASSUME NEW t \in Threads PROVE ThreadOK(th'[t], turn')
    <3>1. ThreadOK(th[t], turn) /\ th'[t] = th[t]
      BY <1>3 DEF ThreadInv
    <3>2. th[t].next = 1 /\ th[t].phase # "update"
      BY <1>1, ThreadAtRest
    <3>3. QED BY <3>1, <3>2, StillOK
  <2>2. QED BY <2>1 DEF ThreadInv
<1>4. UNCHANGED th \/ \E signals : SleepOn(signals)
  BY DEF PmtStep, FinishLoad, FinishFlush, Flush, BeginRequests, PopRequest, NoMoreRequests,
         IgnoreDuplicate, EvictClean, WaitToFlush, LoadZeros, IssueLoad, WaitToLoad
<1>5. QED BY <1>2, <1>3, <1>4

LEMMA ThreadInvThreads ==
  ASSUME Types, ThreadInv, ThreadStep
  PROVE  ThreadInv'
<1>1. CASE StartPass
  <2>1. ASSUME NEW t \in Threads PROVE ThreadOK(th'[t], turn')
    <3>1. /\ th'[t].phase = th[t].phase /\ th'[t].want = th[t].want
          /\ th'[t].next = th[t].next /\ th'[t].fixed = th[t].fixed
      BY <1>1, StartPassIs
    <3>2. ThreadOK(th[t], turn)
      BY DEF ThreadInv
    <3>3. th[t].next = 1 /\ th[t].phase # "update"
      BY <1>1, ThreadAtRest DEF StartPass
    <3>4. QED BY <3>1, <3>2, <3>3, StillOK
  <2>2. QED BY <2>1 DEF ThreadInv
<1>2. CASE EndPass
  <2>1. ASSUME NEW t \in Threads PROVE ThreadOK(th'[t], turn')
    <3>1. ThreadOK(th[t], turn) /\ th'[t] = th[t] /\ ~th[t].awake /\ th[t].phase # "update"
      BY <1>2 DEF ThreadInv, EndPass
    <3>2. th[t].next = 1
      <4>1. th[t].next \in Nat /\ th[t].next > 0
        BY ThreadParts
      <4>2. QED BY <3>1, <4>1 DEF ThreadOK
    <3>3. QED BY <3>1, <3>2, StillOK
  <2>2. QED BY <2>1 DEF ThreadInv
\* A step of thread t leaves the others as they are.
<1>3. ASSUME NEW t \in Threads, OthersStay(t), turn' = turn, ThreadOK(th'[t], turn)
      PROVE  ThreadInv'
  BY <1>3 DEF ThreadInv, OthersStay
<1>4. ASSUME NEW t \in Threads, PmtLoad(t) PROVE ThreadInv'
  <2>1. PICK fixed \in SUBSET DOMAIN th[t].want : GoesOn(t, fixed)
    BY <1>4, PmtLoadIs
  <2>2. /\ OthersStay(t) /\ th'[t].fixed = fixed /\ th'[t].want = th[t].want
        /\ ~IsLast(t) => /\ th'[t].next = th[t].next + 1 /\ th'[t].awake
                         /\ th'[t].phase = "load"
        /\ IsLast(t) => /\ th'[t].next = 1
                        /\ th'[t].phase = IF fixed = DOMAIN th[t].want THEN "hold" ELSE "load"
    BY <1>4, <2>1, GoesOnIs DEF PmtLoad
  <2>3. turn' = turn /\ turn = "threads" /\ th[t].phase = "load"
    BY <1>4 DEF PmtLoad, Runs
  <2>4. /\ th[t].want \in Wants
        /\ ~IsLast(t) => th[t].next + 1 \in 1 .. Len(th[t].want) /\ Len(th[t].want) \in Nat
    BY <2>3, PageIs, ThreadWants
  <2>5. ThreadOK(th'[t], turn)
    <3>1. CASE IsLast(t)
      BY <2>2, <2>3, <2>4, <3>1 DEF ThreadOK
    <3>2. CASE ~IsLast(t)
      BY <2>2, <2>3, <2>4, <3>2 DEF ThreadOK
    <3>3. QED BY <3>1, <3>2
  <2>6. QED BY <1>3, <2>2, <2>3, <2>5
<1>5. ASSUME NEW t \in Threads, PmtRead(t) PROVE ThreadInv'
  <2>1. turn' = turn /\ OthersStay(t) /\ th[t].phase = "read" /\ ThreadOK(th[t], turn)
    BY <1>5, PmtReadIs DEF PmtRead, ThreadInv
  <2>2. CASE Loaded(cache, Page(t))
    <3>1. th'[t] = FreeThread
      BY <1>5, <2>2, PmtReadIs
    <3>2. ThreadOK(th'[t], turn)
      BY <3>1, FreeIsState DEF ThreadOK
    <3>3. QED BY <1>3, <2>1, <3>2
  <2>3. CASE ~Loaded(cache, Page(t))
    <3>1. /\ th'[t].phase = "read" /\ th'[t].want = th[t].want /\ th'[t].next = 1
          /\ th'[t].fixed = {}
      BY <1>5, <2>3, PmtReadIs
    <3>2. ThreadOK(th'[t], turn)
      BY <2>1, <3>1 DEF ThreadOK
    <3>3. QED BY <1>3, <2>1, <3>2
  <2>4. QED BY <2>2, <2>3
<1>6. ASSUME NEW t \in Threads, PmtUpdate(t) PROVE ThreadInv'
  <2>1. /\ turn' = turn /\ turn = "threads" /\ OthersStay(t) /\ th[t].phase = "update"
        /\ ThreadOK(th[t], turn)
    BY <1>6, PmtUpdateIs DEF PmtUpdate, Runs, ThreadInv
  <2>2. CASE IsLast(t)
    <3>1. th'[t].phase = "write" /\ th'[t].want = <<>> /\ th'[t].next = 1
      BY <1>6, <2>2, PmtUpdateIs
    <3>2. ThreadOK(th'[t], turn)
      BY <3>1 DEF ThreadOK
    <3>3. QED BY <1>3, <2>1, <3>2
  <2>3. CASE ~IsLast(t)
    <3>1. /\ th'[t].phase = "update" /\ th'[t].want = th[t].want
          /\ th'[t].next = th[t].next + 1 /\ th'[t].fixed = th[t].fixed \ {th[t].next}
      BY <1>6, <2>3, PmtUpdateIs
    <3>2. /\ th[t].next + 1 \in 1 .. Len(th[t].want) /\ Len(th[t].want) \in Nat
          /\ th[t].next \in Nat /\ th[t].want \in Wants
      BY <2>1, <2>3, PageIs, ThreadWants, ThreadParts
    <3>3. th[t].fixed = th[t].next .. Len(th[t].want)
      BY <2>1 DEF ThreadOK
    <3>4. th'[t].fixed = th'[t].next .. Len(th'[t].want)
      BY <3>1, <3>2, <3>3
    <3>5. ThreadOK(th'[t], turn)
      BY <2>1, <3>1, <3>2, <3>4 DEF ThreadOK
    <3>6. QED BY <1>3, <2>1, <3>5
  <2>4. QED BY <2>2, <2>3
<1>7. ASSUME NEW t \in Threads, EndWrite(t) PROVE ThreadInv'
  <2>1. turn' = turn /\ OthersStay(t) /\ th'[t] = FreeThread
    BY <1>7, EndWriteIs DEF EndWrite
  <2>2. ThreadOK(th'[t], turn)
    BY <2>1, FreeIsState DEF ThreadOK
  <2>3. QED BY <1>3, <2>1, <2>2
<1>8. ASSUME NEW t \in Threads, NEW b \in Banks, GetBank(t, b) PROVE ThreadInv'
  <2>1. /\ turn' = turn /\ turn = "threads" /\ OthersStay(t) /\ th[t].phase = "hold"
        /\ th'[t].phase = "update" /\ th'[t].want = th[t].want
        /\ th'[t].next = th[t].next /\ th'[t].fixed = th[t].fixed /\ ThreadOK(th[t], turn)
    BY <1>8, GetBankIs DEF GetBank, Runs, ThreadInv
  <2>2. /\ th[t].want \in Wants /\ th[t].fixed = DOMAIN th[t].want /\ ~(th[t].next > 1)
    BY <2>1 DEF ThreadOK
  <2>3. /\ th[t].next = 1 /\ Len(th[t].want) \in Nat /\ Len(th[t].want) > 0
        /\ DOMAIN th[t].want = 1 .. Len(th[t].want)
    BY <2>2, ThreadWants, ThreadParts
  <2>4. ThreadOK(th'[t], turn)
    BY <2>1, <2>2, <2>3 DEF ThreadOK
  <2>5. QED BY <1>3, <2>1, <2>4
<1>9. ASSUME NEW t \in Threads, NEW w \in Wants, NEW phase \in {"load", "read"}, Accept(t, w, phase)
      PROVE  ThreadInv'
  <2>1. /\ turn' = turn /\ OthersStay(t) /\ th'[t].phase = phase /\ th'[t].want = w
        /\ th'[t].next = 1 /\ th'[t].fixed = {} /\ (phase = "read" => Len(w) = 1)
    BY <1>9, AcceptIs DEF Accept
  <2>2. ThreadOK(th'[t], turn)
    BY <2>1 DEF ThreadOK
  <2>3. QED BY <1>3, <2>1, <2>2
<1>10. QED
  BY <1>1, <1>2, <1>4, <1>5, <1>6, <1>7, <1>8, <1>9 DEF ThreadStep

(***************************************************************************)
(* WantInv.                                                                *)
(***************************************************************************)
LEMMA SubPages ==
  /\ IsFiniteSet(Threads \X (1 .. SUB_PAGES_PER_PAGE))
  /\ IsFiniteSet(Wanted) /\ Cardinality(Wanted) \in Nat
  /\ \A p : IsFiniteSet(Owners(p)) /\ Cardinality(Owners(p)) \in Nat
<1> DEFINE All == Threads \X (1 .. SUB_PAGES_PER_PAGE)
<1>1. IsFiniteSet(1 .. SUB_PAGES_PER_PAGE) /\ IsFiniteSet(Threads)
  BY Stamps, FS_Interval, Constants
<1>2. IsFiniteSet(All)
  BY <1>1, FS_Product
<1>3. Wanted \in SUBSET All /\ \A p : Owners(p) \in SUBSET All
  BY DEF Wanted, Owners
<1> HIDE DEF All
<1>4. \A S \in SUBSET All : IsFiniteSet(S) /\ Cardinality(S) \in Nat
  BY <1>2, FS_Subset, FS_CardinalityType
<1>5. QED BY <1>2, <1>3, <1>4 DEF All

LEMMA WantedShrinks ==
  ASSUME WantInv, \A t \in Threads : DOMAIN th'[t].want \subseteq DOMAIN th[t].want
  PROVE  WantInv'
<1>1. Wanted' \in SUBSET Wanted
  BY DEF Wanted
<1>2. Cardinality(Wanted') \in Nat /\ Cardinality(Wanted') <= Cardinality(Wanted)
  BY <1>1, SubPages, FS_Subset, FS_CardinalityType
<1>3. QED BY <1>2, SubPages, Constants DEF WantInv

LEMMA TimesOne ==
  ASSUME NEW n \in Nat
  PROVE  1 * n = n
  OBVIOUS

LEMMA IntervalSize ==
  ASSUME NEW n \in Nat
  PROVE  IsFiniteSet(1 .. n) /\ Cardinality(1 .. n) = n
<1>1. 1 \in Int /\ n \in Int
  OBVIOUS
<1>2. IsFiniteSet(1 .. n) /\ Cardinality(1 .. n) = IF 1 > n THEN 0 ELSE n - 1 + 1
  BY <1>1, FS_Interval
<1>3. QED BY <1>2

LEMMA WantInvAccept ==
  ASSUME Types, ThreadInv, NEW t \in Threads, NEW w \in Wants, NEW phase \in {"load", "read"},
         Accept(t, w, phase)
  PROVE  WantInv'
<1> DEFINE New == {t} \X (1 .. Len(w))
<1>1. OthersStay(t) /\ th'[t].want = w
  BY AcceptIs
<1>2. Len(w) \in Nat /\ Len(w) <= SUB_PAGES_PER_PAGE /\ DOMAIN w = 1 .. Len(w)
  BY WantParts
<1>3. Wanted' \subseteq Wanted \cup New
  BY <1>1, <1>2 DEF Wanted, OthersStay
<1>4. IsFiniteSet(New) /\ Cardinality(New) = Len(w)
  <2>1. IsFiniteSet({t}) /\ Cardinality({t}) = 1
    BY FS_Singleton
  <2>2. Len(w) \in Nat
    BY <1>2
  <2>3. IsFiniteSet(1 .. Len(w)) /\ Cardinality(1 .. Len(w)) = Len(w)
    BY <2>2, IntervalSize
  <2>4. IsFiniteSet(New) /\ Cardinality(New) = 1 * Len(w)
    BY <2>1, <2>3, FS_Product
  <2>5. 1 * Len(w) = Len(w)
    BY <2>2, TimesOne
  <2>6. QED BY <2>4, <2>5
<1> HIDE DEF New
<1>5. /\ IsFiniteSet(Wanted \cup New)
      /\ Cardinality(Wanted \cup New) = Cardinality(Wanted) + Cardinality(New) - Cardinality(Wanted \cap New)
      /\ Cardinality(Wanted \cap New) \in Nat /\ Cardinality(Wanted \cup New) \in Nat
  BY <1>4, SubPages, FS_Union, FS_Intersection, FS_CardinalityType
<1>6. Cardinality(Wanted') <= Cardinality(Wanted \cup New) /\ Cardinality(Wanted') \in Nat
  BY <1>3, <1>5, FS_Subset, FS_CardinalityType
<1>7. Cardinality(Wanted) + Len(w) <= MaxWanted
  BY DEF Accept
<1>8. QED BY <1>2, <1>4, <1>5, <1>6, <1>7, SubPages, Constants DEF WantInv

LEMMA WantInvNext ==
  ASSUME Types, ThreadInv, WantInv, PmtStep \/ ThreadStep
  PROVE  WantInv'
<1>1. ASSUME NEW t \in Threads, OthersStay(t), th'[t].want = th[t].want \/ th'[t].want = <<>>
      PROVE  WantInv'
  <2>1. DOMAIN th'[t].want \subseteq DOMAIN th[t].want
    BY <1>1, WantParts
  <2>2. QED BY <1>1, <2>1, WantedShrinks DEF OthersStay
<1>2. CASE PmtStep
  <2>1. UNCHANGED th \/ \E signals : SleepOn(signals)
    BY <1>2 DEF PmtStep, FinishLoad, FinishFlush, Flush, BeginRequests, PopRequest,
         NoMoreRequests, IgnoreDuplicate, EvictClean, WaitToFlush, LoadZeros, IssueLoad, WaitToLoad
  <2>2. ASSUME NEW signals, SleepOn(signals) PROVE WantInv'
    BY <2>2, SleepOnIs, WantedShrinks
  <2>3. QED BY <2>1, <2>2, WantedShrinks
<1>3. CASE StartPass
  BY <1>3, StartPassIs, WantedShrinks
<1>4. CASE EndPass
  BY <1>4, WantedShrinks DEF EndPass
<1>5. ASSUME NEW t \in Threads, PmtLoad(t) PROVE WantInv'
  <2>1. PICK fixed \in SUBSET DOMAIN th[t].want : GoesOn(t, fixed)
    BY <1>5, PmtLoadIs
  <2>2. OthersStay(t) /\ th'[t].want = th[t].want
    BY <1>5, <2>1, GoesOnIs DEF PmtLoad
  <2>3. QED BY <1>1, <2>2
<1>6. ASSUME NEW t \in Threads, PmtRead(t) PROVE WantInv'
  <2>1. OthersStay(t) /\ (th'[t].want = th[t].want \/ th'[t].want = <<>>)
    BY <1>6, PmtReadIs, FreeIsState
  <2>2. QED BY <1>1, <2>1
<1>7. ASSUME NEW t \in Threads, PmtUpdate(t) PROVE WantInv'
  <2>1. OthersStay(t) /\ (th'[t].want = th[t].want \/ th'[t].want = <<>>)
    BY <1>7, PmtUpdateIs
  <2>2. QED BY <1>1, <2>1
<1>8. ASSUME NEW t \in Threads, EndWrite(t) PROVE WantInv'
  <2>1. OthersStay(t) /\ th'[t].want = <<>>
    BY <1>8, EndWriteIs, FreeIsState
  <2>2. QED BY <1>1, <2>1
<1>9. ASSUME NEW t \in Threads, NEW b \in Banks, GetBank(t, b) PROVE WantInv'
  <2>1. OthersStay(t) /\ th'[t].want = th[t].want
    BY <1>9, GetBankIs
  <2>2. QED BY <1>1, <2>1
<1>10. QED
  BY <1>2, <1>3, <1>4, <1>5, <1>6, <1>7, <1>8, <1>9, WantInvAccept DEF ThreadStep

(***************************************************************************)
(* FixesMatchOwners.                                                       *)
(***************************************************************************)
LEMMA OwnersStay ==
  ASSUME \A t \in Threads : /\ th'[t].fixed = th[t].fixed
                            /\ th'[t].want = th[t].want \/ th[t].fixed = {},
         cache'.fixes = cache.fixes, FixesMatchOwners
  PROVE  FixesMatchOwners'
<1>1. ASSUME NEW p PROVE Owners(p)' = Owners(p)
  <2>1. \A t \in Threads, i \in 1 .. SUB_PAGES_PER_PAGE :
          i \in th'[t].fixed /\ th'[t].want[i] = p <=> i \in th[t].fixed /\ th[t].want[i] = p
    OBVIOUS
  <2>2. QED BY <2>1 DEF Owners
<1>2. QED BY <1>1 DEF FixesMatchOwners

LEMMA PmtLoadCache ==
  ASSUME Types, ThreadInv, CacheInv(cache), NEW t \in Threads, PmtLoad(t)
  PROVE  /\ CacheInv(cache') /\ SameBut(cache, cache', {})
         /\ cache'.dirty = cache.dirty /\ cache'.failed = cache.failed
<1>1. Page(t) \in PmtPages
  BY PageIs DEF PmtLoad
<1>2. CASE cache' = cache
  BY <1>2 DEF SameBut
<1>3. CASE Loaded(cache, Page(t)) /\ cache' = pmt_cache_fix(cache, Page(t))
  BY <1>1, <1>3, Fix
<1>4. CASE cache' = get_page(cache, Page(t))
  BY <1>1, <1>4, GetPage
<1>5. QED BY <1>2, <1>3, <1>4 DEF PmtLoad

LEMMA FixesPmtLoad ==
  ASSUME Types, ThreadInv, CacheInv(cache), FixesMatchOwners, NEW t \in Threads, PmtLoad(t)
  PROVE  FixesMatchOwners'
<1> DEFINE p == Page(t)
           i == th[t].next
<1>1. p \in PmtPages /\ i \in DOMAIN th[t].want /\ i \in 1 .. SUB_PAGES_PER_PAGE
  BY PageIs, ThreadWants DEF PmtLoad
<1>2. th[t].fixed \in SUBSET DOMAIN th[t].want
  BY ThreadParts
<1>3. CASE GoesOn(t, th[t].fixed) /\ (cache' = cache \/ cache' = get_page(cache, p))
  <2>1. OthersStay(t) /\ th'[t].fixed = th[t].fixed /\ th'[t].want = th[t].want
    BY <1>2, <1>3, GoesOnIs DEF PmtLoad
  <2>2. cache'.fixes = cache.fixes
    BY <1>1, <1>3, GetPage
  <2>3. QED BY <2>1, <2>2, OwnersStay DEF OthersStay
<1>4. CASE /\ i \notin th[t].fixed /\ Loaded(cache, p)
           /\ cache' = pmt_cache_fix(cache, p) /\ GoesOn(t, th[t].fixed \cup {i})
  <2>1. cache'.fixes = [cache.fixes EXCEPT ![p] = @ + 1]
    BY <1>1, <1>4, Fix
  <2>2. th[t].fixed \cup {i} \in SUBSET DOMAIN th[t].want
    BY <1>1, <1>2
  <2>3. OthersStay(t) /\ th'[t].fixed = th[t].fixed \cup {i} /\ th'[t].want = th[t].want
    BY <1>4, <2>2, GoesOnIs DEF PmtLoad
  <2>4. p = th[t].want[i]
    BY DEF Page
  <2>5. cache.fixes \in [PmtPages -> Nat]
    BY CacheInvParts, CacheParts
  <2> HIDE DEF p, i
  <2>6. \A u \in Threads, j \in 1 .. SUB_PAGES_PER_PAGE :
          /\ j \in th'[u].fixed <=> (j \in th[u].fixed \/ (u = t /\ j = i))
          /\ th'[u].want = th[u].want
    BY <2>3 DEF OthersStay
  <2>7. ASSUME NEW q \in PmtPages PROVE cache'.fixes[q] = Cardinality(Owners(q)')
    <3>1. cache.fixes[q] = Cardinality(Owners(q))
      BY DEF FixesMatchOwners
    <3>2. CASE q = p
      <4>1. Owners(q)' = Owners(q) \cup {<<t, i>>}
        BY <1>1, <2>4, <2>6, <3>2 DEF Owners
      <4>2. <<t, i>> \notin Owners(q)
        BY <1>4 DEF Owners
      <4>3. Cardinality(Owners(q)') = Cardinality(Owners(q)) + 1
        BY <4>1, <4>2, SubPages, FS_AddElement
      <4>4. QED BY <2>1, <2>5, <3>1, <3>2, <4>3
    <3>3. CASE q # p
      <4>1. Owners(q)' = Owners(q)
        BY <1>1, <2>4, <2>6, <3>3 DEF Owners
      <4>2. QED BY <2>1, <2>5, <3>1, <3>3, <4>1
    <3>4. QED BY <3>2, <3>3
  <2>8. QED BY <2>7 DEF FixesMatchOwners
<1>5. QED BY <1>3, <1>4 DEF PmtLoad

LEMMA PmtUpdateCache ==
  ASSUME Types, ThreadInv, CacheInv(cache), FixesMatchOwners, NEW t \in Threads, PmtUpdate(t)
  PROVE  /\ Page(t) \in PmtPages /\ Loaded(cache, Page(t))
         /\ CacheInv(cache') /\ SameBut(cache, cache', {})
         /\ cache'.dirty = cache.dirty \cup {Page(t)}
         /\ cache'.fixes = [cache.fixes EXCEPT ![Page(t)] = @ - 1]
         /\ cache'.failed = cache.failed
         /\ th[t].next \in th[t].fixed /\ th[t].next \in 1 .. SUB_PAGES_PER_PAGE
<1> DEFINE p == Page(t)
           i == th[t].next
<1>1. p \in PmtPages /\ i \in DOMAIN th[t].want /\ i \in 1 .. SUB_PAGES_PER_PAGE
  BY PageIs, ThreadWants DEF PmtUpdate
<1>2. i \in th[t].fixed
  <2>1. th[t].fixed = i .. Len(th[t].want)
    BY DEF ThreadInv, ThreadOK, PmtUpdate
  <2>2. DOMAIN th[t].want = 1 .. Len(th[t].want) /\ Len(th[t].want) \in Nat
    BY ThreadWants
  <2>3. QED BY <1>1, <2>1, <2>2
<1>3. cache.fixes[p] > 0
  <2>1. <<t, i>> \in Owners(p)
    BY <1>1, <1>2 DEF Owners, Page
  <2>2. Cardinality(Owners(p)) # 0 /\ Cardinality(Owners(p)) \in Nat
    BY <2>1, SubPages, FS_EmptySet
  <2>3. cache.fixes[p] = Cardinality(Owners(p))
    BY <1>1 DEF FixesMatchOwners
  <2>4. QED BY <2>2, <2>3
<1>4. cache' = Updated(cache, p)
  BY DEF PmtUpdate, UpdateSubPage, Updated
<1>5. QED BY <1>1, <1>2, <1>3, <1>4, Update

LEMMA FixesPmtUpdate ==
  ASSUME Types, ThreadInv, CacheInv(cache), FixesMatchOwners, NEW t \in Threads, PmtUpdate(t)
  PROVE  FixesMatchOwners'
<1> DEFINE p == Page(t)
           i == th[t].next
<1>1. /\ p \in PmtPages /\ i \in th[t].fixed /\ i \in 1 .. SUB_PAGES_PER_PAGE
      /\ cache'.fixes = [cache.fixes EXCEPT ![p] = @ - 1]
  BY PmtUpdateCache
<1>2. OthersStay(t) /\ th'[t].fixed = th[t].fixed \ {i}
  BY PmtUpdateIs
<1>3. th'[t].want = th[t].want \/ th'[t].fixed = {}
  <2>1. CASE IsLast(t)
    <3>1. th[t].fixed = i .. Len(th[t].want) /\ i = Len(th[t].want)
      BY <2>1, PageIs DEF ThreadInv, ThreadOK, PmtUpdate
    <3>2. i \in Nat
      BY ThreadParts
    <3>3. QED BY <1>2, <3>1, <3>2
  <2>2. CASE ~IsLast(t)
    BY <2>2, PmtUpdateIs
  <2>3. QED BY <2>1, <2>2
<1>4. p = th[t].want[i]
  BY DEF Page
<1>5. cache.fixes \in [PmtPages -> Nat]
  BY CacheInvParts, CacheParts
<1> HIDE DEF p, i
<1>6. \A u \in Threads, j \in 1 .. SUB_PAGES_PER_PAGE :
        /\ j \in th'[u].fixed <=> (j \in th[u].fixed /\ ~(u = t /\ j = i))
        /\ j \in th'[u].fixed => th'[u].want = th[u].want
  BY <1>2, <1>3 DEF OthersStay
<1>7. ASSUME NEW q \in PmtPages PROVE cache'.fixes[q] = Cardinality(Owners(q)')
  <2>1. cache.fixes[q] = Cardinality(Owners(q))
    BY DEF FixesMatchOwners
  <2>2. CASE q = p
    <3>1. Owners(q)' = Owners(q) \ {<<t, i>>}
      BY <1>1, <1>4, <1>6, <2>2 DEF Owners
    <3>2. <<t, i>> \in Owners(q)
      BY <1>1, <1>4, <2>2 DEF Owners
    <3>3. Cardinality(Owners(q)') = Cardinality(Owners(q)) - 1
      BY <3>1, <3>2, SubPages, FS_RemoveElement
    <3>4. QED BY <1>1, <1>5, <2>1, <2>2, <3>3
  <2>3. CASE q # p
    <3>1. Owners(q)' = Owners(q)
      BY <1>1, <1>4, <1>6, <2>3 DEF Owners
    <3>2. QED BY <1>1, <1>5, <2>1, <2>3, <3>1
  <2>4. QED BY <2>2, <2>3
<1>8. QED BY <1>7 DEF FixesMatchOwners

\* The PMT thread fixes no page.
LEMMA CachePmt ==
  ASSUME Types, CacheInv(cache), BankInv, PmtStep
  PROVE  CacheInv(cache') /\ cache'.fixes = cache.fixes
<1>1. CASE cache' = cache
  BY <1>1
<1>2. CASE IgnoreDuplicate
  <2>1. next_pmt_idx \in PmtPages
    BY <1>2, RequestedPage DEF IgnoreDuplicate
  <2>2. QED BY <1>2, <2>1, GetPageCache DEF IgnoreDuplicate
<1>3. ASSUME NEW b \in Banks, FinishLoad(b) \/ FinishFlush(b) \/ Flush(b)
      PROVE  CacheInv(cache') /\ cache'.fixes = cache.fixes
  BY <1>3, FinishLoadCache, FlushCache DEF FinishFlush
<1>4. CASE EvictClean \/ WaitToFlush \/ LoadZeros \/ IssueLoad
  BY <1>4, EvictCleanCache, WaitToFlushCache, LoadZerosCache, IssueLoadCache
<1>5. CASE BeginRequests \/ PopRequest \/ NoMoreRequests \/ WaitToLoad
  BY <1>5 DEF BeginRequests, PopRequest, NoMoreRequests, WaitToLoad
<1>6. QED BY <1>2, <1>3, <1>4, <1>5 DEF PmtStep

LEMMA CacheThreads ==
  ASSUME Types, CacheInv(cache), ThreadInv, FixesMatchOwners, ThreadStep
  PROVE  CacheInv(cache')
<1>1. ASSUME NEW t \in Threads, PmtRead(t) PROVE CacheInv(cache')
  <2>1. Page(t) \in PmtPages
    BY <1>1, PageIs DEF PmtRead
  <2>2. QED BY <1>1, <2>1, GetPageCache DEF PmtRead
<1>2. ASSUME NEW t \in Threads, PmtLoad(t) \/ PmtUpdate(t) PROVE CacheInv(cache')
  BY <1>2, PmtLoadCache, PmtUpdateCache
<1>3. ThreadStep => \/ cache' = cache
                    \/ \E t \in Threads : PmtRead(t) \/ PmtLoad(t) \/ PmtUpdate(t)
  BY DEF ThreadStep, StartPass, EndPass, EndWrite, GetBank, Accept
<1>4. QED BY <1>1, <1>2, <1>3

LEMMA FixesNext ==
  ASSUME Types, CacheInv(cache), ThreadInv, BankInv, FixesMatchOwners, PmtStep \/ ThreadStep
  PROVE  FixesMatchOwners'
<1>1. CASE PmtStep
  <2>1. UNCHANGED th \/ \E signals : SleepOn(signals)
    BY <1>1 DEF PmtStep, FinishLoad, FinishFlush, Flush, BeginRequests, PopRequest,
         NoMoreRequests, IgnoreDuplicate, EvictClean, WaitToFlush, LoadZeros, IssueLoad, WaitToLoad
  <2>2. \A t \in Threads : th'[t].fixed = th[t].fixed /\ th'[t].want = th[t].want
    BY <2>1, SleepOnIs
  <2>3. QED BY <1>1, <2>2, CachePmt, OwnersStay
<1>2. CASE StartPass
  <2>1. \A t \in Threads : th'[t].fixed = th[t].fixed /\ th'[t].want = th[t].want
    BY <1>2, StartPassIs
  <2>2. QED BY <1>2, <2>1, OwnersStay DEF StartPass
<1>3. CASE EndPass
  BY <1>3, OwnersStay DEF EndPass
<1>4. ASSUME NEW t \in Threads, PmtRead(t) PROVE FixesMatchOwners'
  <2>1. OthersStay(t) /\ th[t].fixed = {} /\ th'[t].fixed = {}
    BY <1>4, PmtReadIs, FreeIsState DEF PmtRead, ThreadInv, ThreadOK
  <2>2. Page(t) \in PmtPages
    BY <1>4, PageIs DEF PmtRead
  <2>3. cache'.fixes = cache.fixes
    BY <1>4, <2>2, GetPageCache DEF PmtRead
  <2>4. QED BY <2>1, <2>3, OwnersStay DEF OthersStay
<1>5. ASSUME NEW t \in Threads, EndWrite(t) \/ \E w \in Wants, phase \in {"load", "read"} : Accept(t, w, phase)
      PROVE FixesMatchOwners'
  <2>1. th[t].want = <<>> /\ cache' = cache
    BY <1>5 DEF EndWrite, Accept, ThreadInv, ThreadOK
  <2>2. th[t].fixed = {}
    BY <2>1, ThreadParts, ThreadWants
  <2>3. OthersStay(t) /\ th'[t].fixed = {}
    BY <1>5, EndWriteIs, AcceptIs, FreeIsState
  <2>4. QED BY <2>1, <2>2, <2>3, OwnersStay DEF OthersStay
<1>6. ASSUME NEW t \in Threads, NEW b \in Banks, GetBank(t, b) PROVE FixesMatchOwners'
  <2>1. OthersStay(t) /\ th'[t].fixed = th[t].fixed /\ th'[t].want = th[t].want
    BY <1>6, GetBankIs
  <2>2. QED BY <1>6, <2>1, OwnersStay DEF OthersStay, GetBank
<1>7. QED
  BY <1>1, <1>2, <1>3, <1>4, <1>5, <1>6, FixesPmtLoad, FixesPmtUpdate DEF ThreadStep

(***************************************************************************)
(* NewestInv.                                                              *)
(***************************************************************************)
LEMMA NewestStays ==
  ASSUME NewestInv, SameBut(cache, cache', {}), cache'.dirty = cache.dirty,
         UNCHANGED <<gtd, newest>>
  PROVE  NewestInv'
<1>1. ASSUME NEW p \in PmtPages PROVE Loaded(cache', p) <=> Loaded(cache, p)
  BY DEF SameBut, Loaded
<1>2. QED BY <1>1 DEF NewestInv

\* The page p is loaded, or begins to be.
LEMMA NewestFetched ==
  ASSUME Types, CacheInv(cache), NewestInv, NEW p \in PmtPages, ~Loaded(cache, p),
         SameBut(cache, cache', {p}), cache'.dirty = cache.dirty, gtd' = gtd,
         newest' = Fetched(p)
  PROVE  NewestInv'
<1>1. p \notin cache.dirty
  BY CacheInvParts
<1>2. gtd[p] \in newest[p]
  BY DEF NewestInv
<1>3. newest' = [newest EXCEPT ![p] = newest[p] \cup {"cache"}] /\ newest \in [PmtPages -> SUBSET (Banks \cup {"cache", NoBank})]
  BY <1>2 DEF Fetched, Types
<1>4. ASSUME NEW q \in PmtPages
      PROVE  /\ Loaded(cache', q) => "cache" \in newest'[q]
             /\ ~Loaded(cache', q) \/ q \notin cache'.dirty => gtd'[q] \in newest'[q]
  <2>1. CASE q = p
    BY <1>2, <1>3, <2>1
  <2>2. CASE q # p
    <3>1. newest'[q] = newest[q] /\ (Loaded(cache', q) <=> Loaded(cache, q))
      BY <1>3, <2>2 DEF SameBut, Loaded
    <3>2. QED BY <3>1 DEF NewestInv
  <2>3. QED BY <2>1, <2>2
<1>5. QED BY <1>4 DEF NewestInv

LEMMA NewestPmt ==
  ASSUME Types, CacheInv(cache), BankInv, NewestInv, PmtStep
  PROVE  NewestInv'
<1>1. ASSUME cache' = cache, UNCHANGED <<gtd, newest>> PROVE NewestInv'
  BY <1>1, NewestStays DEF SameBut
<1>2. ASSUME NEW b \in Banks, FinishLoad(b) PROVE NewestInv'
  <2>1. ~Loaded(cache, loads[b])
    BY <1>2, FinishLoadCache DEF Loaded
  <2>2. QED BY <1>2, <2>1, FinishLoadCache, NewestFetched DEF FinishLoad
<1>3. ASSUME NEW b \in Banks, Flush(b) PROVE NewestInv'
  <2>1. /\ Flushed \in SUBSET PmtPages /\ SameBut(cache, cache', Flushed)
        /\ \A p \in Flushed : ~Loaded(cache', p) /\ Loaded(cache, p)
        /\ cache'.dirty = cache.dirty \ Flushed
    BY <1>3, FlushCache DEF Loaded
  <2>2. /\ gtd' = FlushedTo(Flushed, b)
        /\ newest' = [p \in PmtPages |-> IF p \notin Flushed THEN newest[p]
                                         ELSE IF "cache" \in newest[p] THEN {b} ELSE {}]
    BY <1>3 DEF Flush, Flushed
  <2>3. ASSUME NEW p \in PmtPages
        PROVE  /\ Loaded(cache', p) => "cache" \in newest'[p]
               /\ ~Loaded(cache', p) \/ p \notin cache'.dirty => gtd'[p] \in newest'[p]
    <3>1. CASE p \in Flushed
      <4>1. "cache" \in newest[p] /\ ~Loaded(cache', p)
        BY <2>1, <3>1 DEF NewestInv
      <4>2. gtd'[p] = b /\ newest'[p] = {b}
        BY <2>2, <3>1, <4>1 DEF FlushedTo
      <4>3. QED BY <4>1, <4>2
    <3>2. CASE p \notin Flushed
      <4>1. gtd'[p] = gtd[p] /\ newest'[p] = newest[p]
        BY <2>2, <3>2 DEF FlushedTo
      <4>2. /\ Loaded(cache', p) <=> Loaded(cache, p)
            /\ p \in cache'.dirty <=> p \in cache.dirty
        BY <2>1, <3>2 DEF SameBut, Loaded
      <4>3. QED BY <4>1, <4>2 DEF NewestInv
    <3>3. QED BY <3>1, <3>2
  <2>4. QED BY <2>3 DEF NewestInv
<1>4. CASE IgnoreDuplicate
  <2>1. next_pmt_idx \in PmtPages
    BY <1>4, RequestedPage DEF IgnoreDuplicate
  <2>2. QED BY <1>4, <2>1, GetPageCache, NewestStays DEF IgnoreDuplicate
<1>5. CASE EvictClean
  <2>1. /\ ToFree(cache) \in SUBSET PmtPages /\ SameBut(cache, cache', ToFree(cache))
        /\ \A p \in ToFree(cache) : ~Loaded(cache', p) /\ p \notin cache.dirty
        /\ cache'.dirty = cache.dirty
    BY <1>5, EvictCleanCache DEF Loaded
  <2>2. gtd' = gtd /\ newest' = Gone(ToFree(cache))
    BY <1>5 DEF EvictClean
  <2>3. ASSUME NEW p \in PmtPages
        PROVE  /\ Loaded(cache', p) => "cache" \in newest'[p]
               /\ ~Loaded(cache', p) \/ p \notin cache'.dirty => gtd'[p] \in newest'[p]
    <3>1. CASE p \in ToFree(cache)
      <4>1. gtd[p] \in newest[p] /\ ~Loaded(cache', p)
        BY <2>1, <3>1 DEF NewestInv
      <4>2. gtd[p] # "cache"
        BY Constants DEF Types
      <4>3. gtd'[p] \in newest'[p]
        BY <2>2, <3>1, <4>1, <4>2 DEF Gone
      <4>4. QED BY <4>1, <4>3
    <3>2. CASE p \notin ToFree(cache)
      <4>1. gtd'[p] = gtd[p] /\ newest'[p] = newest[p]
        BY <2>2, <3>2 DEF Gone
      <4>2. Loaded(cache', p) <=> Loaded(cache, p)
        BY <2>1, <3>2 DEF SameBut, Loaded
      <4>3. QED BY <2>1, <4>1, <4>2 DEF NewestInv
    <3>3. QED BY <3>1, <3>2
  <2>4. QED BY <2>3 DEF NewestInv
<1>6. CASE WaitToFlush
  BY <1>6, WaitToFlushCache, NewestStays DEF WaitToFlush
<1>7. CASE LoadZeros
  <2>1. ~Loaded(cache, next_pmt_idx)
    BY <1>7, LoadZerosCache DEF Loaded
  <2>2. QED BY <1>7, <2>1, LoadZerosCache, NewestFetched DEF LoadZeros
<1>8. CASE IssueLoad
  <2>1. /\ next_pmt_idx \in PmtPages /\ SameBut(cache, cache', {next_pmt_idx})
        /\ cache'.dirty = cache.dirty
        /\ ~Loaded(cache, next_pmt_idx) /\ ~Loaded(cache', next_pmt_idx)
    BY <1>8, IssueLoadCache DEF Loaded
  <2>2. \A p \in PmtPages : Loaded(cache', p) <=> Loaded(cache, p)
    BY <2>1 DEF SameBut, Loaded
  <2>3. QED BY <1>8, <2>1, <2>2 DEF NewestInv, IssueLoad
<1>9. CASE WaitToLoad
  BY <1>1, <1>9 DEF WaitToLoad
<1>10. CASE BeginRequests \/ PopRequest \/ NoMoreRequests
  BY <1>1, <1>10 DEF BeginRequests, PopRequest, NoMoreRequests
<1>11. ASSUME NEW b \in Banks, FinishFlush(b) PROVE NewestInv'
  BY <1>1, <1>11 DEF FinishFlush
<1>12. QED
  BY <1>2, <1>3, <1>4, <1>5, <1>6, <1>7, <1>8, <1>9, <1>10, <1>11 DEF PmtStep

LEMMA NewestThreads ==
  ASSUME Types, CacheInv(cache), ThreadInv, FixesMatchOwners, NewestInv, ThreadStep
  PROVE  NewestInv'
<1>1. ASSUME NEW t \in Threads, PmtLoad(t) PROVE NewestInv'
  BY <1>1, PmtLoadCache, NewestStays DEF PmtLoad
<1>2. ASSUME NEW t \in Threads, PmtRead(t) PROVE NewestInv'
  <2>1. Page(t) \in PmtPages
    BY <1>2, PageIs DEF PmtRead
  <2>2. QED BY <1>2, <2>1, GetPageCache, NewestStays DEF PmtRead
<1>3. ASSUME NEW t \in Threads, PmtUpdate(t) PROVE NewestInv'
  <2>1. /\ Page(t) \in PmtPages /\ Loaded(cache, Page(t)) /\ SameBut(cache, cache', {})
        /\ cache'.dirty = cache.dirty \cup {Page(t)}
    BY <1>3, PmtUpdateCache
  <2>2. newest' = [newest EXCEPT ![Page(t)] = {"cache"}] /\ gtd' = gtd
    BY <1>3 DEF PmtUpdate
  <2>3. ASSUME NEW p \in PmtPages
        PROVE  /\ Loaded(cache', p) => "cache" \in newest'[p]
               /\ ~Loaded(cache', p) \/ p \notin cache'.dirty => gtd'[p] \in newest'[p]
    <3>1. Loaded(cache', p) <=> Loaded(cache, p)
      BY <2>1 DEF SameBut, Loaded
    <3>2. CASE p = Page(t)
      BY <2>1, <2>2, <3>1, <3>2 DEF Types
    <3>3. CASE p # Page(t)
      <4>1. newest'[p] = newest[p]
        BY <2>1, <2>2, <3>3 DEF Types
      <4>2. p \in cache'.dirty <=> p \in cache.dirty
        BY <2>1, <3>3
      <4>3. QED BY <2>2, <3>1, <4>1, <4>2 DEF NewestInv
    <3>4. QED BY <3>2, <3>3
  <2>4. QED BY <2>3 DEF NewestInv
<1>4. CASE UNCHANGED <<cache, gtd, newest>>
  BY <1>4, NewestStays DEF SameBut
<1>5. QED
  BY <1>1, <1>2, <1>3, <1>4 DEF ThreadStep, StartPass, EndPass, EndWrite, GetBank, Accept

(***************************************************************************)
(* BankInv, in three parts: what is loaded and flushed where; the count of *)
(* the buffers; and the wake-up signals.                                   *)
(***************************************************************************)
LoadsInv ==
    /\ \A b, c \in Banks : loads[b] = loads[c] /\ loads[b] # NULL_PMT_IDX => b = c
    /\ \A b \in flushes : loads[b] = NULL_PMT_IDX
    /\ {p \in PmtPages : Loading(cache, p)} = {loads[b] : b \in Banks} \ {NULL_PMT_IDX}

LoadingBanks == {b \in Banks : loads[b] # NULL_PMT_IDX}

CountInv == buffers = Cardinality(LoadingBanks) + Cardinality(flushes)

WakeInv ==
    /\ turn = "pmt" => Unfinished \cap idle \subseteq complete
    /\ turn \in {"pass", "threads"} => \A b \in Unfinished : b \in wake /\ b \notin idle
    /\ turn # "pmt" => Unfinished \cap idle = {}

LEMMA BankParts == BankInv <=> LoadsInv /\ CountInv /\ WakeInv
  BY Zenon DEF BankInv, NoMissedCompletion, LoadsInv, CountInv, WakeInv, LoadingBanks

LEMMA BankPartsNext == LoadsInv' /\ CountInv' /\ WakeInv' => BankInv'
  BY Zenon DEF BankInv, NoMissedCompletion, LoadsInv, CountInv, WakeInv, LoadingBanks

\* The steps of the scheduler and the threads.
LEMMA ThreadsFrame ==
  ASSUME Types, CacheInv(cache), ThreadInv, FixesMatchOwners, ThreadStep
  PROVE  /\ UNCHANGED <<loads, flushes, buffers, wake, next_pmt_idx, gtd>>
         /\ SameBut(cache, cache', {})
<1>1. ASSUME NEW t \in Threads, PmtLoad(t)
      PROVE  /\ UNCHANGED <<loads, flushes, buffers, wake, next_pmt_idx, gtd>>
             /\ SameBut(cache, cache', {})
  <2>1. UNCHANGED <<loads, flushes, buffers, wake, next_pmt_idx, gtd>>
    BY <1>1 DEF PmtLoad, Request, thread
  <2>2. QED BY <1>1, <2>1, PmtLoadCache
<1>2. ASSUME NEW t \in Threads, PmtRead(t)
      PROVE  /\ UNCHANGED <<loads, flushes, buffers, wake, next_pmt_idx, gtd>>
             /\ SameBut(cache, cache', {})
  <2>1. UNCHANGED <<loads, flushes, buffers, wake, next_pmt_idx, gtd>>
    BY <1>2 DEF PmtRead, Request
  <2>2. Page(t) \in PmtPages
    BY <1>2, PageIs DEF PmtRead
  <2>3. QED BY <1>2, <2>1, <2>2, GetPageCache DEF PmtRead
<1>3. ASSUME NEW t \in Threads, PmtUpdate(t)
      PROVE  /\ UNCHANGED <<loads, flushes, buffers, wake, next_pmt_idx, gtd>>
             /\ SameBut(cache, cache', {})
  <2>1. UNCHANGED <<loads, flushes, buffers, wake, next_pmt_idx, gtd>>
    BY <1>3 DEF PmtUpdate, thread
  <2>2. QED BY <1>3, <2>1, PmtUpdateCache
<1>4. CASE UNCHANGED <<cache, gtd, thread>>
  BY <1>4 DEF SameBut, thread
<1>5. QED
  BY <1>1, <1>2, <1>3, <1>4 DEF ThreadStep, StartPass, EndPass, EndWrite, GetBank, Accept

(***************************************************************************)
(* LoadsInv.                                                               *)
(***************************************************************************)
LEMMA LoadsStay ==
  ASSUME LoadsInv, \A p \in PmtPages : Loading(cache', p) <=> Loading(cache, p),
         loads' = loads, flushes' \subseteq flushes
  PROVE  LoadsInv'
<1>1. {p \in PmtPages : Loading(cache', p)} = {p \in PmtPages : Loading(cache, p)}
  OBVIOUS
<1>2. QED BY <1>1 DEF LoadsInv

\* A bank that is not idle has no command of the PMT thread.
LEMMA IdleIsFree ==
  ASSUME Types, WakeInv, turn = "requests", NEW b \in idle
  PROVE  b \in Banks /\ loads[b] = NULL_PMT_IDX /\ b \notin flushes
  BY DEF Types, WakeInv, Unfinished

LEMMA LoadsPmt ==
  ASSUME Types, CacheInv(cache), BankInv, PmtStep
  PROVE  LoadsInv'
<1>1. LoadsInv /\ WakeInv
  BY BankParts
<1>2. ASSUME NEW b \in Banks, FinishLoad(b) PROVE LoadsInv'
  <2> DEFINE p == loads[b]
  <2>1. /\ p \in PmtPages /\ SameBut(cache, cache', {p}) /\ ~Loading(cache', p)
    BY <1>2, FinishLoadCache DEF Loaded
  <2>2. /\ loads' = [loads EXCEPT ![b] = NULL_PMT_IDX] /\ flushes' = flushes
        /\ p # NULL_PMT_IDX /\ loads \in [Banks -> PmtPages \cup {NULL_PMT_IDX}]
    BY <1>2 DEF FinishLoad, Types
  <2>3. \A c \in Banks : loads'[c] = (IF c = b THEN NULL_PMT_IDX ELSE loads[c])
    BY <2>2
  <2>4. {q \in PmtPages : Loading(cache', q)} = {q \in PmtPages : Loading(cache, q)} \ {p}
    BY <2>1 DEF SameBut
  <2>5. {loads'[c] : c \in Banks} \ {NULL_PMT_IDX} = ({loads[c] : c \in Banks} \ {NULL_PMT_IDX}) \ {p}
    <3>1. \A c \in Banks : loads'[c] # NULL_PMT_IDX <=> loads[c] # NULL_PMT_IDX /\ loads[c] # p
      BY <1>1, <2>2, <2>3 DEF LoadsInv
    <3>2. \A c \in Banks : loads'[c] # NULL_PMT_IDX => loads'[c] = loads[c]
      BY <2>3
    <3> HIDE DEF p
    <3>3. ASSUME NEW q
          PROVE  (\E c \in Banks : loads'[c] = q) /\ q # NULL_PMT_IDX
                   <=> (\E c \in Banks : loads[c] = q) /\ q # NULL_PMT_IDX /\ q # p
      BY <3>1, <3>2
    <3>4. QED BY <3>3
  <2>6. \A c \in flushes' : loads'[c] = NULL_PMT_IDX
    BY <1>1, <2>2, <2>3 DEF LoadsInv, Types
  <2>7. \A c, d \in Banks : loads'[c] = loads'[d] /\ loads'[c] # NULL_PMT_IDX => c = d
    BY <1>1, <2>3 DEF LoadsInv
  <2>8. QED BY <1>1, <2>4, <2>5, <2>6, <2>7 DEF LoadsInv
<1>3. ASSUME NEW b \in Banks, Flush(b) PROVE LoadsInv'
  <2>1. \A p \in PmtPages : Loading(cache', p) <=> Loading(cache, p)
    BY <1>3, FlushCache DEF SameBut, Loaded
  <2>2. {p \in PmtPages : Loading(cache', p)} = {p \in PmtPages : Loading(cache, p)}
    BY <2>1
  <2>3. loads[b] = NULL_PMT_IDX /\ loads' = loads /\ flushes' = flushes \cup {b}
    BY <1>1, <1>3, IdleIsFree DEF Flush, Misses, Requested
  <2>4. QED BY <1>1, <2>2, <2>3 DEF LoadsInv
<1>4. CASE IgnoreDuplicate
  <2>1. next_pmt_idx \in PmtPages
    BY <1>4, RequestedPage DEF IgnoreDuplicate
  <2>2. SameBut(cache, cache', {})
    BY <1>4, <2>1, GetPageCache DEF IgnoreDuplicate
  <2>3. QED BY <1>1, <1>4, <2>2, LoadsStay DEF IgnoreDuplicate, SameBut
<1>5. CASE EvictClean
  <2>1. \A p \in PmtPages : Loading(cache', p) <=> Loading(cache, p)
    BY <1>5, EvictCleanCache DEF SameBut, Loaded
  <2>2. QED BY <1>1, <1>5, <2>1, LoadsStay DEF EvictClean, thread
<1>6. CASE WaitToFlush
  <2>1. \A p \in PmtPages : Loading(cache', p) <=> Loading(cache, p)
    BY <1>6, WaitToFlushCache DEF SameBut
  <2>2. QED BY <1>1, <1>6, <2>1, LoadsStay DEF WaitToFlush
<1>7. CASE LoadZeros
  <2>1. /\ next_pmt_idx \in PmtPages /\ ~Cached(cache, next_pmt_idx)
        /\ SameBut(cache, cache', {next_pmt_idx}) /\ ~Loading(cache', next_pmt_idx)
    BY <1>7, LoadZerosCache DEF Loaded
  <2>2. ~Loading(cache, next_pmt_idx)
    BY <2>1, CacheInvParts, Marks, Stamps
  <2>3. \A p \in PmtPages : Loading(cache', p) <=> Loading(cache, p)
    BY <2>1, <2>2 DEF SameBut
  <2>4. QED BY <1>1, <1>7, <2>3, LoadsStay DEF LoadZeros
<1>8. CASE IssueLoad
  <2> DEFINE p == next_pmt_idx
             b == gtd[p]
  <2>1. /\ p \in PmtPages /\ ~Cached(cache, p) /\ SameBut(cache, cache', {p}) /\ Loading(cache', p)
    BY <1>8, IssueLoadCache
  <2>2. ~Loading(cache, p)
    BY <2>1, CacheInvParts, Marks, Stamps
  <2>3. /\ b \in idle /\ turn = "requests"
        /\ loads' = [loads EXCEPT ![b] = p] /\ flushes' = flushes
    BY <1>8 DEF IssueLoad, CanRead, Misses, Requested
  <2>4. b \in Banks /\ loads[b] = NULL_PMT_IDX /\ b \notin flushes
    BY <1>1, <2>3, IdleIsFree
  <2>5. \A c \in Banks : loads[c] # p
    BY <1>1, <2>1, <2>2, Constants DEF LoadsInv
  <2> HIDE DEF b, p
  <2>6. \A c \in Banks : loads'[c] = (IF c = b THEN p ELSE loads[c])
    BY <2>3, <2>4 DEF Types
  <2>7. {q \in PmtPages : Loading(cache', q)} = {q \in PmtPages : Loading(cache, q)} \cup {p}
    BY <2>1 DEF SameBut
  <2>8. {loads'[c] : c \in Banks} \ {NULL_PMT_IDX} = ({loads[c] : c \in Banks} \ {NULL_PMT_IDX}) \cup {p}
    <3>1. p # NULL_PMT_IDX
      BY <2>1, Constants
    <3>2. ASSUME NEW q
          PROVE  (\E c \in Banks : loads'[c] = q) /\ q # NULL_PMT_IDX
                   <=> ((\E c \in Banks : loads[c] = q) /\ q # NULL_PMT_IDX) \/ q = p
      <4>1. CASE q = p
        BY <2>4, <2>6, <3>1, <4>1
      <4>2. CASE q # p
        BY <2>4, <2>6, <4>2
      <4>3. QED BY <4>1, <4>2
    <3>3. QED BY <3>2
  <2>9. \A c \in flushes' : loads'[c] = NULL_PMT_IDX
    BY <1>1, <2>3, <2>4, <2>6 DEF LoadsInv, Types
  <2>10. \A c, d \in Banks : loads'[c] = loads'[d] /\ loads'[c] # NULL_PMT_IDX => c = d
    BY <1>1, <2>5, <2>6 DEF LoadsInv
  <2>11. QED BY <1>1, <2>7, <2>8, <2>9, <2>10 DEF LoadsInv
<1>9. CASE BeginRequests \/ PopRequest \/ NoMoreRequests \/ WaitToLoad
  BY <1>1, <1>9, LoadsStay DEF BeginRequests, PopRequest, NoMoreRequests, WaitToLoad, thread
<1>10. ASSUME NEW b \in Banks, FinishFlush(b) PROVE LoadsInv'
  BY <1>1, <1>10, LoadsStay DEF FinishFlush
<1>11. QED
  BY <1>2, <1>3, <1>4, <1>5, <1>6, <1>7, <1>8, <1>9, <1>10 DEF PmtStep

(***************************************************************************)
(* CountInv.                                                               *)
(***************************************************************************)
LEMMA BankSets ==
  ASSUME Types
  PROVE  /\ IsFiniteSet(LoadingBanks) /\ Cardinality(LoadingBanks) \in Nat
         /\ IsFiniteSet(flushes) /\ Cardinality(flushes) \in Nat
         /\ IsFiniteSet(Banks) /\ Cardinality(Banks) \in Nat
<1>1. LoadingBanks \in SUBSET Banks /\ flushes \in SUBSET Banks
  BY DEF LoadingBanks, Types
<1>2. QED BY <1>1, Constants, FS_Subset, FS_CardinalityType

LEMMA CountPmt ==
  ASSUME Types, BankInv, PmtStep
  PROVE  CountInv'
<1>1. CountInv /\ WakeInv /\ LoadsInv
  BY BankParts
<1>2. ASSUME NEW b \in Banks, FinishLoad(b) PROVE CountInv'
  <2>1. /\ b \in LoadingBanks /\ flushes' = flushes /\ buffers' = buffers - 1
        /\ loads' = [loads EXCEPT ![b] = NULL_PMT_IDX]
    BY <1>2 DEF FinishLoad, LoadingBanks, buffer_free
  <2>2. LoadingBanks' = LoadingBanks \ {b}
    BY <2>1 DEF LoadingBanks, Types
  <2>3. Cardinality(LoadingBanks') = Cardinality(LoadingBanks) - 1
    BY <2>1, <2>2, BankSets, FS_RemoveElement
  <2>4. QED BY <1>1, <2>1, <2>3, BankSets DEF CountInv
<1>3. ASSUME NEW b \in Banks, FinishFlush(b) PROVE CountInv'
  <2>1. /\ b \in flushes /\ flushes' = flushes \ {b} /\ buffers' = buffers - 1
        /\ loads' = loads
    BY <1>3 DEF FinishFlush, buffer_free
  <2>2. LoadingBanks' = LoadingBanks
    BY <2>1 DEF LoadingBanks
  <2>3. Cardinality(flushes') = Cardinality(flushes) - 1
    BY <2>1, BankSets, FS_RemoveElement
  <2>4. QED BY <1>1, <2>1, <2>2, <2>3, BankSets DEF CountInv
<1>4. ASSUME NEW b \in Banks, Flush(b) PROVE CountInv'
  <2>1. /\ b \notin flushes /\ flushes' = flushes \cup {b} /\ buffers' = buffers + 1
        /\ loads' = loads
    BY <1>1, <1>4, IdleIsFree DEF Flush, Misses, Requested
  <2>2. LoadingBanks' = LoadingBanks
    BY <2>1 DEF LoadingBanks
  <2>3. Cardinality(flushes') = Cardinality(flushes) + 1
    BY <2>1, BankSets, FS_AddElement
  <2>4. QED BY <1>1, <2>1, <2>2, <2>3, BankSets DEF CountInv
<1>5. CASE IssueLoad
  <2> DEFINE p == next_pmt_idx
             b == gtd[p]
  <2>1. /\ b \in idle /\ turn = "requests" /\ buffers' = buffers + 1 /\ p # NULL_PMT_IDX
        /\ loads' = [loads EXCEPT ![b] = p] /\ flushes' = flushes
    BY <1>5 DEF IssueLoad, CanRead, Misses, Requested
  <2>2. b \in Banks /\ b \notin LoadingBanks
    BY <1>1, <2>1, IdleIsFree DEF LoadingBanks
  <2> HIDE DEF b, p
  <2>3. LoadingBanks' = LoadingBanks \cup {b}
    BY <2>1, <2>2 DEF LoadingBanks, Types
  <2>4. Cardinality(LoadingBanks') = Cardinality(LoadingBanks) + 1
    BY <2>2, <2>3, BankSets, FS_AddElement
  <2>5. QED BY <1>1, <2>1, <2>4, BankSets DEF CountInv
<1>6. CASE UNCHANGED <<loads, flushes, buffers>>
  BY <1>1, <1>6 DEF CountInv, LoadingBanks
<1>7. QED
  BY <1>2, <1>3, <1>4, <1>5, <1>6 DEF PmtStep, BeginRequests, PopRequest, NoMoreRequests,
     IgnoreDuplicate, EvictClean, WaitToFlush, LoadZeros, WaitToLoad, thread

(***************************************************************************)
(* WakeInv.                                                                *)
(***************************************************************************)
LEMMA WakePmt ==
  ASSUME Types, BankInv, PmtStep
  PROVE  WakeInv'
<1>1. WakeInv /\ LoadsInv
  BY BankParts
<1>2. ASSUME UNCHANGED <<turn, wake, idle, complete>>, Unfinished' \subseteq Unfinished
      PROVE  WakeInv'
  BY <1>1, <1>2 DEF WakeInv
<1>3. ASSUME NEW b \in Banks, FinishLoad(b) PROVE WakeInv'
  <2>1. /\ UNCHANGED <<turn, wake, idle, complete, flushes>>
        /\ loads' = [loads EXCEPT ![b] = NULL_PMT_IDX]
    BY <1>3 DEF FinishLoad, banks
  <2>2. Unfinished' \subseteq Unfinished
    BY <2>1 DEF Unfinished, Types
  <2>3. QED BY <1>2, <2>1, <2>2
<1>4. ASSUME NEW b \in Banks, FinishFlush(b) PROVE WakeInv'
  <2>1. UNCHANGED <<turn, wake, idle, complete, loads>> /\ flushes' \subseteq flushes
    BY <1>4 DEF FinishFlush, banks
  <2>2. Unfinished' \subseteq Unfinished
    BY <2>1 DEF Unfinished
  <2>3. QED BY <1>2, <2>1, <2>2
<1>5. ASSUME NEW b \in Banks, Flush(b) PROVE WakeInv'
  <2>1. /\ turn = "requests" /\ UNCHANGED <<turn, wake, complete, loads>>
        /\ flushes' = flushes \cup {b} /\ idle' = idle \ {b}
    BY <1>5 DEF Flush, Misses, Requested
  <2>2. Unfinished' \subseteq Unfinished \cup {b}
    BY <2>1 DEF Unfinished
  <2>3. QED BY <1>1, <2>1, <2>2 DEF WakeInv
<1>6. CASE BeginRequests
  <2>1. /\ turn = "pmt" /\ turn' = "requests" /\ Unfinished \cap complete = {}
        /\ UNCHANGED <<idle, loads, flushes>>
    BY <1>6 DEF BeginRequests, thread, banks
  <2>2. Unfinished' = Unfinished
    BY <2>1 DEF Unfinished
  <2>3. QED BY <1>1, <2>1, <2>2 DEF WakeInv
\* The signals the PMT thread sleeps on include those of its banks.
<1>7. ASSUME NEW signals, SleepOn(signals), Unfinished \subseteq signals, turn = "requests",
             UNCHANGED <<idle, loads, flushes>>
      PROVE  WakeInv'
  <2>1. turn' = "threads" /\ wake' = signals /\ Unfinished' = Unfinished
    BY <1>7 DEF SleepOn, Unfinished
  <2>2. QED BY <1>1, <1>7, <2>1 DEF WakeInv
<1>8. CASE NoMoreRequests
  BY <1>7, <1>8 DEF NoMoreRequests, banks
<1>9. CASE WaitToFlush
  <2>1. Unfinished \subseteq Banks
    BY DEF Unfinished
  <2>2. QED BY <1>7, <1>9, <2>1 DEF WaitToFlush, banks, Misses, Requested
<1>10. CASE WaitToLoad
  <2> DEFINE b == gtd[next_pmt_idx]
  <2>1. Unfinished \subseteq WakeForLoad(b)
    BY DEF WakeForLoad
  <2>2. QED BY <1>7, <1>10, <2>1 DEF WaitToLoad, banks, Misses, Requested
<1>11. CASE IssueLoad
  <2> DEFINE b == gtd[next_pmt_idx]
  <2>1. /\ turn = "requests" /\ UNCHANGED <<turn, wake, complete, flushes>>
        /\ loads' = [loads EXCEPT ![b] = next_pmt_idx] /\ idle' = idle \ {b}
    BY <1>11 DEF IssueLoad, Misses, Requested
  <2> HIDE DEF b
  <2>2. Unfinished' \subseteq Unfinished \cup {b}
    BY <2>1 DEF Unfinished, Types
  <2>3. QED BY <1>1, <2>1, <2>2 DEF WakeInv
<1>12. CASE UNCHANGED <<turn, wake, idle, complete, loads, flushes>>
  <2>1. Unfinished' = Unfinished
    BY <1>12 DEF Unfinished
  <2>2. QED BY <1>2, <1>12, <2>1
<1>13. QED
  BY <1>3, <1>4, <1>5, <1>6, <1>8, <1>9, <1>10, <1>11, <1>12
     DEF PmtStep, PopRequest, IgnoreDuplicate, EvictClean, LoadZeros, thread, banks

LEMMA BankThreads ==
  ASSUME Types, CacheInv(cache), ThreadInv, FixesMatchOwners, BankInv, ThreadStep
  PROVE  BankInv'
<1>1. LoadsInv /\ CountInv /\ WakeInv
  BY BankParts
<1>2. UNCHANGED <<loads, flushes, buffers, wake>> /\ SameBut(cache, cache', {})
  BY ThreadsFrame
<1>3. LoadsInv'
  BY <1>1, <1>2, LoadsStay DEF SameBut
<1>4. CountInv'
  BY <1>1, <1>2 DEF CountInv, LoadingBanks
<1>5. Unfinished' = Unfinished
  BY <1>2 DEF Unfinished
<1>6. CASE StartPass
  <2>1. PICK done \in SUBSET (Banks \ idle) : complete' = done /\ idle' = idle \cup done
    BY <1>6 DEF StartPass
  <2>2. turn = "pass" /\ turn' \in {"pmt", "threads"} /\ (turn' = "threads" => wake \cap idle' = {})
    BY <1>6 DEF StartPass
  <2>3. Unfinished \subseteq wake /\ Unfinished \cap idle = {}
    BY <1>1, <2>2 DEF WakeInv
  <2>4. WakeInv'
    BY <1>2, <1>5, <2>1, <2>2, <2>3 DEF WakeInv
  <2>5. QED BY <1>3, <1>4, <2>4, BankPartsNext
<1>7. CASE turn \in {"pass", "threads"} /\ turn' \in {"pass", "threads"} /\ idle' \subseteq idle
  <2>1. WakeInv'
    BY <1>1, <1>2, <1>5, <1>7 DEF WakeInv
  <2>2. QED BY <1>3, <1>4, <2>1, BankPartsNext
<1>8. ThreadStep => StartPass \/ (turn \in {"pass", "threads"} /\ turn' \in {"pass", "threads"} /\ idle' \subseteq idle)
  BY DEF ThreadStep, EndPass, PmtLoad, PmtRead, PmtUpdate, EndWrite, GetBank, Accept, Runs, banks
<1>9. QED BY <1>6, <1>7, <1>8

(***************************************************************************)
(* SleepInv.                                                               *)
(***************************************************************************)
SleepOK ==
    \A t \in Threads : th[t].phase \in {"load", "read"} =>
      \A i \in Missed(t) : Served(th[t].want[i])

\* The pages asked for keep being asked for until their load begins.
StillServed == \A q \in PmtPages : Served(q) => Served(q)'

LEMMA MissedPage ==
  ASSUME Types, NEW t \in Threads, NEW i \in Missed(t)
  PROVE  i \in DOMAIN th[t].want /\ i \in Nat /\ i > 0 /\ th[t].want[i] \in PmtPages
<1>1. i \in DOMAIN th[t].want
  BY DEF Missed
<1>2. QED BY <1>1, ThreadWants

LEMMA ServedStays ==
  ASSUME SameBut(cache, cache', {}), Requests \subseteq Requests'
  PROVE  StillServed
  BY DEF StillServed, Served, SameBut

\* A step of the PMT thread in which no thread wakes up or goes to sleep.
LEMMA SleepOKStays ==
  ASSUME Types, SleepOK, StillServed, th' = th
  PROVE  SleepOK'
<1>1. ASSUME NEW t \in Threads, th[t].phase \in {"load", "read"}, NEW i \in Missed(t)'
      PROVE  Served(th[t].want[i])'
  <2>1. i \in Missed(t)
    BY <1>1 DEF Missed
  <2>2. Served(th[t].want[i]) /\ th[t].want[i] \in PmtPages
    BY <1>1, <2>1, MissedPage DEF SleepOK
  <2>3. th'[t].want[i] = th[t].want[i]
    OBVIOUS
  <2>4. QED BY <2>2, <2>3 DEF StillServed, Served
<1>2. QED BY <1>1 DEF SleepOK

LEMMA SleepOnWakes ==
  ASSUME Types, ThreadInv, SleepInv, StillServed, turn = "requests", NEW signals, SleepOn(signals)
  PROVE  SleepOK'
<1>1. ASSUME NEW t \in Threads, th'[t].phase \in {"load", "read"}, NEW i \in Missed(t)'
      PROVE  Served(th[t].want[i])'
  <2>1. /\ th'[t].phase = th[t].phase /\ th'[t].want = th[t].want
        /\ th'[t].next = th[t].next /\ th'[t].fixed = th[t].fixed
        /\ loadedSig /\ th[t].phase \in {"load", "read"} => th'[t].awake
        /\ ~loadedSig => th'[t].awake = th[t].awake
    BY SleepOnIs
  <2>2. th[t].next = 1
    BY ThreadAtRest
  <2>3. i \in DOMAIN th[t].want \ th[t].fixed /\ (~th'[t].awake \/ i < 1)
    BY <2>1, <2>2 DEF Missed
  <2>4. i \in Nat /\ i > 0
    BY <2>3, ThreadWants
  <2>5. ~th'[t].awake
    BY <2>3, <2>4
  <2>6. ~loadedSig /\ ~th[t].awake
    BY <1>1, <2>1, <2>5 DEF Types
  <2>7. i \in Missed(t)
    BY <2>3, <2>6 DEF Missed
  <2>8. Served(th[t].want[i]) /\ th[t].want[i] \in PmtPages
    BY <1>1, <2>1, <2>6, <2>7, MissedPage DEF SleepInv
  <2>9. QED BY <2>1, <2>8 DEF StillServed, Served
<1>2. QED BY <1>1 DEF SleepOK

LEMMA SleepParts ==
  SleepInv <=>
    /\ turn \in {"pass", "threads"} \/ ~loadedSig => SleepOK
    /\ turn \in {"pass", "threads"} /\ (pmt_req_queue # <<>> \/ next_pmt_idx # NULL_PMT_IDX)
         => runnable \/ wake # {}
    /\ turn = "pass" => ~loadedSig
  BY DEF SleepInv, SleepOK

\* The PMT thread asks for nothing, and drops only requests it has served.
LEMMA StillServedPmt ==
  ASSUME Types, CacheInv(cache), PmtStep, ~LoadZeros, \A b \in Banks : ~FinishLoad(b)
  PROVE  StillServed
<1>1. CASE UNCHANGED <<cache, pmt_req_queue, next_pmt_idx>>
  BY <1>1, ServedStays DEF SameBut, Requests
<1>2. CASE PopRequest
  <2>1. /\ cache' = cache /\ next_pmt_idx = NULL_PMT_IDX /\ pmt_req_queue # <<>>
        /\ next_pmt_idx' = Head(pmt_req_queue) /\ pmt_req_queue' = Tail(pmt_req_queue)
        /\ pmt_req_queue \in Seq(PmtPages)
    BY <1>2 DEF PopRequest, Types
  <2>2. ASSUME NEW k \in DOMAIN pmt_req_queue PROVE pmt_req_queue[k] \in Requests'
    <3>1. k \in 1 .. Len(pmt_req_queue) /\ Len(pmt_req_queue) \in Nat
      BY <2>1
    <3>2. CASE k = 1
      BY <2>1, <3>2 DEF Requests
    <3>3. CASE k # 1
      <4>1. k - 1 \in 1 .. Len(pmt_req_queue) - 1
        BY <3>1, <3>3
      <4>2. /\ DOMAIN Tail(pmt_req_queue) = 1 .. Len(pmt_req_queue) - 1
            /\ Tail(pmt_req_queue)[k - 1] = pmt_req_queue[k]
        BY <2>1, <3>1, <4>1
      <4>3. QED BY <2>1, <4>1, <4>2 DEF Requests
    <3>4. QED BY <3>2, <3>3
  <2>3. \A q \in PmtPages : q \in Requests => q \in Requests'
    BY <2>1, <2>2, Constants DEF Requests
  <2>4. QED BY <2>1, <2>3 DEF StillServed, Served
\* The page of the request that is dropped is in the cache.
<1>3. ASSUME Cached(cache', next_pmt_idx), next_pmt_idx \in PmtPages,
             Loading(cache, next_pmt_idx) => Loading(cache', next_pmt_idx),
             Cached(cache, next_pmt_idx) \/ Loading(cache', next_pmt_idx),
             SameBut(cache, cache', {next_pmt_idx}), pmt_req_queue' = pmt_req_queue
      PROVE  StillServed
  <2>1. ASSUME NEW q \in PmtPages, Served(q) PROVE Served(q)'
    <3>1. CASE q = next_pmt_idx
      BY <1>3, <2>1, <3>1 DEF Served
    <3>2. CASE q # next_pmt_idx
      <4>1. q \in Requests => q \in Requests'
        BY <1>3, <3>2 DEF Requests
      <4>2. /\ Loading(cache', q) <=> Loading(cache, q)
            /\ Cached(cache', q) <=> Cached(cache, q)
        BY <1>3, <3>2 DEF SameBut
      <4>3. QED BY <2>1, <4>1, <4>2 DEF Served
    <3>3. QED BY <3>1, <3>2
  <2>2. QED BY <2>1 DEF StillServed
<1>4. CASE IgnoreDuplicate
  <2>1. next_pmt_idx \in PmtPages /\ Cached(cache, next_pmt_idx) /\ pmt_req_queue' = pmt_req_queue
    BY <1>4, RequestedPage DEF IgnoreDuplicate
  <2>2. SameBut(cache, cache', {})
    BY <1>4, <2>1, GetPageCache DEF IgnoreDuplicate
  <2>3. QED BY <1>3, <2>1, <2>2 DEF SameBut
<1>5. CASE IssueLoad
  <2>1. /\ next_pmt_idx \in PmtPages /\ SameBut(cache, cache', {next_pmt_idx})
        /\ Loading(cache', next_pmt_idx) /\ Cached(cache', next_pmt_idx)
    BY <1>5, IssueLoadCache
  <2>2. QED BY <1>3, <1>5, <2>1 DEF IssueLoad
\* The pages that leave the cache were loaded.
<1>6. ASSUME NEW ps, SameBut(cache, cache', ps), \A p \in ps : Loaded(cache, p),
             UNCHANGED <<pmt_req_queue, next_pmt_idx>>
      PROVE  StillServed
  BY <1>6 DEF StillServed, Served, SameBut, Loaded, Requests
<1>7. CASE EvictClean
  BY <1>6, <1>7, EvictCleanCache DEF EvictClean, thread
<1>8. ASSUME NEW b \in Banks, Flush(b) PROVE StillServed
  BY <1>6, <1>8, FlushCache DEF Flush
<1>9. CASE WaitToFlush
  BY <1>6, <1>9, WaitToFlushCache DEF WaitToFlush
<1>10. QED
  BY <1>1, <1>2, <1>4, <1>5, <1>7, <1>8, <1>9
     DEF PmtStep, FinishFlush, BeginRequests, NoMoreRequests, WaitToLoad, thread

LEMMA SleepPmt ==
  ASSUME Types, CacheInv(cache), ThreadInv, SleepInv, PmtStep
  PROVE  SleepInv'
<1>1. CASE LoadZeros \/ \E b \in Banks : FinishLoad(b)
  <2>1. loadedSig' /\ turn' \in {"pmt", "requests"}
    BY <1>1 DEF LoadZeros, FinishLoad, Misses, Requested
  <2>2. QED BY <2>1 DEF SleepInv
<1>2. ASSUME NEW signals, SleepOn(signals), turn = "requests", StillServed,
             \/ signals # {}
             \/ pmt_req_queue' = <<>> /\ next_pmt_idx' = NULL_PMT_IDX
      PROVE  SleepInv'
  <2>1. SleepOK'
    BY <1>2, SleepOnWakes
  <2>2. turn' = "threads" /\ wake' = signals
    BY <1>2 DEF SleepOn
  <2>3. QED BY <1>2, <2>1, <2>2 DEF SleepInv, SleepOK
<1>3. CASE ~LoadZeros /\ \A b \in Banks : ~FinishLoad(b)
  <2>1. StillServed
    BY <1>3, StillServedPmt
  <2>2. CASE NoMoreRequests
    BY <1>2, <2>1, <2>2 DEF NoMoreRequests
  <2>3. CASE WaitToFlush
    BY <1>2, <2>1, <2>3, Constants DEF WaitToFlush, Misses, Requested
  <2>4. CASE WaitToLoad
    <3>1. WakeForLoad(gtd[next_pmt_idx]) # {}
      BY DEF WakeForLoad
    <3>2. QED BY <1>2, <2>1, <2>4, <3>1 DEF WaitToLoad, Misses, Requested
  <2>5. CASE UNCHANGED <<th, loadedSig>> /\ turn \in {"pmt", "requests"} /\ turn' \in {"pmt", "requests"}
    <3>1. ~loadedSig => SleepOK
      BY SleepParts
    <3>2. ~loadedSig' => SleepOK'
      BY <2>1, <2>5, <3>1, SleepOKStays
    <3>3. QED BY <2>5, <3>2 DEF SleepInv, SleepOK
  <2>6. QED
    BY <1>3, <2>2, <2>3, <2>4, <2>5 DEF PmtStep, FinishFlush, Flush, BeginRequests, PopRequest,
       IgnoreDuplicate, EvictClean, IssueLoad, Misses, Requested
<1>4. QED BY <1>1, <1>3

(***************************************************************************)
(* The requests of the threads.                                            *)
(***************************************************************************)
LEMMA RequestKeeps ==
  ASSUME Types, NEW t \in Threads, NEW p \in PmtPages, Request(t, p)
  PROVE  /\ Requests \subseteq Requests'
         /\ ~Cached(cache, p) => p \in Requests' /\ runnable'
         /\ Cached(cache, p) => pmt_req_queue' = pmt_req_queue
         /\ runnable => runnable'
<1>1. next_pmt_idx' = next_pmt_idx /\ runnable' = (runnable \/ ~Cached(cache, p))
  BY DEF Request, WokenBy
<1>2. CASE Cached(cache, p)
  <2>1. pmt_req_queue' = pmt_req_queue
    BY <1>2 DEF Request
  <2>2. QED BY <1>1, <1>2, <2>1 DEF Requests
<1>3. CASE ~Cached(cache, p)
  <2>1. pmt_req_queue' = Append(pmt_req_queue, p) /\ pmt_req_queue \in Seq(PmtPages)
    BY <1>3 DEF Request, Types
  <2>2. Len(pmt_req_queue) \in Nat /\ DOMAIN pmt_req_queue = 1 .. Len(pmt_req_queue)
    BY <2>1
  <2>3. DOMAIN pmt_req_queue' = 1 .. Len(pmt_req_queue) + 1
    BY <2>1
  <2>4. /\ pmt_req_queue'[Len(pmt_req_queue) + 1] = p
        /\ \A k \in 1 .. Len(pmt_req_queue) : pmt_req_queue'[k] = pmt_req_queue[k]
    BY <2>1
  <2>5. p \in Requests'
    BY <2>2, <2>3, <2>4 DEF Requests
  <2>6. Requests \subseteq Requests'
    <3>1. ASSUME NEW k \in DOMAIN pmt_req_queue PROVE pmt_req_queue[k] \in Requests'
      <4>1. k \in DOMAIN pmt_req_queue' /\ pmt_req_queue'[k] = pmt_req_queue[k]
        BY <2>2, <2>3, <2>4
      <4>2. QED BY <4>1 DEF Requests
    <3>2. QED BY <1>1, <3>1 DEF Requests
  <2>7. QED BY <1>1, <1>3, <2>5, <2>6
<1>4. QED BY <1>2, <1>3

LEMMA RequestServes ==
  ASSUME Types, NEW t \in Threads, NEW p \in PmtPages, Request(t, p),
         ~Loaded(cache, p), SameBut(cache, cache', {})
  PROVE  Served(p)'
<1>1. CASE Loading(cache, p)
  BY <1>1 DEF Served, SameBut
<1>2. CASE ~Cached(cache, p)
  BY <1>2, RequestKeeps DEF Served, SameBut
<1>3. QED BY <1>1, <1>2 DEF Loaded

\* A step of thread t, if t has missed no page that is not served.
LEMMA SleepOKStep ==
  ASSUME Types, SleepOK, StillServed, NEW t \in Threads, OthersStay(t),
         th'[t].phase \in {"load", "read"} => \A i \in Missed(t)' : Served(th[t].want[i])'
  PROVE  SleepOK'
<1>1. ASSUME NEW u \in Threads, th'[u].phase \in {"load", "read"}, NEW i \in Missed(u)'
      PROVE  Served(th[u].want[i])'
  <2>1. CASE u = t
    BY <1>1, <2>1
  <2>2. CASE u # t
    <3>1. th'[u] = th[u]
      BY <2>2 DEF OthersStay
    <3>2. i \in Missed(u)
      BY <1>1, <3>1 DEF Missed
    <3>3. Served(th[u].want[i]) /\ th[u].want[i] \in PmtPages
      BY <1>1, <3>1, <3>2, MissedPage DEF SleepOK
    <3>4. QED BY <3>1, <3>3 DEF StillServed, Served
  <2>3. QED BY <2>1, <2>2
<1>2. QED BY <1>1 DEF SleepOK

LEMMA SleepPmtLoad ==
  ASSUME Types, CacheInv(cache), ThreadInv, SleepOK, NEW t \in Threads, PmtLoad(t)
  PROVE  SleepOK' /\ Requests \subseteq Requests'
<1>1. PICK p \in PmtPages, i \in DOMAIN th[t].want :
        p = Page(t) /\ i = th[t].next /\ p = th[t].want[i]
  BY PageIs DEF PmtLoad, Page
<1>2. SameBut(cache, cache', {})
  BY PmtLoadCache
<1>3. Requests \subseteq Requests'
  <2>1. CASE UNCHANGED thread
    BY <2>1 DEF Requests, thread
  <2>2. CASE Request(t, p)
    BY <1>1, <2>2, RequestKeeps
  <2>3. QED BY <1>1, <2>1, <2>2 DEF PmtLoad
<1>4. StillServed
  BY <1>2, <1>3, ServedStays
<1>5. PICK fixed \in SUBSET DOMAIN th[t].want :
        GoesOn(t, fixed) /\ fixed \in {th[t].fixed, th[t].fixed \cup {i}}
  BY <1>1, PmtLoadIs
<1>6. th[t].phase = "load" /\ th[t].awake /\ th[t].fixed \subseteq fixed
  BY <1>5 DEF PmtLoad
<1>7. /\ OthersStay(t) /\ th'[t].fixed = fixed /\ th'[t].want = th[t].want
      /\ ~IsLast(t) => th'[t].next = i + 1 /\ th'[t].awake
      /\ IsLast(t) => th'[t].next = 1
  BY <1>1, <1>5, <1>6, GoesOnIs
\* The sub-page looked at is fixed, or its page is asked for.
<1>8. i \in th'[t].fixed \/ Served(p)'
  <2>1. CASE i \in th[t].fixed
    BY <1>6, <1>7, <2>1
  <2>2. CASE i \notin th[t].fixed /\ ~SameAsLast(t) /\ Loaded(cache, p)
    <3>1. GoesOn(t, th[t].fixed \cup {i})
      BY <1>1, <2>2 DEF PmtLoad
    <3>2. th[t].fixed \cup {i} \in SUBSET DOMAIN th[t].want
      BY <1>1, ThreadParts
    <3>3. th'[t].fixed = th[t].fixed \cup {i}
      BY <1>6, <3>1, <3>2, GoesOnIs
    <3>4. QED BY <3>3
  <2>3. CASE i \notin th[t].fixed /\ ~SameAsLast(t) /\ ~Loaded(cache, p)
    <3>1. Request(t, p)
      BY <1>1, <2>3 DEF PmtLoad
    <3>2. QED BY <1>2, <2>3, <3>1, RequestServes
  <2>4. CASE SameAsLast(t)
    <3>1. PICK j \in Passed(t) : th[t].want[j] = p
      BY <1>1, <2>4 DEF SameAsLast
    <3>2. j \in Missed(t)
      BY <3>1 DEF Passed, Missed
    <3>3. Served(p)
      BY <1>6, <3>1, <3>2 DEF SleepOK
    <3>4. QED BY <1>4, <3>3 DEF StillServed
  <2>5. QED BY <2>1, <2>2, <2>3, <2>4
<1>9. ASSUME th'[t].phase \in {"load", "read"}, NEW j \in Missed(t)'
      PROVE  Served(th[t].want[j])'
  <2>1. /\ j \in DOMAIN th[t].want /\ j \notin th'[t].fixed /\ j \notin th[t].fixed
        /\ ~th'[t].awake \/ j < th'[t].next
    BY <1>6, <1>7, <1>9 DEF Missed
  <2>2. /\ j \in Nat /\ j > 0 /\ i \in Nat /\ th[t].want[j] \in PmtPages
        /\ j <= Len(th[t].want)
    BY <2>1, <1>1, ThreadWants
  <2>3. j < i \/ j = i
    <3>1. CASE IsLast(t)
      <4>1. i = Len(th[t].want)
        BY <1>1, <3>1 DEF IsLast
      <4>2. QED BY <2>2, <4>1, ThreadWants
    <3>2. CASE ~IsLast(t)
      BY <1>7, <2>1, <2>2, <3>2
    <3>3. QED BY <3>1, <3>2
  <2>4. CASE j = i
    BY <1>1, <1>7, <1>8, <2>1, <2>4
  <2>5. CASE j < i
    <3>1. j \in Missed(t)
      BY <1>1, <2>1, <2>5 DEF Missed
    <3>2. Served(th[t].want[j])
      BY <1>6, <3>1 DEF SleepOK
    <3>3. QED BY <1>4, <1>7, <2>2, <3>2 DEF StillServed, Served
  <2>6. QED BY <2>3, <2>4, <2>5
<1>10. SleepOK'
  BY <1>4, <1>7, <1>9, SleepOKStep
<1>11. QED BY <1>3, <1>10

LEMMA SleepPmtRead ==
  ASSUME Types, CacheInv(cache), ThreadInv, SleepOK, NEW t \in Threads, PmtRead(t)
  PROVE  SleepOK' /\ Requests \subseteq Requests'
<1>0. PICK p \in PmtPages : p = Page(t)
  BY PageIs DEF PmtRead
<1>1. /\ Request(t, p) /\ th[t].phase = "read" /\ cache' = get_page(cache, p)
      /\ OthersStay(t)
  BY <1>0, PmtReadIs DEF PmtRead
<1>2. SameBut(cache, cache', {})
  BY <1>1, GetPageCache
<1>3. Requests \subseteq Requests'
  BY <1>1, RequestKeeps
<1>4. StillServed
  BY <1>2, <1>3, ServedStays
<1>5. ASSUME th'[t].phase \in {"load", "read"}, NEW j \in Missed(t)'
      PROVE  Served(th[t].want[j])'
  <2>1. ~Loaded(cache, p) /\ th'[t].want = th[t].want
    BY <1>0, <1>5, PmtReadIs, FreeIsState
  <2>2. j \in DOMAIN th[t].want
    BY <1>5, <2>1 DEF Missed
  <2>3. Len(th[t].want) = 1 /\ th[t].next = 1
    BY <1>1 DEF ThreadInv, ThreadOK
  <2>4. j = 1
    BY <2>2, <2>3, ThreadWants
  <2>5. th[t].want[j] = p
    BY <1>0, <2>3, <2>4 DEF Page
  <2>6. Served(p)'
    BY <1>1, <1>2, <2>1, RequestServes
  <2>7. QED BY <2>1, <2>5, <2>6
<1>6. QED BY <1>1, <1>3, <1>4, <1>5, SleepOKStep

LEMMA SleepThreads ==
  ASSUME Types, CacheInv(cache), ThreadInv, FixesMatchOwners, SleepInv, ThreadStep
  PROVE  SleepInv'
<1>1. turn \in {"pass", "threads"}
  BY DEF ThreadStep, StartPass, EndPass, PmtLoad, PmtRead, PmtUpdate, EndWrite, GetBank, Accept, Runs
<1>2. SleepOK
  BY <1>1, SleepParts
<1>3. UNCHANGED <<wake, next_pmt_idx>> /\ SameBut(cache, cache', {})
  BY ThreadsFrame
<1>4. CASE StartPass
  <2>1. UNCHANGED <<cache, pmt_req_queue, runnable, loadedSig>> /\ turn' # "pass"
    BY <1>4 DEF StartPass, thread
  <2>2. Requests' = Requests
    BY <1>3, <2>1 DEF Requests
  <2>3. ASSUME NEW t \in Threads, th'[t].phase \in {"load", "read"}, NEW j \in Missed(t)'
        PROVE  Served(th[t].want[j])'
    <3>1. /\ th'[t].phase = th[t].phase /\ th'[t].want = th[t].want
          /\ th'[t].next = th[t].next /\ th'[t].fixed = th[t].fixed
          /\ th[t].phase # "write" => th'[t].awake = th[t].awake
      BY <1>4, StartPassIs
    <3>2. j \in Missed(t)
      BY <2>3, <3>1 DEF Missed
    <3>3. Served(th[t].want[j])
      BY <1>2, <2>3, <3>1, <3>2 DEF SleepOK
    <3>4. QED BY <2>1, <2>2, <3>1, <3>3 DEF Served
  <2>4. SleepOK'
    BY <2>3 DEF SleepOK
  <2>5. QED BY <1>1, <1>3, <2>1, <2>4 DEF SleepInv, SleepOK
<1>5. CASE EndPass
  <2>1. UNCHANGED <<cache, pmt_req_queue, runnable, th>> /\ loadedSig' = FALSE /\ turn' = "pass"
    BY <1>5 DEF EndPass, thread
  <2>2. StillServed
    BY <1>3, <2>1, ServedStays DEF Requests
  <2>3. SleepOK'
    BY <1>2, <2>1, <2>2, SleepOKStays
  <2>4. QED BY <1>1, <1>3, <2>1, <2>3 DEF SleepInv, SleepOK
\* A step of one thread.
<1>6. ASSUME turn' = turn, loadedSig' = loadedSig, SleepOK',
             pmt_req_queue' # pmt_req_queue => runnable', runnable => runnable'
      PROVE  SleepInv'
  BY <1>3, <1>6 DEF SleepInv, SleepOK
<1>7. ASSUME NEW t \in Threads, PmtLoad(t) PROVE SleepInv'
  <2>1. SleepOK'
    BY <1>2, <1>7, SleepPmtLoad
  <2>2. turn' = turn /\ loadedSig' = loadedSig
    BY <1>7 DEF PmtLoad
  <2>3. (pmt_req_queue' # pmt_req_queue => runnable') /\ (runnable => runnable')
    <3>1. Page(t) \in PmtPages
      BY <1>7, PageIs DEF PmtLoad
    <3>2. CASE UNCHANGED thread
      BY <3>2 DEF thread
    <3>3. CASE Request(t, Page(t))
      BY <3>1, <3>3, RequestKeeps
    <3>4. QED BY <1>7, <3>2, <3>3 DEF PmtLoad
  <2>4. QED BY <1>6, <2>1, <2>2, <2>3
<1>8. ASSUME NEW t \in Threads, PmtRead(t) PROVE SleepInv'
  <2>1. SleepOK'
    BY <1>2, <1>8, SleepPmtRead
  <2>2. turn' = turn /\ loadedSig' = loadedSig
    BY <1>8 DEF PmtRead
  <2>3. (pmt_req_queue' # pmt_req_queue => runnable') /\ (runnable => runnable')
    BY <1>8, PageIs, RequestKeeps DEF PmtRead
  <2>4. QED BY <1>6, <2>1, <2>2, <2>3
\* The other steps ask for nothing.
<1>9. ASSUME NEW t \in Threads, OthersStay(t),
             th'[t].phase \in {"load", "read"} => Missed(t)' = {},
             UNCHANGED <<turn, loadedSig, pmt_req_queue, runnable>>
      PROVE  SleepInv'
  <2>1. StillServed
    BY <1>3, <1>9, ServedStays DEF Requests
  <2>2. SleepOK'
    BY <1>2, <1>9, <2>1, SleepOKStep
  <2>3. QED BY <1>6, <1>9, <2>2
<1>10. ASSUME NEW t \in Threads, PmtUpdate(t) PROVE SleepInv'
  <2>1. OthersStay(t) /\ th'[t].phase \notin {"load", "read"}
    BY <1>10, PmtUpdateIs
  <2>2. QED BY <1>9, <1>10, <2>1 DEF PmtUpdate, thread
<1>11. ASSUME NEW t \in Threads, EndWrite(t) PROVE SleepInv'
  <2>1. OthersStay(t) /\ th'[t].phase \notin {"load", "read"}
    BY <1>11, EndWriteIs, FreeIsState
  <2>2. QED BY <1>9, <1>11, <2>1 DEF EndWrite, thread
<1>12. ASSUME NEW t \in Threads, NEW b \in Banks, GetBank(t, b) PROVE SleepInv'
  <2>1. OthersStay(t) /\ th'[t].phase \notin {"load", "read"}
    BY <1>12, GetBankIs
  <2>2. QED BY <1>9, <1>12, <2>1 DEF GetBank, thread
<1>13. ASSUME NEW t \in Threads, NEW w \in Wants, NEW phase \in {"load", "read"}, Accept(t, w, phase)
       PROVE  SleepInv'
  <2>1. /\ OthersStay(t) /\ th'[t].want = w /\ th'[t].next = 1 /\ th'[t].awake
    BY <1>13, AcceptIs
  <2>2. \A j \in DOMAIN w : j \in Nat /\ j > 0
    BY WantParts
  <2>3. Missed(t)' = {}
    BY <2>1, <2>2 DEF Missed
  <2>4. QED BY <1>9, <1>13, <2>1, <2>3 DEF Accept, thread
<1>14. QED
  BY <1>4, <1>5, <1>7, <1>8, <1>10, <1>11, <1>12, <1>13 DEF ThreadStep

(***************************************************************************)
(* The invariant holds.                                                    *)
(***************************************************************************)
LEMMA EmptyCacheInv ==
  CacheInv(EmptyCache)
<1> DEFINE c == EmptyCache
<1>1. /\ c.stamp = [p \in PmtPages |-> NULL_TIMESTAMP] /\ c.dirty = {}
      /\ c.fixes = [p \in PmtPages |-> 0] /\ c.merge = {} /\ c.free = NUM_PC_SUB_PAGES
      /\ c.now = 0 /\ c.last = NULL_PMT_IDX /\ c.failed = FALSE /\ c.before = {}
  BY DEF EmptyCache
<1>2. CacheTypeOK(c)
  <2>1. [p \in PmtPages |-> NULL_TIMESTAMP] \in [PmtPages -> 0 .. EVICTED_TIMESTAMP]
    BY Stamps
  <2>2. [p \in PmtPages |-> 0] \in [PmtPages -> Nat]
    OBVIOUS
  <2>3. NUM_PC_SUB_PAGES \in 0 .. NUM_PC_SUB_PAGES /\ 0 \in 0 .. NULL_TIMESTAMP - 1
    BY Stamps
  <2>4. QED BY <2>1, <2>2, <2>3 DEF EmptyCache, CacheTypeOK
<1> HIDE DEF c
<1>3. Normal(c) = {} /\ CachedPages(c) = {}
  BY <1>1, Stamps DEF Normal, CachedPages, Cached
<1>4. IsFiniteSet(CachedPages(c)) /\ Cardinality(CachedPages(c)) = 0 /\ Cardinality(c.merge) = 0
  BY <1>1, <1>3, FS_EmptySet
<1>5. CacheIsLru(c) /\ StampsBeforeNow(c) /\ (c.last \in Normal(c) => NewestUse(c, c.last))
  BY <1>1, <1>3 DEF CacheIsLru, StampsBeforeNow
<1>6. CacheAgrees(c)
  <2>1. c.free + Cardinality(CachedPages(c)) = NUM_PC_SUB_PAGES /\ Cardinality(c.merge) <= SUB_PAGES_PER_PAGE
    BY <1>1, <1>4, Stamps
  <2>2. c.merge = {p \in PmtPages : c.stamp[p] = NULL_TIMESTAMP + 3} /\ c.merge \subseteq c.dirty
    BY <1>1, Stamps
  <2>3. \A p \in PmtPages : c.fixes[p] > 0 <=> c.stamp[p] = NULL_TIMESTAMP + 2
    BY <1>1, Stamps
  <2>4. QED BY <1>1, <2>1, <2>2, <2>3, Agrees
<1>7. QED BY <1>1, <1>2, <1>4, <1>5, <1>6 DEF CacheInv, c

LEMMA InitIInv == Init => IInv
<1> SUFFICES ASSUME Init PROVE IInv
  OBVIOUS
<1>1. \A t \in Threads : th[t] = FreeThread
  BY DEF Init
<1>2. Types
  <2>1. th \in [Threads -> ThreadState] /\ \A t \in Threads : th[t].fixed \subseteq DOMAIN th[t].want
    BY FreeIsState DEF Init
  <2>2. accepts \in 0 .. MaxAccepts
    BY Constants DEF Init
  <2>3. newest \in [PmtPages -> SUBSET (Banks \cup {"cache", NoBank})]
    BY DEF Init
  <2>4. gtd \in [PmtPages -> Banks \cup {NoBank}] /\ loads \in [Banks -> PmtPages \cup {NULL_PMT_IDX}]
    BY DEF Init
  <2>5. pmt_req_queue \in Seq(PmtPages)
    BY DEF Init
  <2>6. /\ turn \in {"pass", "pmt", "requests", "threads"}
        /\ next_pmt_idx \in PmtPages \cup {NULL_PMT_IDX}
        /\ flushes \subseteq Banks /\ wake \subseteq Banks /\ idle \subseteq Banks
        /\ complete \subseteq Banks
        /\ runnable \in BOOLEAN /\ loadedSig \in BOOLEAN /\ overflow \in BOOLEAN
    BY DEF Init
  <2>7. QED BY <2>1, <2>2, <2>3, <2>4, <2>5, <2>6 DEF Types
<1>3. CacheInv(cache)
  BY EmptyCacheInv DEF Init
<1>4. ThreadInv
  BY <1>1, FreeIsState DEF ThreadInv, ThreadOK
<1>5. \A p \in PmtPages : ~Loaded(cache, p) /\ ~Loading(cache, p) /\ cache.fixes[p] = 0
  BY Stamps DEF Init, EmptyCache, Loaded, Cached, Loading
<1>6. NewestInv
  BY <1>5 DEF NewestInv, Init
<1>7. BankInv
  <2>1. LoadsInv
    <3>1. {p \in PmtPages : Loading(cache, p)} = {}
      BY <1>5
    <3>2. {loads[b] : b \in Banks} \ {NULL_PMT_IDX} = {}
      BY DEF Init
    <3>3. QED BY <3>1, <3>2 DEF LoadsInv, Init
  <2>2. CountInv
    <3>1. LoadingBanks = {} /\ flushes = {} /\ buffers = 0
      BY DEF LoadingBanks, Init
    <3>2. QED BY <3>1, FS_EmptySet DEF CountInv
  <2>3. WakeInv
    BY DEF WakeInv, Unfinished, Init
  <2>4. QED BY <2>1, <2>2, <2>3, BankParts
<1>8. SleepInv
  <2>1. SleepOK
    BY <1>1, FreeIsState DEF SleepOK
  <2>2. QED BY <2>1, SleepParts DEF Init
<1>9. WantInv
  <2>1. Wanted = {}
    BY <1>1, FreeIsState DEF Wanted
  <2>2. QED BY <2>1, FS_EmptySet, Constants DEF WantInv
<1>10. FixesMatchOwners
  <2>1. \A p : Owners(p) = {}
    BY <1>1, FreeIsState DEF Owners
  <2>2. QED BY <1>5, <2>1, FS_EmptySet DEF FixesMatchOwners
<1>11. QED BY <1>2, <1>3, <1>4, <1>6, <1>7, <1>8, <1>9, <1>10 DEF IInv

LEMMA NextIInv == IInv /\ [Next]_vars => IInv'
<1> SUFFICES ASSUME IInv, [Next]_vars PROVE IInv'
  OBVIOUS
<1> USE DEF IInv
<1>1. CASE PmtStep
  <2>1. Types' /\ ThreadInv' /\ CacheInv(cache')
    BY <1>1, TypesPmt, ThreadInvPmt, CachePmt
  <2>2. NewestInv' /\ SleepInv' /\ WantInv' /\ FixesMatchOwners'
    BY <1>1, NewestPmt, SleepPmt, WantInvNext, FixesNext
  <2>3. BankInv'
    BY <1>1, LoadsPmt, CountPmt, WakePmt, BankPartsNext
  <2>4. QED BY <2>1, <2>2, <2>3
<1>2. CASE ThreadStep
  <2>1. Types' /\ ThreadInv' /\ CacheInv(cache')
    BY <1>2, TypesThreads, ThreadInvThreads, CacheThreads DEF ThreadStep
  <2>2. NewestInv' /\ SleepInv' /\ WantInv' /\ FixesMatchOwners' /\ BankInv'
    BY <1>2, NewestThreads, SleepThreads, WantInvNext, FixesNext, BankThreads
  <2>3. QED BY <2>1, <2>2
<1>3. CASE UNCHANGED vars
  BY <1>3 DEF vars, thread, banks, Types, ThreadInv, NewestInv, BankInv, NoMissedCompletion,
     Unfinished, SleepInv, Missed, Served, Requests, WantInv, Wanted, FixesMatchOwners, Owners
<1>4. QED BY <1>1, <1>2, <1>3 DEF Next, ThreadStep

\* The inductive invariant of PmtThread: types, tables of the cache, threads,
\* places of the newest content, banks, sleepers and owners of fixed pages.
THEOREM Invariant == Spec => []IInv
  BY InitIInv, NextIInv, PTL DEF Spec

(***************************************************************************)
(* What follows from the invariant.                                        *)
(***************************************************************************)

\* Each of the commands of the PMT thread has a bank of its own.
LEMMA BuffersFit ==
  ASSUME Types, BankInv
  PROVE  buffers \in 0 .. Cardinality(Banks)
<1>1. LoadingBanks \cap flushes = {} /\ LoadingBanks \cup flushes \in SUBSET Banks
  BY BankParts DEF LoadsInv, LoadingBanks, Types
<1>2. /\ Cardinality(LoadingBanks \cup flushes)
           = Cardinality(LoadingBanks) + Cardinality(flushes) - Cardinality(LoadingBanks \cap flushes)
      /\ Cardinality(LoadingBanks \cup flushes) <= Cardinality(Banks)
  BY <1>1, BankSets, FS_Union, FS_Subset
<1>3. Cardinality(LoadingBanks \cap flushes) = 0
  BY <1>1, FS_EmptySet
<1>4. buffers = Cardinality(LoadingBanks) + Cardinality(flushes)
  BY BankParts DEF CountInv
<1>5. QED BY <1>2, <1>3, <1>4, BankSets

LEMMA IInvTypeOK ==
  ASSUME IInv
  PROVE  TypeOK
<1>1. CacheTypeOK(cache)
  BY CacheInvParts DEF IInv
<1>2. buffers \in 0 .. Cardinality(Banks)
  BY BuffersFit DEF IInv
<1>3. QED BY <1>1, <1>2 DEF IInv, Types, TypeOK

LEMMA IInvServed ==
  ASSUME IInv
  PROVE  SleepersAreServed
<1> SUFFICES ASSUME turn = "pass" PROVE SleepersAreServed
  BY DEF SleepersAreServed
<1>1. ASSUME NEW t \in Threads, th[t].phase \in {"load", "read"}, ~th[t].awake,
             NEW i \in DOMAIN th[t].want \ th[t].fixed
      PROVE  Loading(cache, th[t].want[i]) \/ th[t].want[i] \in Requests
  <2>1. i \in Missed(t)
    BY <1>1 DEF Missed
  <2>2. QED BY <1>1, <2>1 DEF IInv, SleepInv, Served
<1>2. QED BY <1>1 DEF IInv, SleepInv, SleepersAreServed

LEMMA IInvNewest ==
  ASSUME IInv
  PROVE  NewestKept
  BY DEF IInv, NewestInv, NewestKept

(***************************************************************************)
(* No assertion fails.                                                     *)
(***************************************************************************)
LEMMA ImageSize ==
  ASSUME NEW S, IsFiniteSet(S), NEW f \in [S -> PmtPages]
  PROVE  LET T == {f[x] : x \in S} IN
         IsFiniteSet(T) /\ Cardinality(T) \in Nat /\ Cardinality(T) <= Cardinality(S)
<1> DEFINE T == {f[x] : x \in S}
<1>1. f \in Surjection(S, T)
  BY DEF Surjection
<1> HIDE DEF T
<1>2. QED BY <1>1, FS_Surjection, FS_CardinalityType DEF T

\* The pages that cannot be evicted are wanted by a thread or being loaded.
LEMMA BusyFew ==
  ASSUME IInv
  PROVE  IsFiniteSet(Busy(cache)) /\ Cardinality(Busy(cache)) <= MaxWanted + Cardinality(Banks)
<1> USE DEF IInv
<1> DEFINE ofThreads == [x \in Wanted |-> th[x[1]].want[x[2]]]
           ofBanks == [b \in LoadingBanks |-> loads[b]]
           A == {ofThreads[x] : x \in Wanted}
           B == {ofBanks[b] : b \in LoadingBanks}
<1>1. ofThreads \in [Wanted -> PmtPages] /\ ofBanks \in [LoadingBanks -> PmtPages]
  <2>1. ASSUME NEW x \in Wanted PROVE th[x[1]].want[x[2]] \in PmtPages
    <3>1. x[1] \in Threads /\ x[2] \in DOMAIN th[x[1]].want
      BY DEF Wanted
    <3>2. QED BY <3>1, ThreadWants
  <2>2. \A b \in LoadingBanks : loads[b] \in PmtPages
    BY DEF LoadingBanks, Types
  <2>3. QED BY <2>1, <2>2
<1>2. IsFiniteSet(A) /\ Cardinality(A) \in Nat /\ Cardinality(A) <= Cardinality(Wanted)
  <2> HIDE DEF ofThreads
  <2>1. QED BY <1>1, SubPages, ImageSize
<1>3. IsFiniteSet(B) /\ Cardinality(B) \in Nat /\ Cardinality(B) <= Cardinality(LoadingBanks)
  <2> HIDE DEF ofBanks
  <2>1. QED BY <1>1, BankSets, ImageSize
<1>4. Busy(cache) \subseteq A \cup B
  <2>1. ASSUME NEW p \in PmtPages, cache.stamp[p] = LOADING_TIMESTAMP PROVE p \in B
    <3>1. p \in {q \in PmtPages : Loading(cache, q)}
      BY <2>1 DEF Loading
    <3>2. p \in {loads[b] : b \in Banks} \ {NULL_PMT_IDX}
      BY <3>1, BankParts DEF LoadsInv
    <3>3. PICK b \in LoadingBanks : p = loads[b]
      BY <3>2 DEF LoadingBanks
    <3>4. QED BY <3>3
  <2>2. ASSUME NEW p \in PmtPages, cache.stamp[p] = FIXED_TIMESTAMP PROVE p \in A
    <3>1. cache.fixes[p] > 0
      BY <2>2, CacheInvParts, Stamps
    <3>2. Cardinality(Owners(p)) # 0
      BY <3>1 DEF FixesMatchOwners
    <3>3. PICK x \in Owners(p) : TRUE
      BY <3>2, FS_EmptySet
    <3>4. x \in Wanted /\ th[x[1]].want[x[2]] = p
      BY <3>3, ThreadParts DEF Owners, Wanted
    <3>5. QED BY <3>4
  <2>3. QED BY <2>1, <2>2 DEF Busy
<1> HIDE DEF A, B, ofThreads, ofBanks
<1>5. /\ IsFiniteSet(A \cup B)
      /\ Cardinality(A \cup B) = Cardinality(A) + Cardinality(B) - Cardinality(A \cap B)
      /\ Cardinality(A \cap B) \in Nat
  BY <1>2, <1>3, FS_Union, FS_Intersection, FS_CardinalityType
<1>6. IsFiniteSet(Busy(cache)) /\ Cardinality(Busy(cache)) <= Cardinality(A \cup B)
  BY <1>4, <1>5, FS_Subset
<1>7. Cardinality(LoadingBanks) <= Cardinality(Banks)
  <2>1. LoadingBanks \in SUBSET Banks
    BY DEF LoadingBanks
  <2>2. QED BY <2>1, BankSets, FS_Subset
<1>8. Cardinality(Wanted) <= MaxWanted
  BY DEF WantInv
<1>9. Cardinality(Busy(cache)) \in Nat /\ Cardinality(A \cup B) \in Nat
  BY <1>5, <1>6, FS_CardinalityType
<1>10. QED BY <1>2, <1>3, <1>5, <1>6, <1>7, <1>8, <1>9, SubPages, BankSets, Constants

\* The cache holds more than threads want and banks load at a time, and a merge
\* buffer more: 64 * 8 sub-pages (dram.h:17), against 15 threads that want 8 each,
\* at most 32 banks and a buffer of 8 (jasmine.h:84, 233).
CacheHasSlack == MaxWanted + Cardinality(Banks) + SUB_PAGES_PER_PAGE <= NUM_PC_SUB_PAGES

LEMMA EvictCleanWorks ==
  ASSUME IInv, CacheHasSlack, EvictClean
  PROVE  cache'.failed = cache.failed
<1> USE DEF IInv
<1>1. cache.free = 0
  BY DEF EvictClean, pmt_cache_is_full
<1>2. /\ ~MergeFull(Merged(cache, ToMerge(cache)))
      /\ ToFree(cache) # {} => cache'.failed = cache.failed
  BY EvictCleanCache
<1>3. IsFiniteSet(Busy(cache)) /\ Cardinality(Busy(cache)) + SUB_PAGES_PER_PAGE <= NUM_PC_SUB_PAGES
  <2>1. Cardinality(Busy(cache)) \in Nat
    BY BusyFew, FS_CardinalityType
  <2>2. QED BY <2>1, BusyFew, Constants, Stamps, BankSets DEF CacheHasSlack
<1>4. QED BY <1>1, <1>2, <1>3, EvictFinds

LEMMA NothingFails ==
  ASSUME IInv, CacheHasSlack, [Next]_vars
  PROVE  cache'.failed = cache.failed
<1> USE DEF IInv
<1>1. ASSUME NEW b \in Banks, FinishLoad(b) \/ FinishFlush(b) \/ Flush(b)
      PROVE  cache'.failed = cache.failed
  BY <1>1, FinishLoadCache, FlushCache DEF FinishFlush
<1>2. CASE IgnoreDuplicate
  <2>1. next_pmt_idx \in PmtPages
    BY <1>2, RequestedPage DEF IgnoreDuplicate
  <2>2. QED BY <1>2, <2>1, GetPageCache DEF IgnoreDuplicate
<1>3. CASE EvictClean \/ WaitToFlush \/ LoadZeros \/ IssueLoad
  BY <1>3, EvictCleanWorks, WaitToFlushCache, LoadZerosCache, IssueLoadCache
<1>4. CASE BeginRequests \/ PopRequest \/ NoMoreRequests \/ WaitToLoad
  BY <1>4 DEF BeginRequests, PopRequest, NoMoreRequests, WaitToLoad
<1>5. ASSUME NEW t \in Threads, PmtRead(t) PROVE cache'.failed = cache.failed
  <2>1. Page(t) \in PmtPages
    BY <1>5, PageIs DEF PmtRead
  <2>2. QED BY <1>5, <2>1, GetPageCache DEF PmtRead
<1>6. ASSUME NEW t \in Threads, PmtLoad(t) \/ PmtUpdate(t) PROVE cache'.failed = cache.failed
  BY <1>6, PmtLoadCache, PmtUpdateCache
<1>7. CASE \/ StartPass \/ EndPass
           \/ \E t \in Threads : EndWrite(t)
           \/ \E t \in Threads, b \in Banks : GetBank(t, b)
           \/ \E t \in Threads, w \in Wants, phase \in {"load", "read"} : Accept(t, w, phase)
  BY <1>7 DEF StartPass, EndPass, EndWrite, GetBank, Accept
<1>8. CASE UNCHANGED vars
  BY <1>8 DEF vars
<1>9. QED
  BY <1>1, <1>2, <1>3, <1>4, <1>5, <1>6, <1>7, <1>8 DEF Next, PmtStep

(***************************************************************************)
(* The theorems.                                                           *)
(***************************************************************************)
\* Every variable keeps its type, and the PMT thread never holds more buffers
\* than there are banks.
THEOREM PmtTypes == Spec => []TypeOK
<1>1. IInv => TypeOK
  BY IInvTypeOK
<1>2. QED BY <1>1, Invariant, PTL

\* Through loads, fixes, evictions and pages taken back from the merge buffer the
\* tables of the cache agree, and the timestamps, also when they are renumbered,
\* have the order of use (pmt_cache.c).
THEOREM TablesStayInStep == Spec => []TablesAgree
<1>1. IInv => TablesAgree
  BY IInvTypeOK, CacheInvParts DEF IInv, TablesAgree, CacheInv
<1>2. QED BY <1>1, Invariant, PTL

\* The newest content of a mapping page is in the cache if the page is loaded,
\* else where the GTD says: eviction, merge buffer and flush lose no update.
THEOREM MappingKept == Spec => []NewestKept
<1>1. IInv => NewestKept
  BY IInvNewest
<1>2. QED BY <1>1, Invariant, PTL

\* A page is fixed once for each sub-page that holds it, so that no unfix makes a
\* page evictable under another writer (pmt.c:54).
THEOREM FixesAreOwned == Spec => []FixesMatchOwners
<1>1. IInv => FixesMatchOwners
  BY DEF IInv
<1>2. QED BY <1>1, Invariant, PTL

\* The PMT thread is woken in the one pass in which a bank it uses is complete, no
\* bank it uses is given another command, and its buffers are those of its loads
\* and flushes (pmt_thread.c:74).
THEOREM CompletionsMet == Spec => []NoMissedCompletion
<1>1. IInv => NoMissedCompletion
  BY DEF IInv, BankInv
<1>2. QED BY <1>1, Invariant, PTL

\* The page that a sleeping thread waits for is being loaded or asked for, and
\* whenever something is asked for the PMT thread will run (pmt_thread.c:208).
THEOREM SleepersServed == Spec => []SleepersAreServed
<1>1. IInv => SleepersAreServed
  BY IInvServed
<1>2. QED BY <1>1, Invariant, PTL

\* No ASSERT of pmt_cache.c, pmt.c, pmt_thread.c or fla.c fails; in particular
\* there is always a page to evict (pmt_cache.c:269).
THEOREM NoAssertionFails ==
  ASSUME CacheHasSlack
  PROVE  Spec => []AssertionsHold
<1>1. Init => AssertionsHold
  BY DEF Init, EmptyCache, AssertionsHold
<1>2. IInv /\ AssertionsHold /\ [Next]_vars => AssertionsHold'
  BY NothingFails DEF AssertionsHold
<1>3. QED BY <1>1, <1>2, Invariant, PTL DEF Spec

-----------------------------------------------------------------------------

(***************************************************************************)
(* Page allocation (Gc).                                                   *)
(***************************************************************************)

(***************************************************************************)
(* Division by the pages of a block: the block and the place in it.        *)
(***************************************************************************)
LEMMA DivMod ==
  ASSUME NEW p \in Nat \ {0}, NEW v \in Nat
  PROVE  /\ v \div p \in Nat /\ v % p \in 0 .. p - 1
         /\ v = p * (v \div p) + (v % p)
  OBVIOUS

LEMMA DivUnique ==
  ASSUME NEW p \in Nat \ {0}, NEW q \in Nat, NEW r \in Nat, NEW a \in Nat, NEW b \in Nat,
         a < p, b < p, p * q + a = p * r + b
  PROVE  q = r /\ a = b
<1>1. CASE q < r
  <2>1. p * r >= p * q + p
    BY <1>1
  <2>2. QED BY <2>1
<1>2. CASE r < q
  <2>1. p * q >= p * r + p
    BY <1>2
  <2>2. QED BY <2>1
<1>3. CASE q = r
  BY <1>3
<1>4. QED BY <1>1, <1>2, <1>3

\* The first page of a block lies in it.
LEMMA FirstPage ==
  ASSUME NEW b \in Nat
  PROVE  b * PAGES_PER_VBLK \in Nat /\ Block(b * PAGES_PER_VBLK) = b
<1> DEFINE p == PAGES_PER_VBLK
           v == b * p
<1>1. p \in Nat \ {0}
  BY GeometryAssumption
<1> HIDE DEF p
<1>2. v \in Nat /\ v = p * b + 0
  BY <1>1
<1> HIDE DEF v
<1>3. v \div p \in Nat /\ v % p \in 0 .. p - 1 /\ v = p * (v \div p) + (v % p)
  BY <1>1, <1>2, DivMod
<1>4. v \div p = b
  BY <1>1, <1>2, <1>3, DivUnique
<1>5. QED BY <1>2, <1>4 DEF Block, v, p

\* A page that does not begin a block lies in the block of the page before.
LEMMA NextPage ==
  ASSUME NEW v \in Nat, (v + 1) % PAGES_PER_VBLK # 0
  PROVE  Block(v + 1) = Block(v)
<1> DEFINE p == PAGES_PER_VBLK
           w == v + 1
<1>1. p \in Nat \ {0}
  BY GeometryAssumption
<1> HIDE DEF p
<1>2. w \in Nat /\ v = w - 1 /\ w % p # 0
  BY DEF p
<1> HIDE DEF w
<1>3. w \div p \in Nat /\ w % p \in 0 .. p - 1 /\ w = p * (w \div p) + (w % p)
  BY <1>1, <1>2, DivMod
<1>4. v \div p \in Nat /\ v % p \in 0 .. p - 1 /\ v = p * (v \div p) + (v % p)
  BY <1>1, DivMod
<1>5. v = p * (w \div p) + ((w % p) - 1) /\ (w % p) - 1 \in Nat /\ (w % p) - 1 < p
  BY <1>1, <1>2, <1>3
<1> DEFINE q == v \div p
           r == w \div p
           a == v % p
           b == (w % p) - 1
<1>6. q = r
  <2>1. q \in Nat /\ r \in Nat /\ a \in Nat /\ b \in Nat /\ a < p /\ b < p
    BY <1>1, <1>3, <1>4, <1>5
  <2>2. p * q + a = p * r + b
    BY <1>4, <1>5
  <2> HIDE DEF q, r, a, b
  <2>3. QED BY <1>1, <2>1, <2>2, DivUnique
<1>7. QED BY <1>6 DEF Block, w, p

(***************************************************************************)
(* The inductive invariant.  A stream within a block gave out the page     *)
(* before its next one, and none behind; every page given out lies in a    *)
(* block that was taken, so that the search goes on behind all of them.    *)
(***************************************************************************)
GcTypes ==
    /\ bad \in BadBlocks
    /\ next_vpn \in [BOOLEAN -> Nat]
    /\ next_free_block \in Nat \ {0}
    /\ allocated \in [BOOLEAN -> SUBSET Nat]

WithinBlock(s) ==
    next_vpn[s] % PAGES_PER_VBLK # 0 =>
        /\ next_vpn[s] - 1 \in allocated[s]
        /\ \A v \in allocated[s] : Block(v) = Block(next_vpn[s]) => v < next_vpn[s]

BlocksTaken ==
    \A s \in BOOLEAN : \A v \in allocated[s] : Block(v) < next_free_block

GcIInv ==
    /\ GcTypes
    /\ \A s \in BOOLEAN : WithinBlock(s)
    /\ BlocksTaken
    /\ OnlyGoodBlocks
    /\ StreamsApart

\* Page vpn was never given out.
Fresh(vpn) == \A s \in BOOLEAN : vpn \notin allocated[s]

LEMMA GcInitIInv == GcInit => GcIInv
<1> SUFFICES ASSUME GcInit PROVE GcIInv
  OBVIOUS
<1>1. GcTypes
  BY DEF GcInit, GcTypes
<1>2. \A s \in BOOLEAN : WithinBlock(s)
  <2>1. 0 % PAGES_PER_VBLK = 0
    BY GeometryAssumption
  <2>2. QED BY <2>1 DEF GcInit, WithinBlock
<1>3. QED
  BY <1>1, <1>2 DEF GcInit, GcIInv, BlocksTaken, OnlyGoodBlocks, StreamsApart

(***************************************************************************)
(* What holds after page vpn was given to stream s, if it follows all      *)
(* pages of its block, which belongs to s and is good and taken.           *)
(***************************************************************************)
LEMMA GiveIInv ==
  ASSUME GcIInv, NEW s \in BOOLEAN, NEW other \in BOOLEAN, other # s, NEW vpn \in Nat,
         Give(s, vpn),
         next_free_block' \in Nat \ {0}, next_free_block <= next_free_block',
         Block(vpn) \in Blocks \ (bad \cup {0}), Block(vpn) < next_free_block',
         \A v \in allocated[s] : Block(v) = Block(vpn) => v < vpn,
         \A v \in allocated[other] : Block(v) # Block(vpn)
  PROVE  GcIInv'
<1>1. /\ bad' = bad
      /\ next_vpn \in [BOOLEAN -> Nat] /\ next_vpn' = [next_vpn EXCEPT ![s] = vpn + 1]
      /\ allocated \in [BOOLEAN -> SUBSET Nat]
      /\ allocated' = [allocated EXCEPT ![s] = @ \cup {vpn}]
  BY DEF GcIInv, GcTypes, Give
<1>2. /\ next_vpn'[s] = vpn + 1 /\ next_vpn'[other] = next_vpn[other]
      /\ allocated'[s] = allocated[s] \cup {vpn} /\ allocated'[other] = allocated[other]
  BY <1>1
<1>3. BOOLEAN = {s, other}
  OBVIOUS
<1>4. GcTypes'
  BY <1>1 DEF GcIInv, GcTypes
<1>5. \A v \in Nat : Block(v) \in Nat
  BY DivMod, GeometryAssumption DEF Block
<1>6. BlocksTaken'
  <2>1. \A r \in BOOLEAN : \A v \in allocated[r] :
          v \in Nat /\ Block(v) \in Nat /\ Block(v) < next_free_block
    BY <1>1, <1>5 DEF GcIInv, BlocksTaken
  <2>2. next_free_block \in Nat
    BY DEF GcIInv, GcTypes
  <2>3. \A r \in BOOLEAN : \A v \in allocated[r] : Block(v) < next_free_block'
    BY <2>1, <2>2
  <2>4. \A v \in allocated'[s] : Block(v) < next_free_block'
    BY <1>2, <2>3
  <2>5. \A v \in allocated'[other] : Block(v) < next_free_block'
    BY <1>2, <2>3
  <2>6. \A r \in BOOLEAN : \A v \in allocated'[r] : Block(v) < next_free_block'
    BY <1>3, <2>4, <2>5
  <2>7. QED BY <2>6 DEF BlocksTaken, Block
<1>7. OnlyGoodBlocks'
  <2>1. \A v \in allocated'[s] : Block(v) \in Blocks \ (bad \cup {0})
    BY <1>2 DEF GcIInv, OnlyGoodBlocks
  <2>2. \A v \in allocated'[other] : Block(v) \in Blocks \ (bad \cup {0})
    BY <1>2 DEF GcIInv, OnlyGoodBlocks
  <2>3. \A r \in BOOLEAN : \A v \in allocated'[r] : Block(v) \in Blocks \ (bad' \cup {0})
    BY <1>1, <1>3, <2>1, <2>2
  <2>4. QED BY <2>3 DEF OnlyGoodBlocks, Block
<1>8. StreamsApart'
  <2>1. \A v \in allocated[s], w \in allocated[other] : Block(v) # Block(w)
    <3>1. CASE s = FALSE
      BY <3>1 DEF GcIInv, StreamsApart
    <3>2. CASE s = TRUE
      BY <3>2 DEF GcIInv, StreamsApart
    <3>3. QED BY <3>1, <3>2
  <2>2. \A v \in allocated'[s], w \in allocated'[other] : Block(v) # Block(w)
    BY <1>2, <2>1
  <2>3. \A v \in allocated'[FALSE], w \in allocated'[TRUE] : Block(v) # Block(w)
    <3>1. CASE s = FALSE
      BY <2>2, <3>1
    <3>2. CASE s = TRUE
      BY <2>2, <3>2
    <3>3. QED BY <3>1, <3>2
  <2>4. QED BY <2>3 DEF StreamsApart, Block
<1>9. WithinBlock(s)'
  <2>1. SUFFICES ASSUME (vpn + 1) % PAGES_PER_VBLK # 0
                 PROVE  \A v \in allocated'[s] : Block(v) = Block(vpn + 1) => v < vpn + 1
    BY <1>2 DEF WithinBlock, Block
  <2>2. Block(vpn + 1) = Block(vpn)
    BY <2>1, NextPage
  <2>3. \A v \in allocated[s] : v \in Nat
    BY <1>1
  <2>4. QED BY <1>2, <2>2, <2>3
<1>10. WithinBlock(other)'
  BY <1>2 DEF GcIInv, WithinBlock, Block
<1>11. \A r \in BOOLEAN : WithinBlock(r)'
  BY <1>3, <1>9, <1>10
<1>12. QED BY <1>4, <1>6, <1>7, <1>8, <1>11 DEF GcIInv

(***************************************************************************)
(* A page in a new block: the search starts behind every block taken.      *)
(***************************************************************************)
LEMMA NewBlockStep ==
  ASSUME GcIInv, NEW s \in BOOLEAN, NEW b \in Blocks,
         NextGood(b), Take(b), Give(s, b * PAGES_PER_VBLK)
  PROVE  GcIInv' /\ Fresh(b * PAGES_PER_VBLK)
<1> DEFINE vpn == b * PAGES_PER_VBLK
<1>1. b \in Nat /\ next_free_block \in Nat \ {0} /\ next_free_block <= b /\ b \notin bad
  BY DEF GcIInv, GcTypes, Blocks, NextGood, GoodFrom
<1>2. vpn \in Nat /\ Block(vpn) = b
  BY <1>1, FirstPage
<1> HIDE DEF vpn
<1>3. \A r \in BOOLEAN : \A v \in allocated[r] : Block(v) # b
  <2>1. \A r \in BOOLEAN : \A v \in allocated[r] : Block(v) < next_free_block /\ Block(v) \in Nat
    BY DivMod, GeometryAssumption DEF GcIInv, GcTypes, BlocksTaken, Block
  <2>2. QED BY <1>1, <2>1
<1>4. next_free_block' = b + 1
  BY DEF Take
<1>5. PICK other \in BOOLEAN : other # s
  OBVIOUS
<1>6. /\ next_free_block' \in Nat \ {0} /\ next_free_block <= next_free_block'
      /\ Block(vpn) \in Blocks \ (bad \cup {0}) /\ Block(vpn) < next_free_block'
  BY <1>1, <1>2, <1>4
<1>7. Give(s, vpn)
  BY DEF vpn
<1>8. GcIInv'
  BY <1>2, <1>3, <1>5, <1>6, <1>7, GiveIInv
<1>9. Fresh(vpn)
  BY <1>2, <1>3 DEF Fresh
<1>10. QED BY <1>8, <1>9 DEF vpn

(***************************************************************************)
(* The next page of a block: the page before it is the stream's, so that   *)
(* the block is, and no page of the block behind it was given out.         *)
(***************************************************************************)
LEMMA InBlockStep ==
  ASSUME GcIInv, NEW s \in BOOLEAN, AllocateInBlock(s)
  PROVE  GcIInv' /\ next_vpn[s] \in Nat /\ Fresh(next_vpn[s])
<1> DEFINE n == next_vpn[s]
<1>1. /\ n \in Nat /\ n % PAGES_PER_VBLK # 0
      /\ Give(s, n) /\ next_free_block' = next_free_block
      /\ next_free_block \in Nat \ {0}
  BY DEF GcIInv, GcTypes, AllocateInBlock, NeedsBlock
<1> HIDE DEF n
<1>2. n - 1 \in allocated[s] /\ \A v \in allocated[s] : Block(v) = Block(n) => v < n
  BY <1>1 DEF GcIInv, WithinBlock, n
<1>3. n - 1 \in Nat
  BY <1>2 DEF GcIInv, GcTypes
<1>4. Block(n) = Block(n - 1)
  <2>1. n = (n - 1) + 1
    BY <1>1
  <2>2. QED BY <1>1, <1>3, <2>1, NextPage
<1>5. PICK other \in BOOLEAN : other # s
  OBVIOUS
<1>6. \A v \in allocated[other] : Block(v) # Block(n)
  <2>1. CASE s = FALSE
    BY <1>2, <1>4, <1>5, <2>1 DEF GcIInv, StreamsApart
  <2>2. CASE s = TRUE
    BY <1>2, <1>4, <1>5, <2>2 DEF GcIInv, StreamsApart
  <2>3. QED BY <2>1, <2>2
<1>7. Block(n) \in Blocks \ (bad \cup {0}) /\ Block(n) < next_free_block
  BY <1>2, <1>4 DEF GcIInv, OnlyGoodBlocks, BlocksTaken
<1>8. next_free_block <= next_free_block'
  BY <1>1
<1>9. GcIInv'
  BY <1>1, <1>2, <1>5, <1>6, <1>7, <1>8, GiveIInv
<1>10. n \notin allocated[s] /\ n \notin allocated[other]
  BY <1>1, <1>2, <1>6
<1>11. QED BY <1>1, <1>5, <1>9, <1>10 DEF Fresh, n

\* A step that changes the allocation gives a fresh page to one stream.
GivesFresh == \E s \in BOOLEAN, vpn \in Nat : Give(s, vpn) /\ Fresh(vpn)

LEMMA GcNextIInv ==
  ASSUME GcIInv, [GcNext]_gcVars
  PROVE  GcIInv' /\ (next_vpn' = next_vpn \/ GivesFresh)
<1>1. ASSUME UNCHANGED <<bad, next_vpn, next_free_block, allocated>>
      PROVE  GcIInv' /\ next_vpn' = next_vpn
  BY <1>1 DEF GcIInv, GcTypes, WithinBlock, BlocksTaken, OnlyGoodBlocks, StreamsApart, Block
<1>2. CASE NoMoreFreeBlocks
  BY <1>1, <1>2 DEF NoMoreFreeBlocks, Halt, meta
<1>3. ASSUME NEW s \in BOOLEAN, AllocateInNewBlock(s)
      PROVE  GcIInv' /\ (next_vpn' = next_vpn \/ GivesFresh)
  <2>1. CASE \E b \in Blocks : NextGood(b)
    <3>1. PICK b \in Blocks : NextGood(b) /\ Take(b) /\ Give(s, b * PAGES_PER_VBLK)
      BY <1>3, <2>1 DEF AllocateInNewBlock
    <3>2. b * PAGES_PER_VBLK \in Nat
      BY FirstPage DEF Blocks
    <3>3. QED BY <3>1, <3>2, NewBlockStep DEF GivesFresh
  <2>2. CASE ~ \E b \in Blocks : NextGood(b)
    BY <1>1, <1>3, <2>2 DEF AllocateInNewBlock, Halt, meta
  <2>3. QED BY <2>1, <2>2
<1>4. ASSUME NEW s \in BOOLEAN, AllocateInBlock(s)
      PROVE  GcIInv' /\ GivesFresh
  BY <1>4, InBlockStep DEF AllocateInBlock, GivesFresh
<1>5. CASE UNCHANGED gcVars
  BY <1>1, <1>5 DEF gcVars, meta
<1>6. QED BY <1>2, <1>3, <1>4, <1>5 DEF GcNext, gc_allocate_new_vpn

(***************************************************************************)
(* gc_allocate_new_vpn returns pages of good blocks behind block 0 only,   *)
(* also when block 0 is bad itself, and user and system data never share a *)
(* block: for any geometry and any bad blocks.                             *)
(***************************************************************************)
THEOREM GcSafe == GcSpec => [](OnlyGoodBlocks /\ StreamsApart)
<1>1. GcSpec => []GcIInv
  <2>1. GcIInv /\ [GcNext]_gcVars => GcIInv'
    BY GcNextIInv
  <2>2. QED BY GcInitIInv, <2>1, PTL DEF GcSpec
<1>2. QED BY <1>1, PTL DEF GcIInv

(***************************************************************************)
(* No page is returned twice, to either stream: a NAND page is never       *)
(* programmed a second time.                                               *)
(***************************************************************************)
THEOREM PagesOnce == GcSpec => NeverTwice
<1> DEFINE Once == \A is_sys \in BOOLEAN :
                     next_vpn' # next_vpn /\ next_vpn'[is_sys] # next_vpn[is_sys]
                       => \A other \in BOOLEAN : next_vpn'[is_sys] - 1 \notin allocated[other]
<1>1. GcIInv /\ [GcNext]_gcVars => Once
  <2> SUFFICES ASSUME GcIInv, [GcNext]_gcVars, NEW is_sys \in BOOLEAN,
                      next_vpn' # next_vpn, next_vpn'[is_sys] # next_vpn[is_sys]
               PROVE  \A other \in BOOLEAN : next_vpn'[is_sys] - 1 \notin allocated[other]
    OBVIOUS
  <2>1. PICK s \in BOOLEAN, vpn \in Nat : Give(s, vpn) /\ Fresh(vpn)
    BY GcNextIInv DEF GivesFresh
  <2>2. next_vpn' = [next_vpn EXCEPT ![s] = vpn + 1] /\ next_vpn \in [BOOLEAN -> Nat]
    BY <2>1 DEF Give, GcIInv, GcTypes
  <2>3. is_sys = s /\ next_vpn'[is_sys] - 1 = vpn
    BY <2>2
  <2>4. QED BY <2>1, <2>3 DEF Fresh
<1>2. GcIInv /\ [GcNext]_gcVars => GcIInv'
  BY GcNextIInv
<1>3. QED BY GcInitIInv, <1>1, <1>2, PTL DEF GcSpec, NeverTwice

(***************************************************************************)
(* The pages of a block are given out in order and without a gap: the page *)
(* before the next one of a stream was given out, and by induction over    *)
(* the steps so were all pages of the block before that one.               *)
(***************************************************************************)
LEMMA GiveInOrder ==
  ASSUME GcIInv, PagesInOrder, NEW s \in BOOLEAN, NEW vpn \in Nat, Give(s, vpn),
         \A v \in Block(vpn) * PAGES_PER_VBLK .. vpn - 1 : v \in allocated[s]
  PROVE  PagesInOrder'
<1>1. /\ allocated \in [BOOLEAN -> SUBSET Nat]
      /\ allocated' = [allocated EXCEPT ![s] = @ \cup {vpn}]
  BY DEF GcIInv, GcTypes, Give
<1>2. SUFFICES ASSUME NEW r \in BOOLEAN, NEW w \in allocated'[r],
                      NEW v \in Block(w) * PAGES_PER_VBLK .. w
               PROVE  v \in allocated'[r]
  BY DEF PagesInOrder, Block
<1>3. CASE w \in allocated[r]
  <2>1. v \in allocated[r]
    BY <1>3 DEF PagesInOrder
  <2>2. QED BY <1>1, <2>1
<1>4. CASE w \notin allocated[r]
  <2>1. r = s /\ w = vpn
    BY <1>1, <1>4
  <2>2. Block(vpn) * PAGES_PER_VBLK \in Nat
    BY DivMod, FirstPage, GeometryAssumption DEF Block
  <2>3. v = vpn \/ v \in Block(vpn) * PAGES_PER_VBLK .. vpn - 1
    BY <2>1, <2>2
  <2>4. QED BY <1>1, <2>1, <2>3
<1>5. QED BY <1>3, <1>4

LEMMA NextInOrder ==
  ASSUME GcIInv, PagesInOrder, [GcNext]_gcVars
  PROVE  PagesInOrder'
<1>1. ASSUME UNCHANGED allocated PROVE PagesInOrder'
  BY <1>1 DEF PagesInOrder, Block
<1>2. ASSUME NEW s \in BOOLEAN, AllocateInNewBlock(s) PROVE PagesInOrder'
  <2>1. CASE \E b \in Blocks : NextGood(b)
    <3>1. PICK b \in Blocks : Give(s, b * PAGES_PER_VBLK)
      BY <1>2, <2>1 DEF AllocateInNewBlock
    <3>2. b * PAGES_PER_VBLK \in Nat /\ Block(b * PAGES_PER_VBLK) = b
      BY FirstPage DEF Blocks
    <3>3. b * PAGES_PER_VBLK .. b * PAGES_PER_VBLK - 1 = {}
      BY <3>2
    <3>4. QED BY <3>1, <3>2, <3>3, GiveInOrder
  <2>2. CASE ~ \E b \in Blocks : NextGood(b)
    BY <1>1, <1>2, <2>2 DEF AllocateInNewBlock, Halt
  <2>3. QED BY <2>1, <2>2
<1>3. ASSUME NEW s \in BOOLEAN, AllocateInBlock(s) PROVE PagesInOrder'
  <2>1. /\ next_vpn[s] \in Nat /\ next_vpn[s] % PAGES_PER_VBLK # 0
        /\ Give(s, next_vpn[s])
    BY <1>3 DEF GcIInv, GcTypes, AllocateInBlock, NeedsBlock
  <2>2. next_vpn[s] - 1 \in allocated[s] /\ next_vpn[s] - 1 \in Nat
    BY <2>1 DEF GcIInv, GcTypes, WithinBlock
  <2>3. Block(next_vpn[s]) = Block(next_vpn[s] - 1)
    <3>1. next_vpn[s] = (next_vpn[s] - 1) + 1
      BY <2>1
    <3>2. QED BY <2>1, <2>2, <3>1, NextPage
  <2>4. \A v \in Block(next_vpn[s]) * PAGES_PER_VBLK .. next_vpn[s] - 1 : v \in allocated[s]
    BY <2>2, <2>3 DEF PagesInOrder
  <2>5. QED BY <2>1, <2>4, GiveInOrder
<1>4. QED
  BY <1>1, <1>2, <1>3
  DEF GcNext, gc_allocate_new_vpn, NoMoreFreeBlocks, Halt, gcVars

(***************************************************************************)
(* Each stream writes the pages of a block in order and without a gap.     *)
(***************************************************************************)
THEOREM WrittenInOrder == GcSpec => []PagesInOrder
<1>1. GcInit => PagesInOrder
  BY DEF GcInit, PagesInOrder
<1>2. GcIInv /\ [GcNext]_gcVars => GcIInv'
  BY GcNextIInv
<1>3. GcIInv /\ PagesInOrder /\ [GcNext]_gcVars => PagesInOrder'
  BY NextInOrder
<1>4. QED BY GcInitIInv, <1>1, <1>2, <1>3, PTL DEF GcSpec

(***************************************************************************)
(* The count of free blocks, for banks whose block 0 is good (gc_init      *)
(* counts a bad block 0 twice).                                            *)
(***************************************************************************)
FreeBlocks == {b \in Blocks : GoodFrom(b)}

Counted ==
    /\ CountsFreeBlocks
    /\ halted = "no more free blocks" => num_free_blocks = 0

LEMMA FreeBlocksFinite == IsFiniteSet(FreeBlocks) /\ Cardinality(FreeBlocks) \in Nat
<1>1. IsFiniteSet(Blocks)
  BY FS_Interval, GeometryAssumption DEF Blocks
<1>2. FreeBlocks \in SUBSET Blocks
  BY DEF FreeBlocks
<1>3. QED BY <1>1, <1>2, FS_Subset, FS_CardinalityType

LEMMA InitCounted ==
  ASSUME \A B \in BadBlocks : 0 \notin B, GcInit
  PROVE  Counted
<1> DEFINE Usable == Blocks \ {0}
<1>1. IsFiniteSet(Blocks) /\ Cardinality(Blocks) = VBLKS_PER_BANK
  <2>1. IsFiniteSet(0 .. VBLKS_PER_BANK - 1)
        /\ Cardinality(0 .. VBLKS_PER_BANK - 1) =
             IF 0 > VBLKS_PER_BANK - 1 THEN 0 ELSE (VBLKS_PER_BANK - 1) - 0 + 1
    BY FS_Interval, GeometryAssumption
  <2>2. QED BY <2>1, GeometryAssumption DEF Blocks
<1>2. IsFiniteSet(Usable) /\ Cardinality(Usable) = VBLKS_PER_BANK - 1
  <2>1. 0 \in Blocks
    BY GeometryAssumption DEF Blocks
  <2>2. QED BY <1>1, <2>1, FS_RemoveElement
<1>3. bad \in SUBSET Usable
  BY GeometryAssumption DEF GcInit
<1>4. Cardinality(Usable \ bad) = Cardinality(Usable) - Cardinality(Usable \cap bad)
  BY <1>2, FS_Difference
<1>5. Usable \cap bad = bad /\ Usable \ bad = FreeBlocks
  <2>1. \A b \in Blocks : b # 0 <=> b >= next_free_block
    BY GeometryAssumption DEF GcInit, Blocks
  <2>2. QED BY <1>3, <2>1 DEF FreeBlocks, GoodFrom
<1>6. Cardinality(bad) \in Nat
  BY <1>2, <1>3, FS_Subset, FS_CardinalityType
<1>7. Cardinality(FreeBlocks) = VBLKS_PER_BANK - Cardinality(bad) - 1
  <2>1. Cardinality(FreeBlocks) = Cardinality(Usable) - Cardinality(bad)
    BY <1>4, <1>5
  <2>2. QED BY <1>2, <1>6, <2>1, GeometryAssumption
<1>8. num_free_blocks = Cardinality(FreeBlocks) /\ halted = "no"
  BY <1>7 DEF GcInit
<1>9. QED BY <1>8 DEF Counted, CountsFreeBlocks, FreeBlocks

LEMMA TakeCounted ==
  ASSUME GcIInv, Counted, NEW b \in Blocks, NextGood(b), Take(b), bad' = bad, halted' = halted,
         halted = "no"
  PROVE  Counted'
<1>1. b \in FreeBlocks
  BY DEF FreeBlocks, NextGood
<1>2. FreeBlocks' = FreeBlocks \ {b}
  BY DEF FreeBlocks, NextGood, GoodFrom, Take, Blocks, GcIInv, GcTypes
<1>3. Cardinality(FreeBlocks \ {b}) = Cardinality(FreeBlocks) - 1
  BY <1>1, FreeBlocksFinite, FS_RemoveElement
<1>4. num_free_blocks' = Cardinality(FreeBlocks')
  BY <1>2, <1>3 DEF Take, Counted, CountsFreeBlocks, FreeBlocks
<1>5. QED BY <1>4 DEF Counted, CountsFreeBlocks, FreeBlocks

LEMMA NextCounted ==
  ASSUME GcIInv, Counted, [GcNext]_gcVars
  PROVE  Counted'
<1>1. ASSUME UNCHANGED <<bad, next_free_block, num_free_blocks>>,
             halted' = halted \/ halted' # "no more free blocks" \/ num_free_blocks = 0
      PROVE  Counted'
  BY <1>1 DEF Counted, CountsFreeBlocks, GoodFrom
<1>2. CASE NoMoreFreeBlocks
  BY <1>1, <1>2 DEF NoMoreFreeBlocks, Halt, meta
<1>3. ASSUME NEW s \in BOOLEAN, AllocateInNewBlock(s) PROVE Counted'
  <2>1. CASE \E b \in Blocks : NextGood(b)
    <3>1. PICK b \in Blocks : NextGood(b) /\ Take(b) /\ Give(s, b * PAGES_PER_VBLK)
      BY <1>3, <2>1 DEF AllocateInNewBlock
    <3>2. QED BY <1>3, <3>1, TakeCounted DEF Give, AllocateInNewBlock
  <2>2. CASE ~ \E b \in Blocks : NextGood(b)
    <3>1. Halt("no available blocks")
      BY <1>3, <2>2 DEF AllocateInNewBlock
    <3>2. QED BY <1>1, <3>1 DEF Halt, meta
  <2>3. QED BY <2>1, <2>2
<1>4. ASSUME NEW s \in BOOLEAN, AllocateInBlock(s) PROVE Counted'
  BY <1>1, <1>4 DEF AllocateInBlock, Give
<1>5. CASE UNCHANGED gcVars
  BY <1>1, <1>5 DEF gcVars, meta
<1>6. QED BY <1>2, <1>3, <1>4, <1>5 DEF GcNext, gc_allocate_new_vpn

LEMMA CountedIsFull == Counted => HaltsOnlyWhenFull
<1> SUFFICES ASSUME Counted, halted = "no more free blocks", NEW b \in Blocks, NextGood(b)
             PROVE  FALSE
  BY DEF HaltsOnlyWhenFull
<1>1. Cardinality(FreeBlocks) = 0
  BY DEF Counted, CountsFreeBlocks, FreeBlocks
<1>2. FreeBlocks = {}
  BY <1>1, FreeBlocksFinite, FS_EmptySet
<1>3. QED BY <1>2 DEF FreeBlocks, NextGood

(***************************************************************************)
(* If block 0 is good, the count is that of the good blocks not taken, and *)
(* the firmware reports "no more free blocks" only when none is left.      *)
(***************************************************************************)
THEOREM FreeBlocksExact ==
  ASSUME \A B \in BadBlocks : 0 \notin B
  PROVE  GcSpec => [](CountsFreeBlocks /\ HaltsOnlyWhenFull)
<1>1. GcInit => Counted
  BY InitCounted
<1>2. GcIInv /\ [GcNext]_gcVars => GcIInv'
  BY GcNextIInv
<1>3. GcIInv /\ Counted /\ [GcNext]_gcVars => Counted'
  BY NextCounted
<1>4. Counted => CountsFreeBlocks /\ HaltsOnlyWhenFull
  BY CountedIsFull DEF Counted
<1>5. QED BY GcInitIInv, <1>1, <1>2, <1>3, <1>4, PTL DEF GcSpec
=============================================================================
