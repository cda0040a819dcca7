--------------------------- MODULE WriteBuffer_proofs ---------------------------
(***************************************************************************)
(* The write buffer, for any pages, users, buffers and sizes of a page:    *)
(* its redundant tables agree, users never share a sub-page, no assertion  *)
(* fails, a flush makes room, and it is a store of the newest sectors.     *)
(***************************************************************************)
EXTENDS WriteBuffer, FiniteSetTheorems, WellFoundedInduction, TLAPS

(***************************************************************************)
(* Sub-pages of sets of sectors.                                           *)
(***************************************************************************)
LEMMA SubPagesAre ==
  ASSUME NEW S \in SUBSET Sectors
  PROVE  /\ SubPagesOf(S) \subseteq SubPages
         /\ \A s \in S : s[1] \in SubPagesOf(S)
         /\ \A sp : sp \in SubPagesOf(S) <=> \E s \in S : s[1] = sp
         /\ SubPagesOf(S) = {} <=> S = {}
BY DEF SubPagesOf, Sectors

LEMMA SubPagesUnion ==
  ASSUME NEW S \in SUBSET Sectors, NEW T \in SUBSET Sectors
  PROVE  SubPagesOf(S \cup T) = SubPagesOf(S) \cup SubPagesOf(T)
BY DEF SubPagesOf

(***************************************************************************)
(* The tables agree: l are the entries, b the buffers.                     *)
(***************************************************************************)
Record == [masks : [Bufs -> SUBSET SubPages], uids : [Bufs -> Users \cup {NoUser}],
           managed : SUBSET Bufs, data : [Bufs -> [Sectors -> Values \cup {Garbage}]],
           clean : Int, ok : BOOLEAN]

UsedIn(l) == {i \in Entries : l[i] # NoEntry}

Taken(l, i) == SubPagesOf(l[i].mask)

Clean(m) == {x \in Bufs : m[x] = {}}

\* buf_masks is what the entries of a buffer take up.
MasksExact(l, b) ==
    \A x \in Bufs, sp \in SubPages :
        sp \in b.masks[x] <=> \E i \in UsedIn(l) : l[i].buf = x /\ sp \in Taken(l, i)

\* No two entries share a sub-page of a buffer.
NoOverlap(l) ==
    \A i, j \in UsedIn(l) : i # j /\ l[i].buf = l[j].buf => Taken(l, i) \cap Taken(l, j) = {}

\* Exactly the empty buffers are without user and without memory.
Owned(b) ==
    \A x \in Bufs :
        /\ b.masks[x] = {} <=> b.uids[x] = NoUser
        /\ b.masks[x] # {} <=> x \in b.managed

\* A page has one entry per user, and users do not share sub-pages.
Apart(l, b) ==
    \A i, j \in UsedIn(l) : i # j /\ l[i].lpn = l[j].lpn =>
        /\ b.uids[l[i].buf] # b.uids[l[j].buf]
        /\ Taken(l, i) \cap Taken(l, j) = {}

Coherent(l, b) ==
    /\ l \in [Entries -> EntryType \cup {NoEntry}]
    /\ b \in Record
    /\ MasksExact(l, b) /\ NoOverlap(l) /\ Owned(b) /\ Apart(l, b)
    /\ b.clean = Cardinality(Clean(b.masks))

LEMMA UsedType ==
  ASSUME NEW l \in [Entries -> EntryType \cup {NoEntry}], NEW i \in UsedIn(l)
  PROVE  /\ i \in Entries /\ l[i] \in EntryType
         /\ l[i].lpn \in Lpns /\ l[i].mask \in SUBSET Sectors /\ l[i].mask # {}
         /\ l[i].buf \in Bufs
         /\ Taken(l, i) \subseteq SubPages /\ Taken(l, i) # {}
<1>1. i \in Entries /\ l[i] \in EntryType
  BY DEF UsedIn
<1>2. l[i].lpn \in Lpns /\ l[i].mask \in (SUBSET Sectors) \ {{}} /\ l[i].buf \in Bufs
  BY <1>1 DEF EntryType
<1>3. QED BY <1>1, <1>2, SubPagesAre DEF Taken

LEMMA EntriesFinite ==
  /\ MaxLpns \in Nat /\ MaxLpns > 0
  /\ IsFiniteSet(Entries) /\ Cardinality(Entries) = MaxLpns
  /\ IsFiniteSet(Bufs) /\ Cardinality(Bufs) = NumWriteBuffers
<1>1. NumWriteBuffers \in Nat /\ NumWriteBuffers > 0
  BY BufferAssumption
<1>2. Cardinality(SubPages) \in Nat /\ Cardinality(SubPages) # 0
  BY BufferAssumption, FS_CardinalityType, FS_EmptySet
<1>3. \A m, n \in Nat : m # 0 /\ n > 0 => m * n \in Nat /\ m * n > 0
  <2>1. TAKE m \in Nat, n \in Nat
  <2>2. HAVE m # 0 /\ n > 0
  <2>3. m * n = (m - 1) * n + n /\ (m - 1) * n >= 0
    BY <2>2
  <2>4. QED BY <2>2, <2>3
<1>4. MaxLpns \in Nat /\ MaxLpns > 0
  BY <1>1, <1>2, <1>3 DEF MaxLpns
<1>5. IsFiniteSet(Entries) /\ Cardinality(Entries) = MaxLpns
  BY <1>4, FS_Interval DEF Entries
<1>6. IsFiniteSet(Bufs) /\ Cardinality(Bufs) = NumWriteBuffers
  BY <1>1, FS_Interval DEF Bufs
<1>7. QED BY <1>4, <1>5, <1>6

LEMMA CleanFinite == \A m : IsFiniteSet(Clean(m)) /\ Cardinality(Clean(m)) \in 0 .. NumWriteBuffers
<1>1. TAKE m
<1>2. Clean(m) \in SUBSET Bufs
  BY DEF Clean
<1>3. IsFiniteSet(Clean(m)) /\ Cardinality(Clean(m)) <= NumWriteBuffers
  BY <1>2, EntriesFinite, FS_Subset
<1>4. QED BY <1>3, FS_CardinalityType, BufferAssumption

Left(b, gone) == [x \in Bufs |-> b.masks[x] \ gone[x]]

Freed(b, gone) == {x \in Bufs : gone[x] # {} /\ Left(b, gone)[x] = {}}

LEMMA RemoveFields ==
  ASSUME NEW b \in Record, NEW gone \in [Bufs -> SUBSET SubPages],
         NEW c, c = Remove(b, gone)
  PROVE  /\ c \in Record
         /\ c.masks = Left(b, gone) /\ c.ok = b.ok
         /\ c.uids = [x \in Bufs |-> IF x \in Freed(b, gone) THEN NoUser ELSE b.uids[x]]
         /\ c.managed = b.managed \ Freed(b, gone)
         /\ c.clean = b.clean + Cardinality(Freed(b, gone))
<1> DEFINE left == Left(b, gone)
           freed == Freed(b, gone)
           cu == [x \in Bufs |-> IF x \in freed THEN NoUser ELSE b.uids[x]]
           cg == b.managed \ freed
           cd == [x \in Bufs |->
                     [s \in Sectors |-> IF s[1] \in left[x] THEN b.data[x][s] ELSE Garbage]]
           cc == b.clean + Cardinality(freed)
           d == [b EXCEPT !.masks = left, !.uids = cu, !.managed = cg, !.data = cd, !.clean = cc]
<1>1. c = d
  BY DEF Remove, Record, Left, Freed
<1>2. /\ b.masks \in [Bufs -> SUBSET SubPages] /\ b.uids \in [Bufs -> Users \cup {NoUser}]
      /\ b.managed \in SUBSET Bufs /\ b.data \in [Bufs -> [Sectors -> Values \cup {Garbage}]]
      /\ b.clean \in Int
  BY DEF Record
<1>3. left \in [Bufs -> SUBSET SubPages] /\ freed \in SUBSET Bufs
  BY <1>2 DEF Left, Freed
<1>4. Cardinality(freed) \in Nat
  BY <1>3, EntriesFinite, FS_Subset, FS_CardinalityType
<1>5. cc \in Int
  BY <1>2, <1>4
<1> HIDE DEF left, freed
<1>6. cu \in [Bufs -> Users \cup {NoUser}] /\ cg \in SUBSET Bufs
      /\ cd \in [Bufs -> [Sectors -> Values \cup {Garbage}]]
  BY <1>2
<1> HIDE DEF cu, cg, cd, cc
<1>7. d \in Record /\ d.masks = left /\ d.ok = b.ok /\ d.uids = cu /\ d.managed = cg
      /\ d.clean = cc
  BY <1>3, <1>5, <1>6 DEF Record
<1>8. QED BY <1>1, <1>7 DEF cu, cg, cc, left, freed

(***************************************************************************)
(* Removal.  Entry i loses the sectors lost[i], always all those of a sub- *)
(* page, and buffer x the sub-pages gone[x] of what its entries lose.      *)
(***************************************************************************)
Shrunk(l, lost) ==
    [i \in Entries |-> IF l[i] = NoEntry THEN NoEntry
                       ELSE IF l[i].mask \subseteq lost[i] THEN NoEntry
                       ELSE [l[i] EXCEPT !.mask = @ \ lost[i]]]

WholeSubPages(l, lost) ==
    \A i \in UsedIn(l) :
        /\ lost[i] \subseteq l[i].mask
        /\ \A s \in l[i].mask : s[1] \in SubPagesOf(lost[i]) => s \in lost[i]

GoneFrom(l, lost, gone) ==
    /\ gone \in [Bufs -> SUBSET SubPages]
    /\ \A x \in Bufs, sp \in SubPages :
          sp \in gone[x] <=> \E i \in UsedIn(l) : l[i].buf = x /\ sp \in SubPagesOf(lost[i])

LEMMA ShrunkEntries ==
  ASSUME NEW l \in [Entries -> EntryType \cup {NoEntry}], NEW lost, WholeSubPages(l, lost)
  PROVE  /\ Shrunk(l, lost) \in [Entries -> EntryType \cup {NoEntry}]
         /\ UsedIn(Shrunk(l, lost)) \subseteq UsedIn(l)
         /\ \A i \in UsedIn(l) : Taken(l, i) \subseteq SubPagesOf(lost[i])
                <=> i \notin UsedIn(Shrunk(l, lost))
         /\ \A i \in UsedIn(Shrunk(l, lost)) :
               /\ Shrunk(l, lost)[i].lpn = l[i].lpn /\ Shrunk(l, lost)[i].buf = l[i].buf
               /\ Shrunk(l, lost)[i].mask = l[i].mask \ lost[i]
               /\ Taken(Shrunk(l, lost), i) = Taken(l, i) \ SubPagesOf(lost[i])
<1> DEFINE m == Shrunk(l, lost)
<1>1. \A i \in Entries :
         /\ l[i] = NoEntry => m[i] = NoEntry
         /\ l[i] # NoEntry /\ l[i].mask \subseteq lost[i] => m[i] = NoEntry
         /\ l[i] # NoEntry /\ ~(l[i].mask \subseteq lost[i]) =>
              /\ m[i] = [l[i] EXCEPT !.mask = @ \ lost[i]]
              /\ m[i] \in EntryType /\ m[i] # NoEntry
  <2>1. TAKE i \in Entries
  <2>2. ASSUME l[i] # NoEntry, ~(l[i].mask \subseteq lost[i])
        PROVE  /\ m[i] = [l[i] EXCEPT !.mask = @ \ lost[i]]
               /\ m[i] \in EntryType /\ m[i] # NoEntry
    <3>1. m[i] = [l[i] EXCEPT !.mask = @ \ lost[i]]
      BY <2>2 DEF Shrunk
    <3>2. l[i] \in EntryType
      BY <2>2
    <3>3. m[i] \in EntryType
      BY <2>2, <3>1, <3>2 DEF EntryType
    <3>4. m[i] \in [lpn : Lpns, mask : SUBSET Sectors, buf : Bufs]
      BY <3>3 DEF EntryType
    <3>5. QED BY <3>1, <3>3, <3>4, BufferAssumption
  <2>3. QED BY <2>2 DEF Shrunk
<1>2. m \in [Entries -> EntryType \cup {NoEntry}]
  <2>1. \A i \in Entries : m[i] \in EntryType \cup {NoEntry}
    BY <1>1
  <2>2. m = [i \in Entries |-> m[i]]
    BY DEF Shrunk
  <2>3. QED BY <2>1, <2>2
<1>3. UsedIn(m) \subseteq UsedIn(l)
  BY <1>1 DEF UsedIn
<1>4. ASSUME NEW i \in UsedIn(l)
      PROVE  Taken(l, i) \subseteq SubPagesOf(lost[i]) <=> i \notin UsedIn(m)
  <2>1. l[i].mask \in SUBSET Sectors /\ lost[i] \in SUBSET Sectors /\ l[i] # NoEntry
    BY UsedType DEF WholeSubPages, UsedIn
  <2>2. Taken(l, i) \subseteq SubPagesOf(lost[i]) <=> l[i].mask \subseteq lost[i]
    BY <2>1, SubPagesAre DEF WholeSubPages, Taken
  <2>3. QED BY <1>1, <2>1, <2>2 DEF UsedIn
<1>5. ASSUME NEW i \in UsedIn(m)
      PROVE  /\ m[i].lpn = l[i].lpn /\ m[i].buf = l[i].buf
             /\ m[i].mask = l[i].mask \ lost[i]
             /\ Taken(m, i) = Taken(l, i) \ SubPagesOf(lost[i])
  <2>1. i \in UsedIn(l) /\ m[i] = [l[i] EXCEPT !.mask = @ \ lost[i]]
    BY <1>1 DEF UsedIn
  <2>2. l[i].mask \in SUBSET Sectors /\ lost[i] \in SUBSET Sectors /\ l[i] \in EntryType
    BY <2>1, UsedType DEF WholeSubPages
  <2>3. m[i].lpn = l[i].lpn /\ m[i].buf = l[i].buf /\ m[i].mask = l[i].mask \ lost[i]
    BY <2>1, <2>2 DEF EntryType
  <2>4. SubPagesOf(l[i].mask \ lost[i]) = SubPagesOf(l[i].mask) \ SubPagesOf(lost[i])
    BY <2>1, <2>2, SubPagesAre DEF WholeSubPages
  <2>5. QED BY <2>3, <2>4 DEF Taken
<1>6. QED BY <1>2, <1>3, <1>4, <1>5

LEMMA Shrink ==
  ASSUME NEW l, NEW b, Coherent(l, b), NEW lost, WholeSubPages(l, lost),
         NEW gone, GoneFrom(l, lost, gone)
  PROVE  /\ Coherent(Shrunk(l, lost), Remove(b, gone))
         /\ Remove(b, gone).ok = b.ok
         /\ Remove(b, gone).masks = [x \in Bufs |-> b.masks[x] \ gone[x]]
         /\ \A i \in UsedIn(Shrunk(l, lost)) : Remove(b, gone).uids[l[i].buf] = b.uids[l[i].buf]
<1> DEFINE m == Shrunk(l, lost)
           c == Remove(b, gone)
           left  == Left(b, gone)
           freed == Freed(b, gone)
<1>1. l \in [Entries -> EntryType \cup {NoEntry}] /\ b \in Record
      /\ MasksExact(l, b) /\ NoOverlap(l) /\ Owned(b) /\ Apart(l, b)
      /\ b.clean = Cardinality(Clean(b.masks)) /\ gone \in [Bufs -> SUBSET SubPages]
  BY DEF Coherent, GoneFrom
<1>2. /\ m \in [Entries -> EntryType \cup {NoEntry}]
      /\ UsedIn(m) \subseteq UsedIn(l)
      /\ \A i \in UsedIn(l) : Taken(l, i) \subseteq SubPagesOf(lost[i]) <=> i \notin UsedIn(m)
      /\ \A i \in UsedIn(m) :
            /\ m[i].lpn = l[i].lpn /\ m[i].buf = l[i].buf
            /\ Taken(m, i) = Taken(l, i) \ SubPagesOf(lost[i])
  BY <1>1, ShrunkEntries
<1>3. /\ b.masks \in [Bufs -> SUBSET SubPages] /\ b.uids \in [Bufs -> Users \cup {NoUser}]
      /\ b.managed \in SUBSET Bufs /\ b.data \in [Bufs -> [Sectors -> Values \cup {Garbage}]]
      /\ b.clean \in Int /\ b.ok \in BOOLEAN
  BY <1>1 DEF Record
<1>4. c \in Record /\ freed \subseteq Bufs
      /\ left = [x \in Bufs |-> b.masks[x] \ gone[x]]
  BY <1>1, RemoveFields DEF Left, Freed
<1>5. /\ c.masks = left
      /\ c.uids = [x \in Bufs |-> IF x \in freed THEN NoUser ELSE b.uids[x]]
      /\ c.managed = b.managed \ freed
      /\ c.clean = b.clean + Cardinality(freed)
      /\ c.ok = b.ok
  BY <1>1, RemoveFields
<1>6. /\ \A x \in Bufs : left[x] = b.masks[x] \ gone[x]
      /\ freed = {x \in Bufs : gone[x] # {} /\ left[x] = {}}
  BY <1>4 DEF Freed
<1>7. Cardinality(freed) \in Nat /\ IsFiniteSet(freed)
  BY <1>4, EntriesFinite, FS_Subset, FS_CardinalityType
<1> HIDE DEF m, c, left, freed
<1>8. \A i \in UsedIn(l) : l[i].buf \in Bufs /\ Taken(l, i) \subseteq SubPages
                           /\ Taken(l, i) # {} /\ l[i].lpn \in Lpns
                           /\ SubPagesOf(lost[i]) \subseteq Taken(l, i)
  <2>1. TAKE i \in UsedIn(l)
  <2>2. lost[i] \subseteq l[i].mask
    BY DEF WholeSubPages
  <2>3. QED BY <1>1, <2>2, UsedType DEF Taken, SubPagesOf
<1>9. \A i \in UsedIn(m), x \in Bufs : m[i].buf = x => left[x] # {} /\ x \notin freed
  <2>1. TAKE i \in UsedIn(m), x \in Bufs
  <2>2. HAVE m[i].buf = x
  <2>3. PICK sp \in Taken(l, i) : sp \notin SubPagesOf(lost[i])
    BY <1>2
  <2>4. sp \in SubPages /\ sp \in b.masks[x] /\ i \in UsedIn(l) /\ l[i].buf = x
    BY <1>1, <1>2, <1>8, <2>2, <2>3 DEF MasksExact
  <2>5. sp \notin gone[x]
    <3>1. SUFFICES ASSUME sp \in gone[x] PROVE FALSE
      OBVIOUS
    <3>2. PICK j \in UsedIn(l) : l[j].buf = x /\ sp \in SubPagesOf(lost[j])
      BY <2>4, <3>1 DEF GoneFrom
    <3>3. i # j /\ sp \in Taken(l, j)
      BY <1>8, <2>3, <3>2
    <3>4. QED BY <1>1, <2>3, <2>4, <3>2, <3>3 DEF NoOverlap
  <2>6. QED BY <1>6, <2>4, <2>5
<1>10. MasksExact(m, c)
  <2>1. SUFFICES ASSUME NEW x \in Bufs, NEW sp \in SubPages
                 PROVE  sp \in left[x]
                          <=> \E i \in UsedIn(m) : m[i].buf = x /\ sp \in Taken(m, i)
    BY <1>5 DEF MasksExact
  <2>2. ASSUME sp \in left[x] PROVE \E i \in UsedIn(m) : m[i].buf = x /\ sp \in Taken(m, i)
    <3>1. sp \in b.masks[x] /\ sp \notin gone[x]
      BY <1>6, <2>2
    <3>2. PICK i \in UsedIn(l) : l[i].buf = x /\ sp \in Taken(l, i)
      BY <1>1, <3>1 DEF MasksExact
    <3>3. sp \notin SubPagesOf(lost[i])
      BY <3>1, <3>2 DEF GoneFrom
    <3>4. i \in UsedIn(m)
      BY <1>2, <3>2, <3>3
    <3>5. QED BY <1>2, <3>2, <3>3, <3>4
  <2>3. ASSUME NEW i \in UsedIn(m), m[i].buf = x, sp \in Taken(m, i) PROVE sp \in left[x]
    <3>1. i \in UsedIn(l) /\ l[i].buf = x /\ sp \in Taken(l, i) /\ sp \notin SubPagesOf(lost[i])
      BY <1>2, <2>3
    <3>2. sp \in b.masks[x]
      BY <1>1, <3>1 DEF MasksExact
    <3>3. ASSUME NEW j \in UsedIn(l), l[j].buf = x, sp \in SubPagesOf(lost[j]) PROVE FALSE
      <4>1. i # j /\ sp \in Taken(l, j)
        BY <1>8, <3>1, <3>3
      <4>2. QED BY <1>1, <3>1, <3>3, <4>1 DEF NoOverlap
    <3>4. sp \notin gone[x]
      BY <3>3 DEF GoneFrom
    <3>5. QED BY <1>6, <3>2, <3>4
  <2>4. QED BY <2>2, <2>3
<1>11. NoOverlap(m)
  BY <1>1, <1>2 DEF NoOverlap
<1>12. \A x \in Bufs : gone[x] \subseteq b.masks[x]
  <2>1. TAKE x \in Bufs
  <2>2. ASSUME NEW sp \in gone[x] PROVE sp \in b.masks[x]
    <3>1. sp \in SubPages
      BY <1>1
    <3>2. PICK i \in UsedIn(l) : l[i].buf = x /\ sp \in SubPagesOf(lost[i])
      BY <2>2, <3>1 DEF GoneFrom
    <3>3. sp \in Taken(l, i)
      BY <1>8, <3>2
    <3>4. QED BY <1>1, <3>1, <3>2, <3>3 DEF MasksExact
  <2>3. QED BY <2>2
<1>13. \A x \in Bufs : left[x] = {} <=> b.masks[x] = {} \/ x \in freed
  BY <1>6, <1>12
<1>14. Owned(c)
  <2>1. SUFFICES ASSUME NEW x \in Bufs
                 PROVE  /\ left[x] = {} <=> c.uids[x] = NoUser
                        /\ left[x] # {} <=> x \in c.managed
    BY <1>5 DEF Owned
  <2>2. CASE x \in freed
    BY <1>5, <1>13, <2>2
  <2>3. CASE x \notin freed
    BY <1>1, <1>5, <1>13, <2>3 DEF Owned
  <2>4. QED BY <2>2, <2>3
<1>15. \A i \in UsedIn(m) : c.uids[l[i].buf] = b.uids[l[i].buf]
  BY <1>2, <1>5, <1>8, <1>9
<1>16. Apart(m, c)
  <2>1. SUFFICES ASSUME NEW i \in UsedIn(m), NEW j \in UsedIn(m), i # j, m[i].lpn = m[j].lpn
                 PROVE  /\ c.uids[m[i].buf] # c.uids[m[j].buf]
                        /\ Taken(m, i) \cap Taken(m, j) = {}
    BY DEF Apart
  <2>2. i \in UsedIn(l) /\ j \in UsedIn(l) /\ l[i].lpn = l[j].lpn
    BY <1>2, <2>1
  <2>3. b.uids[l[i].buf] # b.uids[l[j].buf] /\ Taken(l, i) \cap Taken(l, j) = {}
    BY <1>1, <2>1, <2>2 DEF Apart
  <2>4. QED BY <1>2, <1>15, <2>1, <2>3
<1>17. c.clean = Cardinality(Clean(c.masks))
  <2>1. Clean(left) = Clean(b.masks) \cup freed /\ Clean(b.masks) \cap freed = {}
    BY <1>4, <1>6, <1>12, <1>13 DEF Clean
  <2>2. Cardinality(Clean(left)) = Cardinality(Clean(b.masks)) + Cardinality(freed) - Cardinality({})
    BY <1>7, <2>1, CleanFinite, FS_Union
  <2>3. QED BY <1>1, <1>5, <1>7, <2>2, CleanFinite, FS_EmptySet
<1>18. Coherent(m, c)
  BY <1>2, <1>4, <1>10, <1>11, <1>14, <1>16, <1>17 DEF Coherent
<1>19. QED BY <1>4, <1>5, <1>15, <1>18 DEF m, c

(***************************************************************************)
(* Addition.  A free entry gets the sectors M of page p in a buffer that   *)
(* fits; other entries of the page are other users' and elsewhere.         *)
(***************************************************************************)
Grown(l, i, p, M, x) == [l EXCEPT ![i] = [lpn |-> p, mask |-> M, buf |-> x]]

\* What buf_mask_add and allocate_buf have changed, whatever the data.
Added(b, c, x, M, uid) ==
    /\ c.masks = [b.masks EXCEPT ![x] = @ \cup SubPagesOf(M)]
    /\ c.uids = [b.uids EXCEPT ![x] = uid]
    /\ c.managed = b.managed \cup {x}
    /\ c.clean = IF b.masks[x] = {} THEN b.clean - 1 ELSE b.clean

IsAlone(l, b, p, M, uid) ==
    \A j \in UsedIn(l) : l[j].lpn = p =>
        b.uids[l[j].buf] # uid /\ Taken(l, j) \cap SubPagesOf(M) = {}

LEMMA Grow ==
  ASSUME NEW l, NEW b, Coherent(l, b), NEW i \in Entries, l[i] = NoEntry,
         NEW p \in Lpns, NEW M \in SUBSET Sectors, M # {}, NEW x \in Bufs, NEW uid \in Users,
         Fits(b, x, SubPagesOf(M), uid), IsAlone(l, b, p, M, uid),
         NEW c \in Record, Added(b, c, x, M, uid)
  PROVE  /\ Coherent(Grown(l, i, p, M, x), c)
         /\ UsedIn(Grown(l, i, p, M, x)) = UsedIn(l) \cup {i}
<1> DEFINE m == Grown(l, i, p, M, x)
           e == [lpn |-> p, mask |-> M, buf |-> x]
<1>1. l \in [Entries -> EntryType \cup {NoEntry}] /\ b \in Record
      /\ MasksExact(l, b) /\ NoOverlap(l) /\ Owned(b) /\ Apart(l, b)
      /\ b.clean = Cardinality(Clean(b.masks))
  BY DEF Coherent
<1>2. b.masks \in [Bufs -> SUBSET SubPages] /\ b.uids \in [Bufs -> Users \cup {NoUser}]
      /\ b.clean \in Int
  BY <1>1 DEF Record
<1>3. c.masks = [b.masks EXCEPT ![x] = @ \cup SubPagesOf(M)]
      /\ c.uids = [b.uids EXCEPT ![x] = uid]
      /\ c.managed = b.managed \cup {x}
      /\ c.clean = IF b.masks[x] = {} THEN b.clean - 1 ELSE b.clean
  BY DEF Added
<1>4. e \in EntryType /\ e # NoEntry /\ e.lpn = p /\ e.mask = M /\ e.buf = x
  <2>1. e \in EntryType
    BY DEF EntryType
  <2>2. e \in [lpn : Lpns, mask : SUBSET Sectors, buf : Bufs]
    OBVIOUS
  <2>3. QED BY <2>1, <2>2, BufferAssumption
<1>5. SubPagesOf(M) # {} /\ SubPagesOf(M) \subseteq SubPages
  BY SubPagesAre
<1> HIDE DEF e
<1>6. m \in [Entries -> EntryType \cup {NoEntry}] /\ m[i] = e
      /\ \A j \in Entries \ {i} : m[j] = l[j]
  BY <1>1, <1>4 DEF Grown, e
<1> HIDE DEF m
<1>7. UsedIn(m) = UsedIn(l) \cup {i} /\ i \notin UsedIn(l)
  BY <1>4, <1>6 DEF UsedIn
<1>8. Taken(m, i) = SubPagesOf(M) /\ \A j \in UsedIn(l) : Taken(m, j) = Taken(l, j)
      /\ m[j] = l[j] /\ l[j].buf \in Bufs /\ Taken(l, j) \subseteq SubPages /\ Taken(l, j) # {}
  BY <1>1, <1>4, <1>6, <1>7, UsedType DEF Taken
<1>9. b.masks[x] \cap SubPagesOf(M) = {} /\ (b.masks[x] # {} => b.uids[x] = uid)
  BY DEF Fits
<1>10. \A j \in UsedIn(l) : Taken(l, j) \subseteq b.masks[l[j].buf]
  BY <1>1, <1>8 DEF MasksExact
<1>11. MasksExact(m, c)
  <2>1. SUFFICES ASSUME NEW y \in Bufs, NEW sp \in SubPages
                 PROVE  sp \in c.masks[y]
                          <=> \E j \in UsedIn(m) : m[j].buf = y /\ sp \in Taken(m, j)
    BY DEF MasksExact
  <2>2. sp \in b.masks[y] <=> \E j \in UsedIn(l) : l[j].buf = y /\ sp \in Taken(l, j)
    BY <1>1 DEF MasksExact
  <2>3. sp \in c.masks[y] <=> sp \in b.masks[y] \/ (y = x /\ sp \in SubPagesOf(M))
    BY <1>2, <1>3
  <2>4. QED BY <1>4, <1>6, <1>7, <1>8, <2>2, <2>3
<1>12. NoOverlap(m)
  <2>1. SUFFICES ASSUME NEW j \in UsedIn(m), NEW k \in UsedIn(m), j # k, m[j].buf = m[k].buf
                 PROVE  Taken(m, j) \cap Taken(m, k) = {}
    BY DEF NoOverlap
  <2>2. CASE j = i
    BY <1>4, <1>6, <1>7, <1>8, <1>9, <1>10, <2>1, <2>2
  <2>3. CASE k = i
    BY <1>4, <1>6, <1>7, <1>8, <1>9, <1>10, <2>1, <2>3
  <2>4. CASE j # i /\ k # i
    BY <1>1, <1>7, <1>8, <2>1, <2>4 DEF NoOverlap
  <2>5. QED BY <2>2, <2>3, <2>4
<1>13. Owned(c)
  <2>1. SUFFICES ASSUME NEW y \in Bufs
                 PROVE  /\ c.masks[y] = {} <=> c.uids[y] = NoUser
                        /\ c.masks[y] # {} <=> y \in c.managed
    BY DEF Owned
  <2>2. CASE y = x
    BY <1>2, <1>3, <1>5, <2>2, BufferAssumption
  <2>3. CASE y # x
    BY <1>1, <1>2, <1>3, <2>3 DEF Owned
  <2>4. QED BY <2>2, <2>3
<1>14. \A j \in UsedIn(l) : c.uids[l[j].buf] = b.uids[l[j].buf]
  <2>1. TAKE j \in UsedIn(l)
  <2>2. CASE l[j].buf = x
    BY <1>2, <1>3, <1>8, <1>9, <1>10, <2>2
  <2>3. CASE l[j].buf # x
    BY <1>2, <1>3, <1>8, <2>3
  <2>4. QED BY <2>2, <2>3
<1>15. Apart(m, c)
  <2>1. SUFFICES ASSUME NEW j \in UsedIn(m), NEW k \in UsedIn(m), j # k, m[j].lpn = m[k].lpn
                 PROVE  /\ c.uids[m[j].buf] # c.uids[m[k].buf]
                        /\ Taken(m, j) \cap Taken(m, k) = {}
    BY DEF Apart
  <2>2. c.uids[x] = uid
    BY <1>2, <1>3
  <2>3. CASE j = i
    BY <1>4, <1>6, <1>7, <1>8, <1>14, <2>1, <2>2, <2>3 DEF IsAlone
  <2>4. CASE k = i
    BY <1>4, <1>6, <1>7, <1>8, <1>14, <2>1, <2>2, <2>4 DEF IsAlone
  <2>5. CASE j # i /\ k # i
    BY <1>1, <1>7, <1>8, <1>14, <2>1, <2>5 DEF Apart
  <2>6. QED BY <2>3, <2>4, <2>5
<1>16. c.clean = Cardinality(Clean(c.masks))
  <2>1. Clean(c.masks) = Clean(b.masks) \ {x}
    BY <1>2, <1>3, <1>5 DEF Clean
  <2>2. Cardinality(Clean(b.masks) \ {x})
          = IF x \in Clean(b.masks) THEN Cardinality(Clean(b.masks)) - 1 ELSE Cardinality(Clean(b.masks))
    BY CleanFinite, FS_RemoveElement
  <2>3. x \in Clean(b.masks) <=> b.masks[x] = {}
    BY DEF Clean
  <2>4. QED BY <1>1, <1>3, <2>1, <2>2, <2>3
<1>17. QED BY <1>6, <1>7, <1>11, <1>12, <1>13, <1>15, <1>16 DEF Coherent, m

(***************************************************************************)
(* The search for a buffer finds one, if one is empty.                     *)
(***************************************************************************)
LEMMA LeastDistance ==
  ASSUME NEW D \in [Bufs -> Int], NEW T \in SUBSET Bufs, T # {}, \A x \in Bufs : D[x] >= 0
  PROVE  \E x \in T : \A y \in T : D[x] <= D[y]
<1> DEFINE W == {D[x] : x \in T}
<1>1. W \subseteq Nat /\ W # {}
  OBVIOUS
<1>2. PICK n \in W : \A m \in W : ~(<<m, n>> \in OpToRel(<, Nat))
  BY <1>1, NatLessThanWellFounded, WFMin, Zenon
<1>3. \A m \in W : ~(m < n)
  BY <1>1, <1>2 DEF OpToRel
<1>4. PICK x \in T : D[x] = n
  BY <1>2
<1>5. ASSUME NEW y \in T PROVE D[x] <= D[y]
  <2>1. D[y] \in W /\ D[y] \in Int /\ D[x] \in Int
    OBVIOUS
  <2>2. ~(D[y] < D[x])
    BY <1>3, <1>4, <2>1
  <2>3. QED BY <2>1, <2>2
<1>6. QED BY <1>5

LEMMA FirstFitFits ==
  ASSUME NEW b, NEW sps, NEW uid, head_buf_id \in Bufs,
         NEW z \in Bufs, Fits(b, z, sps, uid)
  PROVE  FirstFit(b, sps, uid) \in Bufs /\ Fits(b, FirstFit(b, sps, uid), sps, uid)
<1> DEFINE T == {x \in Bufs : Fits(b, x, sps, uid)}
           D == [x \in Bufs |-> Distance(x)]
<1>1. D \in [Bufs -> Int] /\ \A x \in Bufs : D[x] >= 0
  BY BufferAssumption DEF Distance, Bufs
<1>2. T \in SUBSET Bufs /\ T # {}
  OBVIOUS
<1> HIDE DEF T, D
<1>3. PICK x \in T : \A y \in T : D[x] <= D[y]
  BY <1>1, <1>2, LeastDistance
<1>4. x \in Bufs /\ Fits(b, x, sps, uid)
      /\ \A y \in Bufs : Fits(b, y, sps, uid) => Distance(x) <= Distance(y)
  BY <1>3 DEF T, D
<1>5. QED BY <1>4 DEF FirstFit

(***************************************************************************)
(* The invariant.                                                          *)
(***************************************************************************)
IInv ==
    /\ Coherent(lp, Buffers)
    /\ head_buf_id \in Bufs
    /\ num_lpns = Cardinality(UsedIn(lp))
    /\ failed = FALSE

\* What a call has made of the buffers.
LEMMA SetIs ==
  ASSUME NEW b \in Record, b.ok = TRUE, Set(b)
  PROVE  Buffers' = b
<1>1. Buffers' = [b EXCEPT !.ok = TRUE]
  BY DEF Set, Buffers, Record
<1>2. QED BY <1>1 DEF Record

LEMMA SetBuffers ==
  ASSUME NEW b \in Record, NEW l, Coherent(l, b), b.ok = TRUE, Set(b), lp' = l
  PROVE  Coherent(lp, Buffers)' /\ failed' = FALSE
<1>1. Buffers' = b
  BY SetIs
<1>2. Coherent(lp', Buffers')
  BY <1>1
<1>3. QED BY <1>2 DEF Set

LEMMA UsedCounts ==
  ASSUME NEW l
  PROVE  /\ IsFiniteSet(UsedIn(l)) /\ Cardinality(UsedIn(l)) \in 0 .. MaxLpns
         /\ Cardinality(UsedIn(l)) < MaxLpns => \E i \in Entries : l[i] = NoEntry
<1>1. UsedIn(l) \in SUBSET Entries
  BY DEF UsedIn
<1>2. IsFiniteSet(UsedIn(l)) /\ Cardinality(UsedIn(l)) \in Nat
      /\ Cardinality(UsedIn(l)) <= MaxLpns
  BY <1>1, EntriesFinite, FS_Subset, FS_CardinalityType
<1>3. Cardinality(UsedIn(l)) < MaxLpns => UsedIn(l) # Entries
  BY <1>2, EntriesFinite
<1>4. QED BY <1>1, <1>2, <1>3, EntriesFinite DEF UsedIn

(***************************************************************************)
(* write_buffer_drop and write_buffer_flush: some entries go whole.        *)
(***************************************************************************)
LEMMA ForgetStep ==
  ASSUME IInv, NEW b, b = Buffers, NEW gone \in SUBSET UsedIn(lp), Forget(b, gone)
  PROVE  /\ Coherent(lp, Buffers)' /\ failed' = FALSE
         /\ num_lpns' = Cardinality(UsedIn(lp))'
         /\ num_lpns' = num_lpns - Cardinality(gone)
         /\ \A x \in Bufs : masks[x] # {} /\ (\A i \in UsedIn(lp) : lp[i].buf = x => i \in gone)
                            => masks'[x] = {}
<1> DEFINE lost == [i \in Entries |-> IF i \in gone THEN lp[i].mask ELSE {}]
           away == [x \in Bufs |->
                     SubPagesOf(UNION {lp[i].mask : i \in {j \in gone : lp[j].buf = x}})]
           c == Remove(b, away)
<1>1. Coherent(lp, b) /\ lp \in [Entries -> EntryType \cup {NoEntry}] /\ b \in Record /\ b.ok = TRUE
  BY DEF IInv, Coherent, Buffers
<1>2. lp' = [i \in Entries |-> IF i \in gone THEN NoEntry ELSE lp[i]]
      /\ num_lpns' = num_lpns - Cardinality(gone) /\ Set(c)
  BY DEF Forget
<1>3. \A i \in UsedIn(lp) : lp[i].mask \in SUBSET Sectors /\ lp[i].mask # {} /\ lp[i] \in EntryType
                           /\ i \in Entries /\ lp[i].buf \in Bufs
  BY <1>1, UsedType
<1>4. WholeSubPages(lp, lost)
  BY <1>3 DEF WholeSubPages, SubPagesOf
<1>5. Shrunk(lp, lost) = [i \in Entries |-> IF i \in gone THEN NoEntry ELSE lp[i]]
  <2>1. SUFFICES ASSUME NEW i \in Entries
                 PROVE  Shrunk(lp, lost)[i] = IF i \in gone THEN NoEntry ELSE lp[i]
    BY DEF Shrunk
  <2>2. CASE i \in gone
    BY <1>3, <2>2 DEF Shrunk, UsedIn
  <2>3. CASE i \notin UsedIn(lp)
    BY <2>3 DEF Shrunk, UsedIn
  <2>4. CASE i \in UsedIn(lp) /\ i \notin gone
    <3>1. lost[i] = {} /\ lp[i] # NoEntry /\ ~(lp[i].mask \subseteq {})
      BY <1>3, <2>4 DEF UsedIn
    <3>2. [lp[i] EXCEPT !.mask = @ \ {}] = lp[i]
      BY <1>3, <2>4 DEF EntryType
    <3>3. QED BY <2>4, <3>1, <3>2 DEF Shrunk
  <2>5. QED BY <2>2, <2>3, <2>4
<1>6. GoneFrom(lp, lost, away)
  <2>1. \A x \in Bufs : UNION {lp[i].mask : i \in {j \in gone : lp[j].buf = x}} \in SUBSET Sectors
    BY <1>3
  <2>2. away \in [Bufs -> SUBSET SubPages]
    BY <2>1, SubPagesAre
  <2>3. ASSUME NEW x \in Bufs, NEW sp \in SubPages
        PROVE  sp \in away[x] <=> \E i \in UsedIn(lp) : lp[i].buf = x /\ sp \in SubPagesOf(lost[i])
    <3>1. sp \in away[x] <=> \E i \in gone : lp[i].buf = x /\ sp \in SubPagesOf(lp[i].mask)
      BY DEF SubPagesOf
    <3>2. \A i \in UsedIn(lp) : SubPagesOf(lost[i]) = IF i \in gone THEN SubPagesOf(lp[i].mask) ELSE {}
      BY <1>3 DEF SubPagesOf
    <3>3. \A i \in UsedIn(lp) : sp \in SubPagesOf(lost[i]) <=> i \in gone /\ sp \in SubPagesOf(lp[i].mask)
      BY <3>2
    <3> HIDE DEF lost, away
    <3>4. QED BY <3>1, <3>3
  <2>4. QED BY <2>2, <2>3 DEF GoneFrom
<1> HIDE DEF lost, away, c
<1>7. Coherent(lp', c) /\ c.ok = TRUE /\ c.masks = [x \in Bufs |-> b.masks[x] \ away[x]]
  BY <1>1, <1>2, <1>4, <1>5, <1>6, Shrink DEF c
<1>8. Coherent(lp, Buffers)' /\ failed' = FALSE
  BY <1>2, <1>7, SetBuffers DEF Coherent
<1>9. num_lpns' = Cardinality(UsedIn(lp'))
  <2>1. UsedIn(lp') = UsedIn(lp) \ gone
    BY <1>2 DEF UsedIn
  <2>2. Cardinality(UsedIn(lp) \ gone) = Cardinality(UsedIn(lp)) - Cardinality(UsedIn(lp) \cap gone)
    BY UsedCounts, FS_Difference
  <2>3. UsedIn(lp) \cap gone = gone
    OBVIOUS
  <2>4. QED BY <1>2, <2>1, <2>2, <2>3 DEF IInv
<1>10. ASSUME NEW x \in Bufs, masks[x] # {}, \A i \in UsedIn(lp) : lp[i].buf = x => i \in gone
       PROVE  masks'[x] = {}
  <2>1. MasksExact(lp', c)
    BY <1>7 DEF Coherent
  <2>2. \A i \in UsedIn(lp') : lp'[i].buf # x
    BY <1>2, <1>10 DEF UsedIn
  <2>3. \A sp \in SubPages : sp \notin c.masks[x]
    BY <2>1, <2>2 DEF MasksExact
  <2>4. c.masks \in [Bufs -> SUBSET SubPages] /\ masks' = c.masks
    BY <1>2, <1>7 DEF Coherent, Record, Set
  <2>5. QED BY <2>3, <2>4
<1>11. QED BY <1>2, <1>8, <1>9, <1>10

LEMMA DropStep ==
  ASSUME IInv, NEW p \in Lpns, write_buffer_drop(p)
  PROVE  IInv'
<1>1. EntriesOf(p) \in SUBSET UsedIn(lp)
  BY DEF EntriesOf, UsedIn
<1>2. Coherent(lp, Buffers)' /\ failed' = FALSE /\ num_lpns' = Cardinality(UsedIn(lp))'
  BY <1>1, ForgetStep DEF write_buffer_drop
<1>3. QED BY <1>2 DEF IInv, write_buffer_drop

EntriesIn(x) == {i \in Entries : lp[i] # NoEntry /\ lp[i].buf = x}

\* A full buffer pool has a buffer to flush, and the flush frees it.
LEMMA FlushStep ==
  ASSUME IInv, write_buffer_flush
  PROVE  /\ IInv' /\ ~write_buffer_is_full'
         /\ \E x \in Bufs : masks[x] # {} /\ Forget(Buffers, EntriesIn(x))
<1>1. PICK x \in Bufs :
        /\ IsFullest(x)
        /\ Forget([Buffers EXCEPT !.ok = Size(x) > 0 /\ x \in managed],
                  {i \in Entries : lp[i] # NoEntry /\ lp[i].buf = x})
        /\ head_buf_id' = IF x = head_buf_id THEN (x + 1) % NumWriteBuffers ELSE head_buf_id
  BY DEF write_buffer_flush
<1> DEFINE gone == {i \in Entries : lp[i] # NoEntry /\ lp[i].buf = x}
<1>2. Coherent(lp, Buffers) /\ masks \in [Bufs -> SUBSET SubPages]
      /\ lp \in [Entries -> EntryType \cup {NoEntry}]
  BY DEF IInv, Coherent, Record, Buffers
<1>3. PICK y \in Bufs : masks[y] # {}
  <2>1. CASE num_lpns = MaxLpns
    <3>1. UsedIn(lp) # {}
      <4>1. Cardinality(UsedIn(lp)) = MaxLpns /\ MaxLpns > 0
        BY <2>1, EntriesFinite DEF IInv
      <4>2. Cardinality({}) = 0
        BY FS_EmptySet
      <4>3. QED BY <4>1, <4>2
    <3>2. PICK i \in UsedIn(lp) : TRUE
      BY <3>1
    <3>3. lp[i].buf \in Bufs /\ Taken(lp, i) \subseteq SubPages /\ Taken(lp, i) # {}
      BY <1>2, UsedType
    <3>4. masks[lp[i].buf] # {}
      BY <1>2, <3>3 DEF Coherent, MasksExact, Buffers
    <3>5. QED BY <3>3, <3>4
  <2>2. CASE num_clean_buffers = 0
    <3>1. Cardinality(Clean(masks)) = 0
      BY <1>2, <2>2 DEF Coherent, Buffers
    <3>2. Clean(masks) = {}
      BY <3>1, CleanFinite, FS_EmptySet
    <3>3. 0 \in Bufs
      BY BufferAssumption DEF Bufs
    <3>4. QED BY <3>2, <3>3 DEF Clean
  <2>3. QED BY <2>1, <2>2 DEF write_buffer_flush, write_buffer_is_full
<1>4. \A z \in Bufs : Size(z) \in Nat /\ (Size(z) > 0 <=> masks[z] # {})
  <2>1. \A z \in Bufs : masks[z] \in SUBSET SubPages
    BY <1>2
  <2>2. \A z \in Bufs : IsFiniteSet(masks[z])
    BY <2>1, BufferAssumption, FS_Subset
  <2>3. QED BY <2>2, FS_CardinalityType, FS_EmptySet DEF Size
<1>5. Size(x) > 0 /\ masks[x] # {}
  BY <1>1, <1>3, <1>4 DEF IsFullest
<1>6. x \in managed
  BY <1>2, <1>5 DEF Coherent, Owned, Buffers
<1>7. [Buffers EXCEPT !.ok = Size(x) > 0 /\ x \in managed] = Buffers
  <2>1. (Size(x) > 0 /\ x \in managed) = TRUE
    BY <1>5, <1>6
  <2>2. Buffers \in Record /\ Buffers.ok = TRUE
    BY <1>2 DEF Coherent, Buffers
  <2>3. \A b \in Record : b.ok = TRUE => [b EXCEPT !.ok = TRUE] = b
    BY DEF Record
  <2>4. QED BY <2>1, <2>2, <2>3
<1>8. gone \in SUBSET UsedIn(lp) /\ Forget(Buffers, gone)
      /\ \A i \in UsedIn(lp) : lp[i].buf = x => i \in gone
  BY <1>1, <1>7 DEF UsedIn
<1>9. gone = EntriesIn(x)
  BY DEF EntriesIn
<1> HIDE DEF gone
<1>10. /\ Coherent(lp, Buffers)' /\ failed' = FALSE
      /\ num_lpns' = Cardinality(UsedIn(lp))'
      /\ num_lpns' = num_lpns - Cardinality(gone)
      /\ masks'[x] = {}
  BY <1>5, <1>8, ForgetStep
<1>11. head_buf_id' \in Bufs
  BY <1>1, BufferAssumption DEF IInv, Bufs
<1>12. num_clean_buffers' # 0
  <2>1. num_clean_buffers' = Cardinality(Clean(masks'))
    BY <1>10 DEF Coherent, Buffers
  <2>2. Clean(masks') # {}
    BY <1>10 DEF Clean
  <2>3. QED BY <2>1, <2>2, CleanFinite, FS_EmptySet
<1>13. num_lpns' # MaxLpns
  <2>1. gone # {}
    <3>1. PICK sp \in SubPages : sp \in masks[x]
      BY <1>2, <1>5
    <3>2. PICK i \in UsedIn(lp) : lp[i].buf = x
      BY <1>2, <3>1 DEF Coherent, MasksExact, Buffers
    <3>3. QED BY <1>8, <3>2
  <2>2. Cardinality(gone) \in Nat /\ Cardinality(gone) # 0
    BY <1>8, <2>1, UsedCounts, FS_Subset, FS_CardinalityType, FS_EmptySet
  <2>3. num_lpns \in 0 .. MaxLpns
    BY UsedCounts DEF IInv
  <2>4. QED BY <1>10, <2>2, <2>3, EntriesFinite
<1>14. ~write_buffer_is_full'
  BY <1>12, <1>13 DEF write_buffer_is_full
<1>15. QED BY <1>5, <1>8, <1>10, <1>11, <1>14, <1>9 DEF IInv

(***************************************************************************)
(* The first part of a push: other users lose the common sub-pages.        *)
(***************************************************************************)
CommonGone(l, b, p, uid, sectors) ==
    /\ Coherent(l, b) /\ b.ok = TRUE
    /\ \A x \in Bufs : masks[x] = {} => b.masks[x] = {}
    /\ UsedIn(l) \subseteq UsedIn(lp)
    /\ \A j \in UsedIn(l) :
         /\ l[j].lpn = lp[j].lpn /\ b.uids[l[j].buf] = EntryUid(j)
         /\ j \in Others(p, uid) => Taken(l, j) \cap SubPagesOf(sectors) = {}
    /\ \A j \in UsedIn(lp) : j \notin Others(p, uid) => j \in UsedIn(l) /\ l[j] = lp[j]

LEMMA CommonTaken ==
  ASSUME IInv, NEW p \in Lpns, NEW uid \in Users, NEW sectors \in SUBSET Sectors,
         NEW l, l = WithoutCommon(p, uid, sectors),
         NEW b, b = BuffersWithoutCommon(p, uid, sectors)
  PROVE  CommonGone(l, b, p, uid, sectors)
<1> DEFINE O == Others(p, uid)
           lost == [i \in Entries |-> IF i \in O THEN Lost(i, sectors) ELSE {}]
           away == [x \in Bufs |->
                     SubPagesOf(UNION {Lost(i, sectors) : i \in {j \in O : lp[j].buf = x}})]
<1>1. Coherent(lp, Buffers) /\ lp \in [Entries -> EntryType \cup {NoEntry}]
      /\ Buffers \in Record /\ Buffers.ok = TRUE /\ Buffers.masks = masks /\ Buffers.uids = uids
  BY DEF IInv, Coherent, Buffers
<1>2. \A i \in UsedIn(lp) : lp[i].mask \in SUBSET Sectors /\ lp[i].mask # {} /\ lp[i] \in EntryType
                           /\ i \in Entries /\ lp[i].buf \in Bufs
  BY <1>1, UsedType
<1>3. O \in SUBSET UsedIn(lp)
  BY DEF Others, EntriesOf, UsedIn
<1>4. \A i \in O : Lost(i, sectors) \subseteq lp[i].mask
         /\ \A s \in lp[i].mask : s[1] \in SubPagesOf(Lost(i, sectors)) => s \in Lost(i, sectors)
  BY DEF Lost, SubPagesOf
<1>5. WholeSubPages(lp, lost)
  <2>1. ASSUME NEW i \in UsedIn(lp)
        PROVE  /\ lost[i] \subseteq lp[i].mask
               /\ \A s \in lp[i].mask : s[1] \in SubPagesOf(lost[i]) => s \in lost[i]
    <3>1. CASE i \in O
      BY <1>2, <1>4, <3>1
    <3>2. CASE i \notin O
      BY <1>2, <3>2 DEF SubPagesOf
    <3>3. QED BY <3>1, <3>2
  <2>2. QED BY <2>1 DEF WholeSubPages
<1>6. Shrunk(lp, lost) = l
  <2>1. ASSUME NEW i \in Entries
        PROVE  Shrunk(lp, lost)[i] =
                 IF i \notin O THEN lp[i]
                 ELSE IF lp[i].mask \subseteq Lost(i, sectors) THEN NoEntry
                 ELSE [lp[i] EXCEPT !.mask = @ \ Lost(i, sectors)]
    <3>1. CASE i \in O
      <4>1. lp[i] # NoEntry /\ lost[i] = Lost(i, sectors)
        BY <1>3, <3>1 DEF UsedIn
      <4>2. QED BY <3>1, <4>1 DEF Shrunk
    <3>2. CASE i \notin UsedIn(lp)
      <4>1. i \notin O /\ lp[i] = NoEntry
        BY <1>3, <3>2 DEF UsedIn
      <4>2. QED BY <4>1 DEF Shrunk
    <3>3. CASE i \in UsedIn(lp) /\ i \notin O
      <4>1. lost[i] = {} /\ lp[i] # NoEntry /\ ~(lp[i].mask \subseteq {})
        BY <1>2, <3>3 DEF UsedIn
      <4>2. [lp[i] EXCEPT !.mask = @ \ {}] = lp[i]
        BY <1>2, <3>3 DEF EntryType
      <4>3. QED BY <3>3, <4>1, <4>2 DEF Shrunk
    <3>4. QED BY <3>1, <3>2, <3>3
  <2>2. Shrunk(lp, lost) = [i \in Entries |-> Shrunk(lp, lost)[i]]
    BY DEF Shrunk
  <2> HIDE DEF lost
  <2>3. QED BY <2>1, <2>2 DEF WithoutCommon
<1>7. GoneFrom(lp, lost, away)
  <2>1. \A x \in Bufs :
          UNION {Lost(i, sectors) : i \in {j \in O : lp[j].buf = x}} \in SUBSET Sectors
    BY <1>2, <1>3, <1>4
  <2>2. away \in [Bufs -> SUBSET SubPages]
    BY <2>1, SubPagesAre
  <2>3. ASSUME NEW x \in Bufs, NEW sp \in SubPages
        PROVE  sp \in away[x] <=> \E i \in UsedIn(lp) : lp[i].buf = x /\ sp \in SubPagesOf(lost[i])
    <3>1. sp \in away[x] <=> \E i \in O : lp[i].buf = x /\ sp \in SubPagesOf(Lost(i, sectors))
      BY DEF SubPagesOf
    <3>2. \A i \in UsedIn(lp) : SubPagesOf(lost[i]) = IF i \in O THEN SubPagesOf(Lost(i, sectors)) ELSE {}
      BY <1>2 DEF SubPagesOf
    <3>3. \A i \in UsedIn(lp) : sp \in SubPagesOf(lost[i])
                                  <=> i \in O /\ sp \in SubPagesOf(Lost(i, sectors))
      BY <3>2
    <3> HIDE DEF lost, away
    <3>4. QED BY <1>3, <3>1, <3>3
  <2>4. QED BY <2>2, <2>3 DEF GoneFrom
<1>8. b = Remove(Buffers, away)
  BY DEF BuffersWithoutCommon
<1>9. \A i \in O : SubPagesOf(Lost(i, sectors)) = Taken(lp, i) \cap SubPagesOf(sectors)
  <2>1. TAKE i \in O
  <2>2. lp[i].mask \in SUBSET Sectors
    BY <1>2, <1>3
  <2>3. QED BY <2>2 DEF Lost, SubPagesOf, Taken
<1> HIDE DEF away
<1>10. /\ Coherent(l, b) /\ b.ok = Buffers.ok
       /\ b.masks = [x \in Bufs |-> Buffers.masks[x] \ away[x]]
       /\ \A i \in UsedIn(l) : b.uids[lp[i].buf] = Buffers.uids[lp[i].buf]
  BY <1>1, <1>5, <1>6, <1>7, <1>8, Shrink
<1>11. /\ UsedIn(l) \subseteq UsedIn(lp)
       /\ \A i \in UsedIn(l) :
             /\ l[i].lpn = lp[i].lpn /\ l[i].buf = lp[i].buf
             /\ Taken(l, i) = Taken(lp, i) \ SubPagesOf(lost[i])
  <2> DEFINE m == Shrunk(lp, lost)
  <2> HIDE DEF lost
  <2>1. /\ UsedIn(m) \subseteq UsedIn(lp)
        /\ \A i \in UsedIn(m) :
             /\ m[i].lpn = lp[i].lpn /\ m[i].buf = lp[i].buf
             /\ Taken(m, i) = Taken(lp, i) \ SubPagesOf(lost[i])
    BY <1>1, <1>5, ShrunkEntries
  <2>2. QED BY <1>6, <2>1
<1>12. ASSUME NEW j \in UsedIn(lp), j \notin O PROVE j \in UsedIn(l) /\ l[j] = lp[j]
  <2>1. l[j] = lp[j]
    BY <1>2, <1>12 DEF WithoutCommon
  <2>2. QED BY <1>2, <2>1 DEF UsedIn
<1>13. ASSUME NEW j \in UsedIn(l), j \in O PROVE Taken(l, j) \cap SubPagesOf(sectors) = {}
  <2>1. lost[j] = Lost(j, sectors)
    BY <1>2, <1>11, <1>13
  <2>2. QED BY <1>9, <1>11, <1>13, <2>1
<1>14. \A j \in UsedIn(l) : b.uids[l[j].buf] = EntryUid(j)
  BY <1>1, <1>10, <1>11 DEF EntryUid
<1>15. \A x \in Bufs : masks[x] = {} => b.masks[x] = {}
  BY <1>1, <1>10
<1>16. QED BY <1>1, <1>10, <1>11, <1>12, <1>13, <1>14, <1>15 DEF CommonGone

(***************************************************************************)
(* What the parts of a push do to the fields of the buffers.               *)
(***************************************************************************)
\* Record c is b after sectors S were put in buffer x.
PutIn(b, x, S, c) ==
    /\ c \in Record
    /\ c.masks = [b.masks EXCEPT ![x] = @ \cup SubPagesOf(S)]
    /\ c.uids = b.uids /\ c.managed = b.managed /\ c.clean = b.clean /\ c.ok = b.ok

LEMMA PutFields ==
  ASSUME NEW b \in Record, NEW x \in Bufs, NEW S \in SUBSET Sectors,
         NEW from \in [Sectors -> Values \cup {Garbage}], NEW c, c = Put(b, x, S, from)
  PROVE  PutIn(b, x, S, c)
<1> DEFINE cm == [b.masks EXCEPT ![x] = @ \cup SubPagesOf(S)]
           cd == [b.data EXCEPT ![x] = [s \in Sectors |-> IF s \in S THEN from[s] ELSE @[s]]]
<1>1. Put(b, x, S, from) = [b EXCEPT !.masks = cm, !.data = cd]
  BY DEF Put, Record
<1>2. cm \in [Bufs -> SUBSET SubPages]
  <2>1. b.masks \in [Bufs -> SUBSET SubPages] /\ SubPagesOf(S) \subseteq SubPages
    BY SubPagesAre DEF Record
  <2>2. QED BY <2>1
<1>3. cd \in [Bufs -> [Sectors -> Values \cup {Garbage}]]
  <2>1. b.data \in [Bufs -> [Sectors -> Values \cup {Garbage}]]
    BY DEF Record
  <2>2. [s \in Sectors |-> IF s \in S THEN from[s] ELSE b.data[x][s]]
          \in [Sectors -> Values \cup {Garbage}]
    BY <2>1
  <2>3. QED BY <2>1, <2>2
<1> HIDE DEF cm, cd
<1>4. [b EXCEPT !.masks = cm, !.data = cd] \in Record
      /\ [b EXCEPT !.masks = cm, !.data = cd].masks = cm
      /\ [b EXCEPT !.masks = cm, !.data = cd].uids = b.uids
      /\ [b EXCEPT !.masks = cm, !.data = cd].managed = b.managed
      /\ [b EXCEPT !.masks = cm, !.data = cd].clean = b.clean
      /\ [b EXCEPT !.masks = cm, !.data = cd].ok = b.ok
  BY <1>2, <1>3 DEF Record
<1>5. QED BY <1>1, <1>4 DEF cm, PutIn

\* Record c is b after buffer x was given to a user.
GivenTo(b, x, uid, c) ==
    /\ c \in Record
    /\ c.masks = b.masks /\ c.ok = b.ok
    /\ c.uids = [b.uids EXCEPT ![x] = IF b.masks[x] = {} THEN uid ELSE @]
    /\ c.managed = b.managed \cup {x}
    /\ c.clean = IF b.masks[x] = {} THEN b.clean - 1 ELSE b.clean

LEMMA AllocateFields ==
  ASSUME NEW b \in Record, Owned(b), NEW x \in Bufs, NEW uid \in Users,
         NEW c, c = Allocate(b, x, uid)
  PROVE  GivenTo(b, x, uid, c)
<1>1. b.uids \in [Bufs -> Users \cup {NoUser}] /\ b.managed \subseteq Bufs /\ b.clean \in Int
      /\ b.ok \in BOOLEAN
  BY DEF Record
<1>2. CASE b.masks[x] # {}
  <2>1. Allocate(b, x, uid) = b /\ x \in b.managed
    BY <1>2 DEF Allocate, Owned
  <2>2. [b.uids EXCEPT ![x] = IF b.masks[x] = {} THEN uid ELSE @] = b.uids
    BY <1>1, <1>2
  <2>3. QED BY <1>2, <2>1, <2>2 DEF GivenTo
<1>3. CASE b.masks[x] = {}
  <2> DEFINE cu == [b.uids EXCEPT ![x] = uid]
             cg == b.managed \cup {x}
             cc == b.clean - 1
             d == [b EXCEPT !.managed = cg, !.clean = cc, !.ok = b.ok, !.uids = cu]
  <2>1. x \notin b.managed /\ b.uids[x] = NoUser
    BY <1>3 DEF Owned
  <2>2. (b.ok /\ x \notin b.managed /\ b.uids[x] = NoUser) = b.ok
    BY <1>1, <2>1
  <2>3. c = d
    BY <1>3, <2>2 DEF Allocate, Record
  <2>4. cu \in [Bufs -> Users \cup {NoUser}] /\ cg \in SUBSET Bufs /\ cc \in Int
    BY <1>1
  <2>5. [b.uids EXCEPT ![x] = IF b.masks[x] = {} THEN uid ELSE @] = cu
    BY <1>3
  <2>6. (IF b.masks[x] = {} THEN b.clean - 1 ELSE b.clean) = cc
    BY <1>3
  <2> HIDE DEF cu, cg, cc
  <2>7. d \in Record /\ d.masks = b.masks /\ d.ok = b.ok /\ d.uids = cu /\ d.managed = cg
        /\ d.clean = cc
    BY <2>4 DEF Record
  <2>8. QED BY <2>3, <2>5, <2>6, <2>7 DEF GivenTo, cg
<1>4. QED BY <1>2, <1>3

(***************************************************************************)
(* An entry and its sectors leave its buffer.                              *)
(***************************************************************************)
Without(l, i) == [l EXCEPT ![i] = NoEntry]

Only(old, sps) == [x \in Bufs |-> IF x = old THEN sps ELSE {}]

BuffersWithout(l, b, i) == Remove(b, Only(l[i].buf, Taken(l, i)))

LEMMA TakeOut ==
  ASSUME NEW l, NEW b, Coherent(l, b), NEW i \in UsedIn(l)
  PROVE  /\ Coherent(Without(l, i), BuffersWithout(l, b, i))
         /\ UsedIn(Without(l, i)) = UsedIn(l) \ {i}
         /\ \A j \in UsedIn(Without(l, i)) :
               BuffersWithout(l, b, i).uids[l[j].buf] = b.uids[l[j].buf]
<1> DEFINE lost == [j \in Entries |-> IF j = i THEN l[i].mask ELSE {}]
           gone == Only(l[i].buf, Taken(l, i))
           l0 == Without(l, i)
           b0 == BuffersWithout(l, b, i)
<1>1. l \in [Entries -> EntryType \cup {NoEntry}] /\ b \in Record
  BY DEF Coherent
<1>2. \A j \in UsedIn(l) : /\ j \in Entries /\ l[j] # NoEntry /\ l[j] \in EntryType
                           /\ l[j].mask \in SUBSET Sectors /\ l[j].mask # {}
                           /\ l[j].buf \in Bufs /\ Taken(l, j) \subseteq SubPages
  BY <1>1, UsedType DEF UsedIn
<1>3. WholeSubPages(l, lost)
  BY <1>2 DEF WholeSubPages, SubPagesOf
<1>4. Shrunk(l, lost) = l0
  <2>1. ASSUME NEW j \in Entries PROVE Shrunk(l, lost)[j] = l0[j]
    <3>1. CASE j = i
      BY <1>1, <1>2, <3>1 DEF Shrunk, Without
    <3>2. CASE j \notin UsedIn(l)
      BY <1>1, <3>2 DEF Shrunk, UsedIn, Without
    <3>3. CASE j # i /\ j \in UsedIn(l)
      <4>1. lost[j] = {} /\ l[j] # NoEntry /\ ~(l[j].mask \subseteq {}) /\ l0[j] = l[j]
        BY <1>1, <1>2, <3>3 DEF Without
      <4>2. [l[j] EXCEPT !.mask = @ \ {}] = l[j]
        BY <1>2, <3>3 DEF EntryType
      <4>3. QED BY <4>1, <4>2 DEF Shrunk
    <3>4. QED BY <3>1, <3>2, <3>3
  <2>2. Shrunk(l, lost) = [j \in Entries |-> Shrunk(l, lost)[j]] /\ l0 = [j \in Entries |-> l0[j]]
    BY <1>1 DEF Shrunk, Without
  <2>3. QED BY <2>1, <2>2
<1>5. gone \in [Bufs -> SUBSET SubPages]
      /\ \A x \in Bufs : gone[x] = IF x = l[i].buf THEN Taken(l, i) ELSE {}
  BY <1>2 DEF Only
<1>6. \A j \in UsedIn(l) : SubPagesOf(lost[j]) = IF j = i THEN Taken(l, i) ELSE {}
  BY <1>2 DEF SubPagesOf, Taken
<1> HIDE DEF lost, gone
<1>7. GoneFrom(l, lost, gone)
  <2>1. ASSUME NEW x \in Bufs, NEW sp \in SubPages
        PROVE  sp \in gone[x] <=> \E j \in UsedIn(l) : l[j].buf = x /\ sp \in SubPagesOf(lost[j])
    <3>1. \A j \in UsedIn(l) : sp \in SubPagesOf(lost[j]) <=> j = i /\ sp \in Taken(l, i)
      BY <1>6
    <3>2. sp \in gone[x] <=> x = l[i].buf /\ sp \in Taken(l, i)
      BY <1>5
    <3>3. QED BY <3>1, <3>2
  <2>2. QED BY <1>5, <2>1 DEF GoneFrom
<1>8. /\ Coherent(l0, b0) /\ b0.masks = [x \in Bufs |-> b.masks[x] \ gone[x]]
      /\ \A j \in UsedIn(l0) : b0.uids[l[j].buf] = b.uids[l[j].buf]
  <2>1. b0 = Remove(b, gone)
    BY DEF BuffersWithout, gone
  <2> HIDE DEF l0, b0
  <2>2. /\ Coherent(Shrunk(l, lost), b0) /\ b0.masks = [x \in Bufs |-> b.masks[x] \ gone[x]]
        /\ \A j \in UsedIn(Shrunk(l, lost)) : b0.uids[l[j].buf] = b.uids[l[j].buf]
    BY <1>3, <1>7, <2>1, Shrink
  <2>3. QED BY <1>4, <2>2
<1>9. UsedIn(l0) = UsedIn(l) \ {i}
  BY <1>1, <1>2 DEF UsedIn, Without
<1>10. QED BY <1>8, <1>9

\* What changes when entry i comes back with the sectors M of a user in buffer x.
Rehoused(l, b, i, x, M, uid, c) ==
    /\ c \in Record
    /\ Fits(BuffersWithout(l, b, i), x, SubPagesOf(M), uid)
    /\ Added(BuffersWithout(l, b, i), c, x, M, uid)

\* The sectors of entry i with and without those that are written.
With(l, i, S) == l[i].mask \cup S

Rest(l, i, S) == l[i].mask \ S

Regrown(l, i, S, x) == [l EXCEPT ![i].mask = @ \cup S, ![i].buf = x]

LEMMA PutBack ==
  ASSUME NEW l, NEW b, Coherent(l, b), NEW i \in UsedIn(l), NEW uid \in Users,
         b.uids[l[i].buf] = uid, NEW S \in SUBSET Sectors,
         \A j \in UsedIn(l) : l[j].lpn = l[i].lpn /\ j # i => Taken(l, j) \cap SubPagesOf(S) = {},
         NEW x \in Bufs, NEW c, Rehoused(l, b, i, x, With(l, i, S), uid, c)
  PROVE  Coherent(Regrown(l, i, S, x), c) /\ UsedIn(Regrown(l, i, S, x)) = UsedIn(l)
<1> DEFINE M == With(l, i, S)
           p == l[i].lpn
           l0 == Without(l, i)
           b0 == BuffersWithout(l, b, i)
<1>1. l \in [Entries -> EntryType \cup {NoEntry}] /\ Apart(l, b)
  BY DEF Coherent
<1>2. i \in Entries /\ l[i] \in EntryType /\ p \in Lpns /\ l[i].mask \in SUBSET Sectors
      /\ l[i].mask # {} /\ l[i].buf \in Bufs
  BY <1>1, UsedType
<1>3. /\ Coherent(l0, b0) /\ UsedIn(l0) = UsedIn(l) \ {i}
      /\ \A j \in UsedIn(l0) : b0.uids[l[j].buf] = b.uids[l[j].buf]
  BY TakeOut
<1>4. M \in SUBSET Sectors /\ M # {} /\ SubPagesOf(M) = Taken(l, i) \cup SubPagesOf(S)
  BY <1>2, SubPagesUnion DEF Taken, With
<1>5. /\ c \in Record /\ Fits(b0, x, SubPagesOf(M), uid) /\ Added(b0, c, x, M, uid)
  BY DEF Rehoused
<1>6. l0[i] = NoEntry /\ \A j \in Entries \ {i} : l0[j] = l[j]
  BY <1>1, <1>2 DEF Without
<1>7. Regrown(l, i, S, x) = Grown(l0, i, p, M, x)
  <2>1. [l[i] EXCEPT !.mask = @ \cup S, !.buf = x] = [lpn |-> p, mask |-> M, buf |-> x]
    <3>1. ASSUME NEW e \in EntryType, NEW T, NEW y
          PROVE  [e EXCEPT !.mask = T, !.buf = y] = [lpn |-> e.lpn, mask |-> T, buf |-> y]
      <4> DEFINE f == [e EXCEPT !.mask = T]
      <4>1. f = [lpn |-> e.lpn, mask |-> T, buf |-> e.buf]
        BY DEF EntryType
      <4>2. [e EXCEPT !.mask = T, !.buf = y] = [f EXCEPT !.buf = y]
        BY Zenon
      <4> HIDE DEF f
      <4>3. QED BY <4>1, <4>2
    <3>2. QED BY <1>2, <3>1 DEF With
  <2>2. Regrown(l, i, S, x) = [l EXCEPT ![i] = [l[i] EXCEPT !.mask = @ \cup S, !.buf = x]]
    BY <1>1, <1>2 DEF Regrown, With
  <2> HIDE DEF p, M
  <2>3. [l EXCEPT ![i] = [lpn |-> p, mask |-> M, buf |-> x]] = Grown(l0, i, p, M, x)
    BY <1>1, <1>2 DEF Grown, Without
  <2>4. QED BY <2>1, <2>2, <2>3
<1> HIDE DEF l0, b0
<1>8. IsAlone(l0, b0, p, M, uid)
  <2>1. SUFFICES ASSUME NEW j \in UsedIn(l0), l0[j].lpn = p
                 PROVE  b0.uids[l0[j].buf] # uid /\ Taken(l0, j) \cap SubPagesOf(M) = {}
    BY DEF IsAlone
  <2>2. j \in UsedIn(l) /\ j # i /\ l0[j] = l[j] /\ l[j].lpn = l[i].lpn
    BY <1>3, <1>6, <2>1 DEF UsedIn
  <2>3. b.uids[l[j].buf] # b.uids[l[i].buf] /\ Taken(l, j) \cap Taken(l, i) = {}
    BY <1>1, <2>2 DEF Apart
  <2>4. Taken(l, j) \cap SubPagesOf(S) = {}
    BY <2>2
  <2>5. Taken(l0, j) = Taken(l, j) /\ b0.uids[l0[j].buf] = b.uids[l[j].buf]
    BY <1>3, <2>1, <2>2 DEF Taken
  <2>6. QED BY <1>4, <2>3, <2>4, <2>5
<1> HIDE DEF p, M
<1>9. /\ Coherent(Grown(l0, i, p, M, x), c)
      /\ UsedIn(Grown(l0, i, p, M, x)) = UsedIn(l0) \cup {i}
  <2>1. Coherent(l0, b0) /\ i \in Entries /\ l0[i] = NoEntry /\ p \in Lpns
        /\ M \in SUBSET Sectors /\ M # {}
    BY <1>2, <1>3, <1>4, <1>6 DEF p
  <2>2. QED BY <1>5, <1>8, <2>1, Grow, SMTT(60)
<1>10. QED BY <1>3, <1>7, <1>9

\* Record c is b after sub-pages sps were taken out of buffer old.
TakenFrom(b, old, sps, c) ==
    /\ c \in Record /\ c.ok = b.ok
    /\ c.masks = [b.masks EXCEPT ![old] = @ \ sps]
    /\ b.masks[old] \ sps = {} =>
          /\ c.uids = [b.uids EXCEPT ![old] = NoUser]
          /\ c.managed = b.managed \ {old} /\ c.clean = b.clean + 1
    /\ b.masks[old] \ sps # {} =>
          c.uids = b.uids /\ c.managed = b.managed /\ c.clean = b.clean

LEMMA OnlyFields ==
  ASSUME NEW b \in Record, NEW old \in Bufs, NEW sps \in SUBSET SubPages, sps # {},
         NEW c, c = Remove(b, Only(old, sps))
  PROVE  TakenFrom(b, old, sps, c)
<1> DEFINE gone == Only(old, sps)
           left == Left(b, gone)
           freed == Freed(b, gone)
<1>1. gone \in [Bufs -> SUBSET SubPages]
      /\ \A x \in Bufs : gone[x] = IF x = old THEN sps ELSE {}
  BY DEF Only
<1>2. /\ c \in Record
      /\ c.masks = left /\ c.ok = b.ok
      /\ c.uids = [x \in Bufs |-> IF x \in freed THEN NoUser ELSE b.uids[x]]
      /\ c.managed = b.managed \ freed
      /\ c.clean = b.clean + Cardinality(freed)
  <2> HIDE DEF gone, left, freed
  <2>1. c = Remove(b, gone)
    BY DEF gone
  <2>2. /\ c \in Record /\ c.masks = Left(b, gone) /\ c.ok = b.ok
        /\ c.uids = [x \in Bufs |-> IF x \in Freed(b, gone) THEN NoUser ELSE b.uids[x]]
        /\ c.managed = b.managed \ Freed(b, gone)
        /\ c.clean = b.clean + Cardinality(Freed(b, gone))
    BY <1>1, <2>1, RemoveFields
  <2>3. QED BY <2>2 DEF left, freed
<1>3. b.masks \in [Bufs -> SUBSET SubPages] /\ b.uids \in [Bufs -> Users \cup {NoUser}]
      /\ b.managed \in SUBSET Bufs /\ b.clean \in Int
  BY DEF Record
<1> HIDE DEF gone
<1>4. left = [b.masks EXCEPT ![old] = @ \ sps]
  BY <1>1, <1>3 DEF Left
<1>5. freed = IF b.masks[old] \ sps = {} THEN {old} ELSE {}
  BY <1>1 DEF Left, Freed
<1> HIDE DEF left, freed
<1>6. CASE b.masks[old] \ sps = {}
  <2>1. freed = {old} /\ Cardinality(freed) = 1
    BY <1>5, <1>6, FS_Singleton
  <2>2. [x \in Bufs |-> IF x \in freed THEN NoUser ELSE b.uids[x]] = [b.uids EXCEPT ![old] = NoUser]
    BY <1>3, <2>1
  <2>3. QED BY <1>2, <1>4, <1>6, <2>1, <2>2 DEF TakenFrom
<1>7. CASE b.masks[old] \ sps # {}
  <2>1. freed = {} /\ Cardinality(freed) = 0
    BY <1>5, <1>7, FS_EmptySet
  <2>2. [x \in Bufs |-> IF x \in freed THEN NoUser ELSE b.uids[x]] = b.uids
    BY <1>3, <2>1
  <2>3. QED BY <1>2, <1>3, <1>4, <1>7, <2>1, <2>2 DEF TakenFrom
<1>8. QED BY <1>6, <1>7

\* The sectors fit in the buffer of the entry.
LEMMA Stays ==
  ASSUME NEW l, NEW b, Coherent(l, b), NEW i \in UsedIn(l), NEW uid \in Users,
         b.uids[l[i].buf] = uid, NEW S \in SUBSET Sectors,
         b.masks[l[i].buf] \cap SubPagesOf(S \ l[i].mask) = {},
         NEW from \in [Sectors -> Values \cup {Garbage}],
         NEW c, c = Put(b, l[i].buf, S, from)
  PROVE  Rehoused(l, b, i, l[i].buf, With(l, i, S), uid, c) /\ c.ok = b.ok
<1> DEFINE old == l[i].buf
           sps == Taken(l, i)
           M == With(l, i, S)
           b0 == BuffersWithout(l, b, i)
<1>1. l \in [Entries -> EntryType \cup {NoEntry}] /\ b \in Record /\ Owned(b) /\ MasksExact(l, b)
  BY DEF Coherent
<1>2. l[i].mask \in SUBSET Sectors /\ old \in Bufs /\ sps \in SUBSET SubPages /\ sps # {}
      /\ sps = SubPagesOf(l[i].mask)
  BY <1>1, UsedType DEF Taken
<1>3. b.masks \in [Bufs -> SUBSET SubPages] /\ b.uids \in [Bufs -> Users \cup {NoUser}]
      /\ b.managed \in SUBSET Bufs /\ b.clean \in Int
  BY <1>1 DEF Record
<1>4. sps \subseteq b.masks[old] /\ old \in b.managed
  BY <1>1, <1>2, <1>3 DEF MasksExact, Owned
<1>5. SubPagesOf(M) = sps \cup SubPagesOf(S)
  BY <1>2, SubPagesUnion DEF With
<1>6. SubPagesOf(S) \subseteq sps \cup SubPagesOf(S \ l[i].mask)
  BY <1>2 DEF SubPagesOf
<1>7. /\ c \in Record /\ c.ok = b.ok
      /\ c.masks = [b.masks EXCEPT ![old] = @ \cup SubPagesOf(S)]
      /\ c.uids = b.uids /\ c.managed = b.managed /\ c.clean = b.clean
  <2> HIDE DEF old
  <2>1. c = Put(b, old, S, from)
    BY DEF old
  <2>2. PutIn(b, old, S, c)
    BY <1>1, <1>2, <2>1, PutFields
  <2>3. QED BY <2>2 DEF PutIn
<1> HIDE DEF sps, old
<1>8. b0 = Remove(b, Only(old, sps))
  BY DEF BuffersWithout, old, sps
<1> HIDE DEF b0
<1>9. /\ b0 \in Record
      /\ b0.masks = [b.masks EXCEPT ![old] = @ \ sps]
      /\ b.masks[old] \ sps = {} =>
            /\ b0.uids = [b.uids EXCEPT ![old] = NoUser]
            /\ b0.managed = b.managed \ {old} /\ b0.clean = b.clean + 1
      /\ b.masks[old] \ sps # {} =>
            b0.uids = b.uids /\ b0.managed = b.managed /\ b0.clean = b.clean
  <2>1. TakenFrom(b, old, sps, b0)
    BY <1>1, <1>2, <1>8, OnlyFields
  <2>2. QED BY <2>1 DEF TakenFrom
<1>10. b.masks[old] \cap SubPagesOf(S \ l[i].mask) = {} /\ b.uids[old] = uid
  BY DEF old
<1> HIDE DEF M
<1>11. b0.masks[old] = b.masks[old] \ sps
  BY <1>2, <1>3, <1>9
<1>12. Fits(b0, old, SubPagesOf(M), uid)
  <2>1. b0.masks[old] \cap SubPagesOf(M) = {}
    BY <1>5, <1>6, <1>10, <1>11
  <2>2. QED BY <1>9, <1>10, <1>11, <2>1 DEF Fits
<1>13. Added(b0, c, old, M, uid)
  <2>1. c.masks = [b0.masks EXCEPT ![old] = @ \cup SubPagesOf(M)]
    <3>1. b0.masks[old] \cup SubPagesOf(M) = b.masks[old] \cup SubPagesOf(S)
      BY <1>4, <1>5, <1>11
    <3>2. [b0.masks EXCEPT ![old] = b0.masks[old] \cup SubPagesOf(M)]
            = [b.masks EXCEPT ![old] = b0.masks[old] \cup SubPagesOf(M)]
      BY <1>2, <1>3, <1>9
    <3>3. QED BY <1>7, <3>1, <3>2
  <2>2. c.uids = [b0.uids EXCEPT ![old] = uid]
    BY <1>2, <1>3, <1>7, <1>9, <1>10
  <2>3. c.managed = b0.managed \cup {old}
    BY <1>4, <1>7, <1>9
  <2>4. c.clean = IF b0.masks[old] = {} THEN b0.clean - 1 ELSE b0.clean
    BY <1>3, <1>7, <1>9, <1>11
  <2>5. QED BY <2>1, <2>2, <2>3, <2>4 DEF Added
<1>14. QED BY <1>7, <1>12, <1>13 DEF Rehoused, b0, old, M

\* The sectors that are not overwritten move to buffer x, all others follow.
LEMMA Moves ==
  ASSUME NEW l, NEW b, Coherent(l, b), NEW i \in UsedIn(l), NEW uid \in Users,
         b.uids[l[i].buf] = uid, NEW S \in SUBSET Sectors,
         NEW x \in Bufs, Fits(b, x, SubPagesOf(With(l, i, S)), uid),
         NEW from \in [Sectors -> Values \cup {Garbage}],
         NEW b1, b1 = Allocate(b, x, uid),
         NEW b2, b2 = Remove(b1, Only(l[i].buf, Taken(l, i))),
         NEW was, was = b.data[l[i].buf],
         NEW b3, b3 = Put(b2, x, Rest(l, i, S), was),
         NEW c, c = Put(b3, x, S, from)
  PROVE  Rehoused(l, b, i, x, With(l, i, S), uid, c) /\ c.ok = b.ok
<1> DEFINE old == l[i].buf
           sps == Taken(l, i)
           M == With(l, i, S)
           N == Rest(l, i, S)
           b0 == BuffersWithout(l, b, i)
<1>1. l \in [Entries -> EntryType \cup {NoEntry}] /\ b \in Record /\ Owned(b) /\ MasksExact(l, b)
  BY DEF Coherent
<1>2. l[i].mask \in SUBSET Sectors /\ old \in Bufs /\ sps \in SUBSET SubPages /\ sps # {}
      /\ sps = SubPagesOf(l[i].mask)
  BY <1>1, UsedType DEF Taken
<1>3. b.masks \in [Bufs -> SUBSET SubPages] /\ b.uids \in [Bufs -> Users \cup {NoUser}]
      /\ b.managed \in SUBSET Bufs /\ b.clean \in Int
      /\ b.data \in [Bufs -> [Sectors -> Values \cup {Garbage}]]
  BY <1>1 DEF Record
<1>4. sps \subseteq b.masks[old]
  BY <1>1, <1>2, <1>3 DEF MasksExact
<1>5. SubPagesOf(M) = sps \cup SubPagesOf(S) /\ SubPagesOf(M) = SubPagesOf(N) \cup SubPagesOf(S)
  <2>1. M = N \cup S /\ M = l[i].mask \cup S /\ N \in SUBSET Sectors
    BY <1>2 DEF With, Rest
  <2>2. QED BY <1>2, <2>1, SubPagesUnion
<1>6. N \in SUBSET Sectors /\ was \in [Sectors -> Values \cup {Garbage}]
  BY <1>2, <1>3 DEF Rest
<1>7. Fits(b, x, SubPagesOf(M), uid)
  OBVIOUS
<1>8. x # old
  BY <1>2, <1>4, <1>5, <1>7 DEF Fits
<1>9. b2 = Remove(b1, Only(old, sps))
  OBVIOUS
<1>10. b3 = Put(b2, x, N, was)
  OBVIOUS
<1>11. b0 = Remove(b, Only(old, sps))
  BY DEF BuffersWithout
<1> HIDE DEF sps, old, b0, M, N
<1>12. /\ b1 \in Record
      /\ b1.masks = b.masks /\ b1.ok = b.ok
      /\ b1.uids = [b.uids EXCEPT ![x] = IF b.masks[x] = {} THEN uid ELSE @]
      /\ b1.managed = b.managed \cup {x}
      /\ b1.clean = IF b.masks[x] = {} THEN b.clean - 1 ELSE b.clean
  <2>1. GivenTo(b, x, uid, b1)
    BY <1>1, AllocateFields
  <2>2. QED BY <2>1 DEF GivenTo
<1>13. b1.uids = [b.uids EXCEPT ![x] = uid]
  BY <1>3, <1>7, <1>12 DEF Fits
<1>14. /\ b2 \in Record /\ b2.ok = b1.ok
       /\ b2.masks = [b1.masks EXCEPT ![old] = @ \ sps]
       /\ b1.masks[old] \ sps = {} =>
             /\ b2.uids = [b1.uids EXCEPT ![old] = NoUser]
             /\ b2.managed = b1.managed \ {old} /\ b2.clean = b1.clean + 1
       /\ b1.masks[old] \ sps # {} =>
             b2.uids = b1.uids /\ b2.managed = b1.managed /\ b2.clean = b1.clean
  <2>1. TakenFrom(b1, old, sps, b2)
    BY <1>2, <1>9, <1>12, OnlyFields
  <2>2. QED BY <2>1 DEF TakenFrom
<1>15. /\ b0 \in Record
       /\ b0.masks = [b.masks EXCEPT ![old] = @ \ sps]
       /\ b.masks[old] \ sps = {} =>
             /\ b0.uids = [b.uids EXCEPT ![old] = NoUser]
             /\ b0.managed = b.managed \ {old} /\ b0.clean = b.clean + 1
       /\ b.masks[old] \ sps # {} =>
             b0.uids = b.uids /\ b0.managed = b.managed /\ b0.clean = b.clean
  <2>1. TakenFrom(b, old, sps, b0)
    BY <1>1, <1>2, <1>11, OnlyFields
  <2>2. QED BY <2>1 DEF TakenFrom
<1>16. /\ b3 \in Record
       /\ b3.masks = [b2.masks EXCEPT ![x] = @ \cup SubPagesOf(N)]
       /\ b3.uids = b2.uids /\ b3.managed = b2.managed /\ b3.clean = b2.clean /\ b3.ok = b2.ok
  <2>1. PutIn(b2, x, N, b3)
    BY <1>6, <1>10, <1>14, PutFields
  <2>2. QED BY <2>1 DEF PutIn
<1>17. /\ c \in Record
       /\ c.masks = [b3.masks EXCEPT ![x] = @ \cup SubPagesOf(S)]
       /\ c.uids = b3.uids /\ c.managed = b3.managed /\ c.clean = b3.clean /\ c.ok = b3.ok
  <2>1. PutIn(b3, x, S, c)
    BY <1>16, PutFields
  <2>2. QED BY <2>1 DEF PutIn
<1>18. b0.masks \in [Bufs -> SUBSET SubPages] /\ b0.masks[x] = b.masks[x] /\ b2.masks = b0.masks
       /\ b0.uids[x] = b.uids[x]
  <2>1. b0.masks \in [Bufs -> SUBSET SubPages]
    BY <1>15 DEF Record
  <2>2. QED BY <1>2, <1>3, <1>8, <1>12, <1>14, <1>15, <2>1
<1>19. Fits(b0, x, SubPagesOf(M), uid)
  BY <1>7, <1>18 DEF Fits
<1>20. Added(b0, c, x, M, uid)
  <2>1. c.masks = [b0.masks EXCEPT ![x] = @ \cup SubPagesOf(M)]
    <3>1. b3.masks = [b0.masks EXCEPT ![x] = @ \cup SubPagesOf(N)]
      BY <1>16, <1>18
    <3>2. b3.masks[x] = b0.masks[x] \cup SubPagesOf(N)
      BY <1>18, <3>1
    <3>3. b3.masks[x] \cup SubPagesOf(S) = b0.masks[x] \cup SubPagesOf(M)
      BY <1>5, <3>2
    <3>4. c.masks = [b3.masks EXCEPT ![x] = b3.masks[x] \cup SubPagesOf(S)]
      BY <1>17
    <3>5. [b3.masks EXCEPT ![x] = b0.masks[x] \cup SubPagesOf(M)]
            = [b0.masks EXCEPT ![x] = b0.masks[x] \cup SubPagesOf(M)]
      BY <1>18, <3>1
    <3>6. QED BY <3>3, <3>4, <3>5
  <2>2. c.uids = b2.uids /\ c.managed = b2.managed /\ c.clean = b2.clean
    BY <1>16, <1>17
  <2> DEFINE last == b.masks[old] \ sps = {}
  <2>3. /\ last => /\ b2.uids = [b1.uids EXCEPT ![old] = NoUser]
                   /\ b2.managed = b1.managed \ {old} /\ b2.clean = b1.clean + 1
                   /\ b0.uids = [b.uids EXCEPT ![old] = NoUser]
                   /\ b0.managed = b.managed \ {old} /\ b0.clean = b.clean + 1
        /\ ~last => /\ b2.uids = b1.uids /\ b2.managed = b1.managed /\ b2.clean = b1.clean
                    /\ b0.uids = b.uids /\ b0.managed = b.managed /\ b0.clean = b.clean
    <3>1. b1.masks[old] = b.masks[old]
      BY <1>12
    <3>2. CASE last
      BY <1>14, <1>15, <3>1, <3>2
    <3>3. CASE ~last
      BY <1>14, <1>15, <3>1, <3>3
    <3>4. QED BY <3>2, <3>3
  <2> HIDE DEF last
  <2>4. c.uids = [b0.uids EXCEPT ![x] = uid]
    <3>1. CASE last
      <4>1. c.uids = [[b.uids EXCEPT ![x] = uid] EXCEPT ![old] = NoUser]
        BY <1>13, <2>2, <2>3, <3>1
      <4>2. b0.uids = [b.uids EXCEPT ![old] = NoUser]
        BY <2>3, <3>1
      <4>3. QED BY <1>2, <1>3, <1>8, <4>1, <4>2
    <3>2. CASE ~last
      BY <1>13, <2>2, <2>3, <3>2
    <3>3. QED BY <3>1, <3>2
  <2>5. c.managed = b0.managed \cup {x}
    <3>1. b1.managed = b.managed \cup {x}
      BY <1>12
    <3>2. QED BY <1>8, <2>2, <2>3, <3>1
  <2>6. c.clean = IF b0.masks[x] = {} THEN b0.clean - 1 ELSE b0.clean
    <3>1. b1.clean = (IF b0.masks[x] = {} THEN b.clean - 1 ELSE b.clean) /\ b.clean \in Int
      BY <1>3, <1>12, <1>18
    <3>2. QED BY <2>2, <2>3, <3>1
  <2>7. QED BY <2>1, <2>4, <2>5, <2>6 DEF Added
<1>21. c.ok = b.ok
  <2>1. c.ok = b3.ok
    BY <1>17
  <2>2. b3.ok = b2.ok
    BY <1>16
  <2>3. b2.ok = b1.ok
    BY <1>14
  <2>4. b1.ok = b.ok
    BY <1>12
  <2>5. QED BY <2>1, <2>2, <2>3, <2>4
<1>22. QED BY <1>17, <1>19, <1>20, <1>21 DEF Rehoused, b0, M

(***************************************************************************)
(* The same for what the buffers hold: no change disturbs a sub-page that  *)
(* another entry uses.                                                     *)
(***************************************************************************)
LEMMA RemoveData ==
  ASSUME NEW b \in Record, NEW gone \in [Bufs -> SUBSET SubPages],
         NEW x \in Bufs, NEW s \in Sectors, s[1] \in Remove(b, gone).masks[x]
  PROVE  /\ Remove(b, gone).data[x][s] = b.data[x][s]
         /\ Remove(b, gone).uids[x] = b.uids[x]
<1> DEFINE left  == [y \in Bufs |-> b.masks[y] \ gone[y]]
           freed == {y \in Bufs : gone[y] # {} /\ left[y] = {}}
<1>1. /\ Remove(b, gone).masks = left
      /\ Remove(b, gone).uids = [y \in Bufs |-> IF y \in freed THEN NoUser ELSE b.uids[y]]
      /\ Remove(b, gone).data = [y \in Bufs |->
           [t \in Sectors |-> IF t[1] \in left[y] THEN b.data[y][t] ELSE Garbage]]
  BY DEF Remove, Record
<1>2. s[1] \in left[x] /\ x \notin freed
  BY <1>1
<1> HIDE DEF left, freed
<1>3. QED BY <1>1, <1>2

LEMMA PutData ==
  ASSUME NEW b \in Record, NEW x \in Bufs, NEW S, NEW from, NEW y \in Bufs, NEW s \in Sectors
  PROVE  Put(b, x, S, from).data[y][s] = IF y = x /\ s \in S THEN from[s] ELSE b.data[y][s]
<1> DEFINE cd == [b.data EXCEPT ![x] = [t \in Sectors |-> IF t \in S THEN from[t] ELSE @[t]]]
<1>1. b.data \in [Bufs -> [Sectors -> Values \cup {Garbage}]]
  BY DEF Record
<1>2. Put(b, x, S, from).data = cd
  BY DEF Put, Record
<1>3. cd[y][s] = IF y = x /\ s \in S THEN from[s] ELSE b.data[y][s]
  BY <1>1
<1>4. QED BY <1>2, <1>3

LEMMA AllocateData ==
  ASSUME NEW b \in Record, NEW x, NEW uid
  PROVE  Allocate(b, x, uid).data = b.data
BY DEF Allocate, Record

\* No other entry's user changes.
LEMMA AddedUids ==
  ASSUME NEW l, NEW b, Coherent(l, b), NEW x \in Bufs, NEW sps, NEW uid,
         Fits(b, x, sps, uid), NEW c, NEW M, Added(b, c, x, M, uid)
  PROVE  c.uids[x] = uid /\ \A j \in UsedIn(l) : c.uids[l[j].buf] = b.uids[l[j].buf]
<1>1. l \in [Entries -> EntryType \cup {NoEntry}] /\ b \in Record /\ MasksExact(l, b)
  BY DEF Coherent
<1>2. b.uids \in [Bufs -> Users \cup {NoUser}] /\ c.uids = [b.uids EXCEPT ![x] = uid]
  BY <1>1 DEF Record, Added
<1>3. ASSUME NEW j \in UsedIn(l) PROVE c.uids[l[j].buf] = b.uids[l[j].buf]
  <2>1. l[j].buf \in Bufs /\ Taken(l, j) # {} /\ Taken(l, j) \subseteq SubPages
    BY <1>1, UsedType
  <2>2. b.masks[l[j].buf] # {}
    BY <1>1, <2>1 DEF MasksExact
  <2>3. CASE l[j].buf = x
    BY <1>2, <2>2, <2>3 DEF Fits
  <2>4. CASE l[j].buf # x
    BY <1>2, <2>1, <2>4
  <2>5. QED BY <2>3, <2>4
<1>4. QED BY <1>2, <1>3

\* The sectors of an entry lie in sub-pages that its buffer has given out.
LEMMA SectorsTaken ==
  ASSUME NEW l, NEW b, Coherent(l, b), NEW i \in UsedIn(l), NEW s \in l[i].mask
  PROVE  /\ s \in Sectors /\ s[1] \in SubPages /\ l[i].buf \in Bufs
         /\ s[1] \in Taken(l, i) /\ s[1] \in b.masks[l[i].buf]
<1>1. l \in [Entries -> EntryType \cup {NoEntry}] /\ MasksExact(l, b)
  BY DEF Coherent
<1>2. l[i].mask \in SUBSET Sectors /\ l[i].buf \in Bufs
  BY <1>1, UsedType
<1>3. s \in Sectors /\ s[1] \in Taken(l, i) /\ s[1] \in SubPages
  BY <1>2 DEF Taken, SubPagesOf, Sectors
<1>4. QED BY <1>1, <1>2, <1>3 DEF MasksExact

\* What entry i holds after it comes back, and what the others hold.
Carried(l, b, i, x, S, from, c) ==
    \A s \in Sectors :
        /\ s \in S => c.data[x][s] = from[s]
        /\ s \in Rest(l, i, S) => c.data[x][s] = b.data[l[i].buf][s]
        /\ \A y \in Bufs : s[1] \in BuffersWithout(l, b, i).masks[y]
                            /\ ~(y = x /\ s \in With(l, i, S))
                         => c.data[y][s] = b.data[y][s]

LEMMA StaysData ==
  ASSUME NEW l, NEW b \in Record, NEW i, l[i].buf \in Bufs, NEW S, NEW from,
         NEW c, c = Put(b, l[i].buf, S, from)
  PROVE  Carried(l, b, i, l[i].buf, S, from, c)
<1>1. \A y \in Bufs, s \in Sectors :
         c.data[y][s] = IF y = l[i].buf /\ s \in S THEN from[s] ELSE b.data[y][s]
  BY PutData
<1>2. QED BY <1>1 DEF Carried, Rest, With

LEMMA MovesData ==
  ASSUME NEW l, NEW b, Coherent(l, b), NEW i \in UsedIn(l), NEW uid \in Users,
         NEW S \in SUBSET Sectors, NEW x \in Bufs,
         NEW from \in [Sectors -> Values \cup {Garbage}],
         NEW b1, b1 = Allocate(b, x, uid),
         NEW b2, b2 = Remove(b1, Only(l[i].buf, Taken(l, i))),
         NEW was, was = b.data[l[i].buf],
         NEW b3, b3 = Put(b2, x, Rest(l, i, S), was),
         NEW c, c = Put(b3, x, S, from)
  PROVE  Carried(l, b, i, x, S, from, c)
<1> DEFINE gone == Only(l[i].buf, Taken(l, i))
           b0 == BuffersWithout(l, b, i)
<1>1. l \in [Entries -> EntryType \cup {NoEntry}] /\ b \in Record /\ Owned(b)
  BY DEF Coherent
<1>2. /\ l[i].buf \in Bufs /\ Taken(l, i) \subseteq SubPages /\ Taken(l, i) # {}
      /\ l[i].mask \in SUBSET Sectors
  BY <1>1, UsedType
<1>3. gone \in [Bufs -> SUBSET SubPages]
  BY <1>2 DEF Only
<1>4. b1 \in Record /\ b1.masks = b.masks /\ b1.data = b.data
  <2>1. b1.data = b.data
    BY <1>1, AllocateData
  <2>2. GivenTo(b, x, uid, b1)
    BY <1>1, AllocateFields
  <2>3. QED BY <2>1, <2>2 DEF GivenTo
<1>5. Rest(l, i, S) \in SUBSET Sectors /\ was \in [Sectors -> Values \cup {Garbage}]
  BY <1>1, <1>2 DEF Rest, Record
<1>6. b2 = Remove(b1, gone) /\ b0 = Remove(b, gone)
  BY DEF BuffersWithout
<1> HIDE DEF gone, b0
<1>7. b2 \in Record /\ b2.masks = Left(b1, gone) /\ b0.masks = Left(b, gone)
  <2>1. b2 \in Record /\ b2.masks = Left(b1, gone)
    BY <1>3, <1>4, <1>6, RemoveFields
  <2>2. b0.masks = Left(b, gone)
    BY <1>1, <1>3, <1>6, RemoveFields
  <2>3. QED BY <2>1, <2>2
<1>8. b2.masks = b0.masks
  BY <1>4, <1>7 DEF Left
<1>9. \A y \in Bufs, s \in Sectors : s[1] \in b0.masks[y] => b2.data[y][s] = b.data[y][s]
  BY <1>3, <1>4, <1>6, <1>8, RemoveData
<1>10. b3 \in Record
  <2>1. PutIn(b2, x, Rest(l, i, S), b3)
    BY <1>5, <1>7, PutFields
  <2>2. QED BY <2>1 DEF PutIn
<1>11. \A y \in Bufs, s \in Sectors :
         b3.data[y][s] = IF y = x /\ s \in Rest(l, i, S) THEN was[s] ELSE b2.data[y][s]
  BY <1>7, PutData
<1>12. \A y \in Bufs, s \in Sectors :
         c.data[y][s] = IF y = x /\ s \in S THEN from[s] ELSE b3.data[y][s]
  <2>1. ASSUME NEW y \in Bufs, NEW s \in Sectors
        PROVE  Put(b3, x, S, from).data[y][s] = IF y = x /\ s \in S THEN from[s] ELSE b3.data[y][s]
    BY <1>10, PutData
  <2>2. QED BY <2>1
<1>13. \A s : s \in Rest(l, i, S) => s \notin S /\ s \in With(l, i, S)
  BY DEF Rest, With
<1>14. \A s : s \in S => s \in With(l, i, S)
  BY DEF With
<1>15. ASSUME NEW y \in Bufs, NEW s \in Sectors
       PROVE  /\ s \in S => c.data[x][s] = from[s]
              /\ s \in Rest(l, i, S) => c.data[x][s] = was[s]
              /\ s[1] \in b0.masks[y] /\ ~(y = x /\ s \in With(l, i, S)) => c.data[y][s] = b.data[y][s]
  <2>1. c.data[x][s] = IF s \in S THEN from[s] ELSE b3.data[x][s]
    BY <1>12
  <2>2. b3.data[x][s] = IF s \in Rest(l, i, S) THEN was[s] ELSE b2.data[x][s]
    BY <1>11
  <2>3. c.data[y][s] = IF y = x /\ s \in S THEN from[s] ELSE b3.data[y][s]
    BY <1>12
  <2>4. b3.data[y][s] = IF y = x /\ s \in Rest(l, i, S) THEN was[s] ELSE b2.data[y][s]
    BY <1>11
  <2>5. s[1] \in b0.masks[y] => b2.data[y][s] = b.data[y][s]
    BY <1>9
  <2>6. QED BY <1>13, <1>14, <2>1, <2>2, <2>3, <2>4, <2>5
<1>16. QED BY <1>15 DEF Carried, b0

\* Sector s of page p is in an entry, with the value v of user u.
Holds(l, b, p, s, v, u) ==
    \E i \in UsedIn(l) : /\ l[i].lpn = p /\ s \in l[i].mask
                        /\ b.data[l[i].buf][s] = v /\ b.uids[l[i].buf] = u

\* The sectors S of page p are replaced, everything else stays.
Written(l, b, p, S, from, uid, m, c) ==
    /\ \A s \in S : Holds(m, c, p, s, from[s], uid)
    /\ \A j \in UsedIn(l) : \A s \in l[j].mask : ~(l[j].lpn = p /\ s \in S) =>
          Holds(m, c, l[j].lpn, s, b.data[l[j].buf][s], b.uids[l[j].buf])
    /\ \A j \in UsedIn(m) : \A s \in m[j].mask :
          \/ m[j].lpn = p /\ s \in S
          \/ \E k \in UsedIn(l) : l[k].lpn = m[j].lpn /\ s \in l[k].mask

LEMMA GrowWritten ==
  ASSUME NEW l, NEW b, Coherent(l, b), NEW i \in Entries, l[i] = NoEntry,
         NEW p \in Lpns, NEW S \in SUBSET Sectors, S # {}, NEW x \in Bufs, NEW uid \in Users,
         Fits(b, x, SubPagesOf(S), uid),
         NEW from, NEW b1 \in Record, b1 = Allocate(b, x, uid),
         NEW c, c = Put(b1, x, S, from), Added(b, c, x, S, uid),
         NEW m, m = Grown(l, i, p, S, x)
  PROVE  Written(l, b, p, S, from, uid, m, c)
<1>1. l \in [Entries -> EntryType \cup {NoEntry}] /\ b \in Record
  BY DEF Coherent
<1>2. m[i] = [lpn |-> p, mask |-> S, buf |-> x] /\ \A j \in Entries \ {i} : m[j] = l[j]
  BY <1>1 DEF Grown
<1>3. [lpn |-> p, mask |-> S, buf |-> x] # NoEntry
  <2>1. [lpn |-> p, mask |-> S, buf |-> x] \in [lpn : Lpns, mask : SUBSET Sectors, buf : Bufs]
    OBVIOUS
  <2>2. QED BY <2>1, BufferAssumption
<1>4. m[i].lpn = p /\ m[i].mask = S /\ m[i].buf = x
  BY <1>2
<1>5. UsedIn(m) = UsedIn(l) \cup {i} /\ \A j \in UsedIn(l) : m[j] = l[j] /\ j # i
  BY <1>2, <1>3 DEF UsedIn
<1>6. \A y \in Bufs, s \in Sectors :
         c.data[y][s] = IF y = x /\ s \in S THEN from[s] ELSE b.data[y][s]
  BY <1>1, PutData, AllocateData
<1>7. c.uids[x] = uid /\ \A j \in UsedIn(l) : c.uids[l[j].buf] = b.uids[l[j].buf]
  BY AddedUids
<1>8. \A s \in S : Holds(m, c, p, s, from[s], uid)
  BY <1>4, <1>5, <1>6, <1>7 DEF Holds
<1>9. ASSUME NEW j \in UsedIn(l), NEW s \in l[j].mask
      PROVE  Holds(m, c, l[j].lpn, s, b.data[l[j].buf][s], b.uids[l[j].buf])
  <2>1. s \in Sectors /\ l[j].buf \in Bufs /\ s[1] \in b.masks[l[j].buf]
    BY SectorsTaken
  <2>2. ~(l[j].buf = x /\ s \in S)
    <3>1. s \in S => s[1] \in SubPagesOf(S)
      BY DEF SubPagesOf
    <3>2. QED BY <2>1, <3>1 DEF Fits
  <2>3. c.data[l[j].buf][s] = b.data[l[j].buf][s]
    BY <1>6, <2>1, <2>2
  <2>4. j \in UsedIn(m) /\ m[j] = l[j]
    BY <1>5
  <2>5. QED BY <1>7, <2>3, <2>4 DEF Holds
<1>10. \A j \in UsedIn(m) : \A s \in m[j].mask :
          \/ m[j].lpn = p /\ s \in S
          \/ \E k \in UsedIn(l) : l[k].lpn = m[j].lpn /\ s \in l[k].mask
  BY <1>4, <1>5
<1>11. QED BY <1>8, <1>9, <1>10 DEF Written

LEMMA PutBackWritten ==
  ASSUME NEW l, NEW b, Coherent(l, b), NEW i \in UsedIn(l), NEW uid \in Users,
         b.uids[l[i].buf] = uid, NEW S \in SUBSET Sectors, NEW x \in Bufs, NEW from,
         NEW c, Rehoused(l, b, i, x, With(l, i, S), uid, c), Carried(l, b, i, x, S, from, c),
         NEW m, m = Regrown(l, i, S, x)
  PROVE  Written(l, b, l[i].lpn, S, from, uid, m, c)
<1> DEFINE l0 == Without(l, i)
           b0 == BuffersWithout(l, b, i)
           M == With(l, i, S)
<1>1. l \in [Entries -> EntryType \cup {NoEntry}] /\ b \in Record
  BY DEF Coherent
<1>2. i \in Entries /\ l[i] \in EntryType /\ l[i].mask \in SUBSET Sectors /\ l[i].buf \in Bufs
      /\ l[i] # NoEntry
  BY <1>1, UsedType DEF UsedIn
<1>3. /\ Coherent(l0, b0) /\ UsedIn(l0) = UsedIn(l) \ {i}
      /\ \A j \in UsedIn(l0) : b0.uids[l[j].buf] = b.uids[l[j].buf]
  BY TakeOut
<1>4. \A j \in Entries \ {i} : l0[j] = l[j] /\ m[j] = l[j]
  BY <1>1, <1>2 DEF Without, Regrown
<1>5. m[i].lpn = l[i].lpn /\ m[i].mask = M /\ m[i].buf = x /\ UsedIn(m) = UsedIn(l)
  <2>1. m[i] = [lpn |-> l[i].lpn, mask |-> M, buf |-> x]
    <3>1. ASSUME NEW e \in EntryType, NEW T, NEW y
          PROVE  [e EXCEPT !.mask = T, !.buf = y] = [lpn |-> e.lpn, mask |-> T, buf |-> y]
      <4> DEFINE f == [e EXCEPT !.mask = T]
      <4>1. f = [lpn |-> e.lpn, mask |-> T, buf |-> e.buf]
        BY DEF EntryType
      <4>2. [e EXCEPT !.mask = T, !.buf = y] = [f EXCEPT !.buf = y]
        BY Zenon
      <4> HIDE DEF f
      <4>3. QED BY <4>1, <4>2
    <3>2. m[i] = [l[i] EXCEPT !.mask = @ \cup S, !.buf = x]
      BY <1>1, <1>2 DEF Regrown
    <3>4. l[i].mask \cup S = M
      BY DEF With
    <3>5. [l[i] EXCEPT !.mask = M, !.buf = x] = [lpn |-> l[i].lpn, mask |-> M, buf |-> x]
      BY <1>2, <3>1
    <3>6. m[i] = [l[i] EXCEPT !.mask = M, !.buf = x]
      BY <3>2, <3>4
    <3>3. QED BY <3>5, <3>6
  <2>2. m[i] # NoEntry
    <3>1. [lpn |-> l[i].lpn, mask |-> M, buf |-> x] \in [lpn : Lpns, mask : SUBSET Sectors, buf : Bufs]
      BY <1>1, <1>2, UsedType DEF With
    <3>2. QED BY <2>1, <3>1, BufferAssumption
  <2>3. QED BY <1>2, <1>4, <2>1, <2>2 DEF UsedIn
<1>6. \A s : s \in M <=> s \in l[i].mask \/ s \in S
  BY DEF With
<1>7. \A s : s \in Rest(l, i, S) <=> s \in l[i].mask /\ s \notin S
  BY DEF Rest
<1>8. Fits(b0, x, SubPagesOf(M), uid) /\ Added(b0, c, x, M, uid)
  BY DEF Rehoused
<1>9. \A s \in Sectors :
        /\ s \in S => c.data[x][s] = from[s]
        /\ s \in Rest(l, i, S) => c.data[x][s] = b.data[l[i].buf][s]
        /\ \A y \in Bufs : s[1] \in b0.masks[y] /\ ~(y = x /\ s \in M)
                         => c.data[y][s] = b.data[y][s]
  BY DEF Carried
<1> HIDE DEF l0, b0, M
<1>10. c.uids[x] = uid /\ \A j \in UsedIn(l0) : c.uids[l0[j].buf] = b0.uids[l0[j].buf]
  BY <1>3, <1>8, AddedUids
<1>11. \A s \in S : Holds(m, c, l[i].lpn, s, from[s], uid)
  BY <1>5, <1>6, <1>9, <1>10 DEF Holds
<1>12. ASSUME NEW j \in UsedIn(l), NEW s \in l[j].mask, ~(l[j].lpn = l[i].lpn /\ s \in S)
       PROVE  Holds(m, c, l[j].lpn, s, b.data[l[j].buf][s], b.uids[l[j].buf])
  <2>1. CASE j = i
    <3>1. s \in Rest(l, i, S) /\ s \in Sectors /\ s \in M
      BY <1>2, <1>6, <1>7, <1>12, <2>1
    <3>2. QED BY <1>5, <1>9, <1>10, <2>1, <3>1 DEF Holds
  <2>2. CASE j # i
    <3>1. j \in UsedIn(l0) /\ j \in Entries /\ l0[j] = l[j] /\ m[j] = l[j] /\ j \in UsedIn(m)
      BY <1>3, <1>4, <1>5, <2>2 DEF UsedIn
    <3>2. s \in Sectors /\ l[j].buf \in Bufs /\ s[1] \in b0.masks[l[j].buf]
      BY <1>3, <3>1, SectorsTaken
    <3>3. ~(l[j].buf = x /\ s \in M)
      <4>1. s \in M => s[1] \in SubPagesOf(M)
        BY DEF SubPagesOf
      <4>2. QED BY <1>8, <3>2, <4>1 DEF Fits
    <3>4. c.data[l[j].buf][s] = b.data[l[j].buf][s]
      BY <1>9, <3>2, <3>3
    <3>5. c.uids[l[j].buf] = b.uids[l[j].buf]
      BY <1>3, <1>10, <3>1
    <3>6. QED BY <3>1, <3>4, <3>5 DEF Holds
  <2>3. QED BY <2>1, <2>2
<1>13. \A j \in UsedIn(m) : \A s \in m[j].mask :
          \/ m[j].lpn = l[i].lpn /\ s \in S
          \/ \E k \in UsedIn(l) : l[k].lpn = m[j].lpn /\ s \in l[k].mask
  BY <1>4, <1>5, <1>6 DEF UsedIn
<1>14. QED BY <1>11, <1>12, <1>13 DEF Written

(***************************************************************************)
(* write_buffer_push.                                                      *)
(***************************************************************************)
LEMMA KeptCount ==
  ASSUME NEW kept, UsedIn(kept) \subseteq UsedIn(lp), num_lpns = Cardinality(UsedIn(lp))
  PROVE  num_lpns - Emptied(kept) = Cardinality(UsedIn(kept))
<1> DEFINE gone == {i \in Entries : lp[i] # NoEntry /\ kept[i] = NoEntry}
<1>1. gone = UsedIn(lp) \ UsedIn(kept)
  BY DEF UsedIn
<1>2. UsedIn(lp) \cap UsedIn(kept) = UsedIn(kept)
  OBVIOUS
<1>3. Cardinality(UsedIn(lp) \ UsedIn(kept))
        = Cardinality(UsedIn(lp)) - Cardinality(UsedIn(lp) \cap UsedIn(kept))
  BY UsedCounts, FS_Difference
<1>4. Cardinality(UsedIn(lp)) \in Nat /\ Cardinality(UsedIn(kept)) \in Nat
  BY UsedCounts
<1>5. Emptied(kept) = Cardinality(gone)
  BY DEF Emptied
<1> HIDE DEF gone
<1>6. QED BY <1>1, <1>2, <1>3, <1>4, <1>5

LEMMA FreeEntry ==
  ASSUME NEW kept, \E i \in Entries : kept[i] = NoEntry,
         NEW i, i = CHOOSE j \in Entries : kept[j] = NoEntry /\ \A k \in 0 .. j - 1 : kept[k] # NoEntry
  PROVE  i \in Entries /\ kept[i] = NoEntry
<1> DEFINE W == {j \in Entries : kept[j] = NoEntry}
<1>1. W \subseteq Nat /\ W # {}
  BY DEF Entries
<1>2. PICK n \in W : \A m \in W : ~(<<m, n>> \in OpToRel(<, Nat))
  BY <1>1, NatLessThanWellFounded, WFMin, Zenon
<1>3. \A m \in W : ~(m < n)
  BY <1>1, <1>2 DEF OpToRel
<1>4. \A k \in 0 .. n - 1 : kept[k] # NoEntry
  <2>1. TAKE k \in 0 .. n - 1
  <2>2. k \in Entries /\ k < n
    BY EntriesFinite DEF Entries
  <2>3. QED BY <1>3, <2>2
<1>5. n \in Entries /\ kept[n] = NoEntry
  OBVIOUS
<1>6. QED BY <1>4, <1>5

\* A buffer that is not full has an empty buffer.
LEMMA EmptyBuffer ==
  ASSUME IInv, ~write_buffer_is_full
  PROVE  /\ \E z \in Bufs : masks[z] = {}
         /\ Cardinality(UsedIn(lp)) < MaxLpns
<1>1. num_clean_buffers = Cardinality(Clean(masks))
  BY DEF IInv, Coherent, Buffers
<1>2. Clean(masks) # {}
  BY <1>1, FS_EmptySet DEF write_buffer_is_full
<1>3. Cardinality(UsedIn(lp)) \in 0 .. MaxLpns /\ Cardinality(UsedIn(lp)) # MaxLpns
  BY UsedCounts DEF IInv, write_buffer_is_full
<1>4. QED BY <1>2, <1>3, EntriesFinite DEF Clean

\* A page the user has no entry of.
LEMMA NewStep ==
  ASSUME IInv, ~write_buffer_is_full, NEW p \in Lpns, NEW uid \in Users,
         NEW S \in SUBSET Sectors, S # {}, NEW from \in [Sectors -> Values \cup {Garbage}],
         \A i \in EntriesOf(p) : EntryUid(i) # uid, PushNew(p, uid, S, from)
  PROVE  /\ Coherent(lp, Buffers)' /\ failed' = FALSE
         /\ num_lpns' = Cardinality(UsedIn(lp))'
         /\ Written(WithoutCommon(p, uid, S), BuffersWithoutCommon(p, uid, S), p, S, from, uid,
                    lp', Buffers')
<1> DEFINE kept == WithoutCommon(p, uid, S)
           b == BuffersWithoutCommon(p, uid, S)
           x == FirstFit(b, SubPagesOf(S), uid)
           i == CHOOSE j \in Entries : kept[j] = NoEntry /\ \A k \in 0 .. j - 1 : kept[k] # NoEntry
           b1 == Allocate(b, x, uid)
           c == Put(b1, x, S, from)
<1>1. /\ lp' = Grown(kept, i, p, S, x)
      /\ num_lpns' = num_lpns - Emptied(kept) + 1
      /\ Set(c)
  BY DEF PushNew, Grown
<1>2. i = CHOOSE j \in Entries : kept[j] = NoEntry /\ \A k \in 0 .. j - 1 : kept[k] # NoEntry
  OBVIOUS
<1>3. x = FirstFit(b, SubPagesOf(S), uid) /\ b1 = Allocate(b, x, uid) /\ c = Put(b1, x, S, from)
  OBVIOUS
<1>4. kept = WithoutCommon(p, uid, S) /\ b = BuffersWithoutCommon(p, uid, S)
  OBVIOUS
<1> HIDE DEF c, b1, i, x, b, kept
<1>5. /\ Coherent(kept, b) /\ b.ok = TRUE
      /\ \A z \in Bufs : masks[z] = {} => b.masks[z] = {}
      /\ UsedIn(kept) \subseteq UsedIn(lp)
      /\ \A j \in UsedIn(kept) :
            /\ kept[j].lpn = lp[j].lpn /\ b.uids[kept[j].buf] = EntryUid(j)
            /\ j \in Others(p, uid) => Taken(kept, j) \cap SubPagesOf(S) = {}
  <2>1. CommonGone(kept, b, p, uid, S)
    BY <1>4, CommonTaken
  <2>2. QED BY <2>1 DEF CommonGone
<1>6. b \in Record /\ Owned(b) /\ b.clean \in Int
  BY <1>5 DEF Coherent, Record
<1>7. x \in Bufs /\ Fits(b, x, SubPagesOf(S), uid)
  <2>1. PICK z \in Bufs : masks[z] = {}
    BY EmptyBuffer
  <2>2. Fits(b, z, SubPagesOf(S), uid)
    BY <1>5, <2>1 DEF Fits
  <2>3. QED BY <1>3, <2>2, FirstFitFits DEF IInv
<1>8. i \in Entries /\ kept[i] = NoEntry
  <2>1. UsedIn(kept) # Entries
    BY <1>5, EmptyBuffer, EntriesFinite, UsedCounts, FS_Subset
  <2>2. \E j \in Entries : kept[j] = NoEntry
    BY <2>1 DEF UsedIn
  <2>3. QED BY <1>2, <2>2, FreeEntry
<1>9. /\ b1 \in Record
      /\ b1.masks = b.masks /\ b1.ok = b.ok
      /\ b1.uids = [b.uids EXCEPT ![x] = IF b.masks[x] = {} THEN uid ELSE @]
      /\ b1.managed = b.managed \cup {x}
      /\ b1.clean = IF b.masks[x] = {} THEN b.clean - 1 ELSE b.clean
  <2>1. GivenTo(b, x, uid, b1)
    BY <1>3, <1>6, <1>7, AllocateFields
  <2>2. QED BY <2>1 DEF GivenTo
<1>10. b1.uids = [b.uids EXCEPT ![x] = uid]
  <2>1. b.uids \in [Bufs -> Users \cup {NoUser}]
    BY <1>6 DEF Record
  <2>2. QED BY <1>7, <1>9, <2>1 DEF Fits
<1>11. /\ c \in Record
       /\ c.masks = [b1.masks EXCEPT ![x] = @ \cup SubPagesOf(S)]
       /\ c.uids = b1.uids /\ c.managed = b1.managed /\ c.clean = b1.clean /\ c.ok = b1.ok
  <2>1. PutIn(b1, x, S, c)
    BY <1>3, <1>7, <1>9, PutFields
  <2>2. QED BY <2>1 DEF PutIn
<1>12. Added(b, c, x, S, uid) /\ c.ok = TRUE
  BY <1>5, <1>9, <1>10, <1>11 DEF Added
<1>13. IsAlone(kept, b, p, S, uid)
  <2>1. SUFFICES ASSUME NEW j \in UsedIn(kept), kept[j].lpn = p
                 PROVE  b.uids[kept[j].buf] # uid /\ Taken(kept, j) \cap SubPagesOf(S) = {}
    BY DEF IsAlone
  <2>2. j \in EntriesOf(p)
    BY <1>5, <2>1 DEF EntriesOf, UsedIn
  <2>3. j \in Others(p, uid)
    BY <2>2 DEF Others
  <2>4. QED BY <1>5, <2>2, <2>3
<1>14. /\ Coherent(lp', c) /\ UsedIn(lp') = UsedIn(kept) \cup {i}
  <2>1. Coherent(kept, b)
    BY <1>5
  <2>2. QED BY <1>1, <1>7, <1>8, <1>11, <1>12, <1>13, <2>1, Grow, SMTT(60)
<1>15. Coherent(lp, Buffers)' /\ failed' = FALSE
  BY <1>1, <1>11, <1>12, <1>14, SetBuffers
<1>16. num_lpns' = Cardinality(UsedIn(lp'))
  <2>1. num_lpns - Emptied(kept) = Cardinality(UsedIn(kept))
    BY <1>5, KeptCount DEF IInv
  <2>2. i \notin UsedIn(kept)
    BY <1>8 DEF UsedIn
  <2>3. Cardinality(UsedIn(kept) \cup {i}) = Cardinality(UsedIn(kept)) + 1
    BY <2>2, UsedCounts, FS_AddElement
  <2>4. QED BY <1>1, <1>14, <2>1, <2>3
<1>17. Written(kept, b, p, S, from, uid, lp', c)
  <2>1. Coherent(kept, b) /\ b1 \in Record
    BY <1>5, <1>9
  <2>2. QED BY <1>1, <1>3, <1>7, <1>8, <1>12, <2>1, GrowWritten, SMTT(60)
<1>18. Buffers' = c
  BY <1>1, <1>11, <1>12, SetIs
<1>19. QED BY <1>4, <1>15, <1>16, <1>17, <1>18

\* A page the user has an entry of.
LEMMA KnownStep ==
  ASSUME IInv, ~write_buffer_is_full, NEW uid \in Users, NEW S \in SUBSET Sectors,
         NEW from \in [Sectors -> Values \cup {Garbage}],
         NEW i \in UsedIn(lp), EntryUid(i) = uid, PushKnown(i, uid, S, from)
  PROVE  /\ Coherent(lp, Buffers)' /\ failed' = FALSE
         /\ num_lpns' = Cardinality(UsedIn(lp))'
         /\ Written(WithoutCommon(lp[i].lpn, uid, S), BuffersWithoutCommon(lp[i].lpn, uid, S),
                    lp[i].lpn, S, from, uid, lp', Buffers')
<1> DEFINE p == lp[i].lpn
           kept == WithoutCommon(p, uid, S)
           b == BuffersWithoutCommon(p, uid, S)
           old == lp[i].buf
           M == With(lp, i, S)
           fits == b.masks[old] \cap SubPagesOf(S \ lp[i].mask) = {}
           new == IF fits THEN old ELSE FirstFit(b, SubPagesOf(M), uid)
           c == Put(IF fits THEN b ELSE Moved(b, i, S, uid), new, S, from)
<1>1. /\ lp' = Regrown(kept, i, S, new)
      /\ num_lpns' = num_lpns - Emptied(kept)
      /\ Set(c)
  BY DEF PushKnown, Regrown, With
<1>2. kept = WithoutCommon(p, uid, S) /\ b = BuffersWithoutCommon(p, uid, S)
  OBVIOUS
<1>3. lp \in [Entries -> EntryType \cup {NoEntry}]
  BY DEF IInv, Coherent
<1>4. p \in Lpns /\ old \in Bufs
  BY <1>3, UsedType
<1>5. fits => new = old /\ c = Put(b, old, S, from)
  OBVIOUS
<1>6. ~fits => /\ new = FirstFit(b, SubPagesOf(M), uid)
              /\ new = FirstFit(b, SubPagesOf(lp[i].mask \cup S), uid)
              /\ c = Put(Moved(b, i, S, uid), new, S, from)
  BY DEF With
<1>7. fits <=> b.masks[old] \cap SubPagesOf(S \ lp[i].mask) = {}
  OBVIOUS
<1> HIDE DEF c, new, fits, b, kept, M
<1>8. CommonGone(kept, b, p, uid, S)
  <2> HIDE DEF p
  <2>1. QED BY <1>2, <1>4, CommonTaken
<1>9. i \notin Others(p, uid)
  BY DEF Others
<1>10. /\ Coherent(kept, b) /\ b.ok = TRUE
       /\ \A z \in Bufs : masks[z] = {} => b.masks[z] = {}
       /\ UsedIn(kept) \subseteq UsedIn(lp)
       /\ \A j \in UsedIn(kept) :
             /\ kept[j].lpn = lp[j].lpn /\ b.uids[kept[j].buf] = EntryUid(j)
             /\ j \in Others(p, uid) => Taken(kept, j) \cap SubPagesOf(S) = {}
       /\ i \in UsedIn(kept) /\ kept[i] = lp[i]
  BY <1>8, <1>9 DEF CommonGone
<1>11. b.uids[kept[i].buf] = uid
  BY <1>10
<1>12. M = With(kept, i, S)
  BY <1>10 DEF M, With
<1>13. \A j \in UsedIn(kept) : kept[j].lpn = kept[i].lpn /\ j # i
                               => Taken(kept, j) \cap SubPagesOf(S) = {}
  <2>1. SUFFICES ASSUME NEW j \in UsedIn(kept), kept[j].lpn = kept[i].lpn, j # i
                 PROVE  Taken(kept, j) \cap SubPagesOf(S) = {}
    OBVIOUS
  <2>2. b.uids[kept[j].buf] # b.uids[kept[i].buf]
    BY <1>10, <2>1 DEF Coherent, Apart
  <2>3. j \in Entries /\ lp[j] # NoEntry /\ lp[j].lpn = p
    BY <1>10, <2>1 DEF UsedIn
  <2>4. j \in Others(p, uid)
    BY <1>10, <1>11, <2>2, <2>3 DEF Others, EntriesOf
  <2>5. QED BY <1>10, <2>4
<1>14. new \in Bufs /\ Rehoused(kept, b, i, new, M, uid, c) /\ c.ok = b.ok
      /\ Carried(kept, b, i, new, S, from, c)
  <2>1. CASE fits
    <3>1. b.masks[kept[i].buf] \cap SubPagesOf(S \ kept[i].mask) = {}
      BY <1>7, <1>10, <2>1
    <3>2. c = Put(b, kept[i].buf, S, from) /\ new = kept[i].buf
      BY <1>5, <1>10, <2>1
    <3>3. Coherent(kept, b) /\ i \in UsedIn(kept)
      BY <1>10
    <3>4. Rehoused(kept, b, i, kept[i].buf, M, uid, c) /\ c.ok = b.ok
      <4>1. M = With(kept, i, S)
        BY <1>10, <1>12
      <4>2. QED BY <1>11, <3>1, <3>2, <3>3, <4>1, Stays, SMTT(60)
    <3>5. Carried(kept, b, i, kept[i].buf, S, from, c)
      <4>1. b \in Record /\ kept[i].buf \in Bufs
        BY <1>4, <1>10 DEF Coherent
      <4>2. QED BY <3>2, <4>1, StaysData
    <3>6. QED BY <1>4, <1>10, <3>2, <3>4, <3>5
  <2>2. CASE ~fits
    <3> DEFINE N == Rest(kept, i, S)
               was == b.data[kept[i].buf]
               b1 == Allocate(b, new, uid)
               b2 == Remove(b1, Only(kept[i].buf, Taken(kept, i)))
               b3 == Put(b2, new, N, was)
    <3>1. PICK z \in Bufs : masks[z] = {}
      BY EmptyBuffer
    <3>2. Fits(b, z, SubPagesOf(M), uid)
      BY <1>10, <3>1 DEF Fits
    <3>3. new \in Bufs /\ Fits(b, new, SubPagesOf(M), uid)
      <4>1. FirstFit(b, SubPagesOf(M), uid) \in Bufs
            /\ Fits(b, FirstFit(b, SubPagesOf(M), uid),
                    SubPagesOf(M), uid)
        BY <3>2, FirstFitFits DEF IInv
      <4>2. QED BY <1>6, <1>10, <2>2, <4>1
    <3>4. Moved(b, i, S, uid) = b3
      BY <1>6, <1>10, <2>2 DEF Moved, Only, Taken, Rest
    <3>5. c = Put(b3, new, S, from)
      BY <1>6, <2>2, <3>4
    <3>6. b1 = Allocate(b, new, uid) /\ b2 = Remove(b1, Only(kept[i].buf, Taken(kept, i)))
          /\ b3 = Put(b2, new, N, was) /\ N = Rest(kept, i, S) /\ was = b.data[kept[i].buf]
      OBVIOUS
    <3>7. Coherent(kept, b) /\ i \in UsedIn(kept)
      BY <1>10
    <3> HIDE DEF b1, b2, b3, N, was
    <3>8. Rehoused(kept, b, i, new, M, uid, c) /\ c.ok = b.ok
      <4>1. M = With(kept, i, S)
        BY <1>10, <1>12
      <4>2. QED BY <1>11, <3>3, <3>5, <3>6, <3>7, <4>1, Moves, SMTT(60)
    <3>9. Carried(kept, b, i, new, S, from, c)
      BY <3>3, <3>5, <3>6, <3>7, MovesData, SMTT(60)
    <3>10. QED BY <3>3, <3>8, <3>9
  <2>3. QED BY <2>1, <2>2
<1>15. Coherent(lp', c) /\ UsedIn(lp') = UsedIn(kept)
  <2>1. Coherent(kept, b) /\ i \in UsedIn(kept)
    BY <1>10
  <2>2. M = With(kept, i, S)
    BY <1>10, <1>12
  <2>3. QED BY <1>1, <1>11, <1>13, <1>14, <2>1, <2>2, PutBack, SMTT(60)
<1>16. Coherent(lp, Buffers)' /\ failed' = FALSE
  <2>1. c \in Record /\ c.ok = TRUE
    BY <1>10, <1>14 DEF Rehoused
  <2>2. QED BY <1>1, <1>15, <2>1, SetBuffers
<1>17. num_lpns' = Cardinality(UsedIn(lp'))
  <2>1. num_lpns - Emptied(kept) = Cardinality(UsedIn(kept))
    BY <1>10, KeptCount DEF IInv
  <2>2. QED BY <1>1, <1>15, <2>1
<1>18. Written(kept, b, kept[i].lpn, S, from, uid, lp', c)
  <2>1. Coherent(kept, b) /\ i \in UsedIn(kept)
    BY <1>10
  <2>2. M = With(kept, i, S)
    BY <1>10, <1>12
  <2>3. QED BY <1>1, <1>11, <1>14, <2>1, <2>2, PutBackWritten, SMTT(60)
<1>19. Buffers' = c
  <2>1. c \in Record /\ c.ok = TRUE
    BY <1>10, <1>14 DEF Rehoused
  <2>2. QED BY <1>1, <2>1, SetIs
<1>20. QED BY <1>2, <1>10, <1>16, <1>17, <1>18, <1>19

LEMMA PushStep ==
  ASSUME IInv, NEW p \in Lpns, NEW uid \in Users, NEW sectors \in Ranges, NEW val \in Values,
         NEW from, from = [s \in Sectors |-> val], write_buffer_push(p, uid, sectors, val)
  PROVE  /\ IInv'
         /\ Written(WithoutCommon(p, uid, sectors), BuffersWithoutCommon(p, uid, sectors),
                    p, sectors, from, uid, lp', Buffers')
<1> DEFINE own == {i \in EntriesOf(p) : EntryUid(i) = uid}
<1>1. ~write_buffer_is_full /\ head_buf_id' = head_buf_id
  BY DEF write_buffer_push
<1>2. sectors \in SUBSET Sectors /\ sectors # {} /\ from \in [Sectors -> Values \cup {Garbage}]
  BY BufferAssumption
<1>3. \/ own = {} /\ PushNew(p, uid, sectors, from)
      \/ \E i \in own : PushKnown(i, uid, sectors, from)
  BY DEF write_buffer_push
<1>4. CASE own = {} /\ PushNew(p, uid, sectors, from)
  <2>1. \A i \in EntriesOf(p) : EntryUid(i) # uid
    BY <1>4
  <2>2. /\ Coherent(lp, Buffers)' /\ failed' = FALSE /\ num_lpns' = Cardinality(UsedIn(lp))'
        /\ Written(WithoutCommon(p, uid, sectors), BuffersWithoutCommon(p, uid, sectors),
                   p, sectors, from, uid, lp', Buffers')
    BY <1>1, <1>2, <1>4, <2>1, NewStep
  <2>3. QED BY <1>1, <2>2 DEF IInv
<1>5. CASE \E i \in own : PushKnown(i, uid, sectors, from)
  <2>1. PICK i \in own : PushKnown(i, uid, sectors, from)
    BY <1>5
  <2>2. i \in UsedIn(lp) /\ EntryUid(i) = uid /\ lp[i].lpn = p
    BY DEF EntriesOf, UsedIn
  <2>3. /\ Coherent(lp, Buffers)' /\ failed' = FALSE /\ num_lpns' = Cardinality(UsedIn(lp))'
        /\ Written(WithoutCommon(p, uid, sectors), BuffersWithoutCommon(p, uid, sectors),
                   p, sectors, from, uid, lp', Buffers')
    BY <1>1, <1>2, <2>1, <2>2, KnownStep
  <2>4. QED BY <1>1, <2>3 DEF IInv
<1>6. QED BY <1>3, <1>4, <1>5

LEMMA InitHolds == Init => IInv
<1> SUFFICES ASSUME Init PROVE IInv
  OBVIOUS
<1>1. lp \in [Entries -> EntryType \cup {NoEntry}] /\ UsedIn(lp) = {}
  BY DEF Init, UsedIn
<1>2. Buffers \in Record
  <2>1. NumWriteBuffers \in Int
    BY BufferAssumption
  <2>2. QED BY <2>1 DEF Buffers, Record, Init
<1>3. Clean(masks) = Bufs
  BY DEF Init, Clean
<1>4. num_clean_buffers = Cardinality(Clean(masks))
  BY <1>3, EntriesFinite DEF Init
<1>5. MasksExact(lp, Buffers) /\ NoOverlap(lp) /\ Owned(Buffers) /\ Apart(lp, Buffers)
  BY <1>1 DEF MasksExact, NoOverlap, Owned, Apart, Buffers, Init
<1>6. Coherent(lp, Buffers)
  BY <1>1, <1>2, <1>4, <1>5 DEF Coherent, Buffers
<1>7. head_buf_id \in Bufs
  BY BufferAssumption DEF Init, Bufs
<1>8. QED BY <1>1, <1>6, <1>7, FS_EmptySet DEF IInv, Init

LEMMA NextHolds == IInv /\ [Next]_vars => IInv'
<1> SUFFICES ASSUME IInv, [Next]_vars PROVE IInv'
  OBVIOUS
<1>1. CASE UNCHANGED vars
  BY <1>1 DEF vars, IInv, Buffers
<1>2. ASSUME NEW p \in Lpns, NEW uid \in Users, NEW sectors \in Ranges, NEW val \in Values,
             write_buffer_push(p, uid, sectors, val)
      PROVE  IInv'
  BY <1>2, PushStep
<1>3. ASSUME NEW p \in Lpns, write_buffer_drop(p) PROVE IInv'
  BY <1>3, DropStep
<1>4. CASE write_buffer_flush
  BY <1>4, FlushStep
<1>5. QED BY <1>1, <1>2, <1>3, <1>4 DEF Next

LEMMA Invariant == Spec => []IInv
<1>1. QED BY InitHolds, NextHolds, PTL DEF Spec

LEMMA IInvCoherent == IInv => BuffersCoherent
<1> SUFFICES ASSUME IInv PROVE BuffersCoherent
  OBVIOUS
<1>1. /\ lp \in [Entries -> EntryType \cup {NoEntry}]
      /\ Buffers \in Record
      /\ MasksExact(lp, Buffers) /\ NoOverlap(lp) /\ Owned(Buffers)
      /\ num_clean_buffers = Cardinality(Clean(masks))
  BY DEF IInv, Coherent, Buffers
<1>2. /\ masks \in [Bufs -> SUBSET SubPages] /\ uids \in [Bufs -> Users \cup {NoUser}]
      /\ managed \in SUBSET Bufs /\ data \in [Bufs -> [Sectors -> Values \cup {Garbage}]]
  BY <1>1 DEF Buffers, Record
<1>3. CountersExact
  BY <1>1 DEF CountersExact, IInv, Used, UsedIn, Clean
<1>4. TypeOK
  <2>1. num_lpns \in 0 .. MaxLpns /\ num_clean_buffers \in 0 .. NumWriteBuffers
    BY <1>1, UsedCounts, CleanFinite DEF IInv
  <2>2. \A i \in Entries : lp[i] = NoEntry \/ lp[i] \in EntryType
    BY <1>1
  <2>3. QED BY <1>2, <2>1, <2>2 DEF TypeOK, IInv
<1>5. \A i \in UsedIn(lp) : /\ lp[i].mask \in SUBSET Sectors
                            /\ lp[i].buf \in Bufs /\ Taken(lp, i) \subseteq SubPages
  BY <1>1, UsedType
<1>6. ASSUME NEW x \in Bufs
      PROVE  masks[x] = SubPagesOf(UNION {lp[i].mask : i \in {j \in Used : lp[j].buf = x}})
  <2>1. \A sp : sp \in SubPagesOf(UNION {lp[i].mask : i \in {j \in Used : lp[j].buf = x}})
                 <=> \E i \in UsedIn(lp) : lp[i].buf = x /\ sp \in Taken(lp, i)
    BY DEF SubPagesOf, Taken, Used, UsedIn
  <2>2. \A sp \in SubPages :
           sp \in masks[x] <=> \E i \in UsedIn(lp) : lp[i].buf = x /\ sp \in Taken(lp, i)
    BY <1>1 DEF MasksExact, Buffers
  <2>3. QED BY <1>2, <1>5, <2>1, <2>2
<1>7. \A x \in Bufs : \A i, j \in Used : i # j /\ lp[i].buf = x /\ lp[j].buf = x
              => SubPagesOf(lp[i].mask) \cap SubPagesOf(lp[j].mask) = {}
  BY <1>1 DEF NoOverlap, Used, UsedIn, Taken
<1>8. \A x \in Bufs : (masks[x] = {}) = (uids[x] = NoUser) /\ (masks[x] # {}) = (x \in managed)
  BY <1>1 DEF Owned, Buffers
<1>9. QED BY <1>3, <1>4, <1>6, <1>7, <1>8 DEF BuffersCoherent, IInv

(***************************************************************************)
(* The store that the entries and the buffers make up.                     *)
(***************************************************************************)
LEMMA OneEntry ==
  ASSUME NEW l, NEW b, Coherent(l, b), NEW i \in UsedIn(l), NEW j \in UsedIn(l),
         l[i].lpn = l[j].lpn, NEW s, s \in l[i].mask, s \in l[j].mask
  PROVE  i = j
<1>1. s[1] \in Taken(l, i) /\ s[1] \in Taken(l, j)
  BY DEF Taken, SubPagesOf
<1>2. QED BY <1>1 DEF Coherent, Apart

Found(l, b, p, s) ==
    {[val |-> b.data[l[i].buf][s], uid |-> b.uids[l[i].buf]] :
        i \in {j \in UsedIn(l) : l[j].lpn = p /\ s \in l[j].mask}}

Cell(l, b, p, s) == SectorIn(Found(l, b, p, s))

StoreOf(l, b) == [p \in Lpns |-> [s \in Sectors |-> Cell(l, b, p, s)]]

IsHeld(l, p, s) == \E i \in UsedIn(l) : l[i].lpn = p /\ s \in l[i].mask

LEMMA CellHeld ==
  ASSUME NEW l, NEW b, Coherent(l, b), NEW p, NEW s, NEW v, NEW u, Holds(l, b, p, s, v, u)
  PROVE  Cell(l, b, p, s) = [val |-> v, uid |-> u] /\ IsHeld(l, p, s)
<1> DEFINE E == {j \in UsedIn(l) : l[j].lpn = p /\ s \in l[j].mask}
<1>1. PICK i \in UsedIn(l) : /\ l[i].lpn = p /\ s \in l[i].mask
                            /\ b.data[l[i].buf][s] = v /\ b.uids[l[i].buf] = u
  BY DEF Holds
<1>2. E = {i}
  BY <1>1, OneEntry
<1> HIDE DEF E
<1>3. {[val |-> b.data[l[k].buf][s], uid |-> b.uids[l[k].buf]] : k \in E}
        = {[val |-> v, uid |-> u]}
  BY <1>1, <1>2
<1>4. Cell(l, b, p, s) = [val |-> v, uid |-> u]
  BY <1>3 DEF Cell, Found, SectorIn, E
<1>5. QED BY <1>1, <1>4 DEF IsHeld

LEMMA CellFree ==
  ASSUME NEW l, NEW b, NEW p, NEW s, ~IsHeld(l, p, s)
  PROVE  Cell(l, b, p, s) = [val |-> Absent, uid |-> NoUser]
<1>1. {j \in UsedIn(l) : l[j].lpn = p /\ s \in l[j].mask} = {}
  BY DEF IsHeld
<1>2. QED BY <1>1 DEF Cell, Found, SectorIn

LEMMA EntryHolds ==
  ASSUME NEW l, NEW b, NEW i \in UsedIn(l), NEW s \in l[i].mask
  PROVE  Holds(l, b, l[i].lpn, s, b.data[l[i].buf][s], b.uids[l[i].buf])
BY DEF Holds

\* What is stored was written.
AllWritten(l, b) == \A i \in UsedIn(l) : \A s \in l[i].mask : b.data[l[i].buf][s] \in Values

\* What is left of the entries of other users, and that its data are.
LEMMA KeptCells ==
  ASSUME IInv, NEW p \in Lpns, NEW uid \in Users, NEW S \in SUBSET Sectors,
         NEW kept, kept = WithoutCommon(p, uid, S), NEW b, b = BuffersWithoutCommon(p, uid, S)
  PROVE  /\ \A j \in UsedIn(lp) : \A s \in lp[j].mask :
              ~(j \in Others(p, uid) /\ s[1] \in SubPagesOf(S)) =>
                /\ j \in UsedIn(kept) /\ kept[j].lpn = lp[j].lpn /\ s \in kept[j].mask
                /\ b.data[kept[j].buf][s] = data[lp[j].buf][s]
                /\ b.uids[kept[j].buf] = EntryUid(j)
         /\ \A j \in UsedIn(kept) : \A s \in kept[j].mask :
              /\ j \in UsedIn(lp) /\ lp[j].lpn = kept[j].lpn /\ s \in lp[j].mask
              /\ ~(j \in Others(p, uid) /\ s[1] \in SubPagesOf(S))
<1> DEFINE O == Others(p, uid)
           away == [x \in Bufs |->
                     SubPagesOf(UNION {Lost(i, S) : i \in {j \in O : lp[j].buf = x}})]
<1>1. /\ lp \in [Entries -> EntryType \cup {NoEntry}] /\ Buffers \in Record
      /\ Buffers.data = data
  BY DEF IInv, Coherent, Buffers
<1>2. \A i \in UsedIn(lp) : /\ lp[i].mask \in SUBSET Sectors /\ lp[i] \in EntryType
                           /\ i \in Entries /\ lp[i].buf \in Bufs /\ lp[i] # NoEntry
  BY <1>1, UsedType DEF UsedIn
<1>3. CommonGone(kept, b, p, uid, S)
  BY CommonTaken
<1>4. /\ Coherent(kept, b) /\ UsedIn(kept) \subseteq UsedIn(lp)
      /\ \A j \in UsedIn(kept) : kept[j].lpn = lp[j].lpn /\ b.uids[kept[j].buf] = EntryUid(j)
      /\ \A j \in UsedIn(lp) : j \notin O => j \in UsedIn(kept) /\ kept[j] = lp[j]
  BY <1>3 DEF CommonGone
<1>5. O \subseteq UsedIn(lp)
  BY DEF Others, EntriesOf, UsedIn
<1>6. ASSUME NEW j \in O
      PROVE  /\ kept[j] # NoEntry => /\ kept[j].buf = lp[j].buf
                                     /\ kept[j].mask = lp[j].mask \ Lost(j, S)
             /\ \A s \in lp[j].mask : s \notin Lost(j, S) => j \in UsedIn(kept)
  <2>1. j \in Entries /\ lp[j] \in EntryType /\ lp[j] # NoEntry
    BY <1>2, <1>5
  <2>2. kept[j] = IF lp[j].mask \subseteq Lost(j, S) THEN NoEntry
                  ELSE [lp[j] EXCEPT !.mask = @ \ Lost(j, S)]
    BY <2>1 DEF WithoutCommon
  <2>3. ASSUME NEW e \in EntryType, NEW T
        PROVE  [e EXCEPT !.mask = @ \ T].buf = e.buf /\ [e EXCEPT !.mask = @ \ T].mask = e.mask \ T
    BY DEF EntryType
  <2>4. ~(lp[j].mask \subseteq Lost(j, S)) => j \in UsedIn(kept)
    <3>1. ASSUME ~(lp[j].mask \subseteq Lost(j, S)) PROVE kept[j] # NoEntry
      <4>1. [lp[j] EXCEPT !.mask = @ \ Lost(j, S)] \in [lpn : Lpns, mask : SUBSET Sectors, buf : Bufs]
        BY <2>1 DEF EntryType
      <4>2. QED BY <2>2, <3>1, <4>1, BufferAssumption
    <3>2. QED BY <2>1, <3>1 DEF UsedIn
  <2>5. QED BY <2>1, <2>2, <2>3, <2>4
<1>7. \A j \in O : \A s : s \in Lost(j, S) <=> s \in lp[j].mask /\ s[1] \in SubPagesOf(S)
  BY DEF Lost
<1>8. \A j \in UsedIn(kept) : kept[j].buf = lp[j].buf
  BY <1>4, <1>6 DEF UsedIn
<1>9. \A j \in UsedIn(kept) : \A s :
         s \in kept[j].mask <=> s \in lp[j].mask /\ ~(j \in O /\ s[1] \in SubPagesOf(S))
  <2>1. TAKE j \in UsedIn(kept)
  <2>2. CASE j \in O
    BY <1>6, <1>7, <2>2 DEF UsedIn
  <2>3. CASE j \notin O
    BY <1>4, <2>3
  <2>4. QED BY <2>2, <2>3
<1>10. b = Remove(Buffers, away)
  BY DEF BuffersWithoutCommon
<1>11. away \in [Bufs -> SUBSET SubPages]
  <2>1. \A i \in O : Lost(i, S) \in SUBSET Sectors
    BY <1>2, <1>5, <1>7
  <2>2. \A x \in Bufs : UNION {Lost(i, S) : i \in {j \in O : lp[j].buf = x}} \in SUBSET Sectors
    BY <2>1
  <2>3. QED BY <2>2, SubPagesAre
<1> HIDE DEF away
<1>12. ASSUME NEW j \in UsedIn(kept), NEW s \in kept[j].mask
       PROVE  b.data[kept[j].buf][s] = data[lp[j].buf][s]
  <2>1. s \in Sectors /\ kept[j].buf \in Bufs /\ s[1] \in b.masks[kept[j].buf]
    BY <1>4, SectorsTaken
  <2>2. b.data[kept[j].buf][s] = Buffers.data[kept[j].buf][s]
    BY <1>1, <1>10, <1>11, <2>1, RemoveData
  <2>3. QED BY <1>1, <1>8, <2>2
<1>13. ASSUME NEW j \in UsedIn(lp), NEW s \in lp[j].mask, ~(j \in O /\ s[1] \in SubPagesOf(S))
       PROVE  j \in UsedIn(kept) /\ s \in kept[j].mask
  <2>1. j \in UsedIn(kept)
    BY <1>4, <1>6, <1>7, <1>13
  <2>2. QED BY <1>9, <1>13, <2>1
<1>14. QED BY <1>4, <1>9, <1>12, <1>13

NoCell == [val |-> Absent, uid |-> NoUser]

LEMMA PushCells ==
  ASSUME IInv, Coherent(lp, Buffers)', NEW p \in Lpns, NEW uid \in Users,
         NEW S \in SUBSET Sectors, NEW val, NEW from, \A s \in S : from[s] = val,
         Written(WithoutCommon(p, uid, S), BuffersWithoutCommon(p, uid, S), p, S, from, uid,
                 lp', Buffers')
  PROVE  \A q \in Lpns, s \in Sectors :
           LET now == Cell(lp', Buffers', q, s)
               was == Cell(lp, Buffers, q, s)
           IN  /\ q = p /\ s \in S => now = [val |-> val, uid |-> uid]
               /\ q = p /\ s \notin S /\ s[1] \in SubPagesOf(S) /\ was.uid # uid => now = NoCell
               /\ q # p \/ (s \notin S /\ ~(s[1] \in SubPagesOf(S) /\ was.uid # uid)) => now = was
<1> DEFINE kept == WithoutCommon(p, uid, S)
           b == BuffersWithoutCommon(p, uid, S)
<1>1. Coherent(lp, Buffers) /\ Coherent(lp', Buffers')
  BY DEF IInv
<1>2. /\ \A s \in S : Holds(lp', Buffers', p, s, from[s], uid)
      /\ \A j \in UsedIn(kept) : \A s \in kept[j].mask : ~(kept[j].lpn = p /\ s \in S) =>
           Holds(lp', Buffers', kept[j].lpn, s, b.data[kept[j].buf][s], b.uids[kept[j].buf])
      /\ \A j \in UsedIn(lp') : \A s \in lp'[j].mask :
           \/ lp'[j].lpn = p /\ s \in S
           \/ \E k \in UsedIn(kept) : kept[k].lpn = lp'[j].lpn /\ s \in kept[k].mask
  BY DEF Written
<1>3. /\ \A j \in UsedIn(lp) : \A s \in lp[j].mask :
              ~(j \in Others(p, uid) /\ s[1] \in SubPagesOf(S)) =>
                /\ j \in UsedIn(kept) /\ kept[j].lpn = lp[j].lpn /\ s \in kept[j].mask
                /\ b.data[kept[j].buf][s] = data[lp[j].buf][s]
                /\ b.uids[kept[j].buf] = EntryUid(j)
      /\ \A j \in UsedIn(kept) : \A s \in kept[j].mask :
              /\ j \in UsedIn(lp) /\ lp[j].lpn = kept[j].lpn /\ s \in lp[j].mask
              /\ ~(j \in Others(p, uid) /\ s[1] \in SubPagesOf(S))
  BY KeptCells
<1> HIDE DEF kept, b
<1>4. \A s : s \in S => s[1] \in SubPagesOf(S)
  BY DEF SubPagesOf
<1>5. \A j \in UsedIn(lp) : j \in Others(p, uid) <=> lp[j].lpn = p /\ EntryUid(j) # uid
  BY DEF Others, EntriesOf, UsedIn
<1>6. SUFFICES ASSUME NEW q \in Lpns, NEW s \in Sectors
      PROVE  LET now == Cell(lp', Buffers', q, s)
                 was == Cell(lp, Buffers, q, s)
             IN  /\ q = p /\ s \in S => now = [val |-> val, uid |-> uid]
                 /\ q = p /\ s \notin S /\ s[1] \in SubPagesOf(S) /\ was.uid # uid => now = NoCell
                 /\ q # p \/ (s \notin S /\ ~(s[1] \in SubPagesOf(S) /\ was.uid # uid)) => now = was
  OBVIOUS
<1> DEFINE now == Cell(lp', Buffers', q, s)
           was == Cell(lp, Buffers, q, s)
<1>7. CASE q = p /\ s \in S
  <2>1. Holds(lp', Buffers', q, s, val, uid)
    BY <1>2, <1>7
  <2>2. now = [val |-> val, uid |-> uid]
    BY <1>1, <2>1, CellHeld
  <2>3. QED BY <1>7, <2>2
<1>8. CASE ~(q = p /\ s \in S) /\ IsHeld(lp, q, s)
  <2>1. PICK j \in UsedIn(lp) : lp[j].lpn = q /\ s \in lp[j].mask
    BY <1>8 DEF IsHeld
  <2>2. Holds(lp, Buffers, q, s, data[lp[j].buf][s], EntryUid(j))
    BY <2>1 DEF Holds, Buffers, EntryUid
  <2>3. was = [val |-> data[lp[j].buf][s], uid |-> EntryUid(j)]
    BY <1>1, <2>2, CellHeld
  <2>4. CASE q = p /\ EntryUid(j) # uid /\ s[1] \in SubPagesOf(S)
    <3>1. ASSUME IsHeld(lp', q, s) PROVE FALSE
      <4>1. PICK k \in UsedIn(kept) : kept[k].lpn = q /\ s \in kept[k].mask
        BY <1>2, <1>8, <3>1 DEF IsHeld
      <4>2. k \in UsedIn(lp) /\ lp[k].lpn = q /\ s \in lp[k].mask /\ k \notin Others(p, uid)
        BY <1>3, <2>4, <4>1
      <4>3. k = j
        BY <1>1, <2>1, <4>2, OneEntry
      <4>4. QED BY <1>5, <2>1, <2>4, <4>2, <4>3
    <3>2. now = NoCell
      BY <3>1, CellFree DEF NoCell
    <3>3. was.uid # uid
      BY <2>3, <2>4
    <3> HIDE DEF now, was
    <3>4. QED BY <1>8, <2>4, <3>2, <3>3 DEF now, was
  <2>5. CASE ~(q = p /\ EntryUid(j) # uid /\ s[1] \in SubPagesOf(S))
    <3>1. ~(j \in Others(p, uid) /\ s[1] \in SubPagesOf(S))
      BY <1>5, <2>1, <2>5
    <3>2. Holds(lp', Buffers', q, s, data[lp[j].buf][s], EntryUid(j))
      BY <1>2, <1>3, <1>8, <2>1, <3>1
    <3>3. now = was
      BY <1>1, <2>3, <3>2, CellHeld
    <3>4. was.uid = EntryUid(j)
      BY <2>3
    <3> HIDE DEF now, was
    <3>5. QED BY <1>8, <2>5, <3>3, <3>4 DEF now, was
  <2>6. QED BY <2>4, <2>5
<1>9. CASE ~(q = p /\ s \in S) /\ ~IsHeld(lp, q, s)
  <2>1. was = NoCell
    BY <1>9, CellFree DEF NoCell
  <2>2. ~IsHeld(lp', q, s)
    BY <1>2, <1>3, <1>9 DEF IsHeld
  <2>3. now = NoCell
    BY <2>2, CellFree DEF NoCell
  <2> HIDE DEF now, was
  <2>4. QED BY <1>9, <2>1, <2>3 DEF now, was
<1>10. QED BY <1>7, <1>8, <1>9

\* Entries that go whole.
LEMMA ForgetCells ==
  ASSUME IInv, Coherent(lp, Buffers)', NEW gone \in SUBSET UsedIn(lp), Forget(Buffers, gone)
  PROVE  /\ UsedIn(lp') = UsedIn(lp) \ gone /\ \A j \in UsedIn(lp') : lp'[j] = lp[j]
         /\ \A j \in UsedIn(lp') : \A s \in lp'[j].mask :
              Buffers'.data[lp'[j].buf][s] = Buffers.data[lp[j].buf][s]
         /\ \A q, s : (\E j \in gone : lp[j].lpn = q /\ s \in lp[j].mask)
                       => Cell(lp', Buffers', q, s) = NoCell
         /\ \A q, s : ~(\E j \in gone : lp[j].lpn = q /\ s \in lp[j].mask)
                       => Cell(lp', Buffers', q, s) = Cell(lp, Buffers, q, s)
<1> DEFINE away == [x \in Bufs |->
                     SubPagesOf(UNION {lp[i].mask : i \in {j \in gone : lp[j].buf = x}})]
           c == Remove(Buffers, away)
<1>1. /\ lp \in [Entries -> EntryType \cup {NoEntry}] /\ Buffers \in Record
      /\ Coherent(lp, Buffers) /\ Coherent(lp', Buffers')
  BY DEF IInv, Coherent
<1>2. lp' = [i \in Entries |-> IF i \in gone THEN NoEntry ELSE lp[i]] /\ Set(c)
  BY DEF Forget
<1>3. UsedIn(lp') = UsedIn(lp) \ gone /\ \A j \in UsedIn(lp') : lp'[j] = lp[j]
  BY <1>2 DEF UsedIn
<1>4. away \in [Bufs -> SUBSET SubPages]
  <2>1. \A i \in gone : lp[i].mask \in SUBSET Sectors
    BY <1>1, UsedType
  <2>2. \A x \in Bufs : UNION {lp[i].mask : i \in {j \in gone : lp[j].buf = x}} \in SUBSET Sectors
    BY <2>1
  <2>3. QED BY <2>2, SubPagesAre
<1>5. Buffers'.data = c.data /\ Buffers'.uids = c.uids /\ Buffers'.masks = c.masks
  BY <1>2 DEF Set, Buffers
<1> HIDE DEF away
<1>6. ASSUME NEW j \in UsedIn(lp'), NEW s \in lp'[j].mask
      PROVE  /\ Buffers'.data[lp'[j].buf][s] = Buffers.data[lp[j].buf][s]
             /\ Holds(lp', Buffers', lp[j].lpn, s, Buffers.data[lp[j].buf][s],
                      Buffers.uids[lp[j].buf])
  <2>1. s \in Sectors /\ lp'[j].buf \in Bufs /\ s[1] \in Buffers'.masks[lp'[j].buf]
    BY <1>1, SectorsTaken
  <2>2. c.data[lp[j].buf][s] = Buffers.data[lp[j].buf][s]
        /\ c.uids[lp[j].buf] = Buffers.uids[lp[j].buf]
    BY <1>1, <1>3, <1>4, <1>5, <2>1, RemoveData
  <2>3. QED BY <1>3, <1>5, <2>2 DEF Holds
<1> HIDE DEF c
<1>7. ASSUME NEW q, NEW s, \E j \in gone : lp[j].lpn = q /\ s \in lp[j].mask
      PROVE  Cell(lp', Buffers', q, s) = NoCell
  <2>1. PICK j \in gone : lp[j].lpn = q /\ s \in lp[j].mask
    BY <1>7
  <2>2. ASSUME IsHeld(lp', q, s) PROVE FALSE
    <3>1. PICK k \in UsedIn(lp') : lp[k].lpn = q /\ s \in lp[k].mask
      BY <1>3, <2>2 DEF IsHeld
    <3>2. k = j
      BY <1>1, <1>3, <2>1, <3>1, OneEntry
    <3>3. QED BY <1>3, <3>2
  <2>3. QED BY <2>2, CellFree DEF NoCell
<1>8. ASSUME NEW q, NEW s, ~(\E j \in gone : lp[j].lpn = q /\ s \in lp[j].mask)
      PROVE  Cell(lp', Buffers', q, s) = Cell(lp, Buffers, q, s)
  <2>1. CASE IsHeld(lp, q, s)
    <3>1. PICK j \in UsedIn(lp) : lp[j].lpn = q /\ s \in lp[j].mask
      BY <2>1 DEF IsHeld
    <3>2. j \in UsedIn(lp') /\ lp'[j] = lp[j]
      BY <1>3, <1>8, <3>1
    <3>3. Holds(lp', Buffers', q, s, Buffers.data[lp[j].buf][s], Buffers.uids[lp[j].buf])
      BY <1>6, <3>1, <3>2
    <3>4. Holds(lp, Buffers, q, s, Buffers.data[lp[j].buf][s], Buffers.uids[lp[j].buf])
      BY <3>1 DEF Holds
    <3>5. QED BY <1>1, <3>3, <3>4, CellHeld
  <2>2. CASE ~IsHeld(lp, q, s)
    <3>1. ~IsHeld(lp', q, s)
      BY <1>3, <2>2 DEF IsHeld
    <3>2. QED BY <2>2, <3>1, CellFree
  <2>3. QED BY <2>1, <2>2
<1>9. QED BY <1>3, <1>6, <1>7, <1>8

LEMMA StoreIs == Packed = StoreOf(lp, Buffers) /\ Packed' = StoreOf(lp', Buffers')
<1>1. \A p, s : Stored(p, s) = Found(lp, Buffers, p, s)
  BY DEF Stored, Found, EntriesOf, EntryUid, UsedIn, Buffers
<1>2. \A p, s : Stored(p, s)' = Found(lp', Buffers', p, s)
  BY DEF Stored, Found, EntriesOf, EntryUid, UsedIn, Buffers
<1>3. QED BY <1>1, <1>2 DEF Packed, StoreOf, Cell

LEMMA StoreCells ==
  /\ Packed = [p \in Lpns |-> [s \in Sectors |-> Packed[p][s]]]
  /\ Packed' = [p \in Lpns |-> [s \in Sectors |-> Packed'[p][s]]]
  /\ \A p \in Lpns, s \in Sectors : /\ Packed[p][s] = Cell(lp, Buffers, p, s)
                                    /\ Packed'[p][s] = Cell(lp', Buffers', p, s)
BY StoreIs DEF StoreOf

StoreInv == IInv /\ AllWritten(lp, Buffers)

LEMMA PushStored ==
  ASSUME StoreInv, NEW p \in Lpns, NEW uid \in Users, NEW sectors \in Ranges, NEW val \in Values,
         write_buffer_push(p, uid, sectors, val)
  PROVE  StoreInv' /\ Packed' = Store!Push(Packed, p, sectors, uid, val)
<1> DEFINE from == [s \in Sectors |-> val]
           kept == WithoutCommon(p, uid, sectors)
           b == BuffersWithoutCommon(p, uid, sectors)
<1>1. sectors \in SUBSET Sectors /\ (\A s \in sectors : from[s] = val)
      /\ from = [s \in Sectors |-> val] /\ kept = WithoutCommon(p, uid, sectors)
      /\ b = BuffersWithoutCommon(p, uid, sectors)
  BY BufferAssumption
<1> HIDE DEF from, kept, b
<1>2. IInv' /\ Written(kept, b, p, sectors, from, uid, lp', Buffers')
  BY <1>1, PushStep DEF StoreInv
<1>3. Coherent(lp', Buffers') /\ IInv
  BY <1>2 DEF IInv, StoreInv
<1>4. \A j \in UsedIn(kept) : \A s \in kept[j].mask :
        j \in UsedIn(lp) /\ s \in lp[j].mask /\ b.data[kept[j].buf][s] = data[lp[j].buf][s]
  BY <1>1, <1>3, KeptCells
<1>5. \A q \in Lpns, s \in Sectors :
        LET now == Cell(lp', Buffers', q, s)
            was == Cell(lp, Buffers, q, s)
        IN  /\ q = p /\ s \in sectors => now = [val |-> val, uid |-> uid]
            /\ q = p /\ s \notin sectors /\ s[1] \in SubPagesOf(sectors) /\ was.uid # uid
                 => now = NoCell
            /\ q # p \/ (s \notin sectors /\ ~(s[1] \in SubPagesOf(sectors) /\ was.uid # uid))
                 => now = was
  BY <1>1, <1>2, <1>3, PushCells, SMTT(60)
<1>6. AllWritten(lp', Buffers')
  <2>1. SUFFICES ASSUME NEW j \in UsedIn(lp'), NEW s \in lp'[j].mask
                 PROVE  Buffers'.data[lp'[j].buf][s] \in Values
    BY DEF AllWritten
  <2>2. ASSUME NEW v \in Values, NEW u, Holds(lp', Buffers', lp'[j].lpn, s, v, u)
        PROVE  Buffers'.data[lp'[j].buf][s] \in Values
    <3>1. PICK i \in UsedIn(lp') : /\ lp'[i].lpn = lp'[j].lpn /\ s \in lp'[i].mask
                                  /\ Buffers'.data[lp'[i].buf][s] = v
      BY <2>2 DEF Holds
    <3>2. i = j
      BY <1>3, <2>1, <3>1, OneEntry
    <3>3. QED BY <3>1, <3>2
  <2>3. CASE lp'[j].lpn = p /\ s \in sectors
    <3>1. Holds(lp', Buffers', lp'[j].lpn, s, val, uid)
      BY <1>1, <1>2, <2>3 DEF Written
    <3>2. QED BY <2>2, <3>1
  <2>4. CASE ~(lp'[j].lpn = p /\ s \in sectors)
    <3>1. PICK k \in UsedIn(kept) : kept[k].lpn = lp'[j].lpn /\ s \in kept[k].mask
      BY <1>2, <2>1, <2>4 DEF Written
    <3>2. Holds(lp', Buffers', lp'[j].lpn, s, b.data[kept[k].buf][s], b.uids[kept[k].buf])
      BY <1>2, <2>4, <3>1 DEF Written
    <3>3. b.data[kept[k].buf][s] \in Values
      BY <1>4, <3>1 DEF AllWritten, StoreInv, Buffers
    <3>4. QED BY <2>2, <3>2, <3>3
  <2>5. QED BY <2>3, <2>4
<1>7. \A q \in Lpns, s \in Sectors :
        /\ q = p /\ s \in sectors => Packed'[q][s] = [val |-> val, uid |-> uid]
        /\ q = p /\ s \notin sectors /\ s[1] \in SubPagesOf(sectors) /\ Packed[q][s].uid # uid
             => Packed'[q][s] = NoCell
        /\ q # p \/ (s \notin sectors /\ ~(s[1] \in SubPagesOf(sectors) /\ Packed[q][s].uid # uid))
             => Packed'[q][s] = Packed[q][s]
  <2>1. SUFFICES ASSUME NEW q \in Lpns, NEW s \in Sectors
        PROVE
        /\ q = p /\ s \in sectors => Packed'[q][s] = [val |-> val, uid |-> uid]
        /\ q = p /\ s \notin sectors /\ s[1] \in SubPagesOf(sectors) /\ Packed[q][s].uid # uid
             => Packed'[q][s] = NoCell
        /\ q # p \/ (s \notin sectors /\ ~(s[1] \in SubPagesOf(sectors) /\ Packed[q][s].uid # uid))
             => Packed'[q][s] = Packed[q][s]
    OBVIOUS
  <2>3. Packed[q][s] = Cell(lp, Buffers, q, s) /\ Packed'[q][s] = Cell(lp', Buffers', q, s)
    BY StoreCells
  <2>4. QED BY <1>5, <2>3
<1>8. Packed' = Store!Push(Packed, p, sectors, uid, val)
  <2> DEFINE new == Store!Push(Packed, p, sectors, uid, val)
  <2>1. \A s : (\E x \in sectors : x[1] = s[1] /\ Packed[p][s].uid # uid)
                 <=> s[1] \in SubPagesOf(sectors) /\ Packed[p][s].uid # uid
    BY DEF SubPagesOf
  <2>2. Packed = [q \in Lpns |-> [s \in Sectors |-> Packed[q][s]]]
    BY StoreCells
  <2>3. new = [q \in Lpns |-> IF q # p THEN Packed[q] ELSE [s \in Sectors |->
                  IF s \in sectors THEN [val |-> val, uid |-> uid]
                  ELSE IF \E x \in sectors : x[1] = s[1] /\ Packed[p][s].uid # uid THEN NoCell
                  ELSE Packed[p][s]]]
    BY <2>2 DEF Store!Push, Store!NoSector, Store!Sectors, NoCell, Sectors
  <2> HIDE DEF new
  <2>4. \A q \in Lpns : Packed[q] = [s \in Sectors |-> Packed[q][s]]
    BY <2>2
  <2>5. \A q \in Lpns : Packed'[q] = [s \in Sectors |-> Packed'[q][s]]
    BY StoreCells
  <2>6. ASSUME NEW q \in Lpns PROVE Packed'[q] = new[q]
    <3>1. CASE q # p
      <4>1. \A s \in Sectors : Packed'[q][s] = Packed[q][s]
        BY <1>7, <3>1
      <4>2. Packed'[q] = Packed[q]
        BY <2>4, <2>5, <4>1
      <4>3. QED BY <2>3, <3>1, <4>2
    <3>2. CASE q = p
      <4>1. new[p] = [s \in Sectors |->
                  IF s \in sectors THEN [val |-> val, uid |-> uid]
                  ELSE IF \E x \in sectors : x[1] = s[1] /\ Packed[p][s].uid # uid THEN NoCell
                  ELSE Packed[p][s]]
        BY <2>3
      <4>2. \A s \in Sectors : Packed'[p][s] = new[p][s]
        BY <1>7, <2>1, <4>1
      <4>3. QED BY <2>5, <3>2, <4>1, <4>2
    <3>3. QED BY <3>1, <3>2
  <2>7. Packed' = [q \in Lpns |-> Packed'[q]]
    BY StoreCells
  <2>8. new = [q \in Lpns |-> new[q]]
    BY <2>3
  <2>9. QED BY <2>6, <2>7, <2>8 DEF new
<1>9. QED BY <1>2, <1>6, <1>8 DEF StoreInv

LEMMA ForgetWritten ==
  ASSUME StoreInv, Coherent(lp, Buffers)', NEW gone \in SUBSET UsedIn(lp), Forget(Buffers, gone)
  PROVE  AllWritten(lp', Buffers')
<1>1. /\ UsedIn(lp') = UsedIn(lp) \ gone /\ \A j \in UsedIn(lp') : lp'[j] = lp[j]
      /\ \A j \in UsedIn(lp') : \A s \in lp'[j].mask :
              Buffers'.data[lp'[j].buf][s] = Buffers.data[lp[j].buf][s]
  BY ForgetCells DEF StoreInv
<1>2. QED BY <1>1 DEF AllWritten, StoreInv

LEMMA DropStored ==
  ASSUME StoreInv, NEW p \in Lpns, write_buffer_drop(p)
  PROVE  StoreInv' /\ Packed' = Store!Dropped(Packed, p)
<1>1. IInv' /\ IInv
  BY DropStep DEF StoreInv
<1>2. EntriesOf(p) \in SUBSET UsedIn(lp) /\ Forget(Buffers, EntriesOf(p)) /\ Coherent(lp, Buffers)'
  BY <1>1 DEF EntriesOf, UsedIn, IInv, write_buffer_drop
<1>3. AllWritten(lp', Buffers')
  BY <1>2, ForgetWritten
<1>4. \A q, s : (\E j \in EntriesOf(p) : lp[j].lpn = q /\ s \in lp[j].mask)
                  <=> q = p /\ IsHeld(lp, p, s)
  BY DEF EntriesOf, IsHeld, UsedIn
<1>5. /\ \A q, s : (\E j \in EntriesOf(p) : lp[j].lpn = q /\ s \in lp[j].mask)
                       => Cell(lp', Buffers', q, s) = NoCell
      /\ \A q, s : ~(\E j \in EntriesOf(p) : lp[j].lpn = q /\ s \in lp[j].mask)
                       => Cell(lp', Buffers', q, s) = Cell(lp, Buffers, q, s)
  BY <1>1, <1>2, ForgetCells
<1>6. \A s : ~IsHeld(lp, p, s) => Cell(lp, Buffers, p, s) = NoCell
  BY CellFree DEF NoCell
<1>7. \A q \in Lpns, s \in Sectors : Packed'[q][s] = IF q = p THEN NoCell ELSE Packed[q][s]
  <2>1. TAKE q \in Lpns, s \in Sectors
  <2>2. Packed[q][s] = Cell(lp, Buffers, q, s) /\ Packed'[q][s] = Cell(lp', Buffers', q, s)
    BY StoreCells
  <2>3. CASE q = p /\ IsHeld(lp, p, s)
    <3>1. \E j \in EntriesOf(p) : lp[j].lpn = q /\ s \in lp[j].mask
      BY <1>4, <2>3
    <3>2. QED BY <1>5, <2>2, <2>3, <3>1
  <2>4. CASE ~(q = p /\ IsHeld(lp, p, s))
    <3>1. ~(\E j \in EntriesOf(p) : lp[j].lpn = q /\ s \in lp[j].mask)
      BY <1>4, <2>4
    <3>2. Cell(lp', Buffers', q, s) = Cell(lp, Buffers, q, s)
      BY <1>5, <3>1
    <3>3. q = p => Cell(lp, Buffers, q, s) = NoCell
      BY <1>6, <2>4
    <3>4. QED BY <2>2, <3>2, <3>3
  <2>5. QED BY <2>3, <2>4
<1>8. Packed' = Store!Dropped(Packed, p)
  <2>1. Packed = [q \in Lpns |-> [s \in Sectors |-> Packed[q][s]]]
        /\ Packed' = [q \in Lpns |-> [s \in Sectors |-> Packed'[q][s]]]
    BY StoreCells
  <2>2. Store!Dropped(Packed, p) =
          [q \in Lpns |-> IF q = p THEN [s \in Sectors |-> NoCell] ELSE Packed[q]]
    BY <2>1 DEF Store!Dropped, Store!NoSector, Store!Sectors, NoCell, Sectors
  <2>3. \A q \in Lpns : Packed'[q] = IF q = p THEN [s \in Sectors |-> NoCell] ELSE Packed[q]
    <3>1. TAKE q \in Lpns
    <3>2. Packed[q] = [s \in Sectors |-> Packed[q][s]]
          /\ Packed'[q] = [s \in Sectors |-> Packed'[q][s]]
      BY <2>1
    <3>3. QED BY <1>7, <3>2
  <2>4. QED BY <2>1, <2>2, <2>3
<1>9. QED BY <1>1, <1>3, <1>8 DEF StoreInv

\* Who has sectors of a sub-page.
LEMMA OwnersAre ==
  ASSUME StoreInv, NEW p \in Lpns, NEW sp \in SubPages, NEW u
  PROVE  u \in Store!OwnersOf(p, sp)
           <=> \E i \in UsedIn(lp) : lp[i].lpn = p /\ sp \in Taken(lp, i) /\ EntryUid(i) = u
<1>1. Coherent(lp, Buffers) /\ lp \in [Entries -> EntryType \cup {NoEntry}] /\ Absent \notin Values
  BY BufferAssumption DEF StoreInv, IInv, Coherent
<1>2. ASSUME NEW i \in UsedIn(lp), NEW s \in lp[i].mask, lp[i].lpn = p
      PROVE  s \in Sectors /\ Packed[p][s].val # Absent /\ Packed[p][s].uid = EntryUid(i)
  <2>1. Holds(lp, Buffers, p, s, Buffers.data[lp[i].buf][s], EntryUid(i))
    BY <1>2 DEF Holds, EntryUid, Buffers
  <2>2. Cell(lp, Buffers, p, s) = [val |-> Buffers.data[lp[i].buf][s], uid |-> EntryUid(i)]
    BY <1>1, <2>1, CellHeld
  <2>3. Buffers.data[lp[i].buf][s] \in Values
    BY <1>2 DEF StoreInv, AllWritten
  <2>4. s \in Sectors
    BY <1>1, <1>2, SectorsTaken
  <2>5. Packed[p][s] = [val |-> Buffers.data[lp[i].buf][s], uid |-> EntryUid(i)]
    BY <2>2, <2>4, StoreCells
  <2>6. QED BY <1>1, <2>3, <2>4, <2>5
<1>3. ASSUME NEW s \in Sectors, Packed[p][s].val # Absent PROVE IsHeld(lp, p, s)
  <2>1. ~IsHeld(lp, p, s) => Packed[p][s] = [val |-> Absent, uid |-> NoUser]
    BY CellFree, StoreCells
  <2>2. QED BY <1>3, <2>1
<1>4. u \in Store!OwnersOf(p, sp) <=>
        \E x \in Parts : Packed[p][<<sp, x>>].val # Absent /\ Packed[p][<<sp, x>>].uid = u
  BY DEF Store!OwnersOf, Store!InBuffer
<1>5. ASSUME NEW x \in Parts, Packed[p][<<sp, x>>].val # Absent, Packed[p][<<sp, x>>].uid = u
      PROVE  \E i \in UsedIn(lp) : lp[i].lpn = p /\ sp \in Taken(lp, i) /\ EntryUid(i) = u
  <2>1. <<sp, x>> \in Sectors /\ <<sp, x>>[1] = sp
    BY DEF Sectors
  <2>2. PICK i \in UsedIn(lp) : lp[i].lpn = p /\ <<sp, x>> \in lp[i].mask
    BY <1>3, <1>5, <2>1 DEF IsHeld
  <2>3. EntryUid(i) = u
    BY <1>2, <1>5, <2>2
  <2>4. sp \in Taken(lp, i)
    BY <2>1, <2>2 DEF Taken, SubPagesOf
  <2>5. QED BY <2>2, <2>3, <2>4
<1>6. ASSUME NEW i \in UsedIn(lp), lp[i].lpn = p, sp \in Taken(lp, i), EntryUid(i) = u
      PROVE  \E x \in Parts : Packed[p][<<sp, x>>].val # Absent /\ Packed[p][<<sp, x>>].uid = u
  <2>1. PICK s \in lp[i].mask : s[1] = sp
    BY <1>6 DEF Taken, SubPagesOf
  <2>2. s \in Sectors /\ Packed[p][s].val # Absent /\ Packed[p][s].uid = u
    BY <1>2, <1>6, <2>1
  <2>3. s = <<sp, s[2]>> /\ s[2] \in Parts
    BY <2>1, <2>2 DEF Sectors
  <2>4. QED BY <2>2, <2>3
<1>7. QED BY <1>4, <1>5, <1>6

LEMMA FlushStored ==
  ASSUME StoreInv, write_buffer_flush
  PROVE  /\ StoreInv'
         /\ \E pages \in [SubPages -> Lpns \cup {NoPage}], uid \in Users :
              Store!IsBuffer(pages, uid) /\ Packed' = Store!Flushed(pages)
<1>1. IInv' /\ IInv
  BY FlushStep DEF StoreInv
<1>2. PICK x \in Bufs : masks[x] # {} /\ Forget(Buffers, EntriesIn(x))
  BY <1>1, FlushStep
<1> DEFINE gone == EntriesIn(x)
           uid == uids[x]
           pages == [sp \in SubPages |->
                       IF \E i \in gone : sp \in Taken(lp, i)
                       THEN lp[CHOOSE i \in gone : sp \in Taken(lp, i)].lpn ELSE NoPage]
<1>3. gone \in SUBSET UsedIn(lp) /\ Forget(Buffers, gone) /\ Coherent(lp, Buffers)'
      /\ \A i : i \in gone <=> i \in UsedIn(lp) /\ lp[i].buf = x
  BY <1>1, <1>2 DEF EntriesIn, UsedIn, IInv
<1> HIDE DEF gone
<1>4. /\ lp \in [Entries -> EntryType \cup {NoEntry}] /\ Coherent(lp, Buffers)
      /\ MasksExact(lp, Buffers) /\ NoOverlap(lp) /\ Apart(lp, Buffers)
      /\ masks \in [Bufs -> SUBSET SubPages] /\ uids \in [Bufs -> Users \cup {NoUser}]
      /\ uids[x] # NoUser
  BY <1>1, <1>2 DEF IInv, Coherent, Record, Owned, Buffers
<1>5. uid \in Users
  BY <1>4
<1>6. \A i \in gone : /\ i \in UsedIn(lp) /\ lp[i].lpn \in Lpns /\ lp[i].lpn # NoPage
                      /\ EntryUid(i) = uid /\ Taken(lp, i) \subseteq SubPages
  BY <1>3, <1>4, UsedType, BufferAssumption DEF EntryUid
<1>7. ASSUME NEW i \in gone, NEW j \in gone, NEW sp \in Taken(lp, i), sp \in Taken(lp, j)
      PROVE  i = j
  BY <1>3, <1>4, <1>7 DEF NoOverlap
<1>8. ASSUME NEW i \in gone, NEW sp \in Taken(lp, i) PROVE pages[sp] = lp[i].lpn
  <2>1. sp \in SubPages
    BY <1>6
  <2>2. (CHOOSE k \in gone : sp \in Taken(lp, k)) = i
    BY <1>7
  <2>3. QED BY <2>1, <2>2
<1>9. \A sp \in SubPages : pages[sp] # NoPage =>
        \E i \in gone : sp \in Taken(lp, i) /\ pages[sp] = lp[i].lpn
  <2>1. TAKE sp \in SubPages
  <2>2. HAVE pages[sp] # NoPage
  <2>3. PICK i \in gone : sp \in Taken(lp, i)
    BY <2>2
  <2>4. QED BY <1>8, <2>3
<1>10. pages \in [SubPages -> Lpns \cup {NoPage}]
  <2>1. \A sp \in SubPages : pages[sp] \in Lpns \cup {NoPage}
    BY <1>6, <1>9
  <2>2. pages = [sp \in SubPages |-> pages[sp]]
    OBVIOUS
  <2> HIDE DEF pages
  <2>3. QED BY <2>1, <2>2
<1> HIDE DEF pages, uid
<1>11. Store!IsBuffer(pages, uid)
  <2>1. \E sp \in SubPages : pages[sp] # NoPage
    <3>1. PICK sp \in SubPages : sp \in masks[x]
      BY <1>2, <1>4
    <3>2. PICK i \in UsedIn(lp) : lp[i].buf = x /\ sp \in Taken(lp, i)
      BY <1>4, <3>1 DEF MasksExact, Buffers
    <3>3. QED BY <1>3, <1>6, <1>8, <3>2
  <2>2. ASSUME NEW sp \in SubPages, pages[sp] # NoPage
        PROVE  /\ uid \in Store!OwnersOf(pages[sp], sp)
               /\ \A y \in SubPages : uid \in Store!OwnersOf(pages[sp], y) => pages[y] = pages[sp]
    <3>1. PICK i \in gone : sp \in Taken(lp, i) /\ pages[sp] = lp[i].lpn
      BY <1>9, <2>2
    <3>2. pages[sp] \in Lpns /\ i \in UsedIn(lp) /\ EntryUid(i) = uid
      BY <1>6, <3>1
    <3>3. uid \in Store!OwnersOf(pages[sp], sp)
      BY <3>1, <3>2, OwnersAre
    <3>4. ASSUME NEW y \in SubPages, uid \in Store!OwnersOf(pages[sp], y)
          PROVE  pages[y] = pages[sp]
      <4>1. PICK j \in UsedIn(lp) : /\ lp[j].lpn = pages[sp] /\ y \in Taken(lp, j)
                                    /\ EntryUid(j) = uid
        BY <3>2, <3>4, OwnersAre
      <4>2. j = i
        BY <1>4, <3>1, <3>2, <4>1 DEF Apart, EntryUid, Buffers
      <4>3. QED BY <1>8, <3>1, <4>1, <4>2
    <3>5. QED BY <3>3, <3>4
  <2>3. QED BY <2>1, <2>2 DEF Store!IsBuffer
<1>12. ASSUME NEW q \in Lpns, NEW s \in Sectors
       PROVE  Packed'[q][s] = IF pages[s[1]] = q THEN NoCell ELSE Packed[q][s]
  <2>1. s[1] \in SubPages
    BY DEF Sectors
  <2>2. /\ Packed[q][s] = Cell(lp, Buffers, q, s) /\ Packed'[q][s] = Cell(lp', Buffers', q, s)
        /\ ~IsHeld(lp, q, s) => Cell(lp, Buffers, q, s) = NoCell
    BY StoreCells, CellFree DEF NoCell
  <2>3. /\ (\E j \in gone : lp[j].lpn = q /\ s \in lp[j].mask)
             => Cell(lp', Buffers', q, s) = NoCell
        /\ ~(\E j \in gone : lp[j].lpn = q /\ s \in lp[j].mask)
             => Cell(lp', Buffers', q, s) = Cell(lp, Buffers, q, s)
    BY <1>1, <1>3, ForgetCells
  <2>4. CASE \E j \in gone : lp[j].lpn = q /\ s \in lp[j].mask
    <3>1. PICK j \in gone : lp[j].lpn = q /\ s \in lp[j].mask
      BY <2>4
    <3>2. s[1] \in Taken(lp, j)
      BY <3>1 DEF Taken, SubPagesOf
    <3>3. QED BY <1>8, <2>2, <2>3, <3>1, <3>2
  <2>5. CASE ~(\E j \in gone : lp[j].lpn = q /\ s \in lp[j].mask) /\ pages[s[1]] = q
    <3>1. q # NoPage
      BY BufferAssumption
    <3>2. PICK i \in gone : s[1] \in Taken(lp, i) /\ lp[i].lpn = q
      BY <1>9, <2>1, <2>5, <3>1
    <3>3. ASSUME NEW j \in UsedIn(lp), lp[j].lpn = q, s \in lp[j].mask PROVE FALSE
      <4>1. s[1] \in Taken(lp, j)
        BY <3>3 DEF Taken, SubPagesOf
      <4>2. i = j
        BY <1>4, <1>6, <3>2, <3>3, <4>1 DEF Apart
      <4>3. QED BY <2>5, <3>2, <3>3, <4>2
    <3>4. ~IsHeld(lp, q, s)
      BY <3>3 DEF IsHeld
    <3>5. QED BY <2>2, <2>3, <2>5, <3>4
  <2>6. CASE ~(\E j \in gone : lp[j].lpn = q /\ s \in lp[j].mask) /\ pages[s[1]] # q
    BY <2>2, <2>3, <2>6
  <2>7. QED BY <2>4, <2>5, <2>6
<1>13. Packed' = Store!Flushed(pages)
  <2>1. Packed' = [q \in Lpns |-> [s \in Sectors |-> Packed'[q][s]]]
    BY StoreCells
  <2>2. Store!Flushed(pages) =
          [q \in Lpns |-> [s \in Sectors |-> IF pages[s[1]] = q THEN NoCell ELSE Packed[q][s]]]
    BY DEF Store!Flushed, Store!NoSector, Store!Sectors, NoCell, Sectors
  <2>3. QED BY <1>12, <2>1, <2>2
<1>14. AllWritten(lp', Buffers')
  BY <1>3, ForgetWritten
<1>15. QED BY <1>1, <1>5, <1>10, <1>11, <1>13, <1>14 DEF StoreInv

LEMMA NextStored == StoreInv /\ [Next]_vars => StoreInv' /\ [Store!StoreNext]_Packed
<1> SUFFICES ASSUME StoreInv, [Next]_vars PROVE StoreInv' /\ [Store!StoreNext]_Packed
  OBVIOUS
<1>1. ASSUME NEW p \in Lpns, NEW uid \in Users, NEW sectors \in Ranges, NEW val \in Values,
             write_buffer_push(p, uid, sectors, val)
      PROVE  StoreInv' /\ Store!StoreNext
  <2>1. StoreInv' /\ Packed' = Store!Push(Packed, p, sectors, uid, val)
    BY <1>1, PushStored
  <2>2. QED BY <2>1 DEF Store!StoreNext
<1>2. ASSUME NEW p \in Lpns, write_buffer_drop(p) PROVE StoreInv' /\ Store!StoreNext
  <2>1. StoreInv' /\ Packed' = Store!Dropped(Packed, p)
    BY <1>2, DropStored
  <2>2. QED BY <2>1 DEF Store!StoreNext
<1>3. CASE write_buffer_flush
  <2>1. /\ StoreInv'
        /\ \E pages \in [SubPages -> Lpns \cup {NoPage}], uid \in Users :
              Store!IsBuffer(pages, uid) /\ Packed' = Store!Flushed(pages)
    BY <1>3, FlushStored
  <2>2. QED BY <2>1 DEF Store!StoreNext
<1>4. CASE UNCHANGED vars
  <2>1. lp' = lp /\ Buffers' = Buffers
    BY <1>4 DEF vars, Buffers
  <2>2. Packed' = Packed
    BY <2>1, StoreIs
  <2>3. IInv'
    BY <1>4, NextHolds DEF StoreInv
  <2>4. QED BY <2>1, <2>2, <2>3 DEF StoreInv
<1>5. QED BY <1>1, <1>2, <1>3, <1>4 DEF Next

LEMMA InitStored == Init => StoreInv /\ Store!StoreInit
<1> SUFFICES ASSUME Init PROVE StoreInv /\ Store!StoreInit
  OBVIOUS
<1>1. UsedIn(lp) = {}
  BY DEF Init, UsedIn
<1>2. StoreInv
  BY <1>1, InitHolds DEF StoreInv, AllWritten
<1>3. \A p \in Lpns, s \in Sectors : Packed[p][s] = NoCell
  <2>1. \A p, s : ~IsHeld(lp, p, s)
    BY <1>1 DEF IsHeld
  <2>2. QED BY <2>1, CellFree, StoreCells DEF NoCell
<1>4. Packed = [p \in Lpns |-> [s \in Sectors |-> NoCell]]
  BY <1>3, StoreCells
<1>5. QED BY <1>2, <1>4 DEF Store!StoreInit, Store!NoSector, Store!Sectors, NoCell, Sectors

(***************************************************************************)
(* The theorems.                                                           *)
(***************************************************************************)
\* Through every merge, move, drop and flush the redundant tables of the write
\* buffer agree, its counters are exact and no ASSERT of write_buffer.c fails.
THEOREM BuffersAgree == Spec => []BuffersCoherent
<1>1. QED BY Invariant, IInvCoherent, PTL

\* A page has at most one entry per user, and two users never both have sectors
\* of one sub-page, which is what the pull asserts (write_buffer.c:308).
THEOREM UsersShareNothing == Spec => []UsersApart
<1>1. IInv => UsersApart
  BY DEF IInv, Coherent, Apart, UsersApart, Used, UsedIn, Taken, EntryUid, Buffers
<1>2. QED BY <1>1, Invariant, PTL

\* A flush of the full buffer always makes room for the push that follows it,
\* whether the entries or the empty buffers had run out.
THEOREM RoomAfterFlush == Spec => FlushMakesRoom
<1>1. IInv /\ [Next]_vars => [write_buffer_flush => ~write_buffer_is_full']_vars
  BY FlushStep
<1>2. QED BY <1>1, Invariant, PTL DEF Spec, FlushMakesRoom

\* The packing is invisible: whatever the merges and moves, a push replaces just
\* the sectors pushed and drops the other users' of their sub-pages, a drop
\* forgets just its page, a flush takes out whole pages of one user, and every
\* sector that stays keeps its newest data and its user.
THEOREM PackingInvisible == Spec => Refines
<1>1. QED BY InitStored, NextStored, PTL DEF Spec, Refines, Store!StoreSpec
=============================================================================
