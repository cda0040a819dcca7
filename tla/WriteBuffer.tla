------------------------------ MODULE WriteBuffer -----------------------------
(***************************************************************************)
(* write_buffer.c: partial pages on their way to flash are packed into a   *)
(* few page-sized buffers.  An entry (lpns, lp_masks, lp_buf_ids) says     *)
(* which sectors of a page lie in which buffer; a buffer belongs to one    *)
(* user and gives a whole sub-page to the page that has a sector in it.    *)
(* One action is one call; nothing interrupts a call.                      *)
(***************************************************************************)
EXTENDS Integers, FiniteSets

CONSTANTS
    Lpns, Users,
    SubPages,           \* sub-pages of a page, 0..m
    Parts,              \* sectors of a sub-page, 0..k
    NumWriteBuffers,    \* NUM_WRITE_BUFFERS
    Values,             \* what the host writes
    Garbage,            \* what a newly allocated buffer holds
    Ranges,             \* the sector ranges of partial writes
    Absent, Zeros, NoPage, NoUser, NoEntry

Sectors == SubPages \X Parts

Bufs == 0 .. NumWriteBuffers - 1

\* MAX_NUM_LPNS
MaxLpns == Cardinality(SubPages) * NumWriteBuffers
Entries == 0 .. MaxLpns - 1

ASSUME BufferAssumption ==
    /\ NumWriteBuffers \in Nat \ {0}
    /\ Ranges \subseteq (SUBSET Sectors) \ {{}, Sectors}
    /\ {Absent, Zeros, Garbage} \cap Values = {} /\ Absent # Zeros
    /\ NoPage \notin Lpns /\ NoUser \notin Users
    /\ SubPages # {} /\ IsFiniteSet(SubPages)
    /\ NoEntry \notin [lpn : Lpns, mask : SUBSET Sectors, buf : Bufs]

VARIABLES
    lp,                \* lp[i]: [lpn, mask, buf] of entry i, or NoEntry
    masks,             \* buf_masks, aligned: the sub-pages in use of a buffer
    uids,              \* buf_uids
    managed,           \* the buffers that have a managed buffer
    data,              \* contents of the buffers
    head_buf_id, num_lpns, num_clean_buffers,
    failed             \* an ASSERT has failed

vars == <<lp, masks, uids, managed, data, head_buf_id, num_lpns, num_clean_buffers, failed>>

SubPagesOf(sectors) == {s[1] : s \in sectors}

\* next_index_of_lpn: the entries of a page.
EntriesOf(p) == {i \in Entries : lp[i] # NoEntry /\ lp[i].lpn = p}

EntryUid(i) == uids[lp[i].buf]

write_buffer_is_full == num_lpns = MaxLpns \/ num_clean_buffers = 0

(***************************************************************************)
(* The state of the buffers, as a record that the steps of a call pass on. *)
(***************************************************************************)
Buffers == [masks |-> masks, uids |-> uids, managed |-> managed, data |-> data,
            clean |-> num_clean_buffers, ok |-> TRUE]

\* Bug: an empty buffer keeps its user.
BugKeepsUser(b, gone) ==
    LET left  == [x \in Bufs |-> b.masks[x] \ gone[x]]
        freed == {x \in Bufs : gone[x] # {} /\ left[x] = {}}
    IN  [b EXCEPT !.masks = left, !.managed = @ \ freed, !.clean = @ + Cardinality(freed)]

\* buf_mask_remove for the sub-pages gone[x] of each buffer x; free_buf for
\* the buffers that this leaves empty.  What they held is garbage from now on.
Remove(b, gone) ==
    LET left  == [x \in Bufs |-> b.masks[x] \ gone[x]]
        freed == {x \in Bufs : gone[x] # {} /\ left[x] = {}}
    IN  [b EXCEPT !.masks = left,
                  !.uids = [x \in Bufs |-> IF x \in freed THEN NoUser ELSE @[x]],
                  !.managed = @ \ freed,
                  !.data = [x \in Bufs |->
                      [s \in Sectors |-> IF s[1] \in left[x] THEN @[x][s] ELSE Garbage]],
                  !.clean = @ + Cardinality(freed)]

\* A buffer that allocate_buffer_for accepts.
Fits(b, x, sps, uid) ==
    \/ b.masks[x] = {}
    \/ b.uids[x] = uid /\ b.masks[x] \cap sps = {}

\* The search goes round from the head buffer.
Distance(x) == (x - head_buf_id) % NumWriteBuffers

FirstFit(b, sps, uid) ==
    CHOOSE x \in Bufs :
        /\ Fits(b, x, sps, uid)
        /\ \A y \in Bufs : Fits(b, y, sps, uid) => Distance(x) <= Distance(y)

\* Bug: allocate_buf does not count the buffer.
BugNotCounted(b, x, uid) ==
    [b EXCEPT !.managed = @ \cup {x}, !.uids[x] = uid]

\* allocate_buf, for a buffer that was empty.
Allocate(b, x, uid) ==
    IF b.masks[x] # {} THEN b
    ELSE [b EXCEPT !.managed = @ \cup {x}, !.clean = @ - 1,
                   !.ok = @ /\ x \notin b.managed /\ b.uids[x] = NoUser,
                   !.uids[x] = uid]

\* buf_mask_add with the copy of the sectors.
Put(b, x, sectors, from) ==
    [b EXCEPT !.masks[x] = @ \cup SubPagesOf(sectors),
              !.data[x] = [s \in Sectors |-> IF s \in sectors THEN from[s] ELSE @[s]]]

Set(b) ==
    /\ masks' = b.masks /\ uids' = b.uids /\ managed' = b.managed
    /\ data' = b.data /\ num_clean_buffers' = b.clean
    /\ failed' = ~b.ok

(***************************************************************************)
(* write_buffer_push.                                                      *)
(***************************************************************************)

\* First the common sub-pages are taken from the entries of other users.
Others(p, uid) == {i \in EntriesOf(p) : EntryUid(i) # uid}

\* Bug: only the very sectors are taken from other users.
BugSectorsOnly(i, sectors) == sectors

\* What entry i of another user loses.
Lost(i, sectors) == {s \in lp[i].mask : s[1] \in SubPagesOf(sectors)}

WithoutCommon(p, uid, sectors) ==
    [i \in Entries |->
        IF i \notin Others(p, uid) THEN lp[i]
        ELSE IF lp[i].mask \subseteq Lost(i, sectors) THEN NoEntry
        ELSE [lp[i] EXCEPT !.mask = @ \ Lost(i, sectors)]]

BuffersWithoutCommon(p, uid, sectors) ==
    Remove(Buffers, [x \in Bufs |->
        SubPagesOf(UNION {Lost(i, sectors) : i \in {j \in Others(p, uid) : lp[j].buf = x}})])

Emptied(kept) == Cardinality({i \in Entries : lp[i] # NoEntry /\ kept[i] = NoEntry})

\* A page the user has no entry of gets a free entry.
PushNew(p, uid, sectors, from) ==
    LET kept == WithoutCommon(p, uid, sectors)
        b    == BuffersWithoutCommon(p, uid, sectors)
        x    == FirstFit(b, SubPagesOf(sectors), uid)
        i    == CHOOSE j \in Entries : kept[j] = NoEntry /\ \A k \in 0 .. j - 1 : kept[k] # NoEntry
    IN  /\ lp' = [kept EXCEPT ![i] = [lpn |-> p, mask |-> sectors, buf |-> x]]
        /\ num_lpns' = num_lpns - Emptied(kept) + 1
        /\ Set(Put(Allocate(b, x, uid), x, sectors, from))

\* Bug: the sectors that are in the buffer already stay there.
BugLeavesOld(b, i, sectors, uid) ==
    [b EXCEPT !.data[lp[i].buf] = [s \in Sectors |-> IF s \in lp[i].mask THEN @[s] ELSE Garbage]]

\* The entry of the user does not fit its buffer: the sectors that are not
\* overwritten move to another buffer.
Moved(b, i, sectors, uid) ==
    LET old == lp[i].buf
        new == FirstFit(b, SubPagesOf(lp[i].mask \cup sectors), uid)
        b1  == Allocate(b, new, uid)
        b2  == Remove(b1, [x \in Bufs |-> IF x = old THEN SubPagesOf(lp[i].mask) ELSE {}])
    IN  Put(b2, new, lp[i].mask \ sectors, b.data[old])

PushKnown(i, uid, sectors, from) ==
    LET kept == WithoutCommon(lp[i].lpn, uid, sectors)
        b    == BuffersWithoutCommon(lp[i].lpn, uid, sectors)
        old  == lp[i].buf
        fits == b.masks[old] \cap SubPagesOf(sectors \ lp[i].mask) = {}
        new  == IF fits THEN old ELSE FirstFit(b, SubPagesOf(lp[i].mask \cup sectors), uid)
    IN  /\ num_lpns' = num_lpns - Emptied(kept)
        /\ lp' = [kept EXCEPT ![i].mask = @ \cup sectors, ![i].buf = new]
        /\ Set(Put(IF fits THEN b ELSE Moved(b, i, sectors, uid), new, sectors, from))

write_buffer_push(p, uid, sectors, val) ==
    /\ ~write_buffer_is_full
    /\ LET own  == {i \in EntriesOf(p) : EntryUid(i) = uid}
           from == [s \in Sectors |-> val]
       IN  \/ own = {} /\ PushNew(p, uid, sectors, from)
           \/ \E i \in own : PushKnown(i, uid, sectors, from)
    /\ UNCHANGED head_buf_id

(***************************************************************************)
(* write_buffer_drop and write_buffer_flush.                               *)
(***************************************************************************)
\* Bug: remove_lp_by_index does not count the entry.
BugForgetsNone(b, gone) ==
    /\ lp' = [i \in Entries |-> IF i \in gone THEN NoEntry ELSE lp[i]]
    /\ UNCHANGED num_lpns
    /\ Set(Remove(b, [x \in Bufs |->
            SubPagesOf(UNION {lp[i].mask : i \in {j \in gone : lp[j].buf = x}})]))

\* remove_lp_by_index for the entries gone.
Forget(b, gone) ==
    /\ lp' = [i \in Entries |-> IF i \in gone THEN NoEntry ELSE lp[i]]
    /\ num_lpns' = num_lpns - Cardinality(gone)
    /\ Set(Remove(b, [x \in Bufs |->
            SubPagesOf(UNION {lp[i].mask : i \in {j \in gone : lp[j].buf = x}})]))

write_buffer_drop(p) == Forget(Buffers, EntriesOf(p)) /\ UNCHANGED head_buf_id

\* find_fullest_buffer: of the largest, the head buffer has priority.
Size(x) == Cardinality(masks[x])

IsFullest(x) ==
    /\ \A y \in Bufs : Size(y) <= Size(x)
    /\ Size(head_buf_id) = Size(x) => x = head_buf_id

\* Its only caller flushes when the buffer is full.
write_buffer_flush ==
    /\ write_buffer_is_full
    /\ \E x \in Bufs :
        /\ IsFullest(x)
        /\ Forget([Buffers EXCEPT !.ok = Size(x) > 0 /\ x \in managed],
                  {i \in Entries : lp[i] # NoEntry /\ lp[i].buf = x})
        /\ head_buf_id' = IF x = head_buf_id THEN (x + 1) % NumWriteBuffers ELSE head_buf_id

Init ==
    /\ lp = [i \in Entries |-> NoEntry]
    /\ masks = [x \in Bufs |-> {}]
    /\ uids = [x \in Bufs |-> NoUser]
    /\ managed = {}
    /\ data = [x \in Bufs |-> [s \in Sectors |-> Garbage]]
    /\ head_buf_id = 0 /\ num_lpns = 0 /\ num_clean_buffers = NumWriteBuffers
    /\ failed = FALSE

Next ==
    \/ \E p \in Lpns, uid \in Users, sectors \in Ranges, val \in Values :
         write_buffer_push(p, uid, sectors, val)
    \/ \E p \in Lpns : write_buffer_drop(p)
    \/ write_buffer_flush

Spec == Init /\ [][Next]_vars

(***************************************************************************)
(* Properties.                                                             *)
(***************************************************************************)
EntryType == [lpn : Lpns, mask : (SUBSET Sectors) \ {{}}, buf : Bufs]

TypeOK ==
    /\ \A i \in Entries : lp[i] = NoEntry \/ lp[i] \in EntryType
    /\ masks \in [Bufs -> SUBSET SubPages]
    /\ uids \in [Bufs -> Users \cup {NoUser}]
    /\ managed \subseteq Bufs
    /\ data \in [Bufs -> [Sectors -> Values \cup {Garbage}]]
    /\ head_buf_id \in Bufs
    /\ num_lpns \in 0 .. MaxLpns /\ num_clean_buffers \in 0 .. NumWriteBuffers
    /\ failed \in BOOLEAN

Used == {i \in Entries : lp[i] # NoEntry}

\* The counters behind write_buffer_is_full are exact.
CountersExact ==
    /\ num_lpns = Cardinality(Used)
    /\ num_clean_buffers = Cardinality({x \in Bufs : masks[x] = {}})

\* The redundant tables agree through merges, moves and removals: buf_masks is
\* what the entries take up, no sub-page of a buffer is shared by two entries,
\* exactly the empty buffers are without owner and without memory, and the
\* counters are exact; and no ASSERT of the module fails.
BuffersCoherent ==
    /\ TypeOK /\ CountersExact /\ ~failed
    /\ \A x \in Bufs :
        /\ masks[x] = SubPagesOf(UNION {lp[i].mask : i \in {j \in Used : lp[j].buf = x}})
        /\ \A i, j \in Used : i # j /\ lp[i].buf = x /\ lp[j].buf = x
              => SubPagesOf(lp[i].mask) \cap SubPagesOf(lp[j].mask) = {}
        /\ (masks[x] = {}) = (uids[x] = NoUser)
        /\ (masks[x] # {}) = (x \in managed)

\* A page has one entry per user, and two users never both have sectors of one
\* sub-page: what the pull relies on (the assertion of write_buffer.c:308).
UsersApart ==
    \A i, j \in Used : i # j /\ lp[i].lpn = lp[j].lpn =>
        /\ EntryUid(i) # EntryUid(j)
        /\ SubPagesOf(lp[i].mask) \cap SubPagesOf(lp[j].mask) = {}

\* One flush makes room for one push, whichever limit was reached: the write
\* handler calls write_buffer_push right after it, which asserts it.
FlushMakesRoom == [][write_buffer_flush => ~write_buffer_is_full']_vars

\* The packing is invisible: the module is a store of the newest sectors.
Stored(p, s) ==
    {[val |-> data[lp[i].buf][s], uid |-> EntryUid(i)] :
        i \in {j \in EntriesOf(p) : s \in lp[j].mask}}

\* At most one entry holds a sector.
SectorIn(held) ==
    IF held = {} THEN [val |-> Absent, uid |-> NoUser] ELSE CHOOSE e \in held : TRUE

Packed == [p \in Lpns |-> [s \in Sectors |-> SectorIn(Stored(p, s))]]

Store == INSTANCE SectorStore WITH wb <- Packed

Refines == Store!StoreSpec
=============================================================================
