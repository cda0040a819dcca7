------------------------------ MODULE SectorStore -----------------------------
(***************************************************************************)
(* What write_buffer.h promises: a store of sectors that were written and  *)
(* have not gone to flash, each with its newest data and the user who      *)
(* wrote it.  A push replaces, a drop forgets a page, and a flush takes    *)
(* out one buffer: whole pages of one user that share no sub-page.         *)
(*                                                                         *)
(* WriteBuffer refines this module; FtlThreads runs on it.                 *)
(***************************************************************************)
EXTENDS Integers

CONSTANTS
    Lpns, SubPages, Parts, Users,
    Ranges,     \* what a push may cover
    Values,     \* what a sector may hold
    Absent,     \* no value: the sector is not in the store
    Zeros,      \* what a user is given in place of another user's sector
    NoPage,     \* NULL_LPN
    NoUser      \* NULL_USER_ID

VARIABLE wb     \* wb[p][s]: [val, uid] of sector s of page p

Sectors == SubPages \X Parts

NoSector == [val |-> Absent, uid |-> NoUser]

InBuffer(p, s) == wb[p][s].val # Absent

OwnersOf(p, sp) == {wb[p][<<sp, x>>].uid : x \in {y \in Parts : InBuffer(p, <<sp, y>>)}}

\* write_buffer_pull: what a user finds for sector s, Absent if nothing.  The
\* granularity of access control is the sub-page.
Pulled(p, s, uid) ==
    IF OwnersOf(p, s[1]) \subseteq {uid} THEN wb[p][s].val ELSE Zeros

\* write_buffer_push into a store: the sectors of other users in the same
\* sub-pages go.
Push(store, p, sectors, uid, val) ==
    [store EXCEPT ![p] = [s \in Sectors |->
        IF s \in sectors THEN [val |-> val, uid |-> uid]
        ELSE IF \E x \in sectors : x[1] = s[1] /\ @[s].uid # uid THEN NoSector
        ELSE @[s]]]

\* Bug: a whole-page write leaves the older sectors in the buffer.
BugKeepsSectors(store, p) == store

\* write_buffer_drop.
Dropped(store, p) == [store EXCEPT ![p] = [s \in Sectors |-> NoSector]]

\* The buffers write_buffer_flush may find: pages[sp] is the page whose
\* sub-page sp it holds.  All sectors of a page and a user lie in one buffer.
IsBuffer(pages, uid) ==
    /\ \E sp \in SubPages : pages[sp] # NoPage
    /\ \A sp \in SubPages : pages[sp] # NoPage =>
         /\ uid \in OwnersOf(pages[sp], sp)
         /\ \A x \in SubPages : uid \in OwnersOf(pages[sp], x) => pages[x] = pages[sp]

BufferSectors(pages) ==
    {s \in Sectors : pages[s[1]] # NoPage /\ InBuffer(pages[s[1]], s)}

Flushed(pages) ==
    [p \in Lpns |-> [s \in Sectors |-> IF pages[s[1]] = p THEN NoSector ELSE wb[p][s]]]

StoreInit == wb = [p \in Lpns |-> [s \in Sectors |-> NoSector]]

StoreNext ==
    \/ \E p \in Lpns, sectors \in Ranges, uid \in Users, val \in Values :
         wb' = Push(wb, p, sectors, uid, val)
    \/ \E p \in Lpns : wb' = Dropped(wb, p)
    \/ \E pages \in [SubPages -> Lpns \cup {NoPage}], uid \in Users :
         IsBuffer(pages, uid) /\ wb' = Flushed(pages)

StoreSpec == StoreInit /\ [][StoreNext]_wb
=============================================================================
