---------------------------------- MODULE Gc ----------------------------------
(***************************************************************************)
(* gc.c with bad_blocks.c: the allocation of virtual pages of one bank.    *)
(* The banks have separate metadata and do not interact.  Each of the two  *)
(* streams, user data and system data (the mapping table), fills a block   *)
(* of its own page by page and then takes the next good block.  The module *)
(* never reclaims a block, so that the firmware halts when they run out.   *)
(***************************************************************************)
EXTENDS Integers, FiniteSets

CONSTANTS
    VBLKS_PER_BANK,
    PAGES_PER_VBLK,
    BadBlocks       \* the sets of bad virtual blocks a bank may have

Blocks == 0 .. VBLKS_PER_BANK - 1
Vpns   == 0 .. VBLKS_PER_BANK * PAGES_PER_VBLK - 1

ASSUME GeometryAssumption ==
    /\ VBLKS_PER_BANK \in Nat /\ VBLKS_PER_BANK > 1
    /\ PAGES_PER_VBLK \in Nat \ {0}
    /\ BadBlocks \subseteq SUBSET Blocks

VARIABLES
    bad,                  \* the bitmap of bad blocks, set by bb_init
    next_vpn,             \* next_vpn[FALSE]: user data; next_vpn[TRUE]: system data
    next_free_block,
    num_free_blocks,
    allocated,            \* allocated[is_sys]: pages given out
    halted                \* the BUG_ON that stopped the firmware, or "no"

meta == <<next_vpn, next_free_block, num_free_blocks>>
gcVars == <<bad, meta, allocated, halted>>

Block(vpn) == vpn \div PAGES_PER_VBLK

\* gc_init: the first block of each bank is reserved.
GcInit ==
    /\ bad \in BadBlocks
    /\ next_vpn = [is_sys \in BOOLEAN |-> 0]
    /\ next_free_block = 1
    /\ num_free_blocks = VBLKS_PER_BANK - Cardinality(bad) - 1
    /\ allocated = [is_sys \in BOOLEAN |-> {}]
    /\ halted = "no"

Halt(why) ==
    /\ halted' = why
    /\ UNCHANGED <<bad, meta, allocated>>

\* Bug: the bitmap is not asked.
BugTakesAny(b) == b >= next_free_block

\* find_next_good_vblk, from next_free_block on.
GoodFrom(b) == b >= next_free_block /\ b \notin bad

NextGood(b) ==
    /\ GoodFrom(b)
    /\ \A c \in Blocks : GoodFrom(c) => b <= c

\* Bug: the page after the last of a block is given out too.
BugOnePageMore(is_sys) == next_vpn[is_sys] % (PAGES_PER_VBLK + 1) = 0

NeedsBlock(is_sys) == next_vpn[is_sys] % PAGES_PER_VBLK = 0

\* Bug: both streams advance.
BugAdvancesBoth(is_sys, vpn) ==
    /\ next_vpn' = [stream \in BOOLEAN |-> vpn + 1]
    /\ allocated' = [allocated EXCEPT ![is_sys] = @ \cup {vpn}]
    /\ UNCHANGED <<bad, halted>>

Give(is_sys, vpn) ==
    /\ next_vpn' = [next_vpn EXCEPT ![is_sys] = vpn + 1]
    /\ allocated' = [allocated EXCEPT ![is_sys] = @ \cup {vpn}]
    /\ UNCHANGED <<bad, halted>>

\* Bug: a block taken stays the next free one.
BugKeepsBlock(b) ==
    /\ next_free_block' = b
    /\ num_free_blocks' = num_free_blocks - 1

Take(b) ==
    /\ next_free_block' = b + 1
    /\ num_free_blocks' = num_free_blocks - 1

\* Without a good block, BUG_ON("no available blocks; need garbage collection").
AllocateInNewBlock(is_sys) ==
    /\ halted = "no" /\ num_free_blocks # 0
    /\ NeedsBlock(is_sys)
    /\ IF \E b \in Blocks : NextGood(b)
       THEN \E b \in Blocks :
              /\ NextGood(b)
              /\ Take(b)
              /\ Give(is_sys, b * PAGES_PER_VBLK)
       ELSE Halt("no available blocks")

AllocateInBlock(is_sys) ==
    /\ halted = "no" /\ num_free_blocks # 0
    /\ ~NeedsBlock(is_sys)
    /\ Give(is_sys, next_vpn[is_sys])
    /\ UNCHANGED <<next_free_block, num_free_blocks>>

\* BUG_ON("no more free blocks").
NoMoreFreeBlocks ==
    /\ halted = "no" /\ num_free_blocks = 0
    /\ Halt("no more free blocks")

gc_allocate_new_vpn(is_sys) == AllocateInNewBlock(is_sys) \/ AllocateInBlock(is_sys)

GcNext == NoMoreFreeBlocks \/ \E is_sys \in BOOLEAN : gc_allocate_new_vpn(is_sys)

GcSpec == GcInit /\ [][GcNext]_gcVars

(***************************************************************************)
(* Properties.                                                             *)
(***************************************************************************)
\* Every variable keeps its type: pages and blocks stay within the bank.
GcTypeOK ==
    /\ bad \in BadBlocks
    /\ next_vpn \in [BOOLEAN -> 0 .. VBLKS_PER_BANK * PAGES_PER_VBLK]
    /\ next_free_block \in 1 .. VBLKS_PER_BANK
    /\ num_free_blocks \in 0 .. VBLKS_PER_BANK - 1
    /\ allocated \in [BOOLEAN -> SUBSET Vpns]
    /\ halted \in {"no", "no more free blocks", "no available blocks"}

\* NAND pages cannot be written twice between erases: the page that a call
\* returns was never returned before, to either stream.
NeverTwice ==
    [][\A is_sys \in BOOLEAN :
          next_vpn' # next_vpn /\ next_vpn'[is_sys] # next_vpn[is_sys]
              => \A other \in BOOLEAN : next_vpn'[is_sys] - 1 \notin allocated[other]]_gcVars

\* Only good blocks are written, the reserved block 0 never (its page 0 is the
\* null page of the mapping table), and no block beyond the bank.
OnlyGoodBlocks ==
    \A is_sys \in BOOLEAN : \A vpn \in allocated[is_sys] :
        Block(vpn) \in Blocks \ (bad \cup {0})

\* User and system data share no block.
StreamsApart ==
    \A v \in allocated[FALSE], w \in allocated[TRUE] : Block(v) # Block(w)

\* The pages of a block are written in order and without a gap, as NAND blocks
\* have to be (test_gc.c: "not use all pages in last block").
PagesInOrder ==
    \A is_sys \in BOOLEAN : \A vpn \in allocated[is_sys] :
        \A v \in Block(vpn) * PAGES_PER_VBLK .. vpn : v \in allocated[is_sys]

\* The count is that of the good blocks not taken, so that the search for one
\* never runs off the end of the bank.
CountsFreeBlocks ==
    num_free_blocks = Cardinality({b \in Blocks : GoodFrom(b)})

\* "no more free blocks" is true when the firmware halts with it.
HaltsOnlyWhenFull ==
    halted = "no more free blocks" => ~ \E b \in Blocks : NextGood(b)
=============================================================================
