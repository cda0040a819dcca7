--------------------------------- MODULE MCGc ---------------------------------
(***************************************************************************)
(* Instances of Gc for TLC.                                                *)
(***************************************************************************)
EXTENDS Gc

\* Every set of bad blocks that leaves block 0 good.
UsualBadBlocks == SUBSET (1 .. VBLKS_PER_BANK - 1)

\* Physical block 1 is bad and, with two planes, block 0 holds it.
BlockZeroBad == {{0}}
=============================================================================
