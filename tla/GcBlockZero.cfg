SPECIFICATION GcSpec
CONSTANTS
    VBLKS_PER_BANK = 4
    PAGES_PER_VBLK = 2
    BadBlocks <- BlockZeroBad
INVARIANT HaltsOnlyWhenFull
CHECK_DEADLOCK FALSE
