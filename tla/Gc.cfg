SPECIFICATION GcSpec
CONSTANTS
    VBLKS_PER_BANK = 6
    PAGES_PER_VBLK = 3
    BadBlocks <- UsualBadBlocks
INVARIANTS OnlyGoodBlocks PagesInOrder CountsFreeBlocks
PROPERTY NeverTwice
CHECK_DEADLOCK FALSE
