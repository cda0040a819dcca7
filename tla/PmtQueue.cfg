SPECIFICATION UsedSpec
CONSTANTS
    PmtPages <- FourteenPages
    NUM_PC_SUB_PAGES = 8
    SUB_PAGES_PER_PAGE = 2
    NULL_TIMESTAMP = 9
    NULL_PMT_IDX = 0
    Threads = {t1, t2, t3}
    Banks = {b1}
    Wants <- PairsFlushed
    MaxWanted = 6
    MaxAccepts = 5
    MAX_PMT_REQ_QUEUE_SIZE = 8
INVARIANT QueueHasRoom
SYMMETRY ThreadsAlike
