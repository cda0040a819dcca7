SPECIFICATION Spec
CONSTANTS
    PmtPages = {p1, p2, p3, p4}
    NUM_PC_SUB_PAGES = 3
    SUB_PAGES_PER_PAGE = 2
    NULL_TIMESTAMP = 4
    NULL_PMT_IDX = NoPage
    Threads = {t1, t2}
    Banks = {b1, b2}
    Wants <- OneOrTwo
    MaxWanted = 2
    MaxAccepts = 5
    MAX_PMT_REQ_QUEUE_SIZE = 6
SYMMETRY Symmetric
INVARIANTS TablesAgree AssertionsHold NewestKept FixesMatchOwners NoMissedCompletion SleepersAreServed
