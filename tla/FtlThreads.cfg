SPECIFICATION Spec
CONSTANTS
    alice = alice
    bob = bob
    Threads = {t1, t2, t3}
    Lpns = {1, 2}
    SubPages = {0, 1}
    Parts = {0, 1}
    Banks = {"b0", "b1"}
    Users = {alice}
    Cmds <- Mixed
    MaxCmds = 6
    PmtEvicts = FALSE
    PmtUsesBanks = FALSE
    NoPage = NoPage
    NoUser = NoUser
SYMMETRY Symmetric
INVARIANTS ThreadsCoherent ReadsSnapshot NothingLost
PROPERTY NoOvertaking
