SPECIFICATION FairSpec
CONSTANTS
    alice = alice
    bob = bob
    Threads = {t1, t2}
    Lpns = {1, 2}
    SubPages = {0, 1}
    Parts = {0, 1}
    Banks = {"b0"}
    Users = {alice}
    Cmds <- Few
    MaxCmds = 5
    PmtEvicts = TRUE
    PmtUsesBanks = TRUE
    NoPage = NoPage
    NoUser = NoUser
PROPERTY EveryCommandFinishes
INVARIANTS MappingStaysLoaded NoMissedCompletion
