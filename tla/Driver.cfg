SPECIFICATION FairSpec
CONSTANTS
    Procs = {p1, p2, p3}
    nsectors = 2
    Values = {v1, v2}
    Keys = {0, 1, 2}
    MaxSectors = 2
    Free = Free
    NoValue = NoValue
INVARIANTS MediaStaysWhileUsed ReadsOneMoment ReadsOwn TimerOnlyWhenUnused
PROPERTIES UnusedIsForgotten
