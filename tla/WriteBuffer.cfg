SPECIFICATION Spec
CONSTANTS
    Lpns = {p1, p2}
    Users = {alice, bob}
    SubPages = {0, 1}
    Parts = {0, 1}
    NumWriteBuffers = 3
    Values = {v1, v2}
    Garbage = Garbage
    Ranges <- TwoRanges
    Absent = Absent
    Zeros = Zeros
    NoPage = NoPage
    NoUser = NoUser
    NoEntry = NoEntry
SYMMETRY Symmetric
INVARIANTS BuffersCoherent UsersApart
PROPERTIES FlushMakesRoom Refines
