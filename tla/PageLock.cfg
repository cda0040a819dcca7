SPECIFICATION Spec
CONSTANTS
    Owners = {o1, o2, o3}
    Pages = {p1, p2, p3, p4}
    Slots = {s1, s2, s3}
    PerOwner = 1
    NULL_LPN = NULL_LPN
    Requests <- LockRequests
SYMMETRY Symmetric
INVARIANTS Exclusion SlotAvailable NoMissedRelease
PROPERTY Refines
