SPECIFICATION Spec
CONSTANTS
    Window = 3
    Ids = 12
    ReadBuffers = 5
    WriteBuffers = 5
    MaxTasks = 6
    NoData = NoData
INVARIANTS ReadsSentInOrder WriteDataIntact WindowsCoherent
PROPERTY Refines
CHECK_DEADLOCK FALSE
