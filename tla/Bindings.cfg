\* Three records of two devices, one per answer, two requests to bind or unbind.
CONSTANTS
    Records <- Devices
    ChunkSize = 1
    MaxChanges = 2
    MemoryFails = TRUE
SPECIFICATION Spec
INVARIANTS
    TypeOK
    NoDangling
    NoGhost
    NoneLost
PROPERTIES
    OnlyThoseRemoved
    SearchesEnd
CHECK_DEADLOCK FALSE
