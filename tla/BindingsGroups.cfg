\* Two groups with bindings of the same cluster, one of which is unbound.
CONSTANTS
    Records <- Groups
    ChunkSize = 2
    MaxChanges = 1
    MemoryFails = FALSE
SPECIFICATION Spec
PROPERTY OnlyThoseRemoved
CHECK_DEADLOCK FALSE
