\* A device that a search leaves out because it reads one it has just freed.
CONSTANTS
    Records <- Devices
    ChunkSize = 1
    MaxChanges = 2
    MemoryFails = FALSE
SPECIFICATION Spec
INVARIANT NewDevicesAdded
CHECK_DEADLOCK FALSE
