\* Three attempts, each with any file and block size, aborted or failing anywhere.
CONSTANTS
    ImageSize = 3
    PatchHeader = 2
    PatchLenWord = 6
    Versions = {1, 2, 3}
    Files <- MCFiles
    BlockSizes = {2, 3, 5}
    MaxAttempts = 3
SPECIFICATION Spec
INVARIANTS
    TypeOK
    CheckedIsComplete
    NoFalseRefusal
PROPERTIES
    ImplementsFirmware
