\* What is left allocated when esp_delta_ota_end has failed.
CONSTANTS
    ImageSize = 3
    PatchHeader = 2
    PatchLenWord = 6
    Versions = {1, 2, 3}
    Files <- MCFiles
    BlockSizes = {3}
    MaxAttempts = 2
SPECIFICATION Spec
INVARIANT EndFreesEngine
