\* Two commands of two kinds, any put failing, a crash between any two steps.
CONSTANTS
    Word = 8
    Epoch = 3
    Day = 2
    HalfWord = 3
    MaxCommands = 2
    MaxSets = 4
    Payloads <- MCPayloads
SPECIFICATION DeviceSpec
INVARIANTS
    TypeOK
    RowsShowLatest
    NeverOlderThanDurable
    MixtureIsOrdered
    RowsFromOrigin
    PanelCountsDays
    SeenIsStored
PROPERTIES
    SeenNeverBack
    DurableIsShown
