\* Four sets of times, those of the boots included; any number of heartbeat renders.
CONSTANT MaxVersion = 4
SPECIFICATION Spec
INVARIANTS
    TypeOK
    NoTornFrame
    IdlePowerOff
PROPERTIES
    ImplementsScreen
    EventuallyShown
