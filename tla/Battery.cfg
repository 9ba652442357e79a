\* Every reading of a usable battery.
CONSTANT
    Readings <- MCReadings
SPECIFICATION Spec
INVARIANTS
    VoltageRounded
