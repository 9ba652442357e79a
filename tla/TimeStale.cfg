\* As TimeSync.cfg, for the comment above fetchTime's condition.
CONSTANTS
    Timeout = 2
    Life = 3
    Day = 4
    Plausible = 5
    Year2000 = 6
    Start = 7
    MaxTime = 14
SPECIFICATION Spec
PROPERTIES
    UpdatedInLastDay
