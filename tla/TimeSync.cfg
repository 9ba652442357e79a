\* The true order of the bounds, and seven ticks of time: more than a day and than "plausible".
CONSTANTS
    Timeout = 2
    Life = 3
    Day = 4
    Plausible = 5
    Year2000 = 6
    Start = 7
    MaxTime = 14
SPECIFICATION Spec
INVARIANTS
    TypeOK
    ClockTrue
PROPERTIES
    FetchEnds
