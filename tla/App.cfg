\* An hour of 3 and six hours of 6 heartbeats, a counter that wraps at 16.
CONSTANTS
    QueueSize = 4
    Interval = 2
    Hour = 3
    SixHours = 6
    CounterWord = 16
    HoldPolls = 3
SPECIFICATION Spec
INVARIANTS
    TypeOK
    NoLostPress
    OnSchedule
    OneCommissioning
PROPERTIES
    Connects
    PressHandled
    HeartbeatComes
