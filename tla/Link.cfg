SPECIFICATION Spec
CONSTANTS
    Interval = 7
    Tmo = 3
    WriteTmo = 3
    Deltas = {5}
    D = 1
    Relays = 2
    MaxFlight = 2
    MaxStall = 1
INVARIANTS
    TypeOK
    NoFalseAlarm
    DeadDetected
    CutContained
CHECK_DEADLOCK FALSE
