SPECIFICATION FairSpec
CONSTANTS
    PreData = 1
    MaxData = 2
INVARIANTS
    TypeOK
    NoLostWakeup
PROPERTIES
    ImplementsStream
    CloseBitsStay
    EveryFrameHandled
CHECK_DEADLOCK FALSE
