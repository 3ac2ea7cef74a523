SPECIFICATION FairSpec
CONSTANTS
    Sid = {i1}
    Dest = {d1}
    dest <- MCdest
    MaxRead = 2
    FastMax = 2
    BufMax = 2
    CanBreak = TRUE
INVARIANTS
    TypeOK
    DownNoGap
    UpInOrder
    ReadyOnce
    FastOpenBound
    PreOnlyWhileDialing
PROPERTIES
    OpenAnswered
    RefusalClosesApp
    DestEofReachesApp
    EofBehindData
CHECK_DEADLOCK FALSE
