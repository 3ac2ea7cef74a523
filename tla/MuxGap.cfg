SPECIFICATION FairSpec
CONSTANTS
    Sid = {i1}
    Dest = {d1}
    dest <- MCdest
    MaxRead = 2
    FastMax = 2
    BufMax = 2
    CanBreak = FALSE
INVARIANT
    UpNoGap
CHECK_DEADLOCK FALSE
