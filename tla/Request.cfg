SPECIFICATION FairSpec
CONSTANTS
    W = 3
    ROOTBRANCH = 1
    MaxNets = 5
    MaxData = 3
INVARIANTS
    TypeOK
    Faithful
    FilterExact
PROPERTIES
    Settled
CHECK_DEADLOCK FALSE
