SPECIFICATION FairSpec
CONSTANTS
    RandLens <- MCRandLens
    SKeys <- MCSKeys
    MaxMinute = 2
INVARIANTS
    TypeOK
    LoginAgreed
    NoGoodRefused
PROPERTIES
    HandshakeEnds
CHECK_DEADLOCK FALSE
