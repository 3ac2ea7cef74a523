SPECIFICATION FairSpec
CONSTANTS
    Sess = {s1}
    Tun = {t1, t2, t3}
    Token = {k1, k2}
    cid <- MCcid
    Closer = Closer
    None = None
    TokenNum = 2
    MaxReq = 0
INVARIANTS
    DialSeesRouter
    RouterDestroyedOnce
PROPERTIES
    Reclaimed
CHECK_DEADLOCK FALSE
