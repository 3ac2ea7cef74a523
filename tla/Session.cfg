SPECIFICATION Spec
CONSTANTS
    Sess = {s1, s2}
    Tun = {t1, t2}
    Token = {k1, k2, k3}
    cid <- MCcid
    Closer = Closer
    None = None
    TokenNum = 1
    MaxReq = 1
SYMMETRY Symm
INVARIANTS
    TypeOK
    TokenTable
    NoTokenAfterClear
    ActiveCount
PROPERTIES
    TokenOwner
CHECK_DEADLOCK FALSE
