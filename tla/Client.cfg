SPECIFICATION Spec
CONSTANTS
    G = {g1, g2, g3}
    None = None
    Parallels = 2
    Floor = 0
    LoginTokens = 1
    MaxLogin = 2
    MaxTokens = 1
SYMMETRY Symm
INVARIANTS
    TypeOK
    DtCount
    OneRestart
    WorkingMux
    KeepsTrying
CHECK_DEADLOCK FALSE
