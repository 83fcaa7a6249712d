SPECIFICATION Spec
CONSTANTS
    Names = {n1}
    NoName = NoName
    Bodies <- MCBodies
    MaxLen = 1
    Byte = b
    NoFile = NoFile
    Conns = {c1, c2}
    NoConn = NoConn
    Versions = {v1, v2}
    ClientVersion = v1
    Window = 4
    CreateMayFail = TRUE
    StickyReset = FALSE
INVARIANTS
    ServerInStep
