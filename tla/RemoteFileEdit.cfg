SPECIFICATION FSpec
CONSTANTS
    Names = {n1}
    NoName = NoName
    NoFile = NoFile
    Conns = {c1}
    NoConn = NoConn
    Versions = {v1}
    ClientVersion = v1
    Window = 3
    CreateMayFail = FALSE
    StickyReset = FALSE
    Bytes = {Z, B}
    ZeroByte = Z
    MaxSize = 2
    EditOpened = TRUE
    LeaveEmpty = FALSE
    ReuseFailed = FALSE
    Bodies <- MCBodies
    Writes <- MCWrites
PROPERTIES
    KeepsContract
