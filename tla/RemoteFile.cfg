SPECIFICATION FSpec
CONSTANTS
    Names = {n1, n2}
    NoName = NoName
    NoFile = NoFile
    Conns = {c1}
    NoConn = NoConn
    Versions = {v1}
    ClientVersion = v1
    Window = 3
    CreateMayFail = FALSE
    StickyReset = FALSE
    Bytes = {Z, B}
    ZeroByte = Z
    MaxSize = 1
    EditOpened = FALSE
    LeaveEmpty = FALSE
    ReuseFailed = FALSE
    Bodies <- MCBodies
    Writes <- MCWrites
INVARIANTS
    OffsetInBuffer
PROPERTIES
    KeepsContract
