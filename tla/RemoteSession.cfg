SPECIFICATION AskingSpec
CONSTANTS
    Names = {n1, n2}
    NoName = NoName
    Bodies <- MCBodies
    MaxLen = 1
    Byte = b
    NoFile = NoFile
    Conns = {c1, c2}
    NoConn = NoConn
    Versions = {v1, v2}
    ClientVersion = v1
    Window = 3
    CreateMayFail = FALSE
    StickyReset = FALSE
INVARIANTS
    ReplyAnswersRequest
    ServerInStep
    OnlyCompatibleCommands
    NoLeakedLink
PROPERTIES
    AnswersAreCurrent
    CallsReturn
    DeadLinkIsReplaced
