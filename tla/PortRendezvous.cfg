SPECIFICATION HSpec
CONSTANTS
    Procs = {p1, p2, p3, p4}
    NoProc = NoProc
INVARIANTS
    MessageForWake
    MessageAlive
    OneServerApart
PROPERTIES
    SenderReturnsAlone
