SPECIFICATION HSpec
CONSTANTS
    Procs = {p1, p2, p3}
    NoProc = NoProc
    Backlog = 2
INVARIANTS
    MessageIsKept
    ServerIsFound
    OpenRecovers
PROPERTIES
    Delivered
