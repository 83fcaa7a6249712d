SPECIFICATION AllSpec
CONSTANTS
    Dirs = {d1}
    TwoDirs = {d1, d2}
    Files = {f1, f2}
    NoDir = NoDir
    NoName = NoName
    Absent = Absent
    Stamps = {1, 2}
    MaxLinks = 2
    MaxHandles = 3
    MaxChanges = 2
    MaxRequests = 2
INVARIANTS
    WatchIsRight
PROPERTIES
    NewsIsNew
    EveryChangeIsReported
    StopReturns
CHECK_DEADLOCK FALSE
