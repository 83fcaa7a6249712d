SPECIFICATION AllSpec
CONSTANTS
    Platforms = {"Amiga", "Qt", "Windows"}
    Null = Null
    Garbage = Garbage
    MaxRequests = 2
    MaxPieces = 2
    Executers = {e1, e2, e3}
    Watchers = {w1, w2}
    Windows = {n1, n2}
    MaxEvents = 3
    FirstWindow = n1
    SecondWindow = n2
    Keys = {"left shift", "ctrl", "up", "s"}
    Spots = {0, 1}
    None = None
    MaxInputs = 4
    NewIds = {5, 6}
    NewKeys = {"a", "b"}
    NoKey = "-"
    Shortages = {TRUE, FALSE}
    MaxCalls = 4
INVARIANTS
    CommandsAreKeptApart
    EventsAreServed
    MenusAreAsAsked
PROPERTIES
    EndIsReported
CHECK_DEADLOCK FALSE
