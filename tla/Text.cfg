SPECIFICATION AllSpec
CONSTANTS
    MaxLength = 4
    Words = {"x", "k", "c", ""}
    MaxWords = 4
    NumNewArgs = 2
    MaxOpens = 2
    Names = {"a", "b"}
    MaxLines = 5
    Letters = {"a", "b"}
    MaxName = 4
    MaxPattern = 4
    FirstYears = {3, 99, 399}
    MaxDays = 800
    MaxBytes = 3
    Parts = {"a", "b"}
    MaxParts = 3
    MaxCopies = 4
    Platforms = {"amiga3", "amiga4", "qt", "windows"}
    MaxText = 3
    MaxCopy = 2
    MaxTexts = 2
INVARIANTS
    ParsersAreRight
    NothingIsLost
PROPERTIES
    MatchingEnds
CHECK_DEADLOCK FALSE
