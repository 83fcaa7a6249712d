SPECIFICATION AllSpec
CONSTANTS
    MaxSource = 2
    MaxSize = 4
    MaxParts = 2
    FilePlatforms = {"unix", "windows", "amiga"}
    Objects = {a, b}
    MaxFiles = 2
    MaxCalls = 2
    MaxLength = 1
    Platforms = {"unix", "windows", "amiga3", "amiga4", "remote"}
    Sizes = {1, 5}
    Wide = 5
    MaxChanges = 1
    MaxOpens = 2
    MaxBatch = 2
    m_oBuffers = m_oBuffers
    m_oNodes = m_oNodes
    Lists = {m_oBuffers, m_oNodes}
    Nodes <- MCNodes
    Blocks <- MCBlocks
    Null = Null
    Garbage = Garbage
    n1 = n1
    n2 = n2
    n3 = n3
    n4 = n4
    n5 = n5
    n6 = n6
    n7 = n7
    n8 = n8
    n9 = n9
    Addresses = {a1, a2, a3}
    Early = {e1}
    BlockSizes = {8}
    Most = 1
    NULL = NULL
INVARIANTS
    FilesAreTheirs
    ListingIsRight
    MemoryIsKept
CHECK_DEADLOCK FALSE
