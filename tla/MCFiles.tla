-------------------------------- MODULE MCFiles --------------------------------
(***************************************************************************)
(* What a program uses of the system below it, for TLC: the names of       *)
(* files, files, directories, and the memory of the node pool and of       *)
(* MungWall.  One part runs at a time, with the variables of its module;   *)
(* the others of the modules are 0.                                        *)
(***************************************************************************)
EXTENDS StdPool

CONSTANTS
    MaxSource, MaxSize, MaxParts,                               \* of PathNames
    FilePlatforms, Objects, MaxFiles, MaxCalls, MaxLength,      \* of LocalFile
    Platforms, Sizes, Wide, MaxChanges, MaxOpens, MaxBatch,     \* of Directory
    n1, n2, n3, n4, n5, n6, n7, n8, n9,                         \* for StdPool
    Addresses, Early, BlockSizes, Most, NULL                           \* of MungWall

ASSUME FileAssumption ==
    /\ FilePlatforms \subseteq {"unix", "windows", "amiga"}
    /\ MaxFiles \in Nat \ {0} /\ MaxLength \in Nat
    /\ {1, 5} \subseteq Sizes /\ Sizes \subseteq Nat /\ Wide \in Nat \ {0} /\ MaxBatch \in Nat
    /\ IsFiniteSet(Addresses) /\ NULL \notin Addresses \cup Early
    /\ Early \cap Addresses = {}

\* Separators of both kinds, what else the functions look for, and a letter.
Chars == {"/", "\\", ":", ".", " ", "a"}

\* In a directory, a file or something that is none, or is being deleted.
Nothing == [kind |-> "none", size |-> 0]

File(n) == [kind |-> "file", size |-> n]

Link(n) == [kind |-> "link", size |-> n]

Other(kind) == [kind |-> kind, size |-> 0]

Worlds ==
    {[root |-> [a |-> File(1), b |-> Nothing, d |-> Nothing],
      cwd  |-> [a |-> File(5), b |-> Nothing, d |-> Other("dir")],
      sub  |-> [a |-> x, b |-> y, d |-> Nothing]] :
        x \in {File(1), Link(1), Other("busy")}, y \in {File(5), Other("dead")}}

Pattern(at, last) == [at |-> at, last |-> last]

Patterns ==
    {Pattern("root", "*"), Pattern("cwd", "d"), Pattern("cwd", "a"), Pattern("cwd", "b"),
     Pattern("sub", "*"), Pattern("sub", "b*")}

\* Blocks of the pool with room for two items, for one and for none.
MCNodes == {n1, n2, n3, n4, n5, n6, n7, n8, n9}

MCBlocks == {<<n1, n2, n3>>, <<n4, n5, n6>>, <<n7, n8>>, <<n9>>}

VARIABLES       \* with those of StdPool, "pool"
    part,                                 \* the part that runs
    windows, bufferSize, path, source, before, last, parts,   \* "names"
    filePlatform, there, disk, data, maker, made, filePc,     \* "file"
    asked, file, locked, pos, fileResult, witness, calls,
    platform, world, pattern, entries, single, handle,        \* "directory"
    place, batch, seen, pc, result, order, steady, changed,
    opened, lost, opens, changes,
    arena, first, numNews, enabled, profiled, report          \* "wall"

N == INSTANCE PathNames WITH size <- bufferSize
F == INSTANCE LocalFile WITH
        Platforms <- FilePlatforms, platform <- filePlatform, pc <- filePc,
        result <- fileResult
D == INSTANCE Directory
W == INSTANCE MungWall WITH Sizes <- BlockSizes

ofNames == <<windows, bufferSize, path, source, before, last, parts>>

ofFile == <<filePlatform, there, disk, data, maker, made, filePc, asked, file, locked,
            pos, fileResult, witness, calls>>

ofDirectory == <<platform, world, pattern, entries, single, handle, place, batch, seen, pc,
                 result, order, steady, changed, opened, lost, opens, changes>>

ofPool == <<link, count, items, off, pool, running, live, held>>

ofWall == <<arena, first, numNews, enabled, profiled, report>>

all == <<part, ofNames, ofFile, ofDirectory, ofPool, ofWall>>

\* A part that does not run.
NoNames ==
    /\ windows = 0 /\ bufferSize = 0 /\ path = 0 /\ source = 0 /\ before = 0 /\ last = 0
    /\ parts = 0

NoFile ==
    /\ filePlatform = 0 /\ there = 0 /\ disk = 0 /\ data = 0 /\ maker = 0 /\ made = 0
    /\ filePc = 0 /\ asked = 0 /\ file = 0 /\ locked = 0 /\ pos = 0 /\ fileResult = 0
    /\ witness = 0 /\ calls = 0

NoDirectory ==
    /\ platform = 0 /\ world = 0 /\ pattern = 0 /\ entries = 0 /\ single = 0 /\ handle = 0
    /\ place = 0 /\ batch = 0 /\ seen = 0 /\ pc = 0 /\ result = 0 /\ order = 0
    /\ steady = 0 /\ changed = 0 /\ opened = 0 /\ lost = 0 /\ opens = 0 /\ changes = 0

NoPool ==
    /\ link = 0 /\ count = 0 /\ items = 0 /\ off = 0 /\ pool = 0 /\ running = 0
    /\ live = 0 /\ held = 0

NoWall ==
    /\ arena = 0 /\ first = 0 /\ numNews = 0 /\ enabled = 0 /\ profiled = 0 /\ report = 0

AllInit ==
    \/ part = "names" /\ N!Init
       /\ NoFile /\ NoDirectory /\ NoPool /\ NoWall
    \/ part = "file" /\ F!Init
       /\ NoNames /\ NoDirectory /\ NoPool /\ NoWall
    \/ part = "directory" /\ D!Init
       /\ NoNames /\ NoFile /\ NoPool /\ NoWall
    \/ part = "pool" /\ PInit
       /\ NoNames /\ NoFile /\ NoDirectory /\ NoWall
    \/ part = "wall" /\ W!Init
       /\ NoNames /\ NoFile /\ NoDirectory /\ NoPool

AllNext ==
    \/ /\ part = "names" /\ N!Next
       /\ UNCHANGED <<part, ofFile, ofDirectory, ofPool, ofWall>>
    \/ /\ part = "file" /\ F!Next
       /\ UNCHANGED <<part, ofNames, ofDirectory, ofPool, ofWall>>
    \/ /\ part = "directory" /\ D!Next
       /\ UNCHANGED <<part, ofNames, ofFile, ofPool, ofWall>>
    \/ /\ part = "pool" /\ PNext
       /\ UNCHANGED <<part, ofNames, ofFile, ofDirectory, ofWall>>
    \/ /\ part = "wall" /\ W!Next
       /\ UNCHANGED <<part, ofNames, ofFile, ofDirectory, ofPool>>

AllSpec == AllInit /\ [][AllNext]_all

--------------------------------------------------------------------------------
\* The parts of a path make the path again, a file that create() has made is a new
\* one, one that is open exclusively is open once, and an error tells the truth.
FilesAreTheirs ==
    CASE part = "names" -> N!TypeOK /\ N!PartComesBack
      [] part = "file"  -> F!TypeOK /\ F!CreatedIsNew /\ F!ExclusiveIsAlone /\ F!ErrorsAreTrue
      [] OTHER          -> TRUE

\* A listing has what is in the directory, in order, and no handle is lost, with
\* files that come and go while it is read.
ListingIsRight == part = "directory" => D!TypeOK /\ D!ListingIsRight /\ D!HandlesAreKept

\* Every item of the pool is free, or handed out, or about to be free; no link goes
\* into memory that was freed; and MungWall has all of the memory it is told of.
MemoryIsKept ==
    CASE part = "pool" -> Linked /\ EveryItemOnce /\ NoFreedLink
      [] part = "wall" -> W!TypeOK /\ W!ListIsWhole /\ W!NewsAreCounted
      [] OTHER         -> TRUE
================================================================================
