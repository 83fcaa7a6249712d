------------------------------- MODULE LocalFile -------------------------------
(***************************************************************************)
(* RFile, and the functions of Utils and RFileUtils that make and remove   *)
(* files and directories: objects of several programs on one disk, on      *)
(* which there may be a directory.  A call is the sequence of requests to  *)
(* the system that the code makes of it, and those of the others come in   *)
(* between: replace() deletes and then creates, the Amiga version of       *)
(* create() looks first whether there is a file, a file is locked after it *)
(* was opened, and an error is looked into after it has happened.          *)
(***************************************************************************)
EXTENDS Integers, Sequences, FiniteSets

CONSTANTS
    Platforms,      \* of "unix", "windows", "amiga"
    Objects,        \* RFile objects, each of a program of its own
    MaxFiles,       \* bound: files made on the disk
    MaxCalls,       \* bound: calls of create(), replace(), open() and those for directories
    MaxLength       \* bound: bytes of a file

Names == {"f", "d/f"}       \* in the current directory, and in the directory "d"
Files == 1 .. MaxFiles
NoFile == 0

VARIABLES
    platform,
    there,      \* whether the directory "d" exists
    disk,       \* the file under each name, or NoFile
    data,       \* the contents of the files: who has written each byte
    maker,      \* the object that each file was made by
    made,       \* files made so far
    pc,         \* of each object: where its call is
    asked,      \* the call and its arguments, until it fails or the file is closed
    file,       \* m_handle: the file, or NoFile
    locked,     \* it has the file to itself
    pos,        \* of m_handle
    result,     \* of the last call
    witness,    \* what has been the case at some time of the call
    calls

own == <<pc, file, locked, pos, result>>
world == <<there, disk, data, maker, made>>
vars == <<platform, world, own, asked, witness, calls>>

Calls == [call : {"create", "replace", "open", "delete"}, name : Names, write : BOOLEAN, exclusive : BOOLEAN]
Nothing == [call |-> "none", name |-> "f", write |-> FALSE, exclusive |-> FALSE]

Errors == {"KErrNone", "KErrAlreadyExists", "KErrNotFound", "KErrPathNotFound", "KErrInUse", "KErrGeneral"}

InDirectory(n) == n = "d/f"
Reachable(n) == InDirectory(n) => there

Truth(n, d, t) ==
    (IF d[n] = NoFile THEN {"no file"} ELSE {"file"})
    \cup (IF InDirectory(n) /\ ~t THEN {"no directory"} ELSE {})

Init ==
    /\ platform \in Platforms /\ there \in BOOLEAN
    /\ disk \in [Names -> {NoFile, 1}] /\ disk["d/f"] = NoFile
    /\ data = [f \in Files |-> <<>>] /\ maker = [f \in Files |-> "nobody"]
    /\ made = IF disk["f"] = NoFile THEN 0 ELSE 1
    /\ pc = [o \in Objects |-> "idle"] /\ asked = [o \in Objects |-> Nothing]
    /\ file = [o \in Objects |-> NoFile] /\ locked = [o \in Objects |-> FALSE]
    /\ pos = [o \in Objects |-> 0] /\ result = [o \in Objects |-> "KErrNone"]
    /\ witness = [o \in Objects |-> {}] /\ calls = 0

\* The type invariant.
TypeOK ==
    /\ disk \in [Names -> Files \cup {NoFile}]
    /\ ~there => disk["d/f"] = NoFile
    /\ \A f \in Files : Len(data[f]) <= MaxLength
    /\ pc \in [Objects -> {"idle", "delete", "look", "make", "open", "lock", "map", "mapdelete"}]
    /\ asked \in [Objects -> Calls \cup {Nothing}]
    /\ file \in [Objects -> Files \cup {NoFile}] /\ result \in [Objects -> Errors]
    /\ \A o \in Objects : pc[o] \notin {"idle", "lock"} => file[o] = NoFile

--------------------------------------------------------------------------------
Users(f) == {o \in Objects : file[o] = f}

\* What the calls that are under way have seen, and what has returned without a file.
Noted ==
    /\ witness' = [o \in Objects |-> IF pc[o] = "idle" THEN witness[o]
                                     ELSE witness[o] \cup Truth(asked[o].name, disk', there')]
    /\ asked' = [o \in Objects |-> IF pc'[o] = "idle" /\ file'[o] = NoFile THEN Nothing ELSE asked[o]]

Returns(o, r) == pc' = [pc EXCEPT ![o] = "idle"] /\ result' = [result EXCEPT ![o] = r]

Goes(o, where) == pc' = [pc EXCEPT ![o] = where] /\ UNCHANGED result

\* Where create() begins.
AfterDelete == IF platform = "amiga" THEN "look" ELSE "make"

\* The system has not found a file: on Windows it says itself that the path is
\* missing, elsewhere MapLastFileError() looks into that afterwards.
NotFound(o) ==
    IF platform # "windows" /\ InDirectory(asked[o].name) THEN Goes(o, IF pc[o] = "delete" THEN "mapdelete" ELSE "map")
    ELSE IF ~Reachable(asked[o].name) THEN Returns(o, "KErrPathNotFound")
    ELSE IF pc[o] = "delete" /\ asked[o].call = "replace" THEN Goes(o, AfterDelete)
    ELSE Returns(o, "KErrNotFound")

\* A call of open(), create(), replace() or deleteFile().
Begin(o) ==
    /\ pc[o] = "idle" /\ file[o] = NoFile /\ calls < MaxCalls /\ calls' = calls + 1
    /\ \E a \in Calls :
         /\ asked' = [asked EXCEPT ![o] = a]
         /\ a.call \in {"create", "replace"} => a.write
         /\ a.call = "delete" => ~a.write /\ ~a.exclusive
         /\ Goes(o, CASE a.call \in {"replace", "delete"} -> "delete"
                      [] a.call = "create" -> AfterDelete
                      [] a.call = "open" -> "open")
         /\ witness' = [witness EXCEPT ![o] = Truth(a.name, disk, there)]
    /\ UNCHANGED <<platform, world, file, locked, pos>>

\* deleteFile(); only Unix deletes a file that is open.
Delete(o) ==
    /\ pc[o] = "delete"
    /\ LET f == disk[asked[o].name] IN
       \/ /\ f # NoFile /\ (platform = "unix" \/ Users(f) = {})
          /\ disk' = [disk EXCEPT ![asked[o].name] = NoFile]
          /\ IF asked[o].call = "replace" THEN Goes(o, AfterDelete) ELSE Returns(o, "KErrNone")
       \/ /\ f # NoFile /\ platform # "unix" /\ Users(f) # {}
          /\ Returns(o, "KErrInUse") /\ UNCHANGED disk
       \/ /\ f = NoFile /\ NotFound(o) /\ UNCHANGED disk
    /\ UNCHANGED <<there, data, maker, made, file, locked, pos>>

\* MapLastFileError(): the file was not found; is its directory there?  replace() goes
\* on to create the file if it is.
Map(o) ==
    /\ pc[o] \in {"map", "mapdelete"}
    /\ IF ~there THEN Returns(o, "KErrPathNotFound")
       ELSE IF pc[o] = "mapdelete" /\ asked[o].call = "replace" THEN Goes(o, AfterDelete)
       ELSE Returns(o, "KErrNotFound")
    /\ UNCHANGED <<world, file, locked, pos>>

Shut(f) == \E o \in Users(f) : locked[o]

\* The Amiga version of create() looks for a file of that name; Amiga OS 4 may not
\* let it see one that another has locked.
Look(o) ==
    /\ pc[o] = "look"
    /\ LET f == disk[asked[o].name] IN
       \/ (f = NoFile \/ Shut(f)) /\ Goes(o, "make")
       \/ f # NoFile /\ Returns(o, "KErrAlreadyExists")
    /\ UNCHANGED <<world, file, locked, pos>>

\* create() has its file: what was asked for with it is seen to next.
Held(o, f, lockedNow) ==
    /\ file' = [file EXCEPT ![o] = f] /\ pos' = [pos EXCEPT ![o] = 0]
    /\ locked' = [locked EXCEPT ![o] = lockedNow]
    /\ IF asked[o].exclusive /\ ~lockedNow THEN Goes(o, "lock") ELSE Returns(o, "KErrNone")

\* Asking for a file that is there.
Ask(o, f) ==
    \/ /\ platform = "unix" /\ Held(o, f, FALSE)
    \/ /\ platform = "amiga"
       /\ IF Shut(f) THEN Returns(o, "KErrInUse") /\ UNCHANGED <<file, pos, locked>>
          ELSE Held(o, f, FALSE)
    \/ /\ platform = "windows"
       /\ IF Shut(f) \/ (asked[o].exclusive /\ Users(f) # {})
          THEN Returns(o, "KErrInUse") /\ UNCHANGED <<file, pos, locked>>
          ELSE Held(o, f, asked[o].exclusive)

\* create(): O_EXCL and CREATE_NEW want a new file, MODE_READWRITE takes what there is.
Make(o) ==
    /\ pc[o] = "make"
    /\ LET f == disk[asked[o].name] IN
       \/ /\ f # NoFile /\ platform = "amiga" /\ Ask(o, f) /\ UNCHANGED <<disk, maker, made>>
       \/ /\ f # NoFile /\ platform # "amiga"
          /\ Returns(o, "KErrAlreadyExists") /\ UNCHANGED <<disk, maker, made, file, pos, locked>>
       \/ /\ f = NoFile /\ ~Reachable(asked[o].name)
          /\ NotFound(o) /\ UNCHANGED <<disk, maker, made, file, pos, locked>>
       \/ /\ f = NoFile /\ Reachable(asked[o].name) /\ made < MaxFiles
          /\ made' = made + 1 /\ maker' = [maker EXCEPT ![made'] = o]
          /\ disk' = [disk EXCEPT ![asked[o].name] = made']
          /\ Held(o, made', platform = "windows" /\ asked[o].exclusive)
    /\ UNCHANGED <<there, data>>

OpenIt(o) ==
    /\ pc[o] = "open"
    /\ LET f == disk[asked[o].name] IN
         IF f = NoFile THEN NotFound(o) /\ UNCHANGED <<file, pos, locked>>
         ELSE Ask(o, f)
    /\ UNCHANGED world

\* MUTANT: the lock is given to everyone.
NobodyBlocks(o) == {}

\* Others that keep it from having the file to itself.
Blocking(o) == {p \in Users(file[o]) \ {o} : platform = "amiga" \/ locked[p]}

\* flock() fails if another has locked the file; ChangeMode() if another has it open.
Lock(o) ==
    /\ pc[o] = "lock"
    /\ IF Blocking(o) = {}
       THEN locked' = [locked EXCEPT ![o] = TRUE] /\ Returns(o, "KErrNone") /\ UNCHANGED file
       ELSE /\ file' = [file EXCEPT ![o] = NoFile] /\ UNCHANGED locked     \* close()
            /\ Returns(o, IF platform = "unix" /\ asked[o].call # "open" THEN "KErrGeneral" ELSE "KErrInUse")
    /\ UNCHANGED <<world, pos>>

Put(d, p, b) == [i \in 1 .. IF p + 1 > Len(d) THEN p + 1 ELSE Len(d) |->
                    IF i = p + 1 THEN b ELSE IF i <= Len(d) THEN d[i] ELSE "0"]

\* write(), of one byte, or of none if the disk is full.
Write(o) ==
    /\ pc[o] = "idle" /\ file[o] # NoFile
    /\ \/ /\ asked[o].write /\ pos[o] < MaxLength
          /\ data' = [data EXCEPT ![file[o]] = Put(@, pos[o], o)]
          /\ pos' = [pos EXCEPT ![o] = @ + 1] /\ Returns(o, "KErrNone")
       \/ Returns(o, "KErrGeneral") /\ UNCHANGED <<data, pos>>
    /\ UNCHANGED <<there, disk, maker, made, file, locked>>

\* read() and seek().
Move(o) ==
    /\ pc[o] = "idle" /\ file[o] # NoFile
    /\ \E p \in 0 .. MaxLength : pos' = [pos EXCEPT ![o] = p] /\ Returns(o, "KErrNone")
    /\ UNCHANGED <<world, file, locked>>

Close(o) ==
    /\ pc[o] = "idle"
    /\ file' = [file EXCEPT ![o] = NoFile] /\ locked' = [locked EXCEPT ![o] = FALSE]
    /\ pos' = [pos EXCEPT ![o] = 0] /\ Returns(o, "KErrNone")
    /\ UNCHANGED world

\* Utils::CreateDirectory() and DeleteDirectory(), of whichever program.
CreateDirectory == ~there /\ there' = TRUE
DeleteDirectory == there /\ disk["d/f"] = NoFile /\ there' = FALSE

\* RFileUtils::renameFile(): only Unix takes the place of a file of the new name, and
\* Windows does not rename one that is open.
RenameFile ==
    \E old, new \in Names :
        /\ old # new /\ disk[old] # NoFile /\ Reachable(new)
        /\ platform # "unix" => disk[new] = NoFile
        /\ platform = "windows" => Users(disk[old]) = {}
        /\ disk' = [disk EXCEPT ![new] = disk[old], ![old] = NoFile]

\* What any program does to the names on the disk.
Directories ==
    /\ calls < MaxCalls /\ calls' = calls + 1
    /\ \/ (CreateDirectory \/ DeleteDirectory) /\ UNCHANGED disk
       \/ RenameFile /\ UNCHANGED there
    /\ UNCHANGED <<data, maker, made, own>>

Next ==
    /\ \/ \E o \in Objects : Begin(o)
       \/ /\ \/ \E o \in Objects : \/ Delete(o) \/ Map(o) \/ Look(o) \/ Make(o) \/ OpenIt(o) \/ Lock(o)
                                   \/ Write(o) \/ Move(o) \/ Close(o)
          /\ Noted /\ UNCHANGED calls
       \/ Directories /\ Noted
    /\ UNCHANGED platform

Spec == Init /\ [][Next]_vars

--------------------------------------------------------------------------------
Holds(o) == pc[o] = "idle" /\ file[o] # NoFile

\* What create() and replace() have made was not there before: the file is that of
\* the call.  The Amiga version may take the file that another program made after it
\* had looked.
CreatedIsNew ==
    \A o \in Objects :
        (Holds(o) /\ asked[o].call \in {"create", "replace"} /\ platform # "amiga") => maker[file[o]] = o

\* A file that was opened with EFileExclusive is nobody else's; on Unix it is not
\* that of another one who has asked for the same.
ExclusiveIsAlone ==
    \A o, p \in Objects :
        (o # p /\ Holds(o) /\ locked[o] /\ file[p] = file[o] /\ Holds(p)) => platform = "unix" /\ ~locked[p]

\* The error that a call has returned was true at some time of the call: of a file
\* that exists, of one that is missing, and of one whose directory is.
ErrorsAreTrue ==
    \A o \in Objects :
        pc[o] = "idle" =>
            /\ result[o] = "KErrAlreadyExists" => "file" \in witness[o]
            /\ result[o] = "KErrNotFound" => "no file" \in witness[o]
            /\ result[o] = "KErrPathNotFound" => "no directory" \in witness[o]

--------------------------------------------------------------------------------
(***************************************************************************)
(* The inductive invariant.                                                *)
(***************************************************************************)
Typed ==
    /\ TypeOK /\ platform \in Platforms /\ there \in BOOLEAN /\ made \in 0 .. MaxFiles
    /\ data \in [Files -> Seq(Objects \cup {"0"})] /\ maker \in [Files -> Objects \cup {"nobody"}]
    /\ locked \in [Objects -> BOOLEAN] /\ pos \in [Objects -> 0 .. MaxLength]
    /\ witness \in [Objects -> SUBSET {"file", "no file", "no directory"}]

\* Files have been made that are on the disk or that somebody has.
FilesAreMade == (\A n \in Names : disk[n] <= made) /\ (\A o \in Objects : file[o] <= made)

\* Where a call is says what was asked for and what it has got.
CallsInOrder ==
    \A o \in Objects :
        /\ locked[o] => file[o] # NoFile
        /\ pc[o] = "open" => asked[o].call = "open"
        /\ pc[o] \in {"look", "make"} => asked[o].call \in {"create", "replace"}
        /\ pc[o] = "lock" => file[o] # NoFile /\ ~locked[o] /\ platform # "windows"

\* As CreatedIsNew, while the file is still to be locked as well.
MakersAreKnown ==
    platform # "amiga" =>
        \A o \in Objects :
            file[o] # NoFile /\ asked[o].call \in {"create", "replace"} => maker[file[o]] = o

\* As ExclusiveIsAlone, with those who are still to lock the file.
LocksAreAlone ==
    \A o, p \in Objects :
        o # p /\ locked[o] /\ file[p] = file[o] => platform = "unix" /\ ~locked[p]

\* A file that was not found, whose directory is looked for, was missing.
MissingWasSeen ==
    \A o \in Objects :
        pc[o] \in {"map", "mapdelete"} => InDirectory(asked[o].name) /\ "no file" \in witness[o]

InOrder ==
    /\ Typed /\ FilesAreMade /\ CallsInOrder /\ MakersAreKnown /\ LocksAreAlone
    /\ MissingWasSeen /\ ErrorsAreTrue
================================================================================
