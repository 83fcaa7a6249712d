------------------------------ MODULE FileWatcher ------------------------------
(***************************************************************************)
(* RFileWatcher on Qt: the state machine of starting, pausing, resuming    *)
(* and stopping, and RQtFileWatcher below it, which turns the bare signal  *)
(* that something has changed into the changes themselves by comparing the *)
(* directory with a snapshot.  QFileSystemWatcher is modelled as it is on  *)
(* Linux: a signal is due for a path while the path is watched, several    *)
(* changes can share one, and a modified file in a watched directory gives *)
(* none.  Other programs change the files at any time.                     *)
(*                                                                         *)
(* The client calls the watcher between signals, not from its callback.    *)
(***************************************************************************)
EXTENDS Naturals, FiniteSets

CONSTANTS
    Dirs, Files,   \* directories, and the names of files in them
    NoDir, NoName, \* the empty names
    Absent,        \* the timestamp of a file that does not exist
    Stamps,        \* timestamps of files
    MaxLinks       \* bound: calls of startWatching()

ASSUME WatcherAssumption ==
    /\ NoDir \notin Dirs /\ NoName \notin Files /\ Absent \notin Stamps
    /\ MaxLinks \in Nat

VARIABLES
    state,              \* RFileWatcher::m_state
    step,               \* where a call that has begun is
    dirName, fileName,  \* m_directoryName and m_fileName
    files,              \* m_files, the snapshot
    paths,              \* the paths QFileSystemWatcher watches
    due,                \* those it has a signal for
    links,              \* connections of its two signals to changed()
    slots,              \* calls of changed() left of the current signal
    disk,               \* the files of each directory
    want,               \* what the client has asked for
    seen,               \* the files of it as the client knows them
    raced,              \* files that changed within resumeWatching(), until the next signal
    deaf,               \* the last addPath() was refused
    reports             \* the callbacks of the last call of changed()

names    == <<dirName, fileName>>
engine   == <<paths, due, links, slots>>
caller   == <<want, seen, raced, deaf, reports>>
vars     == <<state, step, names, files, engine, disk, caller>>

Path(d, f) == [dir |-> d, file |-> f]

Paths == [dir : Dirs, file : Files \cup {NoName}]

Nothing == Path(NoDir, NoName)

Listing == [Files -> Stamps \cup {Absent}]

Report(f, change) == [file |-> f, change |-> change]

\* The type invariant.
TypeOK ==
    /\ state \in {"stopped", "paused", "watching"}
    /\ step \in {"idle", "starting", "resuming"}
    /\ dirName \in Dirs \cup {NoDir} /\ fileName \in Files \cup {NoName}
    /\ files \in Listing
    /\ paths \subseteq Paths /\ due \subseteq paths
    /\ links \in [{"directory", "file"} -> 0 .. MaxLinks]
    /\ slots \in 0 .. links["directory"] + links["file"]
    /\ disk \in [Dirs -> Listing]
    /\ want \in Paths \cup {Nothing}
    /\ seen \in Listing /\ raced \subseteq Files /\ deaf \in BOOLEAN
    /\ reports \subseteq [file : Files, change : {"added", "deleted", "modified"}]

Init ==
    /\ state = "stopped" /\ step = "idle"
    /\ dirName = NoDir /\ fileName = NoName
    /\ files = [f \in Files |-> Absent]
    /\ paths = {} /\ due = {} /\ slots = 0
    /\ links = [s \in {"directory", "file"} |-> 0]
    /\ disk \in [Dirs -> Listing]
    /\ want = Nothing /\ seen = files /\ raced = {} /\ deaf = FALSE /\ reports = {}

Exists(listing, f) == listing[f] # Absent

--------------------------------------------------------------------------------
(***************************************************************************)
(* RFileWatcher and RQtFileWatcher, as called by the client.               *)
(***************************************************************************)
Calls == step = "idle" /\ slots = 0 /\ reports' = {}

\* RQtFileWatcher::stopWatching(): m_connection was never assigned, so its
\* disconnect() has no effect, and the snapshot is kept.
Unwatched == {p \in paths : p.dir = dirName /\ p.file \in {NoName, fileName}}

\* RFileWatcher::stopWatching(): nothing of it when watching is paused.
StopFirst(ps) == IF state = "watching" THEN ps \ Unwatched ELSE ps

NameAfterStop == IF state = "watching" THEN NoName ELSE fileName

Stop ==
    /\ Calls
    /\ paths' = StopFirst(paths) /\ due' = StopFirst(due)
    /\ fileName' = NameAfterStop
    /\ dirName' = IF state = "watching" THEN NoDir ELSE dirName
    /\ state' = "stopped"
    /\ want' = Nothing
    /\ UNCHANGED <<step, files, links, slots, disk, seen, raced, deaf>>

MayStart == links["directory"] + links["file"] < MaxLinks

\* startWatching() of a directory, up to addPath(), which may refuse it: then that is
\* all, and the client is told.
StartDirectory(d) ==
    /\ Calls /\ MayStart
    /\ \/ /\ paths' = StopFirst(paths) \cup {Path(d, NoName)} /\ deaf' = FALSE
          /\ want' = Path(d, NoName) /\ step' = "starting"
       \/ /\ paths' = StopFirst(paths) /\ deaf' = TRUE
          /\ want' = Nothing /\ step' = step
    /\ due' = StopFirst(due) /\ raced' = {}
    /\ fileName' = NameAfterStop /\ dirName' = d
    /\ state' = "stopped"
    /\ UNCHANGED <<files, links, slots, disk, seen>>

ListedOver ==
    [f \in Files |-> IF Exists(disk[dirName], f) THEN disk[dirName][f] ELSE files[f]]

\* The rest of it: the listing is added to the snapshot there was.  The client
\* reads the directory on its own at this time.
ListDirectory ==
    /\ step = "starting"
    /\ files' = ListedOver
    /\ links' = [links EXCEPT !["directory"] = @ + 1]
    /\ state' = "watching" /\ step' = "idle"
    /\ seen' = disk[dirName]
    /\ UNCHANGED <<names, paths, due, slots, disk, want, reports, raced, deaf>>

\* startWatching() of a single file, also when addPath() has refused it.
StartFile(d, f) ==
    /\ Calls /\ MayStart
    /\ \/ paths' = StopFirst(paths) \cup {Path(d, f)} /\ deaf' = FALSE
       \/ paths' = StopFirst(paths) /\ deaf' = TRUE
    /\ due' = StopFirst(due) /\ raced' = {}
    /\ dirName' = d /\ fileName' = f
    /\ want' = Path(d, f)
    /\ state' = "watching"
    /\ links' = [links EXCEPT !["file"] = @ + 1]
    /\ seen' = disk[d]
    /\ UNCHANGED <<step, files, slots, disk>>

\* pauseWatching(): only a directory is taken off the watch, but m_state
\* changes for a file as well.
Pause ==
    /\ Calls /\ state = "watching"
    /\ state' = "paused"
    /\ LET gone == IF fileName = NoName THEN {Path(dirName, NoName)} ELSE {}
       IN paths' = paths \ gone /\ due' = due \ gone
    /\ UNCHANGED <<step, names, files, links, slots, disk, want, seen, raced, deaf>>

\* MUTANT: the snapshot is not refreshed.
Unrefreshed == files

Refreshed == disk[dirName]

\* resumeWatching() of a directory: the snapshot is made afresh, and then the
\* directory is watched again, unless addPath() refuses it, of which nobody is told.
ResumeList ==
    /\ Calls /\ state = "paused" /\ fileName = NoName
    /\ files' = Refreshed /\ seen' = disk[dirName] /\ raced' = {}
    /\ step' = "resuming"
    /\ UNCHANGED <<state, names, engine, disk, want, deaf>>

ResumeAdd ==
    /\ step = "resuming"
    /\ \/ paths' = paths \cup {Path(dirName, NoName)} /\ deaf' = FALSE
       \/ paths' = paths /\ deaf' = TRUE
    /\ state' = "watching" /\ step' = "idle"
    /\ UNCHANGED <<names, files, due, links, slots, disk, want, seen, reports, raced>>

ResumeFile ==
    /\ Calls /\ state = "paused" /\ fileName # NoName
    /\ state' = "watching"
    /\ UNCHANGED <<step, names, files, engine, disk, want, seen, raced, deaf>>

--------------------------------------------------------------------------------
(***************************************************************************)
(* QFileSystemWatcher emits a signal, and every connection calls           *)
(* RQtFileWatcher::changed().                                              *)
(***************************************************************************)
Slots(p) == links[IF p.file = NoName THEN "directory" ELSE "file"]

Emit(p) ==
    /\ Calls /\ p \in due
    /\ due' = due \ {p}
    /\ slots' = Slots(p)
    /\ UNCHANGED <<state, step, names, files, paths, links, disk, want, seen, raced, deaf>>

\* QDir of an empty name is the current directory, taken to hold none of Files.
Now == IF dirName = NoDir THEN [f \in Files |-> Absent] ELSE disk[dirName]

Deleted == {f \in Files : Exists(files, f) /\ ~Exists(Now, f)}

\* MUTANT: only deletions are found.
NeverAdded == {}

\* MUTANT: every file there is has been added.
AddedAgain == {f \in Files : Exists(Now, f)}

Added == {f \in Files : ~Exists(files, f) /\ Exists(Now, f)}

Modified == {f \in Files : Exists(files, f) /\ Exists(Now, f) /\ files[f] # Now[f]}

Changes ==
    IF fileName # NoName THEN {Report(fileName, "modified")}
    ELSE {Report(f, "deleted") : f \in Deleted}
         \cup {Report(f, "added") : f \in Added}
         \cup {Report(f, "modified") : f \in Modified}

\* The snapshot takes in additions and deletions, not modifications.
SnapshotAfter ==
    [f \in Files |-> IF f \in Added \cup Deleted THEN Now[f] ELSE files[f]]

\* RQtFileWatcher::changed() and RFileWatcher::changed(): nothing is passed on
\* unless the watcher is watching.
Changed ==
    /\ slots > 0
    /\ slots' = slots - 1
    /\ files' = IF fileName = NoName THEN SnapshotAfter ELSE files
    /\ reports' = IF state = "watching" THEN Changes ELSE {}
    /\ seen' = [f \in Files |-> IF \E r \in reports' : r.file = f
                                  THEN Now[f] ELSE seen[f]]
    /\ raced' = IF fileName = NoName THEN {} ELSE raced
    /\ UNCHANGED <<state, step, names, paths, due, links, disk, want, deaf>>

\* Another program.
Affected(d, f, modifies) ==
    {Path(d, f)} \cup (IF modifies THEN {} ELSE {Path(d, NoName)})

FileChanges(d, f) ==
    /\ raced' = IF step = "resuming" THEN raced \cup {f} ELSE raced
    /\ \E s \in (Stamps \cup {Absent}) \ {disk[d][f]} :
         /\ disk' = [disk EXCEPT ![d][f] = s]
         /\ due' = due \cup (paths \cap
                       Affected(d, f, Exists(disk[d], f) /\ s # Absent))
    /\ UNCHANGED <<state, step, names, files, paths, links, slots,
                   want, seen, deaf, reports>>

Watcher == ListDirectory \/ ResumeAdd \/ Changed \/ \E p \in Paths : Emit(p)

Next == \/ Stop \/ Pause \/ ResumeList \/ ResumeFile \/ Watcher
        \/ \E d \in Dirs : StartDirectory(d)
        \/ \E d \in Dirs, f \in Files : StartFile(d, f) \/ FileChanges(d, f)

Spec == Init /\ [][Next]_vars

\* Calls that have begun go on, and the event loop runs.
FairSpec == Spec /\ WF_vars(Watcher)

--------------------------------------------------------------------------------
WatchesDirectory ==
    state = "watching" /\ step = "idle" /\ want # Nothing /\ want.file = NoName

\* The object has been used for one startWatching() only.  After a second one
\* the connections and the snapshot of the first are still there, so that files
\* of the first directory are reported, and every change twice.
StartedOnce == links["directory"] + links["file"] <= 1

\* The types hold, and once all signals have been handled, the client knows what
\* files there are: no change was lost between the listing and the watch, or while
\* paused.  Only what changes within resumeWatching() is missed, until another signal
\* comes; and nothing is known to be watched once addPath() has been refused there.
CaughtUp ==
    /\ TypeOK
    /\ StartedOnce /\ ~deaf /\ WatchesDirectory /\ slots = 0 /\ due = {}
         => \A f \in Files \ raced : Exists(seen, f) <=> Exists(disk[want.dir], f)

\* A file is reported as added or deleted when it has been, in the directory
\* that is watched, and once.
IsNews(r) ==
    /\ r.change = "added" => Exists(disk[want.dir], r.file) /\ ~Exists(seen, r.file)
    /\ r.change = "deleted" => ~Exists(disk[want.dir], r.file) /\ Exists(seen, r.file)

\* The client has not been told yet that the file has been added or deleted.
Owed(f) ==
    /\ StartedOnce /\ ~deaf /\ f \notin raced /\ WatchesDirectory
    /\ Exists(seen, f) # Exists(disk[want.dir], f)
--------------------------------------------------------------------------------
(***************************************************************************)
(* The inductive invariant behind CaughtUp and NewsIsNew.  It follows one  *)
(* startWatching(): the snapshot is what the client knows, and it differs  *)
(* from the directory only while a signal is due or being handled.         *)
(***************************************************************************)
Started == links["directory"] + links["file"]

Same(listing, other) == \A f \in Files : Exists(listing, f) <=> Exists(other, f)

SameButRaced(listing, other) ==
    \A f \in Files \ raced : Exists(listing, f) <=> Exists(other, f)

BeforeStart ==
    /\ state = "stopped" /\ step # "resuming" /\ fileName = NoName
    /\ \A f \in Files : ~Exists(files, f)
    /\ step = "idle" => paths = {}
    /\ step = "starting" => /\ dirName \in Dirs /\ want = Path(dirName, NoName)
                            /\ paths = {Path(dirName, NoName)} /\ ~deaf

OnDirectory ==
    /\ links["directory"] = 1
    /\ Same(seen, files)
    /\ state = "paused" => /\ paths = {} /\ slots = 0
                           /\ step = "resuming" => SameButRaced(files, disk[dirName])
    /\ state = "watching" =>
          IF deaf THEN paths = {} /\ slots = 0
          ELSE /\ paths = {Path(dirName, NoName)}
               /\ slots = 0 /\ due = {} => SameButRaced(files, disk[dirName])

Follows ==
    /\ TypeOK
    /\ step = "starting" => state = "stopped" /\ dirName \in Dirs /\ Started < MaxLinks
    /\ step = "resuming" => state = "paused" /\ fileName = NoName
    /\ state # "stopped" => dirName \in Dirs
    /\ Started = 0 => BeforeStart
    /\ Started = 1 /\ state # "stopped" =>
          /\ want = Path(dirName, fileName)
          /\ fileName = NoName => OnDirectory
================================================================================
