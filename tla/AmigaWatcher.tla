----------------------------- MODULE AmigaWatcher -----------------------------
(***************************************************************************)
(* RFileWatcher on Amiga OS with RAmiFileWatcher below it: DOS sends a     *)
(* message to a port when the object that a notify request names has       *)
(* changed, and changed() compares the directory with a snapshot.          *)
(*                                                                         *)
(* The port and the request of the object are one resource here, numbered  *)
(* by the calls that made them.  The client calls the watcher between      *)
(* messages, not from its callback.                                        *)
(***************************************************************************)
EXTENDS Naturals, FiniteSets

CONSTANTS
    Dirs, Files,    \* directories, and the names of files in them
    NoDir, NoName,  \* the empty names
    Absent,         \* the timestamp of a file that does not exist
    Stamps,         \* timestamps of files
    MaxRequests     \* bound: notify requests made

VARIABLES
    state,              \* RFileWatcher::m_state
    step,               \* "idle", or the call that reads the directory next
    dirName, fileName,  \* the watcher's names: of the file, with its directory
    files,              \* m_files
    request,            \* m_request and m_port: 0 if there are none
    watches,            \* of each request: what DOS watches for it, if anything
    messages,           \* requests that have a message at their port
    disk,               \* the files of each directory
    want,               \* what the client has asked for, and told to pause or not
    seen,               \* the files of it as the client knows them
    raced,              \* files whose last change no message or no changed() has told
    deaf,               \* the last resumeWatching() could not list or watch the directory
    abandoned           \* a paused watch was started or stopped

native == <<dirName, fileName, files, request, watches, messages>>
client == <<want, seen, raced, deaf, abandoned>>
vars   == <<state, step, native, disk, client>>

Path(d, f) == [dir |-> d, file |-> f]

NoPath == Path(NoDir, NoName)

Listing == [Files -> Stamps \cup {Absent}]

NoFiles == [f \in Files |-> Absent]

Exists(listing, f) == listing[f] # Absent

\* The type invariant.
TypeOK ==
    /\ state \in {"stopped", "paused", "watching"}
    /\ step \in {"idle", "starting", "resuming"}
    /\ dirName \in Dirs \cup {NoDir}
    /\ fileName \in [dir : Dirs \cup {NoDir}, file : Files \cup {NoName}]
    /\ files \in Listing /\ seen \in Listing /\ disk \in [Dirs -> Listing]
    /\ request \in 0 .. MaxRequests
    /\ messages \subseteq DOMAIN watches
    /\ raced \subseteq Files /\ deaf \in BOOLEAN

Init ==
    /\ state = "stopped" /\ step = "idle"
    /\ dirName = NoDir /\ fileName = NoPath /\ files = NoFiles
    /\ request = 0 /\ watches = <<>> /\ messages = {}
    /\ disk \in [Dirs -> Listing]
    /\ want = NoPath /\ seen = NoFiles /\ raced = {} /\ deaf = FALSE /\ abandoned = FALSE

--------------------------------------------------------------------------------
Watched == IF fileName = NoPath THEN Path(dirName, NoName) ELSE fileName

\* EndNotify() takes back messages that have not been replied to.
EndNotify(r) ==
    /\ watches' = IF r = 0 THEN watches ELSE [watches EXCEPT ![r] = NoPath]
    /\ messages' = messages \ {r}

\* RAmiFileWatcher::stopWatching(), also after a failure.
Stopped ==
    /\ EndNotify(request)
    /\ request' = 0 /\ files' = NoFiles /\ dirName' = NoDir /\ fileName' = NoPath

\* RFileWatcher::stopWatching().
Stop ==
    /\ step = "idle"
    /\ IF state = "watching" THEN Stopped ELSE UNCHANGED native
    /\ state' = "stopped" /\ want' = NoPath
    /\ abandoned' = (abandoned \/ state = "paused")
    /\ UNCHANGED <<step, disk, seen, raced, deaf>>

\* A name without a file leaves m_fileName as it is, and that is empty unless a
\* paused watch was not stopped.
NameOf(d, f) == IF f # NoName THEN Path(d, f) ELSE IF state = "watching" THEN NoPath ELSE fileName

\* startWatching() up to StartNotify(), which may fail.
Start(d, f) ==
    /\ step = "idle" /\ Cardinality(DOMAIN watches) < MaxRequests
    /\ LET new   == Cardinality(DOMAIN watches) + 1
           ended == [r \in DOMAIN watches |->
                        IF r = request /\ state = "watching" THEN NoPath ELSE watches[r]]
           name  == NameOf(d, f)
           what  == IF name = NoPath THEN Path(d, NoName) ELSE name
       IN \/ /\ watches' = [r \in DOMAIN watches \cup {new} |-> IF r = new THEN what ELSE ended[r]]
             /\ messages' = IF state = "watching" THEN messages \ {request} ELSE messages
             /\ request' = new /\ dirName' = d /\ fileName' = name
             /\ files' = IF state = "watching" THEN NoFiles ELSE files
             /\ step' = IF name = NoPath THEN "starting" ELSE "idle"
             /\ state' = IF name = NoPath THEN "stopped" ELSE "watching"
             /\ want' = Path(d, f)
          \/ Stopped /\ step' = "idle" /\ state' = "stopped" /\ want' = NoPath
    /\ seen' = disk[d] /\ raced' = {} /\ deaf' = FALSE
    /\ abandoned' = (abandoned \/ state = "paused")
    /\ disk' = disk

\* readFileList() after StartNotify().
ListAfter ==
    /\ step = "starting" /\ step' = "idle"
    /\ \/ files' = disk[dirName] /\ state' = "watching" /\ seen' = disk[dirName]
          /\ UNCHANGED <<dirName, fileName, request, watches, messages, want>>
       \/ Stopped /\ state' = "stopped" /\ want' = NoPath /\ seen' = seen
    /\ UNCHANGED <<disk, raced, deaf, abandoned>>

\* pauseWatching(): DOS goes on watching a single file.
Pause ==
    /\ step = "idle" /\ state = "watching"
    /\ state' = "paused"
    /\ IF fileName = NoPath THEN EndNotify(request) ELSE UNCHANGED <<watches, messages>>
    /\ UNCHANGED <<step, dirName, fileName, files, request, disk, client>>

\* resumeWatching(): readFileList(), which may fail with a part of the files read, then
\* StartNotify(), which may fail as well; nobody is told of either.
ResumeFirst ==
    /\ step = "idle" /\ state = "paused"
    /\ IF fileName # NoPath THEN state' = "watching" /\ UNCHANGED <<step, files, seen, raced, deaf>>
       ELSE /\ state' = state /\ step' = "resuming"
            /\ \E read \in SUBSET Files :
                 /\ files' = [f \in Files |-> IF f \in read THEN disk[dirName][f] ELSE Absent]
                 /\ deaf' = (read # Files)
            /\ seen' = disk[dirName] /\ raced' = {}
    /\ UNCHANGED <<dirName, fileName, request, watches, messages, disk, want, abandoned>>

ResumeThen ==
    /\ step = "resuming" /\ step' = "idle" /\ state' = "watching"
    /\ \/ /\ watches' = IF request = 0 THEN watches ELSE [watches EXCEPT ![request] = Watched]
          /\ deaf' = deaf
       \/ watches' = watches /\ deaf' = TRUE
    /\ UNCHANGED <<dirName, fileName, files, request, messages, disk, want, seen, raced,
                   abandoned>>

--------------------------------------------------------------------------------
(***************************************************************************)
(* Messages.                                                               *)
(***************************************************************************)
\* The snapshot takes in additions and deletions, not modifications.
Compared(now) ==
    [f \in Files |-> IF Exists(files, f) = Exists(now, f) THEN files[f] ELSE now[f]]

Reported(now) == {f \in Files : files[f] # now[f]}

\* changed(): of a file it is known that it has changed.  What the parent passes
\* on it does while watching.
Changed ==
    /\ step = "idle" /\ request \in messages
    /\ messages' = messages \ {request}
    /\ LET now == disk[watches[request].dir]
           news == IF fileName = NoPath THEN Reported(now) ELSE {fileName.file}
       IN /\ files' = IF fileName = NoPath THEN Compared(now) ELSE files
          /\ seen' = [f \in Files |-> IF f \in news /\ state = "watching" THEN now[f] ELSE seen[f]]
    /\ raced' = {}
    /\ UNCHANGED <<state, step, dirName, fileName, request, watches, disk, want, deaf, abandoned>>

\* The directory cannot be opened or read: the message has been replied to, and nothing
\* is compared until the next one.
ChangedUnread ==
    /\ step = "idle" /\ request \in messages /\ fileName = NoPath
    /\ messages' = messages \ {request}
    /\ raced' = raced \cup Reported(disk[watches[request].dir])
    /\ UNCHANGED <<state, step, dirName, fileName, files, request, watches, disk, want, seen,
                   deaf, abandoned>>

\* Another program changes a file.
FileChanges(d, f) ==
    /\ \E s \in (Stamps \cup {Absent}) \ {disk[d][f]} : disk' = [disk EXCEPT ![d][f] = s]
    /\ messages' = messages \cup
          {r \in DOMAIN watches : watches[r] \in {Path(d, NoName), Path(d, f)}}
    /\ raced' = IF step = "resuming" THEN raced \cup {f} ELSE raced
    /\ UNCHANGED <<state, step, dirName, fileName, files, request, watches, want, seen, deaf,
                   abandoned>>

Loop == ListAfter \/ ResumeThen \/ Changed \/ ChangedUnread

Next ==
    \/ Stop \/ Pause \/ ResumeFirst \/ Loop
    \/ \E d \in Dirs : \E f \in Files \cup {NoName} : Start(d, f)
    \/ \E d \in Dirs, f \in Files : FileChanges(d, f)

Spec == Init /\ [][Next]_vars

FairSpec == Spec /\ WF_vars(Loop)

--------------------------------------------------------------------------------
\* The client has not been told yet of what has happened to the file, and the
\* snapshot says that something has.  No watch was left behind while paused, the last
\* resumeWatching() has succeeded, and the file has neither changed within it nor been
\* missed by a changed() that could not read.
Owed(f) ==
    /\ ~abandoned /\ ~deaf /\ f \notin raced
    /\ state = "watching" /\ want # NoPath /\ want.file = NoName
    /\ seen[f] # disk[want.dir][f]
    /\ Exists(seen, f) => disk[want.dir][f] # files[f]

\* After stopWatching() DOS watches nothing for the object and sends it nothing, and
\* while it watches it is for what the client asked for, with one request; or with
\* none, once StartNotify() has failed in resumeWatching().
OneWatch ==
    ~abandoned =>
        /\ state = "stopped" /\ step = "idle" => \A r \in DOMAIN watches : watches[r] = NoPath
        /\ messages \subseteq {request}
        /\ state = "watching" => \A r \in DOMAIN watches :
              \/ watches[r] = IF r = request THEN want ELSE NoPath
              \/ deaf /\ watches[r] = NoPath
--------------------------------------------------------------------------------
(***************************************************************************)
(* The inductive invariant behind OneWatch: the requests before the last   *)
(* are over, and the last one is for what the names say.                   *)
(***************************************************************************)
Names == [dir : Dirs \cup {NoDir}, file : Files \cup {NoName}]

OnlyTheLast ==
    /\ messages \subseteq {request}
    /\ \A r \in DOMAIN watches : r # request => watches[r] = NoPath
    /\ state = "stopped" /\ step = "idle" => request = 0 /\ fileName = NoPath
    /\ step = "starting" =>
          /\ request # 0 /\ fileName = NoPath
          /\ want = Path(dirName, NoName) /\ watches[request] = want
    /\ state # "stopped" =>
          /\ request # 0 /\ want = Watched
          /\ state = "watching" \/ fileName # NoPath =>
                \/ watches[request] = want
                \/ deaf /\ fileName = NoPath /\ watches[request] = NoPath
          /\ state = "paused" /\ fileName = NoPath => watches[request] = NoPath

Follows ==
    /\ TypeOK /\ abandoned \in BOOLEAN
    /\ want \in Names /\ watches \in [DOMAIN watches -> Names]
    /\ \E n \in 0 .. MaxRequests : DOMAIN watches = 1 .. n
    /\ request \in DOMAIN watches \cup {0}
    /\ \A r \in messages : watches[r].dir \in Dirs
    /\ step = "starting" => state = "stopped" /\ dirName \in Dirs
    /\ step = "resuming" => state = "paused" /\ fileName = NoPath
    /\ state # "stopped" => dirName \in Dirs
    /\ ~abandoned => OnlyTheLast
================================================================================
