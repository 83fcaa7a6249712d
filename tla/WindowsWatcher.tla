---------------------------- MODULE WindowsWatcher ----------------------------
(***************************************************************************)
(* RFileWatcher on Windows: an overlapped ReadDirectoryChangesW() that is  *)
(* made again each time it completes, with a completion routine that runs  *)
(* whenever the thread waits alertably: in the main loop, and within       *)
(* stopWatching(), which waits there for the cancelled request.            *)
(*                                                                         *)
(* Handles are numbered in the order they are opened.  The file name is    *)
(* kept by the code and never used.                                        *)
(***************************************************************************)
EXTENDS Naturals, Sequences, SequencesExt

CONSTANTS
    Dirs,           \* directories
    NoDir,          \* the empty name
    MaxHandles,     \* bound: handles opened
    MaxChanges      \* bound: changes to directories

VARIABLES
    state,      \* m_state
    dirName,    \* m_directoryName
    handle,     \* m_changeHandle: 0 for INVALID_HANDLE_VALUE
    event,      \* m_stopEvent: "none", "unset" or "set"
    opened,     \* of each handle: its directory, NoDir once it is closed
    unread,     \* handles with changes that no request has taken
    requests,   \* of ReadDirectoryChangesW(): their handles and how they stand
    call,       \* "stop" or "start" while that waits for the event, else "none"
    want,       \* the directory the client has asked for
    said,       \* the last report: the directory named, the one it was in, and call
    changes,    \* how many changes there have been
    left,       \* handles left behind: open, of a paused watch, or with requests
    deaf,       \* the last request overflowed or could not be made, or there is none
    cancelled   \* the call that waits has cancelled a request

ghosts == <<want, said, changes, left, deaf, cancelled>>
system == <<opened, unread, requests>>
vars   == <<state, dirName, handle, event, system, call, ghosts>>

Handles == 1 .. MaxHandles

Request(h, status) == [handle |-> h, status |-> status]

\* The type invariant.
TypeOK ==
    /\ state \in {"stopped", "paused", "watching"}
    /\ dirName \in Dirs \cup {NoDir} /\ handle \in 0 .. Len(opened)
    /\ event \in {"none", "unset", "set"}
    /\ opened \in BoundedSeq(Dirs \cup {NoDir}, MaxHandles)
    /\ unread \subseteq Handles /\ left \subseteq Handles
    /\ \A i \in DOMAIN requests :
          requests[i] \in [handle : Handles, status : {"pending", "done", "aborted"}]
    /\ call \in {"none", "stop", "start"} /\ (call = "none" <=> event = "none")

\* No constructor on Windows sets m_state: it is 0, "stopped", in memory from new,
\* and anything on the stack.
Init ==
    /\ state \in {"stopped", "paused", "watching"} /\ deaf = (state # "stopped")
    /\ dirName = NoDir /\ handle = 0 /\ event = "none"
    /\ opened = <<>> /\ unread = {} /\ requests = <<>>
    /\ call = "none" /\ want = NoDir
    /\ said = [name |-> NoDir, of |-> NoDir, within |-> "none"] /\ changes = 0
    /\ left = {} /\ cancelled = FALSE

--------------------------------------------------------------------------------
Pending(h) == \E i \in DOMAIN requests : requests[i] = Request(h, "pending")

\* CancelIo() and CancelIoEx(): the completion routine is due for each.
Cancelled(h) ==
    [i \in DOMAIN requests |->
       IF requests[i] = Request(h, "pending") THEN Request(h, "aborted") ELSE requests[i]]

\* watchDirectory(): the system may refuse, and a handle that is closed is refused.
WatchDirectory(rs, h, name) ==
    \/ /\ h # 0 /\ name # NoDir
       /\ requests' = Append(rs, Request(h, IF h \in unread THEN "done" ELSE "pending"))
       /\ unread' = unread \ {h} /\ deaf' = FALSE
    \/ requests' = rs /\ unread' = unread /\ deaf' = TRUE

\* CreateFile(): no directory has the empty name.
CreateFile(d) == opened' = Append(opened, d) /\ handle' = Len(opened) + 1

MayOpen == Len(opened) < MaxHandles

\* m_changeHandle is overwritten, or kept for nobody.
LeftNow == left \cup ({handle} \ {0})

\* startWatching() after it has stopped.
Begin(name) ==
    /\ dirName' = name
    /\ \/ /\ name # NoDir /\ MayOpen
          /\ CreateFile(name)
          /\ WatchDirectory(requests, Len(opened) + 1, name)
          /\ state' = IF Len(requests') > Len(requests) THEN "watching" ELSE "stopped"
       \/ /\ state' = "stopped" /\ handle' = 0
          /\ UNCHANGED <<opened, unread, requests, deaf>>

\* Nothing is done to stop a watch that is paused, whatever it has open.
StartUnstopped(d) ==
    /\ call = "none" /\ state # "watching"
    /\ want' = d /\ left' = LeftNow
    /\ Begin(d)
    /\ UNCHANGED <<event, call, said, changes, cancelled>>

StopUnstopped ==
    /\ call = "none" /\ state # "watching"
    /\ state' = "stopped" /\ want' = NoDir
    /\ left' = LeftNow
    /\ UNCHANGED <<dirName, handle, event, system, call, said, changes, deaf, cancelled>>

\* stopWatching() of a watch that is on: the event, or none for lack of resources.
StopBegins(next, d) ==
    /\ state = "watching" /\ handle # 0
    /\ call' = next /\ event' = "unset" /\ want' = d
    /\ requests' = Cancelled(handle) /\ cancelled' = Pending(handle)

\* The name startWatching() has been given is in dirName while it waits.
Stop(next, d) ==
    /\ call = "none"
    /\ StopBegins(next, d)
    /\ dirName' = IF next = "start" THEN d ELSE dirName
    /\ UNCHANGED <<state, handle, opened, unread, said, changes, left, deaf>>

\* A watcher that says it is watching with nothing open has its names cleared.
StopGarbage(next, d) ==
    /\ call = "none" /\ state = "watching" /\ handle = 0
    /\ want' = d
    /\ IF next = "start" THEN Begin(NoDir)
       ELSE /\ state' = "stopped" /\ dirName' = NoDir
            /\ UNCHANGED <<handle, opened, unread, requests, deaf>>
    /\ UNCHANGED <<event, call, said, changes, left, cancelled>>

\* The rest of stopWatching(): handle and names go, also the name that
\* startWatching() has just put there.
Close ==
    /\ event' = "none" /\ call' = "none" /\ handle' = 0 /\ dirName' = NoDir
    /\ state' = "stopped"
    /\ opened' = [opened EXCEPT ![handle] = NoDir]
    /\ unread' = unread \ {handle}

WaitOver ==
    /\ call # "none" /\ event = "set"
    /\ Close
    /\ UNCHANGED <<requests, want, said, changes, left, deaf, cancelled>>

\* CreateEvent() fails: there is no wait, and the request is left to itself.
EventFails ==
    /\ call # "none" /\ event = "unset"
    /\ Close
    /\ left' = LeftNow
    /\ UNCHANGED <<requests, want, said, changes, deaf, cancelled>>

\* pauseWatching(): the handle stays open.
Pause ==
    /\ call = "none" /\ state = "watching"
    /\ state' = "paused" /\ requests' = Cancelled(handle)
    /\ UNCHANGED <<dirName, handle, event, opened, unread, call, ghosts>>

\* resumeWatching() opens another; m_state says watching even if it cannot.
Resume ==
    /\ call = "none" /\ state = "paused"
    /\ state' = "watching" /\ left' = LeftNow
    /\ \/ /\ MayOpen /\ dirName # NoDir
          /\ CreateFile(dirName)
          /\ WatchDirectory(requests, Len(opened) + 1, dirName)
       \/ handle' = 0 /\ deaf' = TRUE /\ UNCHANGED <<opened, unread, requests>>
    /\ UNCHANGED <<dirName, event, call, want, said, changes, cancelled>>

--------------------------------------------------------------------------------
(***************************************************************************)
(* completionRoutine().                                                    *)
(***************************************************************************)
\* MUTANT: a request that was aborted says nothing to stopWatching().
EventKept == event

\* The event may be one that is not there.
EventSet == IF event = "unset" THEN "set" ELSE event

Aborted(i) ==
    /\ requests[i].status = "aborted"
    /\ requests' = RemoveAt(requests, i)
    /\ event' = EventSet
    /\ UNCHANGED <<state, dirName, handle, opened, unread, call, ghosts>>

Report(i) == [name |-> dirName, of |-> opened[requests[i].handle], within |-> call]

\* changed() passes nothing on but while watching; the names are those of the
\* object, and so is the handle of the next request.
Completed(i) ==
    /\ requests[i].status = "done"
    /\ said' = IF state = "watching" THEN Report(i) ELSE said
    /\ WatchDirectory(RemoveAt(requests, i), handle, IF handle = 0 THEN NoDir ELSE opened[handle])
    /\ UNCHANGED <<state, dirName, handle, event, opened, call, want, changes,
                   left, cancelled>>

\* The client stops the watcher from its callback.
CompletedAndStopped(i) ==
    /\ requests[i].status = "done" /\ call = "none"
    /\ said' = Report(i)
    /\ state = "watching" /\ handle # 0
    /\ call' = "stop" /\ event' = "unset" /\ want' = NoDir
    /\ requests' = RemoveAt(Cancelled(handle), i) /\ cancelled' = Pending(handle)
    /\ UNCHANGED <<state, dirName, handle, opened, unread, changes, left, deaf>>

\* More changes than the buffer holds: no bytes, and no further request.
Overflown(i) ==
    /\ requests[i].status = "done"
    /\ requests' = RemoveAt(requests, i) /\ deaf' = TRUE
    /\ UNCHANGED <<state, dirName, handle, event, opened, unread, call, want, said,
                   changes, left, cancelled>>

\* Another program changes a directory.
Change(d) ==
    /\ changes < MaxChanges /\ changes' = changes + 1
    /\ LET on == {h \in DOMAIN opened : opened[h] = d}
       IN /\ requests' = [i \in DOMAIN requests |->
                 IF requests[i].handle \in on /\ requests[i].status = "pending"
                 THEN Request(requests[i].handle, "done") ELSE requests[i]]
          /\ unread' = unread \cup {h \in on : ~Pending(h)}
    /\ UNCHANGED <<state, dirName, handle, event, opened, call, want, said,
                   left, deaf, cancelled>>

Waits ==
    \/ WaitOver
    \/ \E i \in DOMAIN requests : Aborted(i) \/ Completed(i)

Next ==
    \/ StopUnstopped \/ Pause \/ Resume \/ EventFails \/ Waits
    \/ Stop("stop", NoDir) \/ StopGarbage("stop", NoDir)
    \/ \E d \in Dirs :
          StartUnstopped(d) \/ Stop("start", d) \/ StopGarbage("start", d) \/ Change(d)
    \/ \E i \in DOMAIN requests : CompletedAndStopped(i) \/ Overflown(i)

Spec == Init /\ [][Next]_vars

\* Completion routines run in alertable waits.
FairSpec == Spec /\ WF_vars(Waits)

--------------------------------------------------------------------------------
\* While it watches there is a request for the directory that the client asked for, or
\* its completion is due, unless the system has refused the last one or had too much to
\* report: also after a pause.  No handle is open but the last and those that a pause or
\* a failure has left behind.  And as long as none was left: what is reported is a
\* change in the directory it names, but for what startWatching() finds when it stops
\* the watch there was, which is reported under the new name; and when stopWatching()
\* has returned nothing is open, but what the system has refused to watch, and no
\* request is left that could write into the object.
WatchesAndStops ==
    /\ state = "watching" /\ call = "none" /\ ~deaf =>
          \E i \in DOMAIN requests :
              /\ requests[i].handle = handle /\ requests[i].status # "aborted"
              /\ opened[handle] = want
    /\ \A h \in DOMAIN opened : opened[h] # NoDir => h = handle \/ h \in left
    /\ left = {} => /\ said.name = said.of \/ said.within = "start"
                    /\ state = "stopped" => requests = <<>> /\ (handle = 0 \/ deaf)

\* The call waits for the completion of a request that it has cancelled.
Stopping == call # "none" /\ cancelled
--------------------------------------------------------------------------------
(***************************************************************************)
(* The inductive invariant behind WatchesAndStops: the handle is of the    *)
(* directory asked for, and a request for it stands while it watches; and  *)
(* if nothing was left behind there is one request at most, of the handle  *)
(* that is open, which has been aborted only if the watch was paused or    *)
(* somebody waits for that.                                                *)
(***************************************************************************)
Stands(i) == requests[i].handle = handle /\ requests[i].status # "aborted"

AsAsked ==
    /\ state # "stopped" /\ call = "none" =>
          want = dirName /\ (handle # 0 => opened[handle] = want)
    /\ state = "watching" /\ call = "none" /\ ~deaf => \E i \in DOMAIN requests : Stands(i)
    /\ \A h \in DOMAIN opened : opened[h] # NoDir => h = handle \/ h \in left

OneRequest ==
    /\ \A i \in DOMAIN requests :
          /\ i = 1 /\ requests[i].handle = handle /\ handle # 0
          /\ requests[i].status = "aborted" => state = "paused" \/ call # "none"
    /\ event = "set" \/ state = "stopped" => requests = <<>>
    /\ call # "start" /\ handle # 0 => opened[handle] = dirName
    /\ state = "stopped" => handle = 0 \/ deaf
    /\ said.name = said.of \/ said.within = "start"

Follows ==
    /\ TypeOK
    /\ requests \in Seq([handle : Handles, status : {"pending", "done", "aborted"}])
    /\ call # "none" => state = "watching" /\ handle # 0
    /\ AsAsked
    /\ left = {} => OneRequest
================================================================================
