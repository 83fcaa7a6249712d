------------------------------ MODULE MCWatchers -------------------------------
(***************************************************************************)
(* The three file watchers, for TLC: the library was built for one of      *)
(* them, which has the members of the class to itself.  FileWatcher is the *)
(* one on Qt.                                                              *)
(***************************************************************************)
EXTENDS FileWatcher, Sequences

CONSTANTS
    TwoDirs,                    \* directories of the Windows watcher
    MaxHandles, MaxChanges,     \* bounds of WindowsWatcher
    MaxRequests                 \* bound of AmigaWatcher

ASSUME BoundsAssumption ==
    NoDir \notin TwoDirs /\ MaxHandles \in Nat /\ MaxRequests \in Nat

VARIABLES
    part,                                           \* "Qt", "Windows" or "Amiga"
    handle, event, opened, unread, requests, call,  \* of WindowsWatcher
    said, changes, left, cancelled,
    request, watches, messages, abandoned           \* of AmigaWatcher

W == INSTANCE WindowsWatcher WITH Dirs <- TwoDirs
A == INSTANCE AmigaWatcher

ofQt      == <<paths, due, links, slots, reports>>
ofWindows == <<handle, event, opened, unread, requests, call, said, changes, left, cancelled>>
ofAmiga   == <<request, watches, messages, abandoned>>
both      == <<step, fileName, files, disk, seen, raced>>
all       == <<part, vars, ofWindows, ofAmiga>>

AllInit ==
    /\ \/ /\ part = "Qt" /\ Init
          /\ handle = 0 /\ event = 0 /\ opened = 0 /\ unread = 0 /\ requests = 0 /\ call = 0
          /\ said = 0 /\ changes = 0 /\ left = 0 /\ cancelled = 0
          /\ request = 0 /\ watches = 0 /\ messages = 0 /\ abandoned = 0
       \/ /\ part = "Windows" /\ W!Init
          /\ paths = 0 /\ due = 0 /\ links = 0 /\ slots = 0 /\ reports = 0
          /\ request = 0 /\ watches = 0 /\ messages = 0 /\ abandoned = 0
          /\ step = 0 /\ fileName = 0 /\ files = 0 /\ disk = 0 /\ seen = 0 /\ raced = 0
       \/ /\ part = "Amiga" /\ A!Init
          /\ paths = 0 /\ due = 0 /\ links = 0 /\ slots = 0 /\ reports = 0
          /\ handle = 0 /\ event = 0 /\ opened = 0 /\ unread = 0 /\ requests = 0 /\ call = 0
          /\ said = 0 /\ changes = 0 /\ left = 0 /\ cancelled = 0

AllNext ==
    \/ part = "Qt" /\ Next /\ UNCHANGED <<part, ofWindows, ofAmiga>>
    \/ part = "Windows" /\ W!Next /\ UNCHANGED <<part, ofQt, ofAmiga, both>>
    \/ part = "Amiga" /\ A!Next /\ UNCHANGED <<part, ofQt, ofWindows>>

\* Of each, what its own fairness says.
Serves ==
    \/ part = "Qt" /\ Watcher /\ UNCHANGED <<part, ofWindows, ofAmiga>>
    \/ part = "Windows" /\ W!Waits /\ UNCHANGED <<part, ofQt, ofAmiga, both>>
    \/ part = "Amiga" /\ A!Loop /\ UNCHANGED <<part, ofQt, ofWindows>>

AllSpec == AllInit /\ [][AllNext]_all /\ WF_all(Serves)

--------------------------------------------------------------------------------
\* What is watched is what the client asked for: on Qt, nothing was lost between the
\* listing and the watch, or while RFileWatcher was paused, but what changes within
\* resumeWatching(); on Windows and Amiga OS it is watched by one request, unless the
\* system has refused that, and stopWatching() leaves behind no more than what a pause
\* has left.
WatchIsRight ==
    CASE part = "Qt"      -> CaughtUp
      [] part = "Windows" -> W!TypeOK /\ W!WatchesAndStops
      [] part = "Amiga"   -> A!TypeOK /\ A!OneWatch

\* RQtFileWatcher reports additions and deletions once, and when they are so.
NewsIsNew == [][part = "Qt" /\ Changed /\ StartedOnce => \A r \in reports' : IsNews(r)]_all

Owes(f) == (part = "Qt" /\ Owed(f)) \/ (part = "Amiga" /\ A!Owed(f))

\* On Qt and Amiga OS, a file that is added to a watched directory, or deleted from
\* it, is reported in the end.
EveryChangeIsReported == \A f \in Files : Owes(f) ~> ~Owes(f)

WaitsToStop == part = "Windows" /\ W!Stopping

\* On Windows, stopWatching() returns if it had a request to cancel.
StopReturns == WaitsToStop ~> ~WaitsToStop
--------------------------------------------------------------------------------
\* The inductive invariants of the three watchers.
EachFollows ==
    /\ part \in {"Qt", "Windows", "Amiga"}
    /\ part = "Qt" => Follows
    /\ part = "Windows" => W!Follows
    /\ part = "Amiga" => A!Follows
================================================================================
