---------------------------- MODULE WatchersProofs -----------------------------
(***************************************************************************)
(* Theorems about the three file watchers: what is watched is what the     *)
(* client asked for, and on Qt what is reported is news.                   *)
(***************************************************************************)
EXTENDS MCWatchers, FiniteSetTheorems, SequenceTheorems, TLAPS

--------------------------------------------------------------------------------
(***************************************************************************)
(* FileWatcher, the one on Qt.                                             *)
(***************************************************************************)
LEMMA LinksAre ==
    ASSUME TypeOK
    PROVE  /\ links["directory"] \in 0 .. MaxLinks /\ links["file"] \in 0 .. MaxLinks
           /\ Started \in Nat
           /\ Started = 0 => links["directory"] = 0 /\ links["file"] = 0 /\ slots = 0
           /\ StartedOnce <=> Started \in {0, 1}
<1>1. links["directory"] \in 0 .. MaxLinks /\ links["file"] \in 0 .. MaxLinks
  BY DEF TypeOK
<1>2. links["directory"] \in Nat /\ links["file"] \in Nat /\ slots \in 0 .. Started
  BY <1>1, WatcherAssumption DEF TypeOK, Started
<1>3. Started \in Nat
  BY <1>2 DEF Started
<1>4. Started = 0 => links["directory"] = 0 /\ links["file"] = 0
  BY <1>2 DEF Started
<1>5. Started = 0 => slots = 0
  BY <1>2
<1>6. StartedOnce <=> Started \in {0, 1}
  BY <1>3 DEF Started, StartedOnce
<1> QED BY <1>1, <1>3, <1>4, <1>5, <1>6

LEMMA LinkAdded ==
    ASSUME TypeOK, Started < MaxLinks, NEW kind \in {"directory", "file"},
           links' = [links EXCEPT ![kind] = @ + 1]
    PROVE  /\ links' \in [{"directory", "file"} -> 0 .. MaxLinks]
           /\ Started' = Started + 1 /\ links'[kind] = links[kind] + 1
           /\ \A n \in 0 .. Started : n \in 0 .. Started'
<1>1. /\ links["directory"] \in Nat /\ links["file"] \in Nat /\ MaxLinks \in Nat
      /\ links \in [{"directory", "file"} -> 0 .. MaxLinks]
  BY LinksAre, WatcherAssumption DEF TypeOK
<1>2. links[kind] + 1 \in 0 .. MaxLinks
  BY <1>1 DEF Started
<1>3. links' \in [{"directory", "file"} -> 0 .. MaxLinks] /\ links'[kind] = links[kind] + 1
  BY <1>1, <1>2
<1>4. Started' = Started + 1
  BY <1>1 DEF Started
<1>5. \A n \in 0 .. Started : n \in 0 .. Started'
  BY <1>1, <1>4 DEF Started
<1> QED BY <1>3, <1>4, <1>5

LEMMA QtInit == Init => Follows
<1> SUFFICES ASSUME Init PROVE Follows OBVIOUS
<1>1. Started = 0 /\ MaxLinks \in Nat
  BY WatcherAssumption DEF Init, Started
<1>2. files \in Listing /\ disk \in [Dirs -> Listing]
  BY DEF Init, Listing
<1>3. links \in [{"directory", "file"} -> 0 .. MaxLinks] /\ slots \in 0 .. Started
  BY <1>1 DEF Init
<1>4. TypeOK
  BY <1>2, <1>3 DEF Init, TypeOK, Started
<1>5. BeforeStart
  BY DEF Init, BeforeStart, Exists
<1> QED BY <1>1, <1>4, <1>5 DEF Follows, Init

\* A step that leaves what Follows speaks of.
LEMMA QtSame ==
    ASSUME Follows, TypeOK', UNCHANGED <<state, step, names, files, paths, links, want, disk>>,
           UNCHANGED <<slots, due, seen, raced, deaf>>
    PROVE  Follows'
BY DEF Follows, Started, BeforeStart, OnDirectory, Same, SameButRaced, Exists, names

\* The type, with the lists of paths and the links in two parts.
TypeOfRest ==
    /\ state \in {"stopped", "paused", "watching"}
    /\ step \in {"idle", "starting", "resuming"}
    /\ dirName \in Dirs \cup {NoDir} /\ fileName \in Files \cup {NoName}
    /\ files \in Listing
    /\ disk \in [Dirs -> Listing]
    /\ want \in Paths \cup {Nothing}
    /\ seen \in Listing /\ raced \subseteq Files /\ deaf \in BOOLEAN
    /\ reports \subseteq [file : Files, change : {"added", "deleted", "modified"}]

TypeOfEngine ==
    /\ paths \subseteq Paths /\ due \subseteq paths
    /\ links \in [{"directory", "file"} -> 0 .. MaxLinks]
    /\ slots \in 0 .. Started

LEMMA TypeParts == TypeOK <=> TypeOfRest /\ TypeOfEngine
BY DEF TypeOK, TypeOfRest, TypeOfEngine, Started

LEMMA TypePartsNext == TypeOfRest' /\ TypeOfEngine' => TypeOK'
BY DEF TypeOK, TypeOfRest, TypeOfEngine, Started

LEMMA QtType == Follows /\ [Next]_vars => TypeOK'
<1> SUFFICES ASSUME Follows, [Next]_vars PROVE TypeOK' OBVIOUS
<1>1. TypeOK /\ TypeOfRest /\ TypeOfEngine
  BY TypeParts DEF Follows
<1>2. CASE UNCHANGED vars
  BY <1>1, <1>2 DEF vars, names, engine, caller, TypeOK
<1>3. CASE Stop
  <2>1. TypeOfRest'
    BY <1>1, <1>3 DEF Stop, Calls, NameAfterStop, TypeOfRest, Listing, Nothing
  <2>2. TypeOfEngine'
    BY <1>1, <1>3 DEF Stop, Calls, StopFirst, Unwatched, TypeOfEngine, Started
  <2> QED BY <2>1, <2>2, TypePartsNext
<1>4. CASE Pause
  <2>1. TypeOfRest'
    BY <1>1, <1>4 DEF Pause, Calls, names, TypeOfRest
  <2>2. TypeOfEngine'
    BY <1>1, <1>4 DEF Pause, Calls, TypeOfEngine, Started
  <2> QED BY <2>1, <2>2, TypePartsNext
<1>5. CASE ResumeList
  <2>1. dirName \in Dirs
    BY <1>5 DEF ResumeList, Follows
  <2>2. TypeOfRest'
    BY <1>1, <1>5, <2>1 DEF ResumeList, Calls, Refreshed, names, engine, TypeOfRest
  <2>3. TypeOfEngine'
    BY <1>1, <1>5 DEF ResumeList, Calls, engine, TypeOfEngine, Started
  <2> QED BY <2>2, <2>3, TypePartsNext
<1>6. CASE ResumeFile
  BY <1>1, <1>6 DEF ResumeFile, Calls, names, engine, TypeOK
<1>7. CASE ListDirectory
  <2>1. dirName \in Dirs /\ Started < MaxLinks /\ disk[dirName] \in Listing
    BY <1>1, <1>7 DEF ListDirectory, Follows, TypeOfRest
  <2>2. ListedOver \in Listing
    BY <1>1, <2>1 DEF ListedOver, Listing, TypeOfRest
  <2>3. TypeOfRest'
    BY <1>1, <1>7, <2>1, <2>2 DEF ListDirectory, names, TypeOfRest
  <2>4. TypeOfEngine'
    BY <1>1, <1>7, <2>1, LinkAdded DEF ListDirectory, TypeOfEngine
  <2> QED BY <2>3, <2>4, TypePartsNext
<1>8. CASE ResumeAdd
  <2>1. Path(dirName, NoName) \in Paths
    BY <1>8 DEF ResumeAdd, Follows, Path, Paths
  <2>2. TypeOfRest'
    BY <1>1, <1>8 DEF ResumeAdd, names, TypeOfRest
  <2>3. TypeOfEngine'
    BY <1>1, <1>8, <2>1 DEF ResumeAdd, TypeOfEngine, Started
  <2> QED BY <2>2, <2>3, TypePartsNext
<1>9. CASE Changed
  <2>1. Now \in Listing
    BY <1>1, WatcherAssumption DEF Now, Listing, TypeOfRest
  <2>2. /\ SnapshotAfter \in Listing /\ \A rs : [f \in Files |-> IF \E r \in rs : r.file = f
                                                                  THEN Now[f] ELSE seen[f]] \in Listing
    BY <1>1, <2>1 DEF SnapshotAfter, Listing, TypeOfRest
  <2>3. Changes \subseteq [file : Files, change : {"added", "deleted", "modified"}]
    BY <1>1 DEF Changes, Report, Deleted, Added, Modified, TypeOfRest
  <2>4. TypeOfRest'
    <3>1. files' \in Listing
      BY <1>1, <1>9, <2>2 DEF Changed, TypeOfRest
    <3>2. seen' \in Listing
      BY <1>9, <2>2 DEF Changed
    <3>3. reports' \subseteq [file : Files, change : {"added", "deleted", "modified"}]
      BY <1>9, <2>3 DEF Changed
    <3> QED BY <1>1, <1>9, <3>1, <3>2, <3>3 DEF Changed, names, TypeOfRest
  <2>5. TypeOfEngine'
    <3>1. slots - 1 \in 0 .. Started
      BY <1>1, <1>9, LinksAre DEF Changed, TypeOfEngine
    <3> QED BY <1>1, <1>9, <3>1 DEF Changed, TypeOfEngine, Started
  <2> QED BY <2>4, <2>5, TypePartsNext
<1>10. ASSUME NEW p \in Paths, Emit(p) PROVE TypeOK'
  <2>1. TypeOfRest'
    BY <1>1, <1>10 DEF Emit, Calls, names, TypeOfRest
  <2>2. Slots(p) \in 0 .. Started
    BY <1>1, LinksAre DEF Slots, Started
  <2>3. TypeOfEngine'
    BY <1>1, <1>10, <2>2 DEF Emit, TypeOfEngine, Started
  <2> QED BY <2>1, <2>3, TypePartsNext
<1>11. ASSUME NEW d \in Dirs, StartDirectory(d) PROVE TypeOK'
  <2>1. Path(d, NoName) \in Paths
    BY DEF Path, Paths
  <2>2. TypeOfRest'
    BY <1>1, <1>11, <2>1 DEF StartDirectory, Calls, NameAfterStop, TypeOfRest
  <2>3. TypeOfEngine'
    BY <1>1, <1>11, <2>1 DEF StartDirectory, Calls, StopFirst, Unwatched, TypeOfEngine, Started
  <2> QED BY <2>2, <2>3, TypePartsNext
<1>12. ASSUME NEW d \in Dirs, NEW f \in Files, StartFile(d, f) PROVE TypeOK'
  <2>1. Path(d, f) \in Paths /\ disk[d] \in Listing
    BY <1>1 DEF Path, Paths, TypeOfRest
  <2>2. TypeOfRest'
    BY <1>1, <1>12, <2>1 DEF StartFile, Calls, TypeOfRest
  <2>3. TypeOfEngine'
    <3>1. Started < MaxLinks /\ links' = [links EXCEPT !["file"] = @ + 1]
      BY <1>12 DEF StartFile, MayStart, Started
    <3>2. links' \in [{"directory", "file"} -> 0 .. MaxLinks] /\ slots' \in 0 .. Started'
      BY <1>1, <1>12, <3>1, LinkAdded DEF StartFile, TypeOfEngine
    <3> QED BY <1>1, <1>12, <2>1, <3>2 DEF StartFile, StopFirst, Unwatched, TypeOfEngine
  <2> QED BY <2>2, <2>3, TypePartsNext
<1>13. ASSUME NEW d \in Dirs, NEW f \in Files, FileChanges(d, f) PROVE TypeOK'
  <2>1. disk' \in [Dirs -> Listing]
    BY <1>1, <1>13 DEF FileChanges, Listing, TypeOfRest
  <2>2. TypeOfRest'
    BY <1>1, <1>13, <2>1 DEF FileChanges, names, TypeOfRest
  <2>3. TypeOfEngine'
    BY <1>1, <1>13 DEF FileChanges, TypeOfEngine, Started
  <2> QED BY <2>2, <2>3, TypePartsNext
<1> QED BY <1>2, <1>3, <1>4, <1>5, <1>6, <1>7, <1>8, <1>9, <1>10, <1>11, <1>12, <1>13 DEF Next, Watcher

\* As to what files there are, the new snapshot is the directory.
LEMMA SnapshotSees ==
    ASSUME NEW f \in Files
    PROVE  Exists(SnapshotAfter, f) <=> Exists(Now, f)
<1>1. ASSUME f \in Added \cup Deleted PROVE SnapshotAfter[f] = Now[f]
  BY <1>1 DEF SnapshotAfter
<1>2. ASSUME f \notin Added \cup Deleted PROVE Exists(SnapshotAfter, f) <=> Exists(Now, f)
  <2>1. SnapshotAfter[f] = files[f]
    BY <1>2 DEF SnapshotAfter
  <2>2. Exists(files, f) <=> Exists(Now, f)
    BY <1>2 DEF Added, Deleted
  <2> QED BY <2>1, <2>2 DEF Exists
<1> QED BY <1>1, <1>2 DEF Exists

LEMMA ReportsAll ==
    ASSUME fileName = NoName, NEW f \in Added \cup Deleted
    PROVE  \E r \in Changes : r.file = f
<1>1. \A c : Report(f, c).file = f
  BY DEF Report
<1>2. Report(f, "added") \in Changes \/ Report(f, "deleted") \in Changes
  <2>1. Changes = {Report(g, "deleted") : g \in Deleted}
                    \cup {Report(g, "added") : g \in Added}
                    \cup {Report(g, "modified") : g \in Modified}
    BY DEF Changes
  <2> QED BY <2>1
<1> QED BY <1>1, <1>2

LEMMA QtNext == Follows /\ [Next]_vars => Follows'
<1> SUFFICES ASSUME Follows, [Next]_vars PROVE Follows' OBVIOUS
<1>1. TypeOK /\ TypeOK'
  BY QtType DEF Follows
<1>2. CASE UNCHANGED vars
  BY <1>1, <1>2, QtSame DEF vars, names, engine, caller
<1>3. CASE Stop
  BY <1>1, <1>3 DEF Stop, Calls, StopFirst, Unwatched, NameAfterStop, Follows, Started, BeforeStart, Exists
<1>4. CASE Pause
  BY <1>1, <1>4 DEF Pause, Calls, names, Follows, Started, BeforeStart, OnDirectory, Same, SameButRaced, Exists
<1>5. CASE ResumeList
  BY <1>1, <1>5 DEF ResumeList, Calls, Refreshed, names, engine, Follows, Started, BeforeStart, OnDirectory, Same, SameButRaced, Exists
<1>6. CASE ResumeFile
  BY <1>1, <1>6 DEF ResumeFile, Calls, names, engine, Follows, Started, BeforeStart
<1>7. CASE ListDirectory
  <2>1. /\ Started' = Started + 1 /\ links'["directory"] = links["directory"] + 1
        /\ dirName \in Dirs /\ Started \in Nat
        /\ step' = "idle" /\ state' = "watching" /\ dirName' = dirName /\ fileName' = fileName
        /\ want' = want /\ paths' = paths /\ disk' = disk /\ files' = ListedOver
        /\ deaf' = deaf /\ raced' = raced
        /\ seen' = disk[dirName]
    BY <1>1, <1>7, LinkAdded, LinksAre DEF ListDirectory, Follows, names
  <2>2. ASSUME Started = 0
        PROVE  want = Path(dirName, fileName) /\ OnDirectory'
    <3>1. BeforeStart /\ links["directory"] = 0 /\ step = "starting" /\ ~deaf
      BY <1>1, <1>7, <2>2, LinksAre DEF Follows, ListDirectory, BeforeStart
    <3>2. \A f \in Files : Exists(ListedOver, f) <=> Exists(disk[dirName], f)
      BY <3>1 DEF ListedOver, Exists, BeforeStart
    <3>3. links'["directory"] = 1
      BY <2>1, <3>1
    <3> QED BY <2>1, <3>1, <3>2, <3>3 DEF OnDirectory, Same, SameButRaced, Exists, BeforeStart, Path
  <2>3. Started' # 0 /\ (Started' = 1 => Started = 0)
    BY <2>1
  <2> QED BY <1>1, <2>1, <2>2, <2>3 DEF Follows, Path
<1>8. CASE ResumeAdd
  <2>1. /\ state' = "watching" /\ step' = "idle" /\ state = "paused" /\ dirName \in Dirs
        /\ UNCHANGED <<names, files, due, links, slots, disk, want, seen, raced>>
        /\ IF deaf' THEN paths' = paths ELSE paths' = paths \cup {Path(dirName, NoName)}
        /\ step = "resuming"
    BY <1>8 DEF ResumeAdd, Follows
  <2>2. Started' = Started
    BY <2>1 DEF Started
  <2>3. Started # 0
    BY <2>1 DEF Follows, BeforeStart
  <2>4. OnDirectory => OnDirectory'
    BY <2>1 DEF OnDirectory, Same, SameButRaced, Exists, names, Path
  <2> QED BY <1>1, <2>1, <2>2, <2>3, <2>4 DEF Follows, names, Path
<1>9. CASE Changed
  <2>1. /\ UNCHANGED <<state, step, names, paths, due, links, disk, want, deaf>>
        /\ slots > 0 /\ slots' = slots - 1
    BY <1>9 DEF Changed
  <2>2. Started' = Started /\ Started # 0
    BY <1>1, <2>1, LinksAre DEF Started
  <2>3. ASSUME state # "stopped", fileName = NoName, OnDirectory PROVE OnDirectory'
    <3>1. state = "watching" /\ dirName \in Dirs /\ ~deaf
      BY <1>1, <2>1, <2>3 DEF OnDirectory, TypeOK, Follows
    <3>2. Now = disk[dirName] /\ reports' = Changes /\ files' = SnapshotAfter
      BY <1>9, <2>3, <3>1, WatcherAssumption DEF Changed, Now
    <3>3. ASSUME NEW f \in Files
          PROVE  /\ Exists(files', f) <=> Exists(disk[dirName], f)
                 /\ Exists(seen', f) <=> Exists(files', f)
      <4>1. Exists(SnapshotAfter, f) <=> Exists(Now, f)
        BY SnapshotSees
      <4>2. f \in Added \cup Deleted => \E r \in Changes : r.file = f
        BY <2>3, ReportsAll
      <4>3. seen'[f] = Now[f] \/ (seen'[f] = seen[f] /\ f \notin Added \cup Deleted)
        BY <1>9, <3>2, <4>2 DEF Changed
      <4>4. f \notin Added \cup Deleted => (Exists(files, f) <=> Exists(Now, f))
        BY DEF Added, Deleted
      <4>5. Exists(seen, f) <=> Exists(files, f)
        BY <2>3 DEF OnDirectory, Same
      <4> QED BY <3>2, <4>1, <4>3, <4>4, <4>5 DEF Exists
    <3> QED BY <2>1, <2>3, <3>1, <3>3 DEF OnDirectory, Same, SameButRaced, Exists, names, Path
  <2> QED BY <1>1, <2>1, <2>2, <2>3 DEF Follows, names, Path
<1>10. ASSUME NEW p \in Paths, Emit(p) PROVE Follows'
  <2>1. /\ UNCHANGED <<state, step, names, files, paths, links, disk, want, seen, raced, deaf>>
        /\ step = "idle" /\ p \in paths /\ slots' = Slots(p)
    BY <1>1, <1>10 DEF Emit, Calls, TypeOK
  <2>2. Started' = Started /\ Started # 0
    BY <1>1, <2>1 DEF Started, Follows, BeforeStart
  <2>3. ASSUME OnDirectory, state # "stopped" PROVE OnDirectory'
    <3>1. state = "watching" /\ p = Path(dirName, NoName) /\ ~deaf
      BY <1>1, <2>1, <2>3 DEF OnDirectory, TypeOK
    <3>2. slots' = 1
      BY <2>1, <2>3, <3>1 DEF Slots, Path, OnDirectory
    <3> QED BY <2>1, <2>3, <3>1, <3>2 DEF OnDirectory, Same, SameButRaced, Exists, names, Path
  <2> QED BY <1>1, <2>1, <2>2, <2>3 DEF Follows, names, Path
<1>11. ASSUME NEW d \in Dirs, StartDirectory(d) PROVE Follows'
  <2>1. /\ dirName' = d /\ state' = "stopped" /\ files' = files /\ links' = links
        /\ Started < MaxLinks /\ step = "idle"
        /\ \/ /\ step' = "starting" /\ want' = Path(d, NoName) /\ ~deaf'
              /\ paths' = StopFirst(paths) \cup {Path(d, NoName)}
           \/ step' = "idle" /\ paths' = StopFirst(paths)
    BY <1>11 DEF StartDirectory, Calls, MayStart, Started
  <2>2. Started' = Started
    BY <2>1 DEF Started
  <2>3. Started = 0 => BeforeStart'
    <3> SUFFICES ASSUME Started = 0 PROVE BeforeStart' OBVIOUS
    <3>1. BeforeStart
      BY DEF Follows
    <3>2. StopFirst(paths) = {} /\ fileName' = NoName
      BY <1>11, <2>1, <3>1 DEF StartDirectory, BeforeStart, StopFirst, NameAfterStop
    <3> QED BY <2>1, <3>1, <3>2 DEF BeforeStart, Exists, Path
  <2> QED BY <1>1, <2>1, <2>2, <2>3 DEF Follows
<1>12. ASSUME NEW d \in Dirs, NEW f \in Files, StartFile(d, f) PROVE Follows'
  <2>1. /\ Started < MaxLinks /\ links' = [links EXCEPT !["file"] = @ + 1] /\ step' = step
        /\ step = "idle" /\ dirName' = d /\ fileName' = f /\ want' = Path(d, f)
        /\ state' = "watching"
    BY <1>12 DEF StartFile, Calls, MayStart, Started
  <2>2. Started' = Started + 1 /\ Started \in Nat
    BY <1>1, <2>1, LinkAdded, LinksAre
  <2>3. Started' # 0
    BY <2>2
  <2> QED BY <1>1, <2>1, <2>3, WatcherAssumption DEF Follows, Path
<1>13. ASSUME NEW d \in Dirs, NEW f \in Files, FileChanges(d, f) PROVE Follows'
  <2>1. /\ UNCHANGED <<state, step, names, files, paths, links, slots, want, seen, deaf>>
        /\ raced' = IF step = "resuming" THEN raced \cup {f} ELSE raced
    BY <1>13 DEF FileChanges
  <2>2. Started' = Started
    BY <2>1 DEF Started
  <2>3. BeforeStart => BeforeStart'
    BY <2>1 DEF BeforeStart, Exists, Path, names
  <2>4. ASSUME OnDirectory, state # "stopped", dirName \in Dirs PROVE OnDirectory'
    <3>1. ASSUME state = "watching", ~deaf, due' = {}
          PROVE  due = {} /\ Same(disk[dirName], disk'[dirName])
      <4>1. PICK s \in (Stamps \cup {Absent}) \ {disk[d][f]} :
               /\ disk' = [disk EXCEPT ![d][f] = s]
               /\ due' = due \cup (paths \cap Affected(d, f, Exists(disk[d], f) /\ s # Absent))
        BY <1>13 DEF FileChanges
      <4>2. due = {} /\ Path(dirName, NoName) \notin Affected(d, f, Exists(disk[d], f) /\ s # Absent)
        BY <2>4, <3>1, <4>1 DEF OnDirectory
      <4>3. d = dirName => Exists(disk[d], f) /\ s # Absent
        BY <4>2 DEF Affected
      <4>4. \A g \in Files : disk'[dirName][g] = IF g = f /\ d = dirName THEN s ELSE disk[dirName][g]
        BY <1>1, <2>4, <4>1 DEF TypeOK, Listing
      <4> QED BY <4>2, <4>3, <4>4 DEF Same, Exists
    <3>2. CASE state = "watching"
      <4>1. ~deaf /\ slots' = 0 /\ due' = {} => SameButRaced(files, disk[dirName])'
        <5> SUFFICES ASSUME ~deaf, slots' = 0, due' = {}, NEW g \in Files \ raced'
                     PROVE  Exists(files, g) <=> Exists(disk'[dirName], g)
          BY <2>1 DEF SameButRaced, names, Exists
        <5>1. Same(disk[dirName], disk'[dirName]) /\ SameButRaced(files, disk[dirName])
          BY <2>1, <2>4, <3>1, <3>2 DEF OnDirectory
        <5>2. g \in Files \ raced
          BY <2>1
        <5> QED BY <5>1, <5>2 DEF Same, SameButRaced
      <4> QED BY <2>1, <2>4, <3>2, <4>1 DEF OnDirectory, Same, SameButRaced, Exists, names, Path
    <3>3. CASE state = "paused"
      <4>1. ASSUME step = "resuming", NEW g \in Files \ raced'
            PROVE  Exists(files, g) <=> Exists(disk'[dirName], g)
        <5>1. g # f /\ g \in Files \ raced
          BY <2>1, <4>1
        <5>2. disk'[dirName][g] = disk[dirName][g]
          BY <1>1, <1>13, <2>4, <5>1 DEF FileChanges, TypeOK, Listing
        <5> QED BY <2>4, <3>3, <4>1, <5>1, <5>2 DEF OnDirectory, SameButRaced, Exists
      <4>2. step' = "resuming" => SameButRaced(files, disk[dirName])'
        BY <2>1, <4>1 DEF SameButRaced, Exists, names
      <4> QED BY <2>1, <2>4, <3>3, <4>2 DEF OnDirectory, Same, Exists, names
    <3> QED BY <1>1, <2>4, <3>2, <3>3 DEF TypeOK
  <2> QED BY <1>1, <2>1, <2>2, <2>3, <2>4 DEF Follows, names, Path
<1> QED BY <1>2, <1>3, <1>4, <1>5, <1>6, <1>7, <1>8, <1>9, <1>10, <1>11, <1>12, <1>13 DEF Next, Watcher

\* Follows is enough for both properties.
LEMMA QtCaughtUp == Follows => CaughtUp
<1> SUFFICES ASSUME Follows, StartedOnce, ~deaf, WatchesDirectory, slots = 0, due = {}
             PROVE  \A f \in Files \ raced : Exists(seen, f) <=> Exists(disk[want.dir], f)
  BY DEF Follows, CaughtUp
<1>1. Started \in {0, 1} /\ state = "watching" /\ want.file = NoName
  BY LinksAre DEF Follows, WatchesDirectory
<1>2. want = Path(dirName, fileName) /\ (fileName = NoName => OnDirectory)
  BY <1>1 DEF Follows, BeforeStart
<1>3. OnDirectory /\ want.dir = dirName
  BY <1>1, <1>2 DEF Path
<1> QED BY <1>1, <1>3 DEF OnDirectory, Same, SameButRaced

LEMMA QtNews ==
    ASSUME Follows, Changed, StartedOnce, NEW r \in reports'
    PROVE  IsNews(r)
<1>1. /\ Started \in {0, 1} /\ Started # 0 /\ TypeOK
  BY LinksAre DEF Follows, Changed
<1>2. state = "watching" /\ r \in Changes
  BY DEF Changed
<1>3. want = Path(dirName, fileName) /\ dirName \in Dirs /\ (fileName = NoName => OnDirectory)
  BY <1>1, <1>2 DEF Follows
<1>4. CASE fileName # NoName
  BY <1>2, <1>4 DEF Changes, Report, IsNews
<1>5. CASE fileName = NoName
  <2>1. Same(seen, files) /\ want.dir = dirName /\ Now = disk[dirName]
    BY <1>3, <1>5, WatcherAssumption DEF OnDirectory, Path, Now
  <2>2. /\ r.change = "added" => r.file \in Added
        /\ r.change = "deleted" => r.file \in Deleted
    BY <1>2, <1>5 DEF Changes, Report
  <2>3. \A f \in Added : Exists(Now, f) /\ ~Exists(files, f) /\ f \in Files
    BY DEF Added
  <2>4. \A f \in Deleted : ~Exists(Now, f) /\ Exists(files, f) /\ f \in Files
    BY DEF Deleted
  <2> QED BY <2>1, <2>2, <2>3, <2>4 DEF IsNews, Same
<1> QED BY <1>4, <1>5


--------------------------------------------------------------------------------
(***************************************************************************)
(* AmigaWatcher.                                                           *)
(***************************************************************************)
LEMMA AmiInit == A!Init => A!Follows
<1> SUFFICES ASSUME A!Init PROVE A!Follows OBVIOUS
<1>1. DOMAIN watches = 1 .. 0 /\ 0 \in 0 .. MaxRequests
  BY BoundsAssumption DEF A!Init
<1>2. A!NoFiles \in A!Listing /\ A!NoPath \in A!Names
  BY DEF A!NoFiles, A!Listing, A!NoPath, A!Path, A!Names
<1>3. watches \in [DOMAIN watches -> A!Names]
  BY <1>1 DEF A!Init
<1>4. A!TypeOK
  BY <1>1, <1>2 DEF A!Init, A!TypeOK, A!Listing, A!NoPath, A!Path
<1>5. A!OnlyTheLast
  BY <1>1 DEF A!Init, A!OnlyTheLast
<1> QED BY <1>1, <1>2, <1>3, <1>4, <1>5 DEF A!Init, A!Follows

LEMMA AmiNames ==
    ASSUME NEW d \in Dirs, NEW f \in Files
    PROVE  /\ A!Path(d, f) \in A!Names /\ A!Path(d, NoName) \in A!Names
           /\ A!NoPath \in A!Names
           /\ A!Path(d, f) # A!NoPath /\ A!Path(d, NoName) # A!NoPath
BY WatcherAssumption DEF A!Path, A!NoPath, A!Names

\* EndNotify().
LEMMA AmiEnded ==
    ASSUME A!Follows, A!EndNotify(request)
    PROVE  /\ DOMAIN watches' = DOMAIN watches
           /\ watches' \in [DOMAIN watches -> A!Names]
           /\ messages' = messages \ {request}
           /\ \A r \in DOMAIN watches : watches'[r] = IF r = request THEN A!NoPath ELSE watches[r]
<1>1. A!NoPath \in A!Names
  BY DEF A!NoPath, A!Path, A!Names
<1>2. CASE request = 0
  BY <1>2 DEF A!EndNotify, A!Follows
<1>3. CASE request # 0
  BY <1>1, <1>3 DEF A!EndNotify, A!Follows
<1> QED BY <1>2, <1>3


\* RAmiFileWatcher::stopWatching() leaves nothing watched.
LEMMA AmiStopped ==
    ASSUME A!Follows, A!Stopped, state' = "stopped", step' = "idle", want' = A!NoPath,
           disk' = disk, seen' \in A!Listing, abandoned' \in BOOLEAN, abandoned => abandoned',
           raced' \subseteq Files, deaf' \in BOOLEAN
    PROVE  A!Follows'
<1>1. /\ A!EndNotify(request) /\ request' = 0 /\ files' = A!NoFiles
      /\ dirName' = NoDir /\ fileName' = A!NoPath
  BY DEF A!Stopped
<1>2. /\ DOMAIN watches' = DOMAIN watches /\ watches' \in [DOMAIN watches -> A!Names]
      /\ messages' = messages \ {request}
      /\ \A r \in DOMAIN watches : watches'[r] = IF r = request THEN A!NoPath ELSE watches[r]
  BY <1>1, AmiEnded
<1>3. A!NoFiles \in A!Listing /\ A!NoPath \in A!Names
  BY DEF A!NoFiles, A!Listing, A!NoPath, A!Path, A!Names
<1>4. A!TypeOK'
  BY <1>1, <1>2, <1>3, BoundsAssumption DEF A!Follows, A!TypeOK, A!Listing, A!NoPath, A!Path
<1>5. ~abandoned' => A!OnlyTheLast'
  BY <1>1, <1>2 DEF A!Follows, A!OnlyTheLast, A!NoPath, A!Path
<1>6. \A r \in messages' : watches'[r].dir \in Dirs
  BY <1>2 DEF A!Follows, A!TypeOK
<1> QED BY <1>1, <1>2, <1>3, <1>4, <1>5, <1>6 DEF A!Follows, A!NoPath, A!Path, A!Names

LEMMA AmiStop == A!Follows /\ A!Stop => A!Follows'
<1> SUFFICES ASSUME A!Follows, A!Stop PROVE A!Follows' OBVIOUS
<1>1. /\ state' = "stopped" /\ want' = A!NoPath /\ step = "idle" /\ A!TypeOK
      /\ UNCHANGED <<step, disk, seen, raced, deaf>> /\ abandoned' = (abandoned \/ state = "paused")
  BY DEF A!Stop, A!Follows
<1>2. CASE state = "watching"
  <2>1. A!Stopped
    BY <1>2 DEF A!Stop
  <2> QED BY <1>1, <2>1, AmiStopped DEF A!TypeOK
<1>3. CASE state # "watching"
  <2>1. UNCHANGED A!native
    BY <1>3 DEF A!Stop
  <2>2. A!NoPath \in A!Names
    BY DEF A!NoPath, A!Path, A!Names
  <2>3. A!TypeOK'
    BY <1>1, <2>1 DEF A!TypeOK, A!native, A!Listing
  <2>4. ASSUME ~abandoned' PROVE A!OnlyTheLast'
    <3>1. state = "stopped" /\ ~abandoned
      BY <1>1, <1>3, <2>4 DEF A!TypeOK
    <3> QED BY <1>1, <2>1, <3>1 DEF A!Follows, A!OnlyTheLast, A!native, A!NoPath, A!Path
  <2> QED BY <1>1, <2>1, <2>2, <2>3, <2>4 DEF A!Follows, A!native, A!Names
<1> QED BY <1>2, <1>3

LEMMA AmiCount == \A S : A!Cardinality(S) = Cardinality(S)
BY DEF A!Cardinality, Cardinality

LEMMA AmiStart == A!Follows /\ (\E d \in Dirs : \E f \in Files \cup {NoName} : A!Start(d, f)) => A!Follows'
<1> SUFFICES ASSUME A!Follows, NEW d \in Dirs, NEW f \in Files \cup {NoName}, A!Start(d, f)
             PROVE  A!Follows'
  OBVIOUS
<1>0. /\ step = "idle" /\ Cardinality(DOMAIN watches) < MaxRequests
      /\ seen' = disk[d] /\ abandoned' = (abandoned \/ state = "paused") /\ disk' = disk
      /\ raced' = {} /\ deaf' = FALSE
  BY AmiCount DEF A!Start
<1> DEFINE new   == Cardinality(DOMAIN watches) + 1
           ended == [r \in DOMAIN watches |->
                        IF r = request /\ state = "watching" THEN A!NoPath ELSE watches[r]]
           name  == A!NameOf(d, f)
           what  == IF name = A!NoPath THEN A!Path(d, NoName) ELSE name
           Made  == /\ watches' = [r \in DOMAIN watches \cup {new} |-> IF r = new THEN what ELSE ended[r]]
                    /\ messages' = IF state = "watching" THEN messages \ {request} ELSE messages
                    /\ request' = new /\ dirName' = d /\ fileName' = name
                    /\ files' = IF state = "watching" THEN A!NoFiles ELSE files
                    /\ step' = IF name = A!NoPath THEN "starting" ELSE "idle"
                    /\ state' = IF name = A!NoPath THEN "stopped" ELSE "watching"
                    /\ want' = A!Path(d, f)
<1>1. /\ step = "idle" /\ Cardinality(DOMAIN watches) < MaxRequests
      /\ seen' = disk[d] /\ abandoned' = (abandoned \/ state = "paused") /\ disk' = disk
      /\ raced' = {} /\ deaf' = FALSE
      /\ Made \/ (A!Stopped /\ step' = "idle" /\ state' = "stopped" /\ want' = A!NoPath)
  <2>2. Made \/ (A!Stopped /\ step' = "idle" /\ state' = "stopped" /\ want' = A!NoPath)
    BY AmiCount DEF A!Start
  <2> QED BY <1>0, <2>2
<1>2. /\ A!TypeOK /\ disk[d] \in A!Listing /\ A!NoFiles \in A!Listing
      /\ A!NoPath \in A!Names /\ A!Path(d, f) \in A!Names /\ A!Path(d, NoName) \in A!Names
      /\ A!Path(d, NoName) # A!NoPath /\ A!Path(d, f) # A!NoPath
      /\ fileName \in A!Names
  BY WatcherAssumption DEF A!Follows, A!TypeOK, A!Listing, A!NoFiles, A!Path, A!NoPath, A!Names
<1>3. PICK n \in 0 .. MaxRequests : DOMAIN watches = 1 .. n
  BY DEF A!Follows
<1>4. new = n + 1 /\ n < MaxRequests /\ n \in Nat
  <2>1. Cardinality(1 .. n) = n /\ n \in Nat
    BY <1>3, FS_Interval, BoundsAssumption
  <2> QED BY <1>1, <1>3, <2>1
<1>5. DOMAIN watches \cup {new} = 1 .. n + 1 /\ new \notin DOMAIN watches /\ new # 0
      /\ n + 1 \in 0 .. MaxRequests
  BY <1>3, <1>4, BoundsAssumption
<1> HIDE DEF new
<1>6. name \in A!Names /\ what \in A!Names /\ what # A!NoPath
  BY <1>2 DEF A!NameOf
<1>7. CASE Made
  <2>1. /\ DOMAIN watches' = 1 .. n + 1 /\ watches' \in [DOMAIN watches' -> A!Names]
        /\ watches'[new] = what
        /\ \A r \in DOMAIN watches : watches'[r] = ended[r]
        /\ DOMAIN watches' = DOMAIN watches \cup {new}
    BY <1>2, <1>5, <1>6, <1>7 DEF A!Follows
  <2>2. A!TypeOK'
    <3>1. files' \in A!Listing /\ messages' \subseteq DOMAIN watches'
      BY <1>2, <1>7, <2>1 DEF A!TypeOK
    <3>2. request' \in 0 .. MaxRequests /\ fileName' \in A!Names
      BY <1>4, <1>5, <1>6, <1>7
    <3>3. state' \in {"stopped", "watching"} /\ step' \in {"idle", "starting"}
      BY <1>7
    <3> QED BY <1>1, <1>2, <1>7, <3>1, <3>2, <3>3 DEF A!TypeOK, A!Names, A!Listing
  <2>3. name = A!NoPath => what = A!Path(d, NoName)
    OBVIOUS
  <2>4. name # A!NoPath => what = name
    OBVIOUS
  <2>5. ASSUME ~abandoned' PROVE A!OnlyTheLast'
    <3>1. state \in {"stopped", "watching"} /\ A!OnlyTheLast
      BY <1>1, <1>2, <2>5 DEF A!TypeOK, A!Follows
    <3>2. /\ messages' = {} 
          /\ \A r \in DOMAIN watches : ended[r] = A!NoPath
      <4>1. CASE state = "watching"
        BY <1>7, <3>1, <4>1 DEF A!OnlyTheLast
      <4>2. CASE state = "stopped"
        <5>1. request = 0 /\ messages \subseteq DOMAIN watches /\ 0 \notin DOMAIN watches
          BY <1>1, <1>2, <1>3, <1>4, <3>1, <4>2 DEF A!OnlyTheLast, A!TypeOK
        <5> QED BY <1>7, <3>1, <4>2, <5>1 DEF A!OnlyTheLast
      <4> QED BY <3>1, <4>1, <4>2
    <3>3. name = IF f # NoName THEN A!Path(d, f) ELSE A!NoPath
      BY <1>1, <3>1 DEF A!NameOf, A!OnlyTheLast
    <3>4. want' = what /\ (name = A!NoPath => want' = A!Path(d, NoName))
      BY <1>2, <1>7, <3>3
    <3>5. A!Watched' = what
      BY <1>7 DEF A!Watched, A!Path, A!NoPath
    <3>6. \A r \in DOMAIN watches' : r # request' => watches'[r] = A!NoPath
      BY <1>5, <1>7, <2>1, <3>2
    <3> HIDE DEF what, name
    <3>7. /\ request' = new /\ fileName' = name /\ dirName' = d
          /\ state' = "stopped" => step' = "starting" /\ name = A!NoPath
          /\ step' = "starting" => name = A!NoPath
          /\ state' # "paused"
      BY <1>7
    <3> QED BY <1>5, <2>1, <3>2, <3>4, <3>5, <3>6, <3>7 DEF A!OnlyTheLast, A!NoPath, A!Path
  <2>6. ASSUME NEW r \in messages' PROVE watches'[r].dir \in Dirs
    <3>1. r \in messages /\ (state = "watching" => r # request) /\ r \in DOMAIN watches
      BY <1>2, <1>7, <2>6 DEF A!TypeOK
    <3>2. watches'[r] = watches[r]
      BY <2>1, <3>1
    <3> QED BY <3>1, <3>2 DEF A!Follows
  <2> QED BY <1>1, <1>2, <1>5, <1>7, <2>1, <2>2, <2>5, <2>6 DEF A!Follows, A!Names
<1>8. CASE A!Stopped /\ step' = "idle" /\ state' = "stopped" /\ want' = A!NoPath
  BY <1>1, <1>2, <1>8, AmiStopped
<1> QED BY <1>1, <1>7, <1>8


LEMMA AmiNext == A!Follows /\ [A!Next]_(A!vars) => A!Follows'
<1> SUFFICES ASSUME A!Follows, [A!Next]_(A!vars) PROVE A!Follows' OBVIOUS
<1>1. A!TypeOK /\ abandoned \in BOOLEAN
  BY DEF A!Follows
<1>2. CASE UNCHANGED A!vars
  <2>1. /\ UNCHANGED <<state, step, dirName, fileName, files, request, watches, messages>>
        /\ UNCHANGED <<disk, want, seen, raced, deaf, abandoned>>
    BY <1>2 DEF A!vars, A!native, A!client
  <2>2. A!TypeOK'
    BY <1>1, <2>1 DEF A!TypeOK, A!Listing
  <2> QED BY <2>1, <2>2 DEF A!Follows, A!OnlyTheLast, A!Watched, A!Path, A!NoPath, A!Names
<1>3. CASE A!Stop
  BY <1>3, AmiStop
<1>4. CASE \E d \in Dirs : \E f \in Files \cup {NoName} : A!Start(d, f)
  BY <1>4, AmiStart
<1>5. CASE A!ListAfter
  <2>1. step = "starting" /\ step' = "idle" /\ UNCHANGED <<disk, raced, deaf, abandoned>>
        /\ dirName \in Dirs /\ state = "stopped"
    BY <1>5 DEF A!ListAfter, A!Follows
  <2>2. CASE A!Stopped /\ state' = "stopped" /\ want' = A!NoPath /\ seen' = seen
    BY <1>1, <2>1, <2>2, AmiStopped DEF A!TypeOK
  <2>3. CASE /\ files' = disk[dirName] /\ state' = "watching" /\ seen' = disk[dirName]
             /\ UNCHANGED <<dirName, fileName, request, watches, messages, want>>
    <3>1. A!TypeOK'
      BY <1>1, <2>1, <2>3 DEF A!TypeOK, A!Listing
    <3> QED BY <1>1, <2>1, <2>3, <3>1
            DEF A!Follows, A!OnlyTheLast, A!Watched, A!Path, A!NoPath, A!Names
  <2> QED BY <1>5, <2>2, <2>3 DEF A!ListAfter
<1>6. CASE A!Pause
  <2>1. /\ step = "idle" /\ state = "watching" /\ state' = "paused"
        /\ UNCHANGED <<step, dirName, fileName, files, request, disk, want, seen, raced, deaf, abandoned>>
    BY <1>6 DEF A!Pause, A!client
  <2>2. CASE fileName = A!NoPath
    <3>1. /\ DOMAIN watches' = DOMAIN watches /\ watches' \in [DOMAIN watches -> A!Names]
          /\ messages' = messages \ {request}
          /\ \A r \in DOMAIN watches : watches'[r] = IF r = request THEN A!NoPath ELSE watches[r]
      BY <1>6, <2>2, AmiEnded DEF A!Pause
    <3>2. A!TypeOK' /\ \A r \in messages' : watches'[r].dir \in Dirs
      BY <1>1, <2>1, <3>1 DEF A!TypeOK, A!Listing, A!Follows
    <3>3. ~abandoned' => A!OnlyTheLast'
      BY <2>1, <2>2, <3>1 DEF A!Follows, A!OnlyTheLast, A!Watched, A!Path, A!NoPath
    <3> QED BY <1>1, <2>1, <2>2, <3>1, <3>2, <3>3 DEF A!Follows, A!Path, A!NoPath, A!Names
  <2>3. CASE fileName # A!NoPath
    <3>1. UNCHANGED <<watches, messages>>
      BY <1>6, <2>3 DEF A!Pause
    <3>2. A!TypeOK'
      BY <1>1, <2>1, <3>1 DEF A!TypeOK, A!Listing
    <3> QED BY <1>1, <2>1, <2>3, <3>1, <3>2
            DEF A!Follows, A!OnlyTheLast, A!Watched, A!Path, A!NoPath, A!Names
  <2> QED BY <2>2, <2>3
<1>7. CASE A!ResumeFirst
  <2>1. /\ step = "idle" /\ state = "paused" /\ dirName \in Dirs
        /\ UNCHANGED <<dirName, fileName, request, watches, messages, disk, want, abandoned>>
    BY <1>7 DEF A!ResumeFirst, A!Follows
  <2>2. CASE fileName # A!NoPath
    <3>1. state' = "watching" /\ UNCHANGED <<step, files, seen, raced, deaf>>
      BY <1>7, <2>2 DEF A!ResumeFirst
    <3>2. A!TypeOK'
      BY <1>1, <2>1, <3>1 DEF A!TypeOK, A!Listing
    <3> QED BY <1>1, <2>1, <2>2, <3>1, <3>2
            DEF A!Follows, A!OnlyTheLast, A!Watched, A!Path, A!NoPath, A!Names
  <2>3. CASE fileName = A!NoPath
    <3>1. PICK read \in SUBSET Files :
             /\ files' = [f \in Files |-> IF f \in read THEN disk[dirName][f] ELSE Absent]
             /\ deaf' = (read # Files)
      BY <1>7, <2>3 DEF A!ResumeFirst
    <3>2. state' = state /\ step' = "resuming" /\ seen' = disk[dirName] /\ raced' = {}
      BY <1>7, <2>3 DEF A!ResumeFirst
    <3>3. disk[dirName] \in A!Listing
      BY <1>1, <2>1 DEF A!TypeOK
    <3>4. files' \in A!Listing
      BY <3>1, <3>3 DEF A!Listing
    <3>5. A!TypeOK'
      BY <1>1, <2>1, <3>1, <3>2, <3>3, <3>4 DEF A!TypeOK, A!Listing
    <3> QED BY <1>1, <2>1, <2>3, <3>2, <3>5
            DEF A!Follows, A!OnlyTheLast, A!Watched, A!Path, A!NoPath, A!Names
  <2> QED BY <2>2, <2>3
<1>8. CASE A!ResumeThen
  <2>1. /\ step = "resuming" /\ step' = "idle" /\ state' = "watching" /\ state = "paused"
        /\ UNCHANGED <<dirName, fileName, files, request, messages, disk, want, seen, raced, abandoned>>
        /\ dirName \in Dirs /\ fileName = A!NoPath
    BY <1>8 DEF A!ResumeThen, A!Follows
  <2>2. A!Watched \in A!Names
    BY <1>1, <2>1 DEF A!Watched, A!Path, A!Names, A!TypeOK
  <2>3. CASE watches' = watches /\ deaf' = TRUE
    <3>1. A!TypeOK'
      BY <1>1, <2>1, <2>3 DEF A!TypeOK, A!Listing
    <3>2. ~abandoned' => A!OnlyTheLast'
      <4> SUFFICES ASSUME ~abandoned' PROVE A!OnlyTheLast' OBVIOUS
      <4>1. A!OnlyTheLast /\ A!Watched' = A!Watched
        BY <2>1 DEF A!Follows, A!Watched, A!Path, A!NoPath
      <4>2. watches[request] = A!NoPath
        BY <2>1, <4>1 DEF A!OnlyTheLast
      <4> QED BY <2>1, <2>3, <4>1, <4>2 DEF A!OnlyTheLast, A!NoPath, A!Path
    <3> QED BY <1>1, <2>1, <2>3, <3>1, <3>2 DEF A!Follows, A!Names, A!NoPath, A!Path
  <2>4. CASE /\ watches' = IF request = 0 THEN watches ELSE [watches EXCEPT ![request] = A!Watched]
             /\ deaf' = deaf
    <3>1. /\ DOMAIN watches' = DOMAIN watches /\ watches' \in [DOMAIN watches -> A!Names]
          /\ \A r \in DOMAIN watches : watches'[r] = IF r = request THEN A!Watched ELSE watches[r]
      <4>1. CASE request = 0
        <5>1. watches' = watches /\ 0 \notin DOMAIN watches
          BY <2>4, <4>1 DEF A!Follows
        <5> QED BY <4>1, <5>1 DEF A!Follows
      <4>2. CASE request # 0
        BY <2>2, <2>4, <4>2 DEF A!Follows
      <4> QED BY <4>1, <4>2
    <3>2. A!TypeOK'
      BY <1>1, <2>1, <2>4, <3>1 DEF A!TypeOK, A!Listing
    <3>3. ~abandoned' => A!OnlyTheLast'
      BY <2>1, <3>1 DEF A!Follows, A!OnlyTheLast, A!Watched, A!Path, A!NoPath
    <3>4. ASSUME NEW r \in messages' PROVE watches'[r].dir \in Dirs
      <4>1. r \in DOMAIN watches /\ watches[r].dir \in Dirs /\ A!Watched.dir \in Dirs
        BY <1>1, <2>1, <3>4 DEF A!Follows, A!TypeOK, A!Watched, A!Path
      <4> QED BY <3>1, <4>1
    <3> QED BY <1>1, <2>1, <3>1, <3>2, <3>3, <3>4 DEF A!Follows, A!Names, A!NoPath, A!Path
  <2> QED BY <1>8, <2>3, <2>4 DEF A!ResumeThen
<1>9. CASE A!Changed
  <2>1. /\ messages' = messages \ {request} /\ step = "idle" /\ request \in messages /\ raced' = {}
        /\ UNCHANGED <<state, step, dirName, fileName, request, watches, disk, want, deaf, abandoned>>
    BY <1>9 DEF A!Changed
  <2> DEFINE now == disk[watches[request].dir]
             news == IF fileName = A!NoPath THEN A!Reported(now) ELSE {fileName.file}
  <2>2. now \in A!Listing
    BY <1>1, <2>1 DEF A!Follows, A!TypeOK
  <2>3. /\ files' = IF fileName = A!NoPath THEN A!Compared(now) ELSE files
        /\ seen' = [f \in Files |-> IF f \in news /\ state = "watching" THEN now[f] ELSE seen[f]]
    BY <1>9 DEF A!Changed
  <2> HIDE DEF now, news
  <2>4. A!Compared(now) \in A!Listing
    BY <1>1, <2>2 DEF A!Compared, A!Listing, A!TypeOK
  <2>5. seen' \in A!Listing
    BY <1>1, <2>2, <2>3 DEF A!Listing, A!TypeOK
  <2>6. A!TypeOK'
    BY <1>1, <2>1, <2>3, <2>4, <2>5 DEF A!TypeOK, A!Listing
  <2> QED BY <1>1, <2>1, <2>6 DEF A!Follows, A!OnlyTheLast, A!Watched, A!Path, A!NoPath, A!Names
<1>10. ASSUME NEW d \in Dirs, NEW f \in Files, A!FileChanges(d, f) PROVE A!Follows'
  <2>1. /\ UNCHANGED <<state, step, dirName, fileName, files, request, watches, want, seen, deaf, abandoned>>
        /\ raced' \in {raced, raced \cup {f}}
        /\ messages' = messages \cup
             {r \in DOMAIN watches : watches[r] \in {A!Path(d, NoName), A!Path(d, f)}}
    BY <1>10 DEF A!FileChanges
  <2>2. disk' \in [Dirs -> A!Listing]
    BY <1>1, <1>10 DEF A!FileChanges, A!TypeOK, A!Listing
  <2>3. A!TypeOK'
    BY <1>1, <2>1, <2>2 DEF A!TypeOK, A!Listing
  <2>4. A!NoPath \notin {A!Path(d, NoName), A!Path(d, f)}
    BY AmiNames
  <2>5. ~abandoned' => A!OnlyTheLast'
    BY <2>1, <2>4 DEF A!Follows, A!OnlyTheLast, A!Watched, A!Path, A!NoPath
  <2> QED BY <1>1, <2>1, <2>3, <2>5 DEF A!Follows, A!Names, A!NoPath, A!Path
<1>11. CASE A!ChangedUnread
  <2>1. /\ messages' = messages \ {request}
        /\ raced' = raced \cup A!Reported(disk[watches[request].dir])
        /\ UNCHANGED <<state, step, dirName, fileName, files, request, watches, disk, want, seen,
                       deaf, abandoned>>
    BY <1>11 DEF A!ChangedUnread
  <2>2. A!Reported(disk[watches[request].dir]) \subseteq Files
    BY DEF A!Reported
  <2>3. A!TypeOK'
    BY <1>1, <2>1, <2>2 DEF A!TypeOK, A!Listing
  <2> QED BY <1>1, <2>1, <2>3 DEF A!Follows, A!OnlyTheLast, A!Watched, A!Path, A!NoPath, A!Names
<1> QED BY <1>2, <1>3, <1>4, <1>5, <1>6, <1>7, <1>8, <1>9, <1>10, <1>11 DEF A!Next, A!Loop

LEMMA AmiOneWatch == A!Follows => A!TypeOK /\ A!OneWatch
BY DEF A!Follows, A!OnlyTheLast, A!OneWatch


--------------------------------------------------------------------------------
(***************************************************************************)
(* WindowsWatcher.                                                         *)
(***************************************************************************)
WinRequests == Seq([handle : W!Handles, status : {"pending", "done", "aborted"}])

WinOpened(o) == /\ o \in Seq(TwoDirs \cup {NoDir})
                /\ Len(o) \in Nat /\ Len(o) <= MaxHandles

LEMMA WinBounded ==
    ASSUME NEW o
    PROVE  o \in W!BoundedSeq(TwoDirs \cup {NoDir}, MaxHandles) <=> WinOpened(o)
<1> DEFINE S == TwoDirs \cup {NoDir}
<1>1. W!BoundedSeq(S, MaxHandles) = UNION {[1 .. m -> S] : m \in 0 .. MaxHandles}
  BY DEF W!BoundedSeq, W!SeqOf
<1>2. ASSUME NEW m \in 0 .. MaxHandles, o \in [1 .. m -> S] PROVE WinOpened(o)
  BY <1>2, BoundsAssumption DEF WinOpened
<1>3. ASSUME WinOpened(o)
      PROVE  \E m \in 0 .. MaxHandles : o \in [1 .. m -> S]
  BY <1>3, BoundsAssumption DEF WinOpened
<1> HIDE DEF S
<1>4. o \in W!BoundedSeq(S, MaxHandles) <=> \E m \in 0 .. MaxHandles : o \in [1 .. m -> S]
  BY <1>1
<1> QED BY <1>2, <1>3, <1>4 DEF S

LEMMA WinIndex ==
    ASSUME NEW n \in Nat, NEW i \in 1 .. n, NEW j \in 1 .. n
    PROVE  /\ j < i => /\ j \in 1 .. i - 1 /\ j <= i - 1
                       /\ j \in 1 .. (i - 1) + (n - i)
           /\ j > i => /\ j - i \in 1 .. n - i /\ i + (j - i) = j
                       /\ j - 1 \in 1 .. (i - 1) + (n - i)
                       /\ ~(j - 1 <= i - 1) /\ j - 1 - (i - 1) = j - i
OBVIOUS

LEMMA WinRemoved ==
    ASSUME NEW S, NEW s \in Seq(S), NEW i \in DOMAIN s
    PROVE  /\ W!RemoveAt(s, i) \in Seq(S)
           /\ DOMAIN s \subseteq {1} => W!RemoveAt(s, i) = <<>>
           /\ \A j \in DOMAIN s : j # i =>
                 \E k \in DOMAIN W!RemoveAt(s, i) : W!RemoveAt(s, i)[k] = s[j]
<1> DEFINE a == SubSeq(s, 1, i - 1)
           b == SubSeq(s, i + 1, Len(s))
<1>1. i \in 1 .. Len(s) /\ Len(s) \in Nat
  OBVIOUS
<1>2. a \in Seq(S) /\ b \in Seq(S) /\ Len(a) = i - 1 /\ Len(b) = Len(s) - i
  BY <1>1
<1>3. W!RemoveAt(s, i) = a \o b
  BY DEF W!RemoveAt
<1>4. \A k \in 1 .. i - 1 : a[k] = s[k]
  BY <1>1
<1>5. \A k \in 1 .. Len(s) - i : b[k] = s[i + k]
  BY <1>1
<1> HIDE DEF a, b
<1>6. ASSUME NEW j \in DOMAIN s, j # i
      PROVE  \E k \in DOMAIN (a \o b) : (a \o b)[k] = s[j]
  <2>1. j \in 1 .. Len(s) /\ DOMAIN (a \o b) = 1 .. Len(a) + Len(b)
    <3>1. a \o b \in Seq(S) /\ Len(a \o b) = Len(a) + Len(b)
      BY <1>2, ConcatProperties
    <3>2. j \in 1 .. Len(s)
      BY <1>1
    <3> QED BY <3>1, <3>2
  <2>2. \A k \in 1 .. Len(a) + Len(b) :
           (a \o b)[k] = IF k <= Len(a) THEN a[k] ELSE b[k - Len(a)]
    BY <1>2, ConcatProperties
  <2>3. Len(a) = i - 1 /\ Len(b) = Len(s) - i
    BY <1>2
  <2>4. CASE j < i
    <3>1. j \in 1 .. i - 1 /\ j \in 1 .. Len(a) + Len(b) /\ j <= Len(a)
      BY <1>1, <2>1, <2>4, <2>3, WinIndex
    <3> QED BY <1>4, <2>1, <2>2, <3>1
  <2>5. CASE j > i
    <3>1. /\ j - i \in 1 .. Len(s) - i /\ i + (j - i) = j
          /\ j - 1 \in 1 .. Len(a) + Len(b) /\ ~(j - 1 <= Len(a)) /\ j - 1 - Len(a) = j - i
      <4>1. /\ j - i \in 1 .. Len(s) - i /\ i + (j - i) = j
            /\ j - 1 \in 1 .. (i - 1) + (Len(s) - i)
            /\ ~(j - 1 <= i - 1) /\ j - 1 - (i - 1) = j - i
        BY <1>1, <2>1, <2>5, WinIndex
      <4> QED BY <2>3, <4>1
    <3>2. b[j - i] = s[i + (j - i)]
      BY <1>5, <3>1
    <3> QED BY <2>1, <2>2, <3>1, <3>2
  <2> QED BY <1>1, <1>6, <2>1, <2>4, <2>5
<1>7. a \o b \in Seq(S) /\ Len(a \o b) = Len(a) + Len(b)
  BY <1>2, ConcatProperties
<1>8. ASSUME DOMAIN s \subseteq {1} PROVE Len(a \o b) = 0
  <2>1. Len(s) = 1
    <3>1. Len(s) \in DOMAIN s
      BY <1>1
    <3> QED BY <1>8, <3>1
  <2> QED BY <1>1, <1>2, <1>7, <2>1
<1> QED BY <1>3, <1>7, <1>8, <1>6, EmptySeq

\* The requests after CancelIo() are those there were, with another status.
LEMMA WinCancelled ==
    ASSUME requests \in WinRequests, NEW h \in 0 .. MaxHandles
    PROVE  /\ W!Cancelled(h) \in WinRequests
           /\ DOMAIN W!Cancelled(h) = DOMAIN requests
           /\ \A i \in DOMAIN requests : W!Cancelled(h)[i].handle = requests[i].handle
<1> DEFINE Req == [handle : W!Handles, status : {"pending", "done", "aborted"}]
<1>0. requests \in Seq(Req)
  BY DEF WinRequests
<1> HIDE DEF Req
<1>1. /\ DOMAIN requests = 1 .. Len(requests) /\ Len(requests) \in Nat
      /\ \A i \in DOMAIN requests : requests[i] \in Req
  BY <1>0
<1> USE DEF Req
<1>2. \A i \in DOMAIN requests :
         /\ W!Cancelled(h)[i] = IF requests[i] = W!Request(h, "pending")
                                  THEN W!Request(h, "aborted") ELSE requests[i]
  BY DEF W!Cancelled
<1>3. DOMAIN W!Cancelled(h) = DOMAIN requests
  BY DEF W!Cancelled
<1>4. \A i \in DOMAIN requests : /\ W!Cancelled(h)[i] \in Req
                                 /\ W!Cancelled(h)[i].handle = requests[i].handle
  BY <1>1, <1>2 DEF W!Request
<1>5. W!Cancelled(h) \in [1 .. Len(requests) -> Req]
  BY <1>1, <1>3, <1>4 DEF W!Cancelled
<1> QED BY <1>1, <1>3, <1>4, <1>5, IsASeq DEF WinRequests

\* A request that is made when there is none is the only one.
LEMMA WinWatched ==
    ASSUME NEW rs \in WinRequests, NEW h \in 0 .. MaxHandles, NEW n, unread \subseteq W!Handles,
           W!WatchDirectory(rs, h, n)
    PROVE  /\ requests' \in WinRequests /\ unread' \subseteq W!Handles /\ deaf' \in BOOLEAN
           /\ \/ requests' = rs /\ deaf' = TRUE
              \/ /\ h # 0 /\ n # NoDir /\ Len(requests') = Len(rs) + 1
                 /\ \E i \in DOMAIN requests' :
                       requests'[i].handle = h /\ requests'[i].status # "aborted"
           /\ rs = <<>> =>
                \/ requests' = <<>> /\ deaf' = TRUE
                \/ /\ DOMAIN requests' = {1} /\ requests'[1].handle = h /\ h # 0 /\ n # NoDir
                   /\ requests'[1].status # "aborted" /\ requests' # <<>>
           /\ h = 0 => requests' = rs /\ deaf' = TRUE
<1> DEFINE r == W!Request(h, IF h \in unread THEN "done" ELSE "pending")
<1>1. CASE requests' = rs /\ unread' = unread /\ deaf' = TRUE
  BY <1>1
<1>2. CASE /\ h # 0 /\ n # NoDir /\ requests' = Append(rs, r)
           /\ unread' = unread \ {h} /\ deaf' = FALSE
  <2>1. /\ r \in [handle : W!Handles, status : {"pending", "done", "aborted"}]
        /\ r.handle = h /\ r.status # "aborted"
    BY <1>2, BoundsAssumption DEF W!Request, W!Handles
  <2> HIDE DEF r
  <2>2. requests' \in WinRequests
    BY <1>2, <2>1 DEF WinRequests
  <2>3. rs = <<>> => DOMAIN requests' = {1} /\ requests'[1] = r /\ requests' # <<>>
    BY <1>2
  <2>4. /\ Len(requests') = Len(rs) + 1 /\ Len(requests') \in DOMAIN requests'
        /\ requests'[Len(requests')] = r
    BY <1>2, <2>1 DEF WinRequests
  <2> QED BY <1>2, <2>1, <2>2, <2>3, <2>4
<1> QED BY <1>1, <1>2 DEF W!WatchDirectory

\* The type invariant, with its sequences as the library's theorems have them.
WinTyped ==
    /\ state \in {"stopped", "paused", "watching"}
    /\ dirName \in TwoDirs \cup {NoDir} /\ handle \in 0 .. Len(opened)
    /\ event \in {"none", "unset", "set"}
    /\ WinOpened(opened)
    /\ unread \subseteq W!Handles /\ left \subseteq W!Handles
    /\ call \in {"none", "stop", "start"} /\ (call = "none" <=> event = "none")
    /\ requests \in WinRequests
    /\ call # "none" => state = "watching" /\ handle # 0

LEMMA WinFollows == W!Follows <=> WinTyped /\ W!AsAsked /\ (left = {} => W!OneRequest)
<1>1. requests \in WinRequests =>
         \A i \in DOMAIN requests :
            requests[i] \in [handle : W!Handles, status : {"pending", "done", "aborted"}]
  <2> DEFINE Req == [handle : W!Handles, status : {"pending", "done", "aborted"}]
  <2> HIDE DEF Req
  <2>1. requests \in Seq(Req) => \A i \in DOMAIN requests : requests[i] \in Req
    OBVIOUS
  <2> QED BY <2>1 DEF WinRequests, Req
<1>2. opened \in W!BoundedSeq(TwoDirs \cup {NoDir}, MaxHandles) <=> WinOpened(opened)
  BY WinBounded
<1> QED BY <1>1, <1>2 DEF W!Follows, W!TypeOK, WinTyped, WinRequests

LEMMA WinShape ==
    ASSUME WinTyped
    PROVE  /\ handle \in 0 .. MaxHandles /\ Len(opened) \in Nat /\ Len(opened) <= MaxHandles
           /\ DOMAIN opened = 1 .. Len(opened) /\ DOMAIN opened \subseteq W!Handles
           /\ handle # 0 => handle \in DOMAIN opened
           /\ \A h \in DOMAIN opened : opened[h] \in TwoDirs \cup {NoDir}
           /\ DOMAIN requests = 1 .. Len(requests) /\ Len(requests) \in Nat
           /\ DOMAIN requests = {} <=> requests = <<>>
<1>1. Len(opened) \in Nat /\ Len(opened) <= MaxHandles /\ handle \in 0 .. Len(opened)
  BY DEF WinTyped, WinOpened
<1>2. opened \in Seq(TwoDirs \cup {NoDir})
  BY DEF WinTyped, WinOpened
<1>3. /\ DOMAIN opened = 1 .. Len(opened)
      /\ \A h \in DOMAIN opened : opened[h] \in TwoDirs \cup {NoDir}
  BY <1>2
<1>4. DOMAIN requests = 1 .. Len(requests) /\ Len(requests) \in Nat
  BY DEF WinTyped, WinRequests
<1>5. DOMAIN requests = {} <=> requests = <<>>
  <2>1. requests \in Seq([handle : W!Handles, status : {"pending", "done", "aborted"}])
    BY DEF WinTyped, WinRequests
  <2>2. Len(requests) = 0 <=> requests = <<>>
    BY <2>1, EmptySeq
  <2> QED BY <1>4, <2>2
<1>6. DOMAIN opened \subseteq W!Handles /\ (handle # 0 => handle \in DOMAIN opened)
  BY <1>1, <1>3, BoundsAssumption DEF W!Handles
<1> QED BY <1>1, <1>3, <1>4, <1>5, <1>6, BoundsAssumption

\* The handle there is gets left behind.
LEMMA WinLeft ==
    ASSUME WinTyped
    PROVE  /\ W!LeftNow \subseteq W!Handles /\ left \subseteq W!LeftNow
           /\ handle # 0 => handle \in W!LeftNow
           /\ W!LeftNow = {} => left = {} /\ handle = 0
BY WinShape DEF W!LeftNow, WinTyped

\* With nothing open there is no request.
LEMMA WinNone ==
    ASSUME WinTyped, W!OneRequest, handle = 0
    PROVE  requests = <<>>
BY WinShape DEF W!OneRequest

LEMMA WinInit == W!Init => W!Follows
<1> SUFFICES ASSUME W!Init PROVE W!Follows OBVIOUS
<1>1. WinOpened(opened) /\ Len(opened) = 0 /\ DOMAIN opened = {}
  BY EmptySeq, BoundsAssumption DEF W!Init, WinOpened
<1>2. requests \in WinRequests /\ DOMAIN requests = {}
  BY DEF W!Init, WinRequests
<1>3. WinTyped
  BY <1>1, <1>2 DEF W!Init, WinTyped
<1>4. W!OneRequest
  BY <1>1, <1>2 DEF W!Init, W!OneRequest
<1>5. W!AsAsked
  BY <1>1, <1>2 DEF W!Init, W!AsAsked
<1> QED BY <1>3, <1>4, <1>5, WinFollows

LEMMA WinRight == W!Follows => W!TypeOK /\ W!WatchesAndStops
<1> SUFFICES ASSUME W!Follows PROVE W!WatchesAndStops
  BY DEF W!Follows
<1>1. WinTyped /\ W!AsAsked /\ (left = {} => W!OneRequest)
  BY WinFollows
<1>2. ASSUME state = "watching", call = "none", ~deaf
      PROVE  \E i \in DOMAIN requests :
                /\ requests[i].handle = handle /\ requests[i].status # "aborted"
                /\ opened[handle] = want
  <2>1. PICK i \in DOMAIN requests : W!Stands(i)
    BY <1>1, <1>2 DEF W!AsAsked
  <2>2. handle # 0
    <3>1. requests[i] \in [handle : W!Handles, status : {"pending", "done", "aborted"}]
      BY WinFollows DEF W!Follows, W!TypeOK
    <3> QED BY <2>1, <3>1 DEF W!Stands, W!Handles
  <2> QED BY <1>1, <1>2, <2>1, <2>2 DEF W!AsAsked, W!Stands
<1>3. ASSUME left = {}
      PROVE  /\ said.name = said.of \/ said.within = "start"
             /\ state = "stopped" => requests = <<>> /\ (handle = 0 \/ deaf)
  BY <1>1, <1>3 DEF W!OneRequest
<1> QED BY <1>1, <1>2, <1>3 DEF W!WatchesAndStops, W!AsAsked

\* A step keeps the invariant if it keeps the two parts of it.
LEMMA WinFollowsNext == WinTyped' /\ W!AsAsked' /\ (left = {} => W!OneRequest)' => W!Follows'
BY WinFollows, PTL

\* startWatching() on what has nothing open, or left it behind.
LEMMA WinBegin ==
    ASSUME W!Follows, call = "none", NEW name \in TwoDirs \cup {NoDir}, W!Begin(name),
           UNCHANGED <<event, call, said>>, want' = name \/ name = NoDir,
           left' = W!LeftNow \/ (left' = left /\ handle = 0)
    PROVE  /\ WinTyped' /\ W!AsAsked'
           /\ left = {} /\ handle = 0 => W!OneRequest'
<1>1. WinTyped /\ W!AsAsked
  BY WinFollows
<1>0. /\ left' \subseteq W!Handles /\ left \subseteq left' /\ (handle # 0 => handle \in left')
      /\ call' = "none"
  BY <1>1, WinLeft DEF WinTyped
<1>2. CASE /\ name # NoDir /\ W!MayOpen /\ W!CreateFile(name)
           /\ W!WatchDirectory(requests, Len(opened) + 1, name)
           /\ state' = IF Len(requests') > Len(requests) THEN "watching" ELSE "stopped"
  <2> DEFINE h == Len(opened) + 1
  <2>1. h \in 0 .. MaxHandles /\ h # 0 /\ Len(opened) \in Nat
    BY <1>1, <1>2, WinShape, BoundsAssumption DEF W!MayOpen
  <2>2. /\ handle' = h /\ opened' = Append(opened, name) /\ dirName' = name
        /\ state' \in {"watching", "stopped"}
    BY <1>2 DEF W!CreateFile, W!Begin
  <2>3. opened \in Seq(TwoDirs \cup {NoDir})
    BY <1>1 DEF WinTyped, WinOpened
  <2>4. WinOpened(opened') /\ Len(opened') = h /\ DOMAIN opened' = 1 .. h
    BY <2>1, <2>2, <2>3, AppendProperties, BoundsAssumption DEF WinOpened
  <2>5. opened'[h] = name /\ \A k \in DOMAIN opened : opened'[k] = opened[k]
    BY <2>1, <2>2, <2>3, AppendProperties
  <2> HIDE DEF h
  <2>6. /\ requests' \in WinRequests /\ unread' \subseteq W!Handles
        /\ \/ requests' = requests /\ deaf' = TRUE
           \/ \E i \in DOMAIN requests' :
                 requests'[i].handle = h /\ requests'[i].status # "aborted"
        /\ requests = <<>> =>
             \/ requests' = <<>> /\ deaf' = TRUE
             \/ /\ DOMAIN requests' = {1} /\ requests'[1].handle = h
                /\ requests'[1].status # "aborted" /\ requests' # <<>>
    BY <1>1, <1>2, <2>1, WinWatched DEF h, WinTyped
  <2>7. WinTyped'
    BY <1>0, <1>1, <2>1, <2>2, <2>4, <2>6 DEF WinTyped
  <2>9. W!AsAsked'
    <3>1. state' # "stopped" => want' = dirName' /\ opened'[handle'] = want'
      BY <1>2, <2>2, <2>5
    <3>2. ~deaf' => \E i \in DOMAIN requests' : W!Stands(i)'
      BY <2>2, <2>6 DEF W!Stands
    <3>3. ASSUME NEW k \in DOMAIN opened', opened'[k] # NoDir
          PROVE  k = handle' \/ k \in left'
      <4>1. CASE k \in DOMAIN opened
        <5>1. opened[k] # NoDir /\ k # 0
          BY <1>1, <2>5, <3>3, <4>1, WinShape
        <5> QED BY <1>0, <1>1, <4>1, <5>1 DEF W!AsAsked
      <4>2. CASE k \notin DOMAIN opened
        BY <1>1, <2>1, <2>2, <2>4, <4>2, WinShape DEF h
      <4> QED BY <4>1, <4>2
    <3> QED BY <3>1, <3>2, <3>3 DEF W!AsAsked
  <2>8. ASSUME left = {}, handle = 0 PROVE W!OneRequest'
    <3>1. W!OneRequest /\ requests = <<>>
      BY <1>1, <2>8, WinNone, WinFollows
    <3>2. Len(requests) = 0 /\ (requests' = <<>> => DOMAIN requests' = {} /\ Len(requests') = 0)
      BY <3>1
    <3>3. DOMAIN requests' = {1} => Len(requests') = 1
      <4>1. requests' \in Seq([handle : W!Handles, status : {"pending", "done", "aborted"}])
        BY <2>6 DEF WinRequests
      <4>2. Len(requests') \in Nat /\ DOMAIN requests' = 1 .. Len(requests')
        BY <4>1
      <4>3. DOMAIN requests' = {1} => Len(requests') # 0
        BY <4>2
      <4>4. Len(requests') \in DOMAIN requests' \/ Len(requests') = 0
        BY <4>2
      <4> QED BY <4>3, <4>4
    <3>4. \/ requests' = <<>> /\ DOMAIN requests' = {} /\ deaf' = TRUE /\ state' = "stopped"
          \/ /\ DOMAIN requests' = {1} /\ requests'[1].handle = h /\ state' = "watching"
             /\ requests'[1].status # "aborted" /\ requests' # <<>>
      BY <1>2, <2>6, <3>1, <3>2, <3>3
    <3>6. event = "none" /\ event' = event /\ call' = "none"
      BY <1>1 DEF WinTyped
    <3>7. said'.name = said'.of \/ said'.within = "start"
      BY <3>1 DEF W!OneRequest
    <3> QED BY <2>1, <2>2, <2>5, <2>8, <3>4, <3>6, <3>7 DEF W!OneRequest
  <2> QED BY <2>7, <2>8, <2>9
<1>3. CASE /\ state' = "stopped" /\ handle' = 0
           /\ UNCHANGED <<opened, unread, requests, deaf>>
  <2>1. dirName' = name
    BY DEF W!Begin
  <2>2. WinTyped'
    BY <1>0, <1>1, <1>3, <2>1, WinShape DEF WinTyped
  <2>3. ASSUME left = {}, handle = 0 PROVE W!OneRequest'
    <3>1. W!OneRequest /\ requests = <<>>
      BY <1>1, <2>3, WinNone, WinFollows
    <3> QED BY <1>3, <2>1, <2>3, <3>1 DEF W!OneRequest
  <2>4. W!AsAsked'
    BY <1>0, <1>1, <1>3, WinShape DEF W!AsAsked
  <2> QED BY <2>2, <2>3, <2>4
<1> QED BY <1>2, <1>3 DEF W!Begin

\* Another program's change completes requests and adds none.
LEMMA WinChanged ==
    ASSUME W!Follows, NEW d \in TwoDirs, W!Change(d)
    PROVE  W!Follows'
<1> DEFINE Req == [handle : W!Handles, status : {"pending", "done", "aborted"}]
           on == {h \in DOMAIN opened : opened[h] = d}
           After(i) == IF requests[i].handle \in on /\ requests[i].status = "pending"
                       THEN W!Request(requests[i].handle, "done") ELSE requests[i]
<1>1. WinTyped
  BY WinFollows
<1>2. /\ requests' = [i \in DOMAIN requests |-> After(i)]
      /\ unread' = unread \cup {h \in on : ~W!Pending(h)}
      /\ UNCHANGED <<state, dirName, handle, event, opened, call, want, said, left, deaf>>
  BY DEF W!Change
<1>3. DOMAIN requests = 1 .. Len(requests) /\ Len(requests) \in Nat
  BY <1>1, WinShape
<1>4. \A i \in DOMAIN requests : requests[i] \in Req
  <2>1. requests \in Seq(Req)
    BY <1>1 DEF WinTyped, WinRequests
  <2> HIDE DEF Req
  <2> QED BY <2>1
<1>5. on \subseteq W!Handles
  BY <1>1, WinShape
<1> HIDE DEF on
<1>6. \A i \in DOMAIN requests :
         /\ After(i) \in Req /\ After(i).handle = requests[i].handle
         /\ After(i).status = "aborted" => requests[i].status = "aborted"
  BY <1>4 DEF W!Request
<1>7. DOMAIN requests' = DOMAIN requests /\ \A i \in DOMAIN requests : requests'[i] = After(i)
  BY <1>2
<1> HIDE DEF After
<1>8. requests' \in WinRequests
  <2>1. requests' \in [1 .. Len(requests) -> Req]
    BY <1>2, <1>3, <1>6
  <2> HIDE DEF Req
  <2>2. requests' \in Seq(Req)
    BY <1>3, <2>1
  <2> QED BY <2>2 DEF WinRequests, Req
<1>9. WinTyped'
  BY <1>1, <1>2, <1>5, <1>8 DEF WinTyped
<1>10. requests = <<>> <=> requests' = <<>>
  BY <1>3, <1>7, <1>8, EmptySeq DEF WinRequests
<1>12. W!AsAsked'
  <2>1. W!AsAsked
    BY WinFollows
  <2>2. \A i \in DOMAIN requests : W!Stands(i) => W!Stands(i)'
    BY <1>2, <1>6, <1>7 DEF W!Stands
  <2> QED BY <1>2, <1>7, <2>1, <2>2 DEF W!AsAsked
<1>11. left = {} => W!OneRequest'
  <2> SUFFICES ASSUME left = {} PROVE W!OneRequest'
    OBVIOUS
  <2>1. W!OneRequest
    BY WinFollows
  <2> QED BY <1>2, <1>6, <1>7, <1>10, <2>1 DEF W!OneRequest
<1> QED BY <1>2, <1>9, <1>11, <1>12, WinFollowsNext

\* CancelIo() leaves as many requests.
LEMMA WinAborts ==
    ASSUME WinTyped, requests' = W!Cancelled(handle)
    PROVE  /\ requests' \in WinRequests /\ DOMAIN requests' = DOMAIN requests
           /\ \A i \in DOMAIN requests : requests'[i].handle = requests[i].handle
           /\ requests' = <<>> <=> requests = <<>>
<1>1. /\ requests' \in WinRequests /\ DOMAIN requests' = DOMAIN requests
      /\ \A i \in DOMAIN requests : requests'[i].handle = requests[i].handle
  BY WinShape, WinCancelled DEF WinTyped
<1>2. DOMAIN requests' = {} <=> requests' = <<>>
  <2>1. requests' \in Seq([handle : W!Handles, status : {"pending", "done", "aborted"}])
    BY <1>1 DEF WinRequests
  <2>2. Len(requests') \in Nat /\ DOMAIN requests' = 1 .. Len(requests')
    BY <2>1
  <2>3. Len(requests') = 0 <=> requests' = <<>>
    BY <2>1, EmptySeq
  <2> QED BY <2>2, <2>3
<1> QED BY <1>1, <1>2, WinShape

\* The handles that stopWatching() closes.
LEMMA WinClosed ==
    ASSUME W!Follows, call # "none", W!Close, UNCHANGED <<requests, said, deaf>>,
           left' = left \/ left' = W!LeftNow
    PROVE  /\ WinTyped' /\ W!AsAsked'
           /\ left = {} /\ requests = <<>> => W!OneRequest'
<1>1. WinTyped /\ W!AsAsked
  BY WinFollows
<1>2. /\ handle \in DOMAIN opened /\ DOMAIN opened = 1 .. Len(opened)
      /\ opened' = [opened EXCEPT ![handle] = NoDir]
      /\ opened \in Seq(TwoDirs \cup {NoDir})
  BY <1>1, WinShape DEF W!Close, WinTyped, WinOpened
<1>3. WinOpened(opened') /\ DOMAIN opened' = DOMAIN opened /\ Len(opened') = Len(opened)
  BY <1>1, <1>2, ExceptSeq DEF WinTyped, WinOpened
<1>4. opened'[handle] = NoDir /\ \A h \in DOMAIN opened : h # handle => opened'[h] = opened[h]
  BY <1>2
<1>5. WinTyped'
  BY <1>1, <1>3, WinShape, WinLeft DEF WinTyped, W!Close
<1>7. W!AsAsked'
  <2>1. state' = "stopped" /\ left \subseteq left'
    BY <1>1, WinLeft DEF W!Close
  <2> QED BY <1>1, <1>3, <1>4, <2>1 DEF W!AsAsked
<1>6. ASSUME left = {}, requests = <<>> PROVE W!OneRequest'
  <2>1. W!OneRequest
    BY <1>6, WinFollows
  <2>3. requests' = <<>> /\ DOMAIN requests' = {}
    BY <1>6
  <2> QED BY <2>1, <2>3 DEF W!OneRequest, W!Close
<1> QED BY <1>5, <1>6, <1>7

LEMMA WinNext == W!Follows /\ [W!Next]_(W!vars) => W!Follows'
<1> SUFFICES ASSUME W!Follows, [W!Next]_(W!vars) PROVE W!Follows'
  OBVIOUS
<1>1. WinTyped /\ W!AsAsked /\ (left = {} => W!OneRequest)
  BY WinFollows
<1>2. CASE UNCHANGED W!vars
  <2>1. WinTyped'
    BY <1>1, <1>2 DEF W!vars, W!system, W!ghosts, WinTyped
  <2>2. (left = {} => W!OneRequest)'
    BY <1>1, <1>2 DEF W!vars, W!system, W!ghosts, W!OneRequest
  <2>3. W!AsAsked'
    BY <1>1, <1>2 DEF W!vars, W!system, W!ghosts, W!AsAsked, W!Stands
  <2> QED BY <2>1, <2>2, <2>3, WinFollowsNext
<1>3. ASSUME NEW d \in TwoDirs, W!StartUnstopped(d) PROVE W!Follows'
  <2>1. /\ call = "none" /\ W!Begin(d) /\ UNCHANGED <<event, call, said>>
        /\ want' = d /\ left' = W!LeftNow
    BY <1>3 DEF W!StartUnstopped
  <2>2. WinTyped' /\ W!AsAsked' /\ (left = {} /\ handle = 0 => W!OneRequest')
    BY <2>1, WinBegin
  <2>3. left' = {} => left = {} /\ handle = 0
    BY <1>1, <2>1, WinLeft
  <2> QED BY <2>2, <2>3, WinFollowsNext
<1>4. CASE W!StopUnstopped
  <2>1. /\ UNCHANGED <<dirName, handle, event, opened, unread, requests, call, said, deaf>>
        /\ state' = "stopped" /\ call = "none" /\ left' = W!LeftNow
        /\ left' \subseteq W!Handles /\ left \subseteq left'
        /\ (left' = {} => left = {} /\ handle = 0)
    BY <1>1, <1>4, WinLeft DEF W!StopUnstopped, W!system
  <2>2. WinTyped'
    BY <1>1, <2>1 DEF WinTyped
  <2>4. W!AsAsked'
    BY <1>1, <2>1 DEF W!AsAsked
  <2>3. ASSUME left = {}, handle = 0 PROVE W!OneRequest'
    BY <1>1, <2>1, <2>3, WinNone DEF W!OneRequest
  <2> QED BY <2>1, <2>2, <2>3, <2>4, WinFollowsNext
<1>5. ASSUME NEW d \in TwoDirs \cup {NoDir}, NEW next \in {"stop", "start"}, W!Stop(next, d)
      PROVE  W!Follows'
  <2>1. /\ call = "none" /\ state = "watching" /\ handle # 0
        /\ call' = next /\ event' = "unset" /\ requests' = W!Cancelled(handle)
        /\ dirName' = IF next = "start" THEN d ELSE dirName
        /\ UNCHANGED <<state, handle, opened, unread, said, left, deaf>>
    BY <1>5 DEF W!Stop, W!StopBegins
  <2>2. WinTyped'
    BY <1>1, <2>1, WinAborts DEF WinTyped
  <2>3. ASSUME left = {} PROVE W!OneRequest'
    BY <1>1, <2>1, <2>3, WinAborts DEF W!OneRequest
  <2>4. W!AsAsked'
    BY <1>1, <2>1 DEF W!AsAsked
  <2> QED BY <2>1, <2>2, <2>3, <2>4, WinFollowsNext
<1>6. ASSUME NEW d \in TwoDirs \cup {NoDir}, NEW next \in {"stop", "start"},
             W!StopGarbage(next, d)
      PROVE  W!Follows'
  <2>1. /\ call = "none" /\ handle = 0 /\ UNCHANGED <<event, call, said, left>>
    BY <1>6 DEF W!StopGarbage
  <2>2. CASE W!Begin(NoDir)
    <3>1. WinTyped' /\ W!AsAsked' /\ (left = {} => W!OneRequest')
      BY <2>1, <2>2, WinBegin
    <3> QED BY <2>1, <3>1, WinFollowsNext
  <2>3. CASE /\ state' = "stopped" /\ dirName' = NoDir
             /\ UNCHANGED <<handle, opened, unread, requests, deaf>>
    <3>1. WinTyped'
      BY <1>1, <2>1, <2>3 DEF WinTyped
    <3>2. ASSUME left = {} PROVE W!OneRequest'
      BY <1>1, <2>1, <2>3, <3>2, WinNone DEF W!OneRequest
    <3>3. W!AsAsked'
      BY <1>1, <2>1, <2>3 DEF W!AsAsked
    <3> QED BY <2>1, <3>1, <3>2, <3>3, WinFollowsNext
  <2> QED BY <1>6, <2>2, <2>3 DEF W!StopGarbage
<1>7. CASE W!WaitOver
  <2>1. WinTyped' /\ W!AsAsked' /\ (left = {} /\ requests = <<>> => W!OneRequest')
    BY <1>7, WinClosed DEF W!WaitOver
  <2>2. left = {} => requests = <<>>
    BY <1>1, <1>7 DEF W!WaitOver, W!OneRequest
  <2> QED BY <1>7, <2>1, <2>2, WinFollowsNext DEF W!WaitOver
<1>8. CASE W!EventFails
  <2>1. WinTyped' /\ W!AsAsked' /\ handle # 0
    BY <1>1, <1>8, WinClosed DEF W!EventFails, WinTyped
  <2>2. left' # {}
    BY <1>1, <1>8, <2>1, WinLeft DEF W!EventFails
  <2> QED BY <2>1, <2>2, WinFollowsNext
<1>9. CASE W!Pause
  <2>1. /\ call = "none" /\ state = "watching" /\ state' = "paused"
        /\ requests' = W!Cancelled(handle)
        /\ UNCHANGED <<dirName, handle, event, opened, unread, call, said, left, deaf>>
    BY <1>9 DEF W!Pause, W!ghosts
  <2>2. WinTyped'
    BY <1>1, <2>1, WinAborts DEF WinTyped
  <2>3. ASSUME left = {} PROVE W!OneRequest'
    BY <1>1, <2>1, <2>3, WinAborts DEF W!OneRequest
  <2>4. want' = want
    BY <1>9 DEF W!Pause, W!ghosts
  <2>5. W!AsAsked'
    BY <1>1, <2>1, <2>4 DEF W!AsAsked
  <2> QED BY <2>1, <2>2, <2>3, <2>5, WinFollowsNext
<1>10. CASE W!Resume
  <2>1. /\ call = "none" /\ state = "paused" /\ state' = "watching"
        /\ left' = W!LeftNow /\ left' \subseteq W!Handles /\ left \subseteq left'
        /\ (handle # 0 => handle \in left') /\ (left' = {} => left = {} /\ handle = 0)
        /\ UNCHANGED <<dirName, event, call, said, want>> /\ want = dirName
    BY <1>1, <1>10, WinLeft DEF W!Resume, W!AsAsked
  <2>2. CASE /\ W!MayOpen /\ dirName # NoDir /\ W!CreateFile(dirName)
             /\ W!WatchDirectory(requests, Len(opened) + 1, dirName)
    <3> DEFINE h == Len(opened) + 1
    <3>1. h \in 0 .. MaxHandles /\ h # 0 /\ Len(opened) \in Nat
      BY <1>1, <2>2, WinShape, BoundsAssumption DEF W!MayOpen
    <3>2. handle' = h /\ opened' = Append(opened, dirName)
      BY <2>2 DEF W!CreateFile
    <3>3. opened \in Seq(TwoDirs \cup {NoDir}) /\ dirName \in TwoDirs \cup {NoDir}
      BY <1>1 DEF WinTyped, WinOpened
    <3>4. WinOpened(opened') /\ Len(opened') = h /\ DOMAIN opened' = 1 .. h
      BY <3>1, <3>2, <3>3, AppendProperties, BoundsAssumption DEF WinOpened
    <3>5. opened'[h] = dirName /\ \A k \in DOMAIN opened : opened'[k] = opened[k]
      BY <3>1, <3>2, <3>3, AppendProperties
    <3> HIDE DEF h
    <3>6. /\ requests' \in WinRequests /\ unread' \subseteq W!Handles
          /\ \/ requests' = requests /\ deaf' = TRUE
             \/ \E i \in DOMAIN requests' :
                   requests'[i].handle = h /\ requests'[i].status # "aborted"
          /\ requests = <<>> =>
               \/ requests' = <<>>
               \/ /\ DOMAIN requests' = {1} /\ requests'[1].handle = h
                  /\ requests'[1].status # "aborted"
      BY <1>1, <2>2, <3>1, WinWatched DEF h, WinTyped
    <3>7. WinTyped'
      BY <1>1, <2>1, <3>1, <3>2, <3>4, <3>6 DEF WinTyped
    <3>8. ASSUME left = {}, handle = 0 PROVE W!OneRequest'
      <4>1. W!OneRequest /\ requests = <<>>
        BY <1>1, <2>1, <3>8, WinNone DEF W!OneRequest
      <4>3. event' # "set" /\ call' = "none"
        BY <1>1, <2>1 DEF WinTyped
      <4>4. \A i \in DOMAIN requests' :
               i = 1 /\ requests'[i].handle = h /\ requests'[i].status # "aborted"
        BY <3>6, <4>1
      <4>5. said'.name = said'.of \/ said'.within = "start"
        BY <2>1, <4>1 DEF W!OneRequest
      <4> QED BY <2>1, <3>1, <3>2, <3>5, <4>3, <4>4, <4>5 DEF W!OneRequest
    <3>9. W!AsAsked'
      <4>1. want' = dirName' /\ opened'[handle'] = want'
        BY <2>1, <3>2, <3>5
      <4>2. ~deaf' => \E i \in DOMAIN requests' : W!Stands(i)'
        BY <3>2, <3>6 DEF W!Stands
      <4>3. ASSUME NEW k \in DOMAIN opened', opened'[k] # NoDir
            PROVE  k = handle' \/ k \in left'
        <5>1. CASE k \in DOMAIN opened
          <6>1. opened[k] # NoDir /\ k # 0
            BY <1>1, <3>5, <4>3, <5>1, WinShape
          <6> QED BY <1>1, <2>1, <5>1, <6>1 DEF W!AsAsked
        <5>2. CASE k \notin DOMAIN opened
          BY <1>1, <3>1, <3>2, <3>4, <5>2, WinShape DEF h
        <5> QED BY <5>1, <5>2
      <4> QED BY <4>1, <4>2, <4>3 DEF W!AsAsked
    <3> QED BY <2>1, <3>7, <3>8, <3>9, WinFollowsNext
  <2>3. CASE handle' = 0 /\ deaf' = TRUE /\ UNCHANGED <<opened, unread, requests>>
    <3>1. WinTyped'
      BY <1>1, <2>1, <2>3, WinShape DEF WinTyped
    <3>2. ASSUME left = {}, handle = 0 PROVE W!OneRequest'
      <4>1. W!OneRequest /\ requests = <<>> /\ event' # "set"
        BY <1>1, <2>1, <3>2, WinNone DEF WinTyped
      <4> QED BY <2>1, <2>3, <4>1 DEF W!OneRequest
    <3>3. W!AsAsked'
      BY <1>1, <2>1, <2>3, WinShape DEF W!AsAsked
    <3> QED BY <2>1, <3>1, <3>2, <3>3, WinFollowsNext
  <2> QED BY <1>10, <2>2, <2>3 DEF W!Resume
<1>11. ASSUME NEW i \in DOMAIN requests, W!Aborted(i) PROVE W!Follows'
  <2>1. /\ requests[i].status = "aborted" /\ requests' = W!RemoveAt(requests, i)
        /\ event' = IF event = "unset" THEN "set" ELSE event
        /\ UNCHANGED <<state, dirName, handle, opened, unread, call, said, left, deaf>>
    BY <1>11 DEF W!Aborted, W!EventSet, W!ghosts
  <2>2. requests' \in WinRequests /\ (DOMAIN requests \subseteq {1} => requests' = <<>>)
    BY <1>1, <2>1, WinRemoved DEF WinTyped, WinRequests
  <2>3. WinTyped'
    BY <1>1, <2>1, <2>2 DEF WinTyped
  <2>4. ASSUME left = {} PROVE W!OneRequest'
    <3>1. W!OneRequest /\ requests' = <<>> /\ ~(state = "watching" /\ call = "none")
      BY <1>1, <2>1, <2>2, <2>4 DEF W!OneRequest
    <3> QED BY <2>1, <3>1 DEF W!OneRequest
  <2>5. W!AsAsked'
    <3>1. want' = want
      BY <1>11 DEF W!Aborted, W!ghosts
    <3>2. ASSUME NEW j \in DOMAIN requests, W!Stands(j)
          PROVE  \E k \in DOMAIN requests' : W!Stands(k)'
      <4>1. j # i
        BY <2>1, <3>2 DEF W!Stands
      <4>2. PICK k \in DOMAIN requests' : requests'[k] = requests[j]
        BY <1>1, <2>1, <4>1, WinRemoved DEF WinTyped, WinRequests
      <4> QED BY <2>1, <3>2, <4>2 DEF W!Stands
    <3> QED BY <1>1, <2>1, <3>1, <3>2 DEF W!AsAsked
  <2> QED BY <2>1, <2>3, <2>4, <2>5, WinFollowsNext
<1>12. ASSUME NEW i \in DOMAIN requests, W!Completed(i) PROVE W!Follows'
  <2> DEFINE rs == W!RemoveAt(requests, i)
             n  == IF handle = 0 THEN NoDir ELSE opened[handle]
  <2>1. /\ said' = IF state = "watching" THEN W!Report(i) ELSE said
        /\ W!WatchDirectory(rs, handle, n)
        /\ UNCHANGED <<state, dirName, handle, event, opened, call, want, left>>
    BY <1>12 DEF W!Completed
  <2>2. rs \in WinRequests /\ (DOMAIN requests \subseteq {1} => rs = <<>>)
    BY <1>1, WinRemoved DEF WinTyped, WinRequests
  <2> HIDE DEF rs, n
  <2>3. /\ requests' \in WinRequests /\ unread' \subseteq W!Handles
        /\ \/ deaf' = TRUE
           \/ \E k \in DOMAIN requests' :
                 requests'[k].handle = handle /\ requests'[k].status # "aborted"
        /\ rs = <<>> =>
             \/ requests' = <<>> /\ deaf' = TRUE
             \/ /\ DOMAIN requests' = {1} /\ requests'[1].handle = handle
                /\ requests'[1].status # "aborted" /\ requests' # <<>>
    <3>1. handle \in 0 .. MaxHandles /\ unread \subseteq W!Handles
      BY <1>1, WinShape DEF WinTyped
    <3> QED BY <2>1, <2>2, <3>1, WinWatched
  <2>4. WinTyped'
    BY <1>1, <2>1, <2>3 DEF WinTyped
  <2>5. ASSUME left = {} PROVE W!OneRequest'
    <3>1. /\ W!OneRequest /\ rs = <<>> /\ requests # <<>>
          /\ requests[i].handle = handle /\ handle # 0
      BY <1>1, <2>2, <2>5, WinShape DEF W!OneRequest
    <3>2. said'.name = said'.of \/ said'.within = "start"
      BY <1>1, <2>1, <3>1 DEF W!OneRequest, W!Report, WinTyped
    <3>3. /\ \A j \in DOMAIN requests' :
                j = 1 /\ requests'[j].handle = handle /\ requests'[j].status # "aborted"
      BY <2>3, <3>1
    <3>4. event # "set" /\ state # "stopped"
      BY <3>1 DEF W!OneRequest
    <3> QED BY <2>1, <3>1, <3>2, <3>3, <3>4 DEF W!OneRequest
  <2>6. W!AsAsked'
    <3>1. ~deaf' => \E k \in DOMAIN requests' : W!Stands(k)'
      BY <2>1, <2>3 DEF W!Stands
    <3> QED BY <1>1, <2>1, <3>1 DEF W!AsAsked
  <2> QED BY <2>1, <2>4, <2>5, <2>6, WinFollowsNext
<1>13. ASSUME NEW i \in DOMAIN requests, W!CompletedAndStopped(i) PROVE W!Follows'
  <2> DEFINE rs == W!Cancelled(handle)
  <2>1. /\ call = "none" /\ said' = W!Report(i) /\ state = "watching" /\ handle # 0
        /\ call' = "stop" /\ event' = "unset" /\ requests' = W!RemoveAt(rs, i)
        /\ UNCHANGED <<state, dirName, handle, opened, unread, left, deaf>>
    BY <1>13 DEF W!CompletedAndStopped
  <2>2. rs \in WinRequests /\ DOMAIN rs = DOMAIN requests
    BY <1>1, WinShape, WinCancelled DEF WinTyped
  <2> HIDE DEF rs
  <2>3. requests' \in WinRequests /\ (DOMAIN requests \subseteq {1} => requests' = <<>>)
    BY <2>1, <2>2, WinRemoved DEF WinRequests
  <2>4. WinTyped'
    BY <1>1, <2>1, <2>3 DEF WinTyped
  <2>5. ASSUME left = {} PROVE W!OneRequest'
    <3>1. /\ W!OneRequest /\ requests' = <<>> /\ requests[i].handle = handle
      BY <1>1, <2>3, <2>5 DEF W!OneRequest
    <3>2. said'.name = said'.of
      BY <2>1, <3>1 DEF W!OneRequest, W!Report
    <3> QED BY <2>1, <3>1, <3>2 DEF W!OneRequest
  <2>6. W!AsAsked'
    BY <1>1, <2>1 DEF W!AsAsked
  <2> QED BY <2>1, <2>4, <2>5, <2>6, WinFollowsNext
<1>14. ASSUME NEW i \in DOMAIN requests, W!Overflown(i) PROVE W!Follows'
  <2>1. /\ requests' = W!RemoveAt(requests, i) /\ deaf' = TRUE
        /\ UNCHANGED <<state, dirName, handle, event, opened, unread, call, said, want, left>>
    BY <1>14 DEF W!Overflown
  <2>2. requests' \in WinRequests /\ (DOMAIN requests \subseteq {1} => requests' = <<>>)
    BY <1>1, <2>1, WinRemoved DEF WinTyped, WinRequests
  <2>3. WinTyped'
    BY <1>1, <2>1, <2>2 DEF WinTyped
  <2>4. ASSUME left = {} PROVE W!OneRequest'
    <3>1. W!OneRequest /\ requests' = <<>>
      BY <1>1, <2>2, <2>4 DEF W!OneRequest
    <3> QED BY <2>1, <3>1 DEF W!OneRequest
  <2>5. W!AsAsked'
    BY <1>1, <2>1 DEF W!AsAsked
  <2> QED BY <2>1, <2>3, <2>4, <2>5, WinFollowsNext
<1> QED BY <1>2, <1>3, <1>4, <1>5, <1>6, <1>7, <1>8, <1>9, <1>10, <1>11, <1>12, <1>13, <1>14,
           WinChanged DEF W!Next, W!Waits

--------------------------------------------------------------------------------
(***************************************************************************)
(* The three together.                                                     *)
(***************************************************************************)
LEMMA FirstFollows == AllInit => EachFollows
BY QtInit, WinInit, AmiInit DEF AllInit, EachFollows

LEMMA StepFollows == EachFollows /\ [AllNext]_all => EachFollows'
<1> SUFFICES ASSUME EachFollows, [AllNext]_all PROVE EachFollows'
  OBVIOUS
<1>1. CASE UNCHANGED all
  <2>1. /\ UNCHANGED <<part, vars, handle, event, opened, unread, requests, call, said, changes,
                       left, cancelled, abandoned, request, watches, messages>>
    BY <1>1 DEF all, ofWindows, ofAmiga
  <2>2. part = "Qt" => Follows'
    BY <2>1, QtNext DEF EachFollows
  <2>3. part = "Windows" => W!Follows'
    <3>1. UNCHANGED W!vars
      BY <2>1 DEF W!vars, W!system, W!ghosts, vars, names, caller
    <3> QED BY <2>1, <3>1, WinNext DEF EachFollows
  <2>4. part = "Amiga" => A!Follows'
    <3>1. UNCHANGED A!vars
      BY <2>1 DEF A!vars, A!native, A!client, vars, names, caller
    <3> QED BY <2>1, <3>1, AmiNext DEF EachFollows
  <2> QED BY <2>1, <2>2, <2>3, <2>4 DEF EachFollows
<1>2. CASE part = "Qt" /\ Next /\ UNCHANGED part
  BY <1>2, QtNext DEF EachFollows
<1>3. CASE part = "Windows" /\ W!Next /\ UNCHANGED part
  BY <1>3, WinNext DEF EachFollows
<1>4. CASE part = "Amiga" /\ A!Next /\ UNCHANGED part
  BY <1>4, AmiNext DEF EachFollows
<1> QED BY <1>1, <1>2, <1>3, <1>4 DEF AllNext

\* What is watched is what the client asked for, on each of the three systems.  On Qt
\* nothing that comes or goes is missed, but what changes within resumeWatching(), until
\* the next signal, and unless addPath() has refused.  On Windows a request for the
\* directory stands while it watches, unless the system has refused one, and the open
\* handles are the last one and those that a pause or a failure left behind; as long as
\* none was, nothing is open after stopWatching() and no request is left to write into
\* the object.  On Amiga OS there is one notification, or none once StartNotify() has
\* failed in resumeWatching(), and stopWatching() ends it unless it comes in a pause
\* (src/FileWatcher.cpp, src/Qt/QtFileWatcher.cpp, src/Amiga/AmiFileWatcher.cpp).
THEOREM WatchesWhatWasAsked == AllSpec => []WatchIsRight
<1>1. EachFollows => WatchIsRight
  BY QtCaughtUp, WinRight, AmiOneWatch DEF EachFollows, WatchIsRight
<1> QED BY <1>1, FirstFollows, StepFollows, PTL DEF AllSpec

\* What RQtFileWatcher::directoryChanged() emits is a difference between the
\* directory and the snapshot, and the snapshot then has it: no addition or deletion
\* is reported twice by a watcher that was started once.
THEOREM ReportsAreNews == AllSpec => NewsIsNew
<1>1. EachFollows /\ [AllNext]_all =>
         [part = "Qt" /\ Changed /\ StartedOnce => \A r \in reports' : IsNews(r)]_all
  BY QtNews DEF EachFollows
<1> QED BY <1>1, FirstFollows, StepFollows, PTL DEF AllSpec, NewsIsNew
================================================================================
