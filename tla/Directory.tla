------------------------------- MODULE Directory -------------------------------
(***************************************************************************)
(* One object of RDir, on any of its platforms, or of RRemoteDir: it is    *)
(* opened for a file, a directory or a wildcard, read, sorted and closed,  *)
(* while other programs change what it reads.  open() looks at the name    *)
(* first and opens the directory afterwards, and read() takes its entries  *)
(* from the system one by one (on Amiga OS 3 by the buffer).               *)
(***************************************************************************)
EXTENDS Integers, Sequences, FiniteSets, SequencesExt

CONSTANTS
    Platforms,      \* of "unix", "windows", "amiga4", "amiga3", "remote"
    Worlds,         \* what may be on the disk in the beginning
    Patterns,       \* what open() is called for: a place, and what is behind the last '/'
    Sizes,          \* sizes of files
    Wide,           \* a TInt holds the numbers from -Wide to Wide - 1
    MaxChanges,     \* bound: changes made by other programs
    MaxOpens,       \* bound: calls of open()
    MaxBatch        \* entries in the buffer of ExAll()

Places == {"root", "cwd", "sub"}    \* "sub" is the directory "d" of the current one
Names == {"a", "b", "d"}

\* A link is to a file of its size; a "busy" one to a file that somebody has locked.
None == [kind |-> "none", size |-> 0]
Dir == [kind |-> "dir", size |-> 0]
DiskNodes == {None, Dir, [kind |-> "dead", size |-> 0], [kind |-> "busy", size |-> 0]}
         \cup [kind : {"file", "link"}, size : Sizes]

Matching == [w \in {"*", "b*"} |-> IF w = "*" THEN Names ELSE {"b"}]

Orders == {"none", "name", "size"}

VARIABLES
    platform, world,
    pattern,    \* a_pccPattern
    entries,    \* m_entries
    single,     \* iSingleEntryOk
    handle,     \* iDir, iHandle or iContext: "none", "bad" or "open"
    place,      \* the directory that the handle is for
    batch,      \* what is left in iExAllData, and the type of the first in it
    seen,       \* what the handle has returned
    pc, result,
    order,      \* what the entries have been sorted by since the last open()
    steady,     \* of place: what has been there since it was opened
    changed,    \* of place: what has been changed since then
    opened,     \* calls of open() since the last close()
    lost,       \* handles that have been overwritten
    opens, changes

object == <<entries, single, handle, place, batch, seen, steady, changed>>
vars == <<platform, world, pattern, object, pc, result, order, opened, lost, opens, changes>>

Entry == [name : Names, set : BOOLEAN, size : Sizes \cup {0}]
NoBatch == [names |-> <<>>, first |-> None]

Init ==
    /\ platform \in Platforms /\ world \in Worlds
    /\ pattern = [at |-> "cwd", last |-> ""]
    /\ entries = <<>> /\ single = FALSE /\ handle = "none" /\ place = "cwd"
    /\ batch = NoBatch /\ seen = {} /\ steady = {} /\ changed = {}
    /\ pc = "idle" /\ result = "none" /\ order = "unread"
    /\ opened = 0 /\ lost = 0 /\ opens = 0 /\ changes = 0

\* The type invariant.
TypeOK ==
    /\ world \in [Places -> [Names -> DiskNodes]]
    /\ entries \in Seq(Entry) /\ single \in BOOLEAN /\ handle \in {"none", "bad", "open"}
    /\ place \in Places /\ seen \subseteq Names /\ steady \subseteq Names /\ changed \subseteq Names
    /\ pc \in {"idle", "open", "read"} /\ order \in Orders \cup {"unread"} /\ lost \in Nat
    /\ result \in {"none", "KErrNone", "KErrNotFound", "KErrNoMemory", "KErrGeneral", "KErrInUse", "KErrNotOpen"}

--------------------------------------------------------------------------------
\* Other programs.

Exists(p) == p = "sub" => world["cwd"]["d"].kind = "dir"

Present(p) == {n \in Names : Exists(p) /\ world[p][n].kind # "none"}

Change ==
    /\ changes < MaxChanges /\ changes' = changes + 1
    /\ \E p \in {"cwd", "sub"}, n \in Names, node \in {None, [kind |-> "file", size |-> 1]} :
         /\ node # world[p][n] /\ Exists(p)
         /\ world' = [world EXCEPT ![p][n] = node]
         /\ steady' = (IF p = "cwd" /\ n = "d" /\ place = "sub" THEN {}
                       ELSE IF p = place /\ node.kind = "none" THEN steady \ {n} ELSE steady)
         /\ changed' = (IF p = place THEN changed \cup {n} ELSE changed)
    /\ UNCHANGED <<platform, pattern, entries, single, handle, place, batch, seen, pc, result, order, opened, lost, opens>>

--------------------------------------------------------------------------------
\* Opening.

Wild(p) == p.last \in DOMAIN Matching

\* Utils::GetFileInfo(): what a name is, a link being what it leads to.
Info(p) ==
    IF Wild(p) \/ ~Exists(p.at) THEN None
    ELSE IF p.last = "" THEN IF p.at = "root" THEN Dir ELSE None
    ELSE LET node == world[p.at][p.last] IN
         CASE node.kind = "link" -> [node EXCEPT !.kind = "file"]
           [] node.kind \in {"dead", "busy"} /\ platform \in {"amiga3", "amiga4"} -> None
           [] node.kind = "dead" -> None
           [] node.kind = "busy" -> [node EXCEPT !.kind = "file"]
           [] OTHER -> node

\* The directory that open() asks the system for.  On Unix, the path before a
\* wildcard loses its '/', and an empty path is the current directory.
Directory(p) ==
    IF ~Wild(p) THEN IF p.last = "" THEN p.at ELSE IF p.at = "cwd" /\ p.last = "d" THEN "sub" ELSE "none"
    ELSE IF platform = "unix" /\ p.at = "root" THEN "cwd" ELSE p.at

Fits(n) == Wild(pattern) => n \in Matching[pattern.last]

IsLink(node) == node.kind \in {"link", "dead", "busy"}

\* The size that is given to an entry that is taken for a link, or for none.
Resolved(node, asLink) ==
    IF asLink THEN (IF node.kind = "dead" THEN 0 ELSE node.size)
    ELSE IF IsLink(node) THEN 0 ELSE node.size

Append1(n, node) == Append(entries, [name |-> n, set |-> TRUE, size |-> Resolved(node, FALSE)])

\* MUTANT: the entries are kept.
ClearedButEntries ==
    /\ single' = FALSE /\ handle' = "none" /\ batch' = NoBatch /\ UNCHANGED entries
    /\ seen' = {} /\ steady' = {} /\ changed' = {} /\ order' = "unread" /\ UNCHANGED place

Cleared ==
    /\ entries' = <<>> /\ single' = FALSE /\ handle' = "none" /\ batch' = NoBatch
    /\ seen' = {} /\ steady' = {} /\ changed' = {} /\ order' = "unread" /\ UNCHANGED place

Open ==
    /\ pc = "idle" /\ platform # "remote" /\ opens < MaxOpens
    /\ opens' = opens + 1 /\ opened' = opened + 1
    /\ \E p \in Patterns :
         /\ pattern' = p /\ order' = "unread"
         /\ IF Info(p).kind = "file"
            THEN /\ single' = TRUE /\ entries' = Append1(p.last, Info(p))
                 /\ result' = "KErrNone" /\ UNCHANGED pc
            ELSE /\ pc' = "open" /\ result' = "none" /\ UNCHANGED <<single, entries>>
    /\ UNCHANGED <<platform, world, handle, place, batch, seen, steady, changed, lost, changes>>

\* open() fails, and calls close().
OpenFails(error) == Cleared /\ result' = error /\ opened' = 0

Overwritten == IF handle = "open" THEN lost + 1 ELSE lost

\* It was opened for a file and not closed since then.
OpenDirectoryNot ==
    /\ single /\ OpenFails("KErrNoMemory") /\ UNCHANGED lost

\* The directory is there (or not).  A scan that FindFirstFile() finds nothing for
\* is opened with success.
OpenDirectoryNow ==
    LET p  == Directory(pattern)
        ok == p \in Places /\ (p \in Places => Exists(p))
        \* Amiga OS locks a file, too, if there is one by now.
        file == ~Wild(pattern) /\ pattern.last # "" /\ Exists(pattern.at)
                /\ world[pattern.at][pattern.last].kind \in {"file", "link"}
        found == {n \in Names : Exists(p) /\ world[p][n].kind # "none" /\ Fits(n)}
        dots  == p # "root" /\ (Wild(pattern) => pattern.last = "*")
    IN /\ ~single /\ lost' = Overwritten
       /\ CASE ~ok /\ file /\ platform \in {"amiga3", "amiga4"} ->
                 /\ handle' = "bad" /\ result' = "KErrNone"
                 /\ batch' = NoBatch /\ seen' = {} /\ steady' = {} /\ changed' = {}
                 /\ UNCHANGED <<entries, single, place, order, opened>>
            [] ~ok /\ ~(file /\ platform \in {"amiga3", "amiga4"}) -> OpenFails("KErrNotFound")
            [] ok /\ platform = "windows" /\ ~dots /\ found = {} ->
                 /\ handle' = "bad" /\ result' = "KErrNone"
                 /\ place' = p /\ seen' = {} /\ steady' = {} /\ changed' = {}
                 /\ UNCHANGED <<entries, single, batch, order, opened>>
            [] ok /\ ~(platform = "windows" /\ ~dots /\ found = {}) ->
                 /\ handle' = "open" /\ place' = p /\ result' = "KErrNone"
                 /\ steady' = Present(p) /\ changed' = {} /\ batch' = NoBatch
                 /\ IF platform = "windows" /\ ~dots
                    THEN \E n \in found : entries' = Append1(n, world[p][n]) /\ seen' = {n}
                    ELSE seen' = {} /\ UNCHANGED entries
                 /\ UNCHANGED <<single, order, opened>>

OpenDirectory ==
    /\ pc = "open" /\ pc' = "idle"
    /\ OpenDirectoryNot \/ OpenDirectoryNow
    /\ UNCHANGED <<platform, world, pattern, opens, changes>>

\* RRemoteDir::open(): the entries come with the answer.
OpenRemote ==
    /\ pc = "idle" /\ platform = "remote" /\ opens < MaxOpens
    /\ opens' = opens + 1 /\ opened' = opened + 1 /\ order' = "unread"
    /\ \E p \in Places :
         \/ /\ Exists(p) /\ place' = p /\ result' = "KErrNone"
            /\ steady' = Present(p) /\ changed' = {}
            /\ entries' = entries \o SetToSeq({[name |-> n, set |-> TRUE, size |-> world[p][n].size] : n \in Present(p)})
            /\ pattern' = [at |-> p, last |-> ""]
         \/ /\ result' \in {"KErrNotFound", "KErrNotOpen", "KErrGeneral"}
            /\ UNCHANGED <<entries, place, steady, changed, pattern>>
    /\ UNCHANGED <<platform, world, single, handle, batch, seen, pc, lost, changes>>

Close ==
    /\ pc = "idle" /\ Cleared /\ opened' = 0 /\ result' = "none"
    /\ UNCHANGED <<platform, world, pattern, pc, lost, opens, changes>>

--------------------------------------------------------------------------------
\* Reading and sorting.

Signed(n) == ((n + Wide) % (2 * Wide)) - Wide

\* CompareEntries() for two sizes: their difference, as a TInt.
SizeOrder(e, f) == Signed(e.size - f.size)

Rank == [n \in Names |-> CASE n = "a" -> 1 [] n = "b" -> 2 [] OTHER -> 3]

Compare(o, e, f) == IF o = "size" THEN SizeOrder(e, f) ELSE Rank[e.name] - Rank[f.name]

\* StdList::Sort(), whose algorithm ListSort models, has compared every two neighbours
\* that it leaves, the one that was in front of the other given first; this says where
\* all are if the order is one, and no more if differences have been cut.
InPlace(o, s, i, j) ==
    IF i < j THEN Compare(o, s[i], s[j]) <= 0 ELSE Compare(o, s[j], s[i]) > 0

\* q are the places of the first entries of the outcome; the next is another.
Further(o, s, q) ==
    {Append(q, j) : j \in {k \in DOMAIN s : /\ \A i \in DOMAIN q : q[i] # k
                                            /\ q # <<>> => InPlace(o, s, q[Len(q)], k)}}

Sortings(o, s) ==
    LET firsts[n \in 0 .. Len(s)] ==
            IF n = 0 THEN {<<>>} ELSE UNION {Further(o, s, q) : q \in firsts[n - 1]}
    IN IF o = "none" THEN {s} ELSE {[i \in DOMAIN s |-> s[q[i]]] : q \in firsts[Len(s)]}

\* read() returns, and has sorted what there is, in failure, too.
Returns(s, error) ==
    /\ \E o \in Orders : order' = o /\ entries' \in Sortings(o, s)
    /\ result' = error /\ pc' = "idle"

Read ==
    /\ pc = "idle" /\ result # "none"
    /\ IF platform = "remote" THEN result' = "KErrNone" /\ UNCHANGED <<entries, order, pc>>
       ELSE IF handle = "open" /\ (single => platform \in {"amiga3", "amiga4"})
            THEN pc' = "read" /\ result' = "none" /\ UNCHANGED <<entries, order>>
       ELSE Returns(entries, IF single THEN "KErrNone" ELSE "KErrGeneral")
    /\ UNCHANGED <<platform, world, pattern, single, handle, place, batch, seen, steady, changed,
                   opened, lost, opens, changes>>

\* What the system may return next.  readdir() may still return what has gone.
Next1 == IF platform = "unix" THEN (Present(place) \cup steady \cup changed) \ seen
         ELSE Present(place) \ seen

\* On Unix, a file that has gone ends the reading.
ReadUnix ==
    /\ platform = "unix"
    /\ \E n \in Next1 :
         /\ seen' = seen \cup {n}
         /\ CASE ~Fits(n) -> UNCHANGED <<entries, pc, result, order>>
              [] Fits(n) /\ n \in Present(place) ->
                   entries' = Append1(n, world[place][n]) /\ UNCHANGED <<pc, result, order>>
              [] Fits(n) /\ n \notin Present(place) ->
                   Returns(Append(entries, [name |-> n, set |-> FALSE, size |-> 0]), "KErrNotFound")
    /\ UNCHANGED batch

ReadWindows ==
    /\ platform = "windows"
    /\ \E n \in Next1 :
         /\ seen' = seen \cup {n}
         /\ entries' = IF Fits(n) THEN Append1(n, world[place][n]) ELSE entries
    /\ UNCHANGED <<batch, pc, result, order>>

\* What a link leads to is asked by its name.  Utils::GetFileInfo() only ever says that
\* it is not there, for one that is in use as well: the size is 0, and the reading goes on.
ReadAmiga4 ==
    /\ platform = "amiga4"
    /\ \E n \in Next1 :
         LET node == world[place][n] IN
         /\ seen' = seen \cup {n}
         /\ entries' = IF Fits(n)
                       THEN Append(entries, [name |-> n, set |-> TRUE, size |-> Resolved(node, IsLink(node))])
                       ELSE entries
    /\ UNCHANGED <<batch, pc, result, order>>

\* ExAll() fills the buffer.
FillBuffer ==
    /\ platform = "amiga3" /\ batch.names = <<>>
    /\ \E n \in 1 .. MaxBatch : \E s \in [1 .. n -> Next1] :
         /\ \A i, j \in 1 .. n : i # j => s[i] # s[j]
         /\ batch' = [names |-> s, first |-> world[place][s[1]]]
         /\ seen' = seen \cup {s[i] : i \in 1 .. n}
    /\ UNCHANGED <<entries, pc, result, order>>

\* Whether an entry is a link is asked of the first one in the buffer.  A link to a
\* file in use ends the buffer, but not the reading; its error is kept until the
\* next link.
ReadBuffer ==
    /\ platform = "amiga3" /\ batch.names # <<>>
    /\ LET n    == Head(batch.names)
           node == world[place][n]
           link == IsLink(batch.first)
           left == [batch EXCEPT !.names = Tail(@)]
       IN CASE ~Fits(n) -> batch' = left /\ UNCHANGED <<entries, result>>
            [] Fits(n) /\ link /\ node.kind = "busy" ->
                 /\ entries' = Append(entries, [name |-> n, set |-> FALSE, size |-> 0])
                 /\ batch' = NoBatch /\ result' = "KErrInUse"
            [] Fits(n) /\ ~(link /\ node.kind = "busy") ->
                 /\ entries' = Append(entries, [name |-> n, set |-> TRUE, size |-> Resolved(node, link)])
                 /\ batch' = left /\ result' = IF link THEN "none" ELSE result
    /\ UNCHANGED <<seen, pc, order>>

Ended == steady \subseteq seen /\ batch.names = <<>>

\* There is nothing more, or the system says why it cannot go on.
EndOfDirectory ==
    /\ Ended
    /\ Returns(entries, IF result = "none" THEN "KErrNone" ELSE result)
    /\ UNCHANGED <<seen, batch>>

ReadingFails ==
    /\ batch.names = <<>>
    /\ Returns(entries, IF platform = "unix" THEN "KErrNotFound" ELSE "KErrGeneral")
    /\ UNCHANGED <<seen, batch>>

Reading ==
    /\ pc = "read"
    /\ ReadUnix \/ ReadWindows \/ ReadAmiga4 \/ FillBuffer \/ ReadBuffer \/ EndOfDirectory \/ ReadingFails
    /\ UNCHANGED <<platform, world, pattern, single, handle, place, steady, changed, opened, lost, opens, changes>>

Next == Change \/ Open \/ OpenDirectory \/ OpenRemote \/ Close \/ Read \/ Reading

Spec == Init /\ [][Next]_vars

--------------------------------------------------------------------------------
Times(n) == Cardinality({i \in DOMAIN entries : entries[i].name = n})

\* A link to a file in use costs Amiga OS 3 the rest of its buffer, for an error that
\* only lasts until the next link.
CutShort == platform = "amiga3" /\ \E i \in DOMAIN entries : ~entries[i].set

DifferencesFit ==
    \A i, j \in DOMAIN entries : entries[i].size - entries[j].size < Wide

\* The directory that is read is the one that was asked for (but for a wildcard in
\* the root directory on Unix); of an object that was opened once, no name is listed
\* twice; an entry that nobody has touched has its size (on Amiga OS 4, a link that
\* of what it leads to); and when read() has succeeded, everything is listed that
\* was there all the time.  In the order of size the smaller file comes first, if
\* the difference of any two fits a TInt, to which the code cuts it.
ListingIsRight ==
    /\ (handle = "open" /\ pc = "idle" /\ ~single) =>
          \/ ~Wild(pattern) /\ pattern.last # "" /\ place = "sub"
          \/ place = pattern.at
          \/ platform = "unix" /\ pattern.at = "root"
    /\ opened = 1 => \A n \in Names : Times(n) <= 1
    /\ (handle = "open" /\ opened = 1) =>
          \A i \in DOMAIN entries :
              LET node == world[place][entries[i].name] IN
              (entries[i].set /\ entries[i].name \notin changed
                   /\ (IsLink(node) => platform = "amiga4" /\ node.kind = "link"))
                  => entries[i].size = node.size
    /\ (opened = 1 /\ pc = "idle" /\ handle = "open" /\ result = "KErrNone" /\ order # "unread") =>
          \A n \in steady : Fits(n) => Times(n) = 1 \/ CutShort
    /\ (pc = "idle" /\ order = "size" /\ DifferencesFit) =>
          \A i, j \in DOMAIN entries : i < j => entries[i].size <= entries[j].size

\* close() leaves nothing open, unless a directory was opened over another one.
HandlesAreKept == lost > 0 => opens > 1

--------------------------------------------------------------------------------
(***************************************************************************)
(* The inductive invariant.                                                *)
(***************************************************************************)
Typed ==
    /\ TypeOK
    /\ platform \in Platforms /\ pattern \in Patterns \cup [at : Places, last : {""}]
    /\ batch \in [names : Seq(Names), first : DiskNodes]
    /\ opened \in Nat /\ opens \in Nat

\* An object that was opened once has nothing from before, and one that is not open
\* has nothing at all.
OpensInOrder ==
    /\ opened <= opens
    /\ opened = 0 => entries = <<>> /\ ~single /\ handle = "none" /\ pc = "idle"
    /\ pc = "open" => opened > 0 /\ order = "unread"
    /\ pc = "open" /\ opened = 1 => entries = <<>> /\ ~single /\ handle = "none"
    /\ pc = "read" => handle = "open"
    /\ handle = "open" /\ opened = 1 => ~single
    /\ platform = "remote" => handle = "none" /\ pc = "idle"

\* While a directory is read, too, it is the one that was asked for.
ReadsTheDirectory ==
    (handle = "open" /\ pc # "open" /\ ~single) =>
        \/ ~Wild(pattern) /\ pattern.last # "" /\ place = "sub"
        \/ place = pattern.at
        \/ platform = "unix" /\ pattern.at = "root"

InEntries == {entries[i].name : i \in DOMAIN entries}
InBatch == {batch.names[i] : i \in DOMAIN batch.names}

\* What the handle has returned is on the list, or still in the buffer of ExAll(), and
\* only once.
SeenIsListed ==
    (handle = "open" /\ opened = 1) =>
        /\ InEntries \subseteq seen /\ InBatch \subseteq seen /\ InEntries \cap InBatch = {}
        /\ \A i, j \in DOMAIN batch.names : batch.names[i] = batch.names[j] => i = j
        /\ \A n \in seen \ InBatch : Fits(n) => n \in InEntries \/ CutShort
        /\ (pc = "idle" /\ result = "KErrNone" /\ order # "unread") =>
               steady \subseteq seen /\ batch.names = <<>>

ListedOnce ==
    opened = 1 => \A i, j \in DOMAIN entries : entries[i].name = entries[j].name => i = j

SizesAreTheirs ==
    (handle = "open" /\ opened = 1) =>
        \A i \in DOMAIN entries :
            LET node == world[place][entries[i].name] IN
            (entries[i].set /\ entries[i].name \notin changed
                 /\ (IsLink(node) => platform = "amiga4" /\ node.kind = "link"))
                => entries[i].size = node.size

SmallerFirst ==
    (pc = "idle" /\ order = "size" /\ DifferencesFit) =>
        \A i, j \in DOMAIN entries : i < j => entries[i].size <= entries[j].size

InOrder ==
    /\ Typed /\ OpensInOrder /\ ReadsTheDirectory /\ SeenIsListed /\ ListedOnce
    /\ SizesAreTheirs /\ SmallerFirst /\ HandlesAreKept
================================================================================
