------------------------------ MODULE FileHandle ------------------------------
(***************************************************************************)
(* What RFileObject promises to its user when the files are elsewhere: a   *)
(* handle is opened on a name, new and empty or with what stands there;    *)
(* reads, writes and seeks act on those contents; and closing a handle     *)
(* that was created or written to sends its contents on their way to that  *)
(* name.  What is on its way arrives whole, in part or not at all; the     *)
(* files change in no other way.  A close that fails says so, but what it  *)
(* has sent by then may still arrive, or have taken the place of the file. *)
(***************************************************************************)
EXTENDS Naturals, Sequences

CONSTANTS
    Names,      \* names of files
    NoName,     \* the name of a closed handle
    NoFile,     \* what stands under a name that is not in use
    Bodies      \* contents of files, sequences of bytes

VARIABLES
    name,       \* the name the handle was opened with, NoName when closed
    data,       \* its contents
    pos,        \* the offset of the next read or write
    changed,    \* it was created or written to
    lastClose,  \* what the last close returned
    store,      \* what stands under each name
    due,        \* the contents that are on their way to a name
    connected   \* the way there is open; it changes without the handle's doing

handle == <<name, data, pos, changed, lastClose>>
vars   == <<handle, store, due, connected>>

Put(n, b) == [name |-> n, data |-> b]

\* The contents after s was written at offset p, which is at most their length.
Overlay(b, p, s) ==
    SubSeq(b, 1, p) \o s \o SubSeq(b, p + Len(s) + 1, Len(b))

Handle(n, b, c) ==
    name' = n /\ data' = b /\ pos' = 0 /\ changed' = c

Init ==
    /\ name = NoName /\ data = <<>> /\ pos = 0 /\ changed = FALSE
    /\ lastClose = "KErrNone"
    /\ store \in [Names -> Bodies \cup {NoFile}]
    /\ due = {} /\ connected = FALSE

Create ==
    \E n \in Names :
       /\ name = NoName /\ Handle(n, <<>>, TRUE)
       /\ UNCHANGED <<lastClose, store, due>>

Open ==
    \E n \in Names :
       /\ name = NoName /\ store[n] # NoFile
       /\ Handle(n, store[n], FALSE)
       /\ UNCHANGED <<lastClose, store, due>>

Move ==
    /\ name # NoName
    /\ pos' \in 0 .. Len(data)
    /\ UNCHANGED <<name, data, changed, lastClose, store, due>>

Write ==
    \E s \in Bodies :
       /\ name # NoName
       /\ data' = Overlay(data, pos, s)
       /\ pos' = pos + Len(s) /\ changed' = TRUE
       /\ UNCHANGED <<name, lastClose, store, due>>

\* Success: the contents are on their way, unless the way was not open.
Close ==
    /\ name # NoName
    /\ Handle(NoName, <<>>, FALSE)
    /\ lastClose' = "KErrNone"
    /\ \/ changed /\ due' = due \cup {Put(name, data)}
       \/ (changed => ~connected) /\ due' = due
    /\ UNCHANGED store

\* Failure, with something to send: it may be on its way all the same, and what
\* was on its way before may have been lost with it.
CloseFails ==
    /\ name # NoName /\ changed
    /\ Handle(NoName, <<>>, FALSE)
    /\ lastClose' \in {"KErrNotFound", "KErrNotOpen"}
    /\ due' \subseteq due \cup {Put(name, data)}
    /\ UNCHANGED store

Arrive(p) ==
    /\ store' = [store EXCEPT ![p.name] = p.data]
    /\ due' \in {due, due \ {p}}

\* The old file goes as soon as the new one begins.
ArriveInPart(p) ==
    \E n \in 0 .. Len(p.data) - 1 :
       /\ store' = [store EXCEPT ![p.name] = SubSeq(p.data, 1, n)]
       /\ due' \subseteq due

GoAstray == due' \subseteq due /\ UNCHANGED store

Deliver ==
    /\ GoAstray \/ \E p \in due : Arrive(p) \/ ArriveInPart(p)
    /\ UNCHANGED handle

Next == Create \/ Open \/ Move \/ Write \/ Close \/ CloseFails \/ Deliver

Spec == Init /\ [][Next]_vars
================================================================================
