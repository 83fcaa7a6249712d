------------------------------ MODULE RemoteFile ------------------------------
(***************************************************************************)
(* RRemoteFile on top of the session: the memory buffer that stands for    *)
(* the remote file while it is open, filled by open() from the server and  *)
(* sent back by close().  The buffer, the offset and the name belong to    *)
(* the one RRemoteFile of the factory, and outlive every open and close.   *)
(*                                                                         *)
(* The last three constants say how the object is used; each usage that a  *)
(* caller of RFileObject may expect to work can be left out or let in.     *)
(***************************************************************************)
EXTENDS RemoteSession

CONSTANTS
    Bytes,          \* the values of a byte
    ZeroByte,       \* the value resize() gives to new elements
    Writes,         \* what one call of write() writes
    MaxSize,        \* bound: the longest buffer
    EditOpened,     \* files opened with open() are written to
    LeaveEmpty,     \* created files are closed without a write
    ReuseFailed     \* the object is used again after a failed open()

ASSUME UsageAssumption ==
    /\ MaxSize \in Nat /\ ZeroByte \in Bytes
    /\ Bodies = UNION {[1 .. n -> Bytes] : n \in 0 .. MaxSize}
    /\ Writes \subseteq Bodies
    /\ EditOpened \in BOOLEAN /\ LeaveEmpty \in BOOLEAN
    /\ ReuseFailed \in BOOLEAN

VARIABLES
    dirty, fileOffset, fileName, fileBuffer,   \* the members of RRemoteFile
    user,     \* the caller's view: the name it holds open, and how
    lastClose \* what the last close() returned

file  == <<dirty, fileOffset, fileName, fileBuffer>>
fvars == <<vars, file, user, lastClose>>

View(n, how) == [name |-> n, how |-> how]

NotOpen == View(NoName, "closed")

\* The type invariant.
FTypeOK ==
    /\ TypeOK
    /\ dirty \in BOOLEAN
    /\ fileName \in Names \cup {NoName}
    /\ fileBuffer \in Bodies
    /\ fileOffset \in 0 .. MaxSize
    /\ user \in [name : Names \cup {NoName},
                 how : {"closed", "opening", "failed", "opened", "created", "written"}]
    /\ lastClose \in Results

FInit ==
    /\ Init
    /\ dirty = FALSE /\ fileOffset = 0 /\ fileName = NoName /\ fileBuffer = <<>>
    /\ user = NotOpen
    /\ lastClose = "KErrNone"

\* std::vector::resize(): new elements are zero.
Resized(b, n) ==
    [i \in 1 .. n |-> IF i <= Len(b) THEN b[i] ELSE ZeroByte]

Overlay(b, p, s) ==
    SubSeq(b, 1, p) \o s \o SubSeq(b, p + Len(s) + 1, Len(b))

--------------------------------------------------------------------------------
Free == user.how = "closed" \/ (ReuseFailed /\ user.how = "failed")

Named(n) == fileName' = n

\* RRemoteFile::create() and replace()
CreateFile(n) ==
    /\ pc = "idle" /\ Free
    /\ Named(n) /\ fileOffset' = 0
    /\ out' = "KErrNone"
    /\ user' = View(n, "created")
    /\ UNCHANGED <<cur, pc, req, got, wire, server, dirty, fileBuffer, lastClose>>

\* RRemoteFile::open(): it returns at once when nothing can be written.
OpenFile(n) ==
    /\ Free
    /\ SendRequest(Request("get", n, NoName, <<>>))
    /\ user' = View(n, IF pc' = "idle" THEN "failed" ELSE "opening")
    /\ UNCHANGED <<file, lastClose>>

Opening == user.how = "opening"

OpenAnswered ==
    /\ Opening /\ ReadResponse
    /\ user' = IF pc' = "idle" THEN View(user.name, "failed") ELSE user
    /\ UNCHANGED <<file, lastClose>>

OpenSized ==
    /\ Opening /\ ReadSize
    /\ fileBuffer' = Resized(fileBuffer, Len(Incoming.body))
    /\ UNCHANGED <<dirty, fileOffset, fileName, user, lastClose>>

OpenLoaded ==
    /\ Opening /\ ReadData
    /\ fileBuffer' = Overlay(fileBuffer, 0, Incoming.body)
    /\ fileOffset' = 0
    /\ user' = View(user.name, "opened")
    /\ UNCHANGED <<dirty, fileName, lastClose>>

OpenEmpty ==
    /\ Opening /\ ReadNothing
    /\ user' = View(user.name, "failed")
    /\ UNCHANGED <<file, lastClose>>

\* The stream has ended before the file was complete: some of it may be there.
OpenCut ==
    /\ Opening /\ ReadFails
    /\ fileBuffer' \in IF pc = "data"
                         THEN {Overlay(fileBuffer, 0, p) : p \in Prefixes(got) \ {got}}
                         ELSE {fileBuffer}
    /\ user' = View(user.name, "failed")
    /\ UNCHANGED <<dirty, fileOffset, fileName, lastClose>>

IsOpen == user.how \in {"opened", "created", "written"}

Left == Len(fileBuffer) - fileOffset

\* MUTANT: as many bytes as were asked for.
AsAsked(n) == n

Taken(n) == IF fileOffset + n < Len(fileBuffer) THEN n ELSE Left

\* RRemoteFile::read(): what is left, up to a_length bytes.
ReadFile(n) ==
    /\ pc = "idle" /\ IsOpen
    /\ fileOffset' = fileOffset + Taken(n)
    /\ out' = IF fileOffset + n < Len(fileBuffer) \/ Left # 0
                 THEN "KErrNone" ELSE "KErrEof"
    /\ UNCHANGED <<cur, pc, req, got, wire, server,
                   dirty, fileName, fileBuffer, user, lastClose>>

\* RRemoteFile::seek()
SeekFile(n) ==
    /\ pc = "idle" /\ IsOpen
    /\ IF n < Len(fileBuffer)
         THEN fileOffset' = n /\ out' = "KErrNone"
         ELSE fileOffset' = fileOffset /\ out' = "KErrGeneral"
    /\ UNCHANGED <<cur, pc, req, got, wire, server,
                   dirty, fileName, fileBuffer, user, lastClose>>

\* RRemoteFile::write()
WriteFile(s) ==
    /\ pc = "idle" /\ IsOpen
    /\ user.how = "opened" => EditOpened
    /\ fileOffset + Len(s) <= MaxSize
    /\ fileBuffer' = Overlay(fileBuffer, fileOffset, s)
    /\ fileOffset' = fileOffset + Len(s)
    /\ dirty' = TRUE
    /\ out' = "KErrNone"
    /\ user' = View(user.name, "written")
    /\ UNCHANGED <<cur, pc, req, got, wire, server, fileName, lastClose>>

\* MUTANT: the file is still dirty after it was closed.
ResetStillDirty == fileOffset' = 0 /\ fileBuffer' = <<>> /\ UNCHANGED <<dirty, fileName>>

Reset == dirty' = FALSE /\ fileOffset' = 0 /\ fileBuffer' = <<>> /\ UNCHANGED fileName

\* Closing after a failed open() is for tidiness: it concludes nothing.
Conclude == lastClose' = IF IsOpen THEN out' ELSE lastClose

\* RRemoteFile::close(): the members are reset whether or not the file was
\* sent, except for the name.
CloseFile ==
    /\ pc = "idle" /\ user.how \notin {"closed", "opening"}
    /\ user.how = "created" => LeaveEmpty
    /\ IF dirty /\ fileBuffer # <<>>
         THEN SendRequest(Request("send", fileName, NoName, fileBuffer))
         ELSE out' = "KErrNone" /\ UNCHANGED <<cur, pc, req, got, wire, server>>
    /\ Conclude
    /\ Reset
    /\ user' = NotOpen

FileCall ==
    \/ \E n \in Names : CreateFile(n) \/ OpenFile(n)
    \/ OpenAnswered \/ OpenSized \/ OpenLoaded \/ OpenEmpty \/ OpenCut
    \/ \E n \in 0 .. MaxSize : ReadFile(n) \/ SeekFile(n)
    \/ \E s \in Writes : WriteFile(s)
    \/ CloseFile

\* The rest of the session goes on around it.
Around ==
    /\ \/ Close \/ OpenRemote \/ CheckConnection \/ ServerAct \/ Environment
       \/ ~Opening /\ ClientRead
    /\ UNCHANGED <<file, user, lastClose>>

FNext == FileCall \/ Around

FSpec == FInit /\ [][FNext]_fvars
--------------------------------------------------------------------------------
(***************************************************************************)
(* Properties.                                                             *)
(***************************************************************************)
Shown(open, closed) == IF IsOpen THEN open ELSE closed

\* The requests whose units are on the wire, or which the server is receiving.
UnderWay ==
    {srvReq} \cup UNION {{c2s[c][i].req : i \in 1 .. Len(c2s[c])} : c \in Conns}

\* The files that are on their way to the server.
Due == {[name |-> r.name, data |-> r.body] : r \in {q \in UnderWay : q.cmd = "send"}}

Contract == INSTANCE FileHandle WITH
    name      <- Shown(user.name, NoName),
    data      <- Shown(fileBuffer, <<>>),
    pos       <- Shown(fileOffset, 0),
    changed   <- user.how \in {"created", "written"},
    store     <- disk,
    due       <- Due,
    connected <- cur # NoConn /\ link[cur] = "up"

\* A connection breaks, under a write or otherwise, the server gives one up, or
\* stops itself.
Breaks ==
    \/ \E c \in Conns : link[c] = "up" /\ link'[c] \in {"rst", "dead"}
    \/ ServerReadFails \/ Environment

\* A file that was on its way has arrived in its place when it is not any more.
PutsArrive == [][\A p \in Due \ Due' : disk'[p.name] = p.data \/ Breaks]_fvars

\* Through any loss of the connection, and on the server's own files: open()
\* hands out a whole file as it stands there, with nothing left over from the
\* buffer's earlier use; close() sends what was written on its way to the name
\* that was opened, or returns an error; no file changes but by what was sent to
\* its name; and what was sent is lost only with a connection or the server.
KeepsContract == Contract!Spec /\ PutsArrive

\* read() subtracts the offset from the size of the buffer to find how much is
\* left, in unsigned arithmetic: while the file is open, through every reopening
\* and failed transfer, the offset is never beyond the end.  The types hold too.
OffsetInBuffer == FTypeOK /\ (IsOpen => fileOffset <= Len(fileBuffer))

(***************************************************************************)
(* What OffsetInBuffer and KeepsContract rest on, beyond the invariants of *)
(* the session.  The first is for users who do not edit what they have     *)
(* opened, the second for those who neither use an object again after a    *)
(* failed open() nor write nothing.                                        *)
(***************************************************************************)

\* The members of the object go with the caller's view of it.
MembersMatchView ==
    /\ FTypeOK
    /\ user.how = "closed" <=> user.name = NoName
    /\ fileOffset <= Len(fileBuffer)
    /\ ~IsOpen => fileOffset = 0
    /\ dirty <=> user.how = "written"
    /\ user.how \in {"created", "written"} => fileName = user.name
    /\ Opening => /\ pc \in {"response", "size", "data"}
                  /\ req = Request("get", user.name, NoName, <<>>)

\* Nothing is in the buffer before a file is, or has been announced.
BufferStartsEmpty ==
    /\ user.how \in {"closed", "created"} \/ (Opening /\ pc # "data") => fileBuffer = <<>>
    /\ Opening /\ pc = "data" => Len(fileBuffer) = Len(got)
    /\ user.how = "written" => fileBuffer # <<>>
================================================================================
