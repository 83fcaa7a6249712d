----------------------------- MODULE RemoteSession -----------------------------
(***************************************************************************)
(* The remote half of RRemoteFactory: one RSocket shared by the remote     *)
(* file, directory, file utility and watcher objects, the self-healing     *)
(* checkConnection(), the signature and version handshake of openRemote(), *)
(* and the request and reply exchange of every CHandler that the client    *)
(* side of the library sends to a RADRunner server.                        *)
(*                                                                         *)
(* The client is single threaded: a call runs until it blocks in recv().   *)
(* The server handles one connection at a time, as RSocket::listen() and   *)
(* RSocket::accept() make it.  The network is a pair of byte streams per   *)
(* connection, held here as sequences of the units that one write() puts   *)
(* on the wire and one read() takes off it.                                *)
(***************************************************************************)
EXTENDS Naturals, Sequences

CONSTANTS
    Names,            \* names of files on the server
    NoName,           \* the absent argument of a request
    Bodies,           \* contents a file can have, sequences of bytes
    NoFile,           \* the contents of a name that does not exist
    Conns,            \* socket descriptors, reused once both ends are done
    NoConn,           \* INVALID_SOCKET
    Versions,         \* protocol versions a server may speak
    ClientVersion,    \* PROTOCOL_MAJOR and PROTOCOL_MINOR of this build
    Window,           \* units the network holds before write() blocks
    CreateMayFail,    \* RFile::create() can fail on the server
    StickyReset       \* recv() reports a reset again and again (Winsock)

ASSUME ConstantsAssumption ==
    /\ <<>> \in Bodies
    /\ NoFile \notin Bodies
    /\ NoConn \notin Conns
    /\ NoName \notin Names
    /\ ClientVersion \in Versions
    /\ Window \in Nat /\ Window >= 3
    /\ CreateMayFail \in BOOLEAN
    /\ StickyReset \in BOOLEAN

\* A file that was cut short is a file.
ASSUME CutAssumption == \A b \in Bodies : \A n \in 0 .. Len(b) : SubSeq(b, 1, n) \in Bodies

Commands == {"version", "delete", "dir", "fileinfo", "get", "rename", "send"}

Requests == [cmd : Commands, name : Names \cup {NoName},
             to : Names \cup {NoName}, body : Bodies]

Results == {"KErrNone", "KErrNotFound", "KErrNotOpen", "KErrInvalidVersion",
            "KErrEof", "KErrGeneral"}

VARIABLES
    cur,         \* RSocket::m_socket: the connection of the client, or NoConn
    pc,          \* what the client is blocked on in recv(), or "idle"
    req,         \* the request of the CHandler in use
    got,         \* the fileSize just read by readFromRemote(), as contents
    out,         \* what the last call returned
    link,        \* the state of each connection as the client's kernel sees it
    c2s, s2c,    \* what is in flight on each connection, in each direction
    backlog,     \* connections waiting in the server's accept queue
    serving,     \* the connection RSocket::accept() returned last
    srvPc,       \* what the server is about to read
    srvReq,      \* the command whose file the server is receiving, or Hello
    srvVersion,  \* the protocol version of the running server
    disk         \* the files of the server

client == <<cur, pc, req, got, out>>
wire   == <<link, c2s, s2c>>
server == <<backlog, serving, srvPc, srvReq, srvVersion, disk>>
vars   == <<client, wire, server>>

(***************************************************************************)
(* The units on the wire.  A command and its payload are one unit, because *)
(* nothing happens between them on either side; the three parts of a file  *)
(* transfer are apart, because the receiver acts after each of them.       *)
(***************************************************************************)
Unit(kind, r) == [kind |-> kind, req |-> r]

Reply(kind, r, val, b) == [kind |-> kind, req |-> r, val |-> val, body |-> b]

Request(cmd, name, to, body) ==
    [cmd |-> cmd, name |-> name, to |-> to, body |-> body]

Hello == Request("version", NoName, NoName, <<>>)

\* What the library asks for: RRemoteFileUtils, RRemoteDir::open(),
\* RRemoteFile::open(), and RRemoteFile::close() of a dirty, non-empty buffer.
ClientRequests ==
    {Request(cmd, n, NoName, <<>>) :
        cmd \in {"delete", "dir", "fileinfo", "get"}, n \in Names}
    \cup {Request("rename", n, m, <<>>) : n \in Names, m \in Names}
    \cup {Request("send", n, NoName, b) : n \in Names, b \in Bodies \ {<<>>}}

Handshake == <<Unit("signature", Hello), Unit("command", Hello)>>

\* MUTANT: the contents are sent ahead of their size.
WireSizeLast(r) == IF r.cmd = "send"
             THEN <<Unit("command", r), Unit("data", r), Unit("size", r)>>
             ELSE <<Unit("command", r)>>

Wire(r) == IF r.cmd = "send"
             THEN <<Unit("command", r), Unit("size", r), Unit("data", r)>>
             ELSE <<Unit("command", r)>>

(***************************************************************************)
(* A cut stream keeps some prefix of what was in flight.                   *)
(***************************************************************************)
Prefixes(s) == {SubSeq(s, 1, n) : n \in 0 .. Len(s)}

ToServer == [kind : {"signature", "command", "size", "data"},
             req : ClientRequests \cup {Hello}]

ToClient == [kind : {"version", "response", "size", "data"}, req : Requests,
             val : Versions \cup Results, body : Bodies]

Held(c) == c = serving \/ \E i \in 1 .. Len(backlog) : backlog[i] = c

\* "left" and "spent": a connection whose descriptor the client has overwritten,
\* while the server still has its end and after that end was closed.
LinkStates == {"free", "up", "fin", "rst", "dead", "closed", "left", "spent"}

\* The type invariant.
TypeOK ==
    /\ cur \in Conns \cup {NoConn}
    /\ pc \in {"idle", "version", "response", "size", "data"}
    /\ req \in Requests
    /\ got \in Bodies
    /\ out \in Results
    /\ link \in [Conns -> LinkStates]
    /\ c2s \in [Conns -> Seq(ToServer)]
    /\ s2c \in [Conns -> Seq(ToClient)]
    /\ backlog \in Seq(Conns)
    /\ serving \in Conns \cup {NoConn}
    /\ srvPc \in {"idle", "signature", "command", "size", "data"}
    /\ srvReq \in Requests
    /\ srvVersion \in Versions
    /\ disk \in [Names -> Bodies \cup {NoFile}]

Init ==
    /\ cur = NoConn /\ pc = "idle" /\ req = Hello /\ got = <<>>
    /\ out = "KErrNone"
    /\ link = [c \in Conns |-> "free"]
    /\ c2s = [c \in Conns |-> <<>>]
    /\ s2c = [c \in Conns |-> <<>>]
    /\ backlog = <<>> /\ serving = NoConn
    /\ srvPc = "idle" /\ srvReq = Hello /\ srvVersion \in Versions
    /\ disk \in [Names -> Bodies \cup {NoFile}]

--------------------------------------------------------------------------------
(***************************************************************************)
(* RSocket::close() and RSocket::open().  open() resolves the host and     *)
(* connects with a five second timeout; every way of failing leaves the    *)
(* socket closed.  A descriptor is reused when the server has dropped it.  *)
(***************************************************************************)
Closed(c, l) == [l EXCEPT ![c] = IF Held(c) THEN "closed" ELSE "free"]

\* RSocket::open(), once the old links have become l: it does not look at the
\* descriptor it overwrites.
OpenFails(l) ==
    /\ link' = l
    /\ cur' = NoConn /\ pc' = "idle" /\ out' = "KErrNotOpen"
    /\ UNCHANGED <<req, got, c2s, s2c, server>>

OpenConnects(l) ==
    \E c \in Conns :
       /\ l[c] = "free"
       /\ link' = [l EXCEPT ![c] = "up"]
       /\ cur' = c /\ pc' = "version"
       /\ c2s' = [c2s EXCEPT ![c] = Handshake]
       /\ s2c' = [s2c EXCEPT ![c] = <<>>]
       /\ backlog' = Append(backlog, c)
       /\ UNCHANGED <<req, got, out, serving, srvPc, srvReq, srvVersion, disk>>

\* The links once cur was overwritten: nothing closes what it stood for.
Overwritten ==
    IF cur = NoConn THEN link
    ELSE [link EXCEPT ![cur] = IF @ = "up" THEN "left" ELSE "spent"]

\* WSAStartup() failed: open() returns an error before it touches the socket.
OpenRefused ==
    /\ out' = "KErrNotOpen"
    /\ UNCHANGED <<cur, pc, req, got, wire, server>>

\* RRemoteFactory::openRemote(), also called by checkConnection() when the
\* socket is not open.  It does not ask whether it is.
OpenRemote ==
    /\ pc = "idle"
    /\ OpenRefused \/ OpenFails(Overwritten) \/ OpenConnects(Overwritten)

\* RRemoteFactory::close()
Close ==
    /\ pc = "idle" /\ cur # NoConn
    /\ link' = Closed(cur, link)
    /\ cur' = NoConn
    /\ UNCHANGED <<pc, req, got, out, c2s, s2c, server>>

(***************************************************************************)
(* checkConnection() reads one byte without blocking.  Only a result of 0, *)
(* the end of the stream, makes it reopen the socket.  A byte that was in  *)
(* flight is lost; an error is taken for "nothing to read yet".  Outside   *)
(* Winsock the error is reported once, and the stream has then ended.      *)
(***************************************************************************)
ErrorSeen(l) == IF l = "rst" /\ ~StickyReset THEN "dead" ELSE l

\* MUTANT: the end of the stream is taken for an error like the others.
NeverEnded(l) == FALSE

HasEnded(l) == l \in {"fin", "dead"}

ProbeKeeps ==
    /\ pc = "idle" /\ cur # NoConn
    /\ s2c[cur] # <<>> \/ ~HasEnded(link[cur])
    /\ IF s2c[cur] = <<>>
         THEN link' = [link EXCEPT ![cur] = ErrorSeen(@)] /\ UNCHANGED s2c
         ELSE s2c' = [s2c EXCEPT ![cur] = Tail(@)] /\ UNCHANGED link
    /\ UNCHANGED <<client, c2s, server>>

\* MUTANT: the socket is opened again without closing it.
ReopensUnclosed ==
    /\ pc = "idle" /\ cur # NoConn
    /\ s2c[cur] = <<>> /\ HasEnded(link[cur])
    /\ OpenFails(Closed(cur, link)) \/ OpenConnects(link)

ProbeReopens ==
    /\ pc = "idle" /\ cur # NoConn
    /\ s2c[cur] = <<>> /\ HasEnded(link[cur])
    /\ OpenFails(Closed(cur, link)) \/ OpenConnects(Closed(cur, link))

CheckConnection == ProbeKeeps \/ ProbeReopens \/ (cur = NoConn /\ OpenRemote)

(***************************************************************************)
(* sendRequest() of every CHandler, called through one of the remote       *)
(* objects.  write() returns once the units are with the kernel, and waits *)
(* for room in the window.  The kernel takes one write to a stream that    *)
(* the server has ended, and answers it with a reset.                      *)
(***************************************************************************)
Refuse(r) ==
    /\ cur = NoConn
    /\ out' = "KErrNotOpen"
    /\ UNCHANGED <<cur, pc, req, got, wire, server>>

\* MUTANT: an error is tried again, and only the end of the stream gives up.
BrokenByEndOnly(l) == HasEnded(l)

Broken(l) == l \in {"fin", "rst", "dead"}

\* write() threw RSocket::Error: the caller returns KErrNotFound, and the
\* socket stays open.
WriteFails(r) ==
    /\ cur # NoConn /\ Broken(link[cur])
    /\ link' = [link EXCEPT ![cur] = ErrorSeen(@)]
    /\ out' = "KErrNotFound"
    /\ UNCHANGED <<cur, pc, req, got, c2s, s2c, server>>

\* MUTANT: the response to a delete is not read.
UnansweredToo(r) == r.cmd \in {"send", "delete"}

\* CSend reads no response: RRemoteFile::close() reports success once the
\* last write() has returned.
Unanswered(r) == r.cmd = "send"

AfterWrite(r) ==
    /\ req' = r
    /\ IF Unanswered(r) THEN pc' = "idle" /\ out' = "KErrNone"
                         ELSE pc' = "response" /\ out' = out
    /\ UNCHANGED <<cur, got>>

WriteGoes(r) ==
    /\ cur # NoConn /\ link[cur] = "up"
    /\ Len(c2s[cur]) + Len(Wire(r)) <= Window
    /\ c2s' = [c2s EXCEPT ![cur] = @ \o Wire(r)]
    /\ AfterWrite(r)
    /\ UNCHANGED <<link, s2c, server>>

WriteIsLost(r) ==
    /\ cur # NoConn /\ link[cur] = "fin"
    /\ link' = [link EXCEPT ![cur] = "rst"]
    /\ AfterWrite(r)
    /\ UNCHANGED <<c2s, s2c, server>>

\* The connection broke under a write that had begun: a cut of everything that
\* is under way may still arrive.
WriteCut(r) ==
    /\ cur # NoConn /\ link[cur] = "up"
    /\ \E p \in Prefixes(c2s[cur] \o Wire(r)) :
          /\ Len(p) <= Window /\ Len(p) < Len(c2s[cur]) + Len(Wire(r))
          /\ c2s' = [c2s EXCEPT ![cur] = p]
    /\ link' = [link EXCEPT ![cur] = ErrorSeen("rst")]
    /\ out' = "KErrNotFound"
    /\ UNCHANGED <<cur, pc, req, got, s2c, server>>

SendRequest(r) ==
    /\ pc = "idle"
    /\ Refuse(r) \/ WriteFails(r) \/ WriteGoes(r) \/ WriteIsLost(r) \/ WriteCut(r)

Ask == \E r \in ClientRequests : SendRequest(r)

(***************************************************************************)
(* RSocket::read() of the reply, unit by unit.  It takes whatever comes    *)
(* next in the stream: nothing in a unit tells the client what it is.      *)
(***************************************************************************)
Incoming == Head(s2c[cur])

Take == s2c' = [s2c EXCEPT ![cur] = Tail(@)]

Return(result) == pc' = "idle" /\ out' = result

Verdict == IF Incoming.val = ClientVersion THEN "KErrNone" ELSE "KErrInvalidVersion"

\* MUTANT: the socket stays open after the version check has failed.
KeptOpen == UNCHANGED <<cur, link>>

ClosedOnMismatch ==
    IF Incoming.val = ClientVersion
      THEN UNCHANGED <<cur, link>>
      ELSE cur' = NoConn /\ link' = Closed(cur, link)

ReadVersion ==
    /\ pc = "version" /\ s2c[cur] # <<>>
    /\ Take
    /\ Return(Verdict)
    /\ ClosedOnMismatch
    /\ UNCHANGED <<req, got, c2s, server>>

\* MUTANT: the file behind a response is left on the socket.
NoFileFollows == FALSE

FileFollows == req.cmd = "get" /\ Incoming.val = "KErrNone"

ReadResponse ==
    /\ pc = "response" /\ s2c[cur] # <<>>
    /\ Take
    /\ IF FileFollows
         THEN pc' = "size" /\ out' = out
         ELSE Return(Incoming.val)
    /\ UNCHANGED <<cur, req, got, link, c2s, server>>

\* readFromRemote(): the size first, and the buffer is resized to it.
ReadSize ==
    /\ pc = "size" /\ s2c[cur] # <<>>
    /\ Take
    /\ pc' = "data" /\ got' = Incoming.body
    /\ UNCHANGED <<cur, req, out, link, c2s, server>>

ReadData ==
    /\ pc = "data" /\ got # <<>> /\ s2c[cur] # <<>>
    /\ Take
    /\ Return("KErrNone")
    /\ UNCHANGED <<cur, req, got, link, c2s, server>>

\* The do-while loop reads at least once, so an empty file is read with a
\* length of 0, which RSocket::read() takes for the end of the stream.  Whether
\* such a recv() returns at once or waits for a byte is up to the system.
ReadNothing ==
    /\ pc = "data" /\ got = <<>>
    /\ Return("KErrNotFound")
    /\ UNCHANGED <<cur, req, got, wire, server>>

\* recv() returned 0 or an error, and read() threw.  openRemote() closes the
\* socket; every other caller leaves it as it is.
ReadFails ==
    /\ pc # "idle" /\ s2c[cur] = <<>> /\ Broken(link[cur])
    /\ IF pc = "version"
         THEN /\ Return("KErrNotOpen")
              /\ cur' = NoConn
              /\ link' = Closed(cur, link)
         ELSE /\ Return("KErrNotFound")
              /\ link' = [link EXCEPT ![cur] = ErrorSeen(@)]
              /\ UNCHANGED cur
    /\ UNCHANGED <<req, got, c2s, s2c, server>>

Receives == ReadVersion \/ ReadResponse \/ ReadSize \/ ReadData \/ ReadFails

ClientRead == Receives \/ ReadNothing

--------------------------------------------------------------------------------
(***************************************************************************)
(* The server.  Only RSocket and CHandler are in this repository; the loop *)
(* of RADRunner that reads a command and runs its handler is modelled from *)
(* what the client half sends it and expects of it.                        *)
(***************************************************************************)
Arriving == c2s[serving]

Drop == c2s' = [c2s EXCEPT ![serving] = Tail(@)]

\* What the server writes reaches the client while the connection lasts.
Answer(units) ==
    s2c' = IF link[serving] = "up"
             THEN [s2c EXCEPT ![serving] = @ \o units] ELSE s2c

\* RSocket::accept()
Accept ==
    /\ serving = NoConn /\ backlog # <<>>
    /\ serving' = Head(backlog) /\ backlog' = Tail(backlog)
    /\ srvPc' = "signature"
    /\ UNCHANGED <<client, wire, srvReq, srvVersion, disk>>

ReadSignature ==
    /\ srvPc = "signature" /\ Arriving # <<>>
    /\ Drop
    /\ srvPc' = "command"
    /\ UNCHANGED <<client, link, s2c, backlog, serving, srvReq, srvVersion, disk>>

\* The file's contents after the response to a get, as sendFile() writes them.
SentFile(r, b) ==
    IF b = <<>> THEN <<Reply("size", r, "KErrNone", b)>>
    ELSE <<Reply("size", r, "KErrNone", b), Reply("data", r, "KErrNone", b)>>

Exists(n) == disk[n] # NoFile

Result(r) ==
    IF r.cmd = "dir" \/ Exists(r.name) THEN "KErrNone" ELSE "KErrNotFound"

AnswerTo(r) ==
    IF r.cmd = "version" THEN <<Reply("version", r, srvVersion, <<>>)>>
    ELSE IF r.cmd = "get" /\ Exists(r.name)
      THEN <<Reply("response", r, "KErrNone", <<>>)>> \o SentFile(r, disk[r.name])
    ELSE <<Reply("response", r, Result(r), <<>>)>>

DiskAfter(r) ==
    IF r.cmd = "delete" THEN [disk EXCEPT ![r.name] = NoFile]
    ELSE IF r.cmd = "rename" /\ Exists(r.name) /\ r.name # r.to
      THEN [disk EXCEPT ![r.name] = NoFile, ![r.to] = disk[r.name]]
    ELSE disk

Execute ==
    /\ srvPc = "command" /\ Arriving # <<>>
    /\ Drop
    /\ LET r == Head(Arriving).req IN
         IF r.cmd = "send"
           THEN /\ srvPc' = "size" /\ srvReq' = r
                /\ UNCHANGED <<s2c, disk>>
           ELSE /\ Answer(AnswerTo(r))
                /\ disk' = DiskAfter(r)
                /\ UNCHANGED <<srvPc, srvReq>>
    /\ UNCHANGED <<client, link, backlog, serving, srvVersion>>

\* readFile(): the old file is deleted and an empty one created as soon as
\* the size is known, long before its contents have come.  If create() fails,
\* readFile() returns and the contents stay unread.
Creates(n) == IF n = NoName THEN {FALSE}
              ELSE IF CreateMayFail THEN BOOLEAN ELSE {TRUE}

ReceiveSize ==
    /\ srvPc = "size" /\ Arriving # <<>>
    /\ Drop
    /\ \E created \in Creates(srvReq.name) :
         /\ disk' = IF srvReq.name = NoName THEN disk
                    ELSE [disk EXCEPT ![srvReq.name] =
                            IF created THEN <<>> ELSE NoFile]
         /\ srvPc' = IF created THEN "data" ELSE "command"
         /\ srvReq' = IF created THEN srvReq ELSE Hello
    /\ UNCHANGED <<client, link, s2c, backlog, serving, srvVersion>>

ReceiveData ==
    /\ srvPc = "data" /\ Arriving # <<>>
    /\ Drop
    /\ disk' = [disk EXCEPT ![srvReq.name] = Head(Arriving).req.body]
    /\ srvPc' = "command" /\ srvReq' = Hello
    /\ UNCHANGED <<client, link, s2c, backlog, serving, srvVersion>>

\* The other half of Closed: the descriptor is free once both ends are done.
Released(c, l) == [l EXCEPT ![c] = IF @ = "closed" THEN "free" ELSE @]

\* A file that stops coming has been written as far as it came.
CutFile ==
    disk' \in IF srvPc = "data"
                 THEN {[disk EXCEPT ![srvReq.name] = p] :
                          p \in Prefixes(srvReq.body) \ {srvReq.body}}
                 ELSE {disk}

\* read() throws in the server when the client's end of the stream is reached.
ServerReadFails ==
    /\ serving # NoConn /\ Arriving = <<>> /\ link[serving] \notin {"up", "left"}
    /\ link' = Released(serving, link)
    /\ serving' = NoConn /\ srvPc' = "idle"
    /\ CutFile /\ srvReq' = Hello
    /\ UNCHANGED <<client, c2s, s2c, backlog, srvVersion>>

ServerAct == \/ Accept \/ ReadSignature \/ Execute
             \/ ReceiveSize \/ ReceiveData \/ ServerReadFails

(***************************************************************************)
(* The environment.  A connection can be lost at any moment, with whatever *)
(* is in flight cut short.  The server can stop and come back, perhaps as  *)
(* another version.  Its sockets inherit SO_LINGER { 1, 0 } from the       *)
(* listening socket, where the platform does that, and are then closed by  *)
(* a reset; elsewhere the client sees the end of the stream.               *)
(***************************************************************************)
ConnectionLost(c) ==
    /\ link[c] \in {"up", "closed", "left"} /\ Held(c)
    /\ \E p \in Prefixes(c2s[c]) : c2s' = [c2s EXCEPT ![c] = p]
    /\ \E p \in Prefixes(s2c[c]) : s2c' = [s2c EXCEPT ![c] = p]
    /\ link' = [link EXCEPT ![c] = CASE @ = "up" -> "rst"
                                      [] @ = "left" -> "spent"
                                      [] OTHER -> @]
    /\ UNCHANGED <<client, server>>

ServerRestarts ==
    /\ \E how \in {"fin", "rst"} :
         link' = [c \in Conns |-> IF ~Held(c) THEN link[c]
                                  ELSE CASE link[c] = "up" -> how
                                         [] link[c] = "closed" -> "free"
                                         [] link[c] = "left" -> "spent"
                                         [] OTHER -> link[c]]
    /\ c2s' = [c \in Conns |-> <<>>]
    /\ s2c' \in {[c \in Conns |-> IF c = cur THEN p ELSE <<>>] :
                    p \in IF cur = NoConn THEN {<<>>} ELSE Prefixes(s2c[cur])}
    /\ backlog' = <<>> /\ serving' = NoConn /\ srvPc' = "idle"
    /\ srvVersion' \in Versions
    /\ CutFile /\ srvReq' = Hello
    /\ UNCHANGED client

Environment == (\E c \in Conns : ConnectionLost(c)) \/ ServerRestarts

Next == Close \/ OpenRemote \/ CheckConnection \/ Ask \/ ClientRead \/ ServerAct \/ Environment

Spec == Init /\ [][Next]_vars

--------------------------------------------------------------------------------
(***************************************************************************)
(* Safety.                                                                 *)
(***************************************************************************)

\* Between two calls nothing is on its way to the client.  The probe of
\* checkConnection() depends on it, as its comment says: a byte in flight
\* would be swallowed, and every later reply read out of step.
StreamInSync == pc = "idle" /\ cur # NoConn => s2c[cur] = <<>>

Awaited == IF pc = "version" THEN Hello ELSE req

\* What a handler reads next is the part of the reply it is waiting for, and
\* belongs to its own request, although replies carry no identification and a
\* send is followed by the next request without any reply.
ReplyAnswersRequest ==
    pc # "idle" /\ s2c[cur] # <<>>
        => Incoming.kind = pc /\ Incoming.req = Awaited

\* The server finds a command where it looks for a command and a file where it
\* looks for a file, whatever was cut off on connections before this one.
ServerInStep ==
    serving # NoConn /\ Arriving # <<>> => Head(Arriving).kind = srvPc

\* Nothing but the version request ever reaches a server of another version:
\* the socket is closed when the check fails, so that it cannot be bypassed.
OnlyCompatibleCommands ==
    \A c \in Conns : Held(c) =>
       \A i \in 1 .. Len(c2s[c]) :
          c2s[c][i].req.cmd = "version" \/ srvVersion = ClientVersion

\* A connection that has an end here is the one in use: none is forgotten by a
\* probe, a failing handshake or a reopening.  The one thing that forgets one, a
\* second openRemote() over an open connection, is followed up as "left".
NoLeakedLink ==
    \A c \in Conns : link[c] \in {"up", "fin", "rst", "dead"} => c = cur

(***************************************************************************)
(* The inductive invariant behind StreamInSync, ReplyAnswersRequest and    *)
(* NoLeakedLink.                                                           *)
(***************************************************************************)

\* Descriptors are in one place each, and a signature is only where the server
\* begins with a connection.
LinksInOrder ==
    /\ NoLeakedLink
    /\ cur # NoConn => link[cur] \in {"up", "fin", "rst", "dead"}
    /\ \A c \in Conns : link[c] = "free" => ~Held(c)
    /\ serving = NoConn <=> srvPc = "idle"
    /\ \A i \in 1 .. Len(backlog) : backlog[i] # serving
    /\ \A i, j \in 1 .. Len(backlog) : backlog[i] = backlog[j] => i = j
    /\ \A c \in Conns : \A i \in 1 .. Len(c2s[c]) :
          c2s[c][i].kind = "signature"
              => i = 1 /\ (c = serving => srvPc = "signature")

Provokes(u) == u.kind # "signature" /\ u.req.cmd # "send"

\* On a connection that is up, one unit at most will be answered: the last one,
\* which is the request the client waits for, and nothing is on its way before.
OneReplyDue ==
    cur # NoConn /\ link[cur] = "up" =>
        \A i \in 1 .. Len(c2s[cur]) : Provokes(c2s[cur][i]) =>
            /\ i = Len(c2s[cur]) /\ c2s[cur][i].req = Awaited
            /\ s2c[cur] = <<>> /\ pc \in {"version", "response"}

EndsReply(u) ==
    \/ u.kind \in {"version", "data"}
    \/ u.kind = "response" /\ ~(u.req.cmd = "get" /\ u.val = "KErrNone")
    \/ u.kind = "size" /\ u.body = <<>>

\* What is on its way to the client is what is left of one reply.
RestOfReply ==
    cur # NoConn =>
        /\ pc = "idle" \/ (pc = "data" /\ got = <<>>) => s2c[cur] = <<>>
        /\ s2c[cur] # <<>> => s2c[cur][1].kind = pc
        /\ \A i \in 1 .. Len(s2c[cur]) :
              /\ s2c[cur][i].req = Awaited
              /\ s2c[cur][i].kind # "version" => s2c[cur][i].val \in Results
              /\ EndsReply(s2c[cur][i]) => i = Len(s2c[cur])
              /\ i < Len(s2c[cur]) => s2c[cur][i + 1].kind =
                    IF s2c[cur][i].kind = "response" THEN "size" ELSE "data"

WaitsForRequest ==
    pc # "idle" => cur # NoConn /\ (pc # "version" => req \in ClientRequests)

IInv == TypeOK /\ LinksInOrder /\ OneReplyDue /\ RestOfReply /\ WaitsForRequest

\* A call that returns KErrNone after a reply tells the truth about the
\* server's files, sends of earlier calls and earlier connections included.
Agrees(r) ==
    CASE r.cmd = "delete" -> disk[r.name] = NoFile
      [] r.cmd = "rename" -> disk[r.to] # NoFile
      [] r.cmd = "get"    -> disk[r.name] = got
      [] r.cmd = "fileinfo" -> disk[r.name] # NoFile
      [] OTHER -> TRUE

AnswersAreCurrent ==
    [][(pc \in {"response", "data"} /\ pc' = "idle" /\ out' = "KErrNone")
         => Agrees(req)]_vars

(***************************************************************************)
(* What ServerInStep, OnlyCompatibleCommands and AnswersAreCurrent rest on *)
(* beyond IInv, in three parts.                                            *)
(***************************************************************************)

\* A connection that is up is in the server's hands, and that of the client is
\* the one it will come to last.
NewestLast ==
    /\ \A c \in Conns : link[c] = "up" => Held(c)
    /\ cur # NoConn /\ Held(cur) =>
          IF serving = cur THEN backlog = <<>>
          ELSE backlog # <<>> /\ backlog[Len(backlog)] = cur

\* What the server reads next on a connection, and what it reads after a unit.
Expected(c) == IF c = serving THEN srvPc ELSE "signature"

Follows(u) == IF u.kind = "command" /\ u.req.cmd = "send" THEN "size"
              ELSE IF u.kind = "size" THEN "data" ELSE "command"

\* Every stream is a cut of complete exchanges, and complete while the
\* connection is up, so that the next request can follow.
StreamsInOrder ==
    /\ srvPc \in {"size", "data"} => srvReq.name \in Names
    /\ \A c \in Conns : Held(c) =>
          /\ c2s[c] # <<>> => c2s[c][1].kind = Expected(c)
          /\ \A i \in 1 .. Len(c2s[c]) :
                i < Len(c2s[c]) => c2s[c][i + 1].kind = Follows(c2s[c][i])
          /\ link[c] = "up" =>
                IF c2s[c] = <<>> THEN Expected(c) = "command"
                ELSE Follows(c2s[c][Len(c2s[c])]) = "command"

\* Once the handshake is over, the version of a server that has stayed is known.
VersionKnown ==
    cur # NoConn /\ link[cur] = "up" =>
        /\ pc # "version" => srvVersion = ClientVersion
        /\ \A i \in 1 .. Len(s2c[cur]) :
              s2c[cur][i].kind = "version" => s2c[cur][i].val = srvVersion

\* From its first unit to its last a reply describes the files as they are: the
\* server has nothing left to do meanwhile, on this connection or an earlier one.
ReplyIsCurrent ==
    cur # NoConn /\ pc # "version" /\ (s2c[cur] # <<>> \/ pc \in {"size", "data"}) =>
        /\ backlog = <<>> /\ serving \in {cur, NoConn}
        /\ serving = cur => c2s[cur] = <<>> /\ srvPc = "command"
        /\ pc = "data" => got = disk[req.name]
        /\ \A i \in 1 .. Len(s2c[cur]) :
              /\ s2c[cur][i].kind = "response" /\ s2c[cur][i].val = "KErrNone"
                     => req.cmd = "get" \/ Agrees(req)
              /\ s2c[cur][i].kind \in {"size", "data"} => s2c[cur][i].body = disk[req.name]

(***************************************************************************)
(* Liveness.  A runnable client and a running server go on; a client that  *)
(* goes on asking for its objects runs checkConnection() again and again.  *)
(* Nothing is assumed of the network and of the user's requests, nor of a  *)
(* recv() of 0 bytes.                                                      *)
(***************************************************************************)
Fairness == WF_vars(Receives) /\ WF_vars(ServerAct)

FairSpec == Spec /\ Fairness

AskingSpec == FairSpec /\ SF_vars(CheckConnection)

\* recv() was asked for no bytes, and may wait for the next ones all the same.
AsksForNothing == pc = "data" /\ got = <<>>

\* The server waits on a connection that was overwritten, and for no other.
ServerHeld == serving # NoConn /\ link[serving] = "left"

\* A call blocks for ever for two reasons only: it gets an empty file where a
\* recv() of 0 bytes blocks, or the server serves a connection that nobody will
\* close.  Otherwise its reply comes, or the connection ends.
CallsReturn == pc # "idle" ~> (pc = "idle" \/ AsksForNothing \/ ServerHeld)

\* Self-healing: a dead connection is given up sooner or later.
DeadLinkIsReplaced ==
    (cur # NoConn /\ link[cur] # "up") ~> (cur = NoConn \/ link[cur] = "up")
================================================================================
