------------------------------ MODULE LocalSocket ------------------------------
(***************************************************************************)
(* RRendezvous on Qt: RLocalSocket over QLocalServer and QLocalSocket, as  *)
(* they are on Unix.  The name of the rendezvous is a file that a          *)
(* listening server leaves in the file system; it outlives a crash, and    *)
(* can be removed under a server that goes on listening.                   *)
(*                                                                         *)
(* Every process opens the rendezvous; who cannot connect to a server      *)
(* removes the file and listens itself.                                    *)
(***************************************************************************)
EXTENDS Naturals, Sequences, FiniteSets

CONSTANTS
    Procs,      \* the processes
    NoProc,     \* no process
    Backlog     \* bound: connections a server has not taken yet

ASSUME SocketAssumption == NoProc \notin Procs /\ Backlog \in Nat \ {0}

VARIABLES
    pc,        \* where each process is
    attempt,   \* open() tries OpenSocket() twice
    name,      \* whose listening socket the file refers to, NoProc: no file
    pending,   \* connections each server has not taken yet
    taken,     \* the connection its Connected() is working on
    peer,      \* the server each client is connected to
    owed       \* the server each client has sent a message to with success,
               \* until the observer there has been given it

vars == <<pc, attempt, name, pending, taken, peer, owed>>

Connection(p, data) == [from |-> p, data |-> data]

NoConnection == Connection(NoProc, "none")

Connections == [from : Procs \cup {NoProc}, data : {"none", "sent", "aborted"}]

\* The type invariant.
TypeOK ==
    /\ pc \in [Procs -> {"closed", "probing", "removing", "listening", "failed",
                         "server", "reading", "client", "calling", "connected"}]
    /\ attempt \in [Procs -> 1 .. 2]
    /\ name \in Procs \cup {NoProc}
    /\ pending \in [Procs -> Seq(Connections)]
    /\ taken \in [Procs -> Connections]
    /\ peer \in [Procs -> Procs \cup {NoProc}]
    /\ owed \in [Procs -> Procs \cup {NoProc}]

Init ==
    /\ pc = [p \in Procs |-> "closed"]
    /\ attempt = [p \in Procs |-> 1]
    /\ name \in Procs \cup {NoProc}
    /\ pending = [p \in Procs |-> <<>>]
    /\ taken = [p \in Procs |-> NoConnection]
    /\ peer = [p \in Procs |-> NoProc]
    /\ owed = [p \in Procs |-> NoProc]

Become(p, state) == pc' = [pc EXCEPT ![p] = state]

IsServer(p) == pc[p] \in {"server", "reading"}

\* connectToServer() succeeds if the file refers to a socket that is listening.
Reachable == name # NoProc /\ IsServer(name)

--------------------------------------------------------------------------------
(***************************************************************************)
(* RLocalSocket::open() in server mode, from RRendezvous::open().          *)
(***************************************************************************)
Open(p) ==
    /\ pc[p] = "closed"
    /\ Become(p, "probing")
    /\ attempt' = [attempt EXCEPT ![p] = 1]
    /\ UNCHANGED <<name, pending, taken, peer, owed>>

\* Connect and abort(): the server is left with a connection without data.
ProbeFindsServer(p) ==
    /\ pc[p] = "probing" /\ Reachable /\ Len(pending[name]) < Backlog
    /\ Become(p, "client")
    /\ pending' = [pending EXCEPT ![name] = Append(@, Connection(p, "aborted"))]
    /\ UNCHANGED <<attempt, name, taken, peer, owed>>

\* MUTANT: the file is not removed before listening.
NoRemoval == "listening"

AfterProbe == "removing"

ProbeFails(p) ==
    /\ pc[p] = "probing" /\ ~Reachable
    /\ Become(p, AfterProbe)
    /\ UNCHANGED <<attempt, name, pending, taken, peer, owed>>

RemoveServer(p) ==
    /\ pc[p] = "removing"
    /\ name' = NoProc
    /\ Become(p, "listening")
    /\ UNCHANGED <<attempt, pending, taken, peer, owed>>

ListenWorks(p) ==
    /\ pc[p] = "listening" /\ name = NoProc
    /\ name' = p
    /\ Become(p, "server")
    /\ UNCHANGED <<attempt, pending, taken, peer, owed>>

ListenFails(p) ==
    /\ pc[p] = "listening" /\ name # NoProc
    /\ IF attempt[p] < 2
         THEN Become(p, "probing") /\ attempt' = [attempt EXCEPT ![p] = @ + 1]
         ELSE Become(p, "failed") /\ UNCHANGED attempt
    /\ UNCHANGED <<name, pending, taken, peer, owed>>

--------------------------------------------------------------------------------
(***************************************************************************)
(* RRendezvous::Rendezvous() of a client: open() in client mode, write()   *)
(* and close().  write() takes no notice of how the bytes are received.    *)
(***************************************************************************)
Connect(p) ==
    /\ pc[p] = "client" /\ owed[p] = NoProc
    /\ Reachable /\ Len(pending[name]) < Backlog
    /\ Become(p, "connected")
    /\ pending' = [pending EXCEPT ![name] = Append(@, Connection(p, "none"))]
    /\ peer' = [peer EXCEPT ![p] = name]
    /\ UNCHANGED <<attempt, name, taken, owed>>

\* The end of a connection that has been open without data.
Ending(c, p, data) == IF c = Connection(p, "none") THEN Connection(p, data) ELSE c

EndIn(conns, p, data) == [i \in DOMAIN conns |-> Ending(conns[i], p, data)]

\* MUTANT: the bytes stay in the write buffer, and go with the socket.
Unflushed == "aborted"

Flushed == "sent"

Write(p) ==
    /\ pc[p] = "connected"
    /\ pending' = [s \in Procs |-> EndIn(pending[s], p, Flushed)]
    /\ taken' = [s \in Procs |-> Ending(taken[s], p, Flushed)]
    /\ owed' = [owed EXCEPT ![p] = peer[p]]
    /\ peer' = [peer EXCEPT ![p] = NoProc]
    /\ Become(p, "client")
    /\ UNCHANGED <<attempt, name>>

--------------------------------------------------------------------------------
(***************************************************************************)
(* RLocalSocket::Connected() in the server's event loop, which it blocks   *)
(* until there is data, the connection ends, or 30 seconds have passed.    *)
(***************************************************************************)
TakeConnection(p) ==
    /\ pc[p] = "server" /\ pending[p] # <<>>
    /\ taken' = [taken EXCEPT ![p] = Head(pending[p])]
    /\ pending' = [pending EXCEPT ![p] = Tail(@)]
    /\ Become(p, "reading")
    /\ UNCHANGED <<attempt, name, peer, owed>>

\* MUTANT: the connection is deleted without waiting for its data.
WaitsNotAtAll(p) == TRUE

WaitIsOver(p) == taken[p].data # "none"

\* The observer is notified, with the data or with none.
Notify(p) ==
    /\ pc[p] = "reading" /\ WaitIsOver(p)
    /\ owed' = IF taken[p].data = "sent"
                 THEN [owed EXCEPT ![taken[p].from] = NoProc] ELSE owed
    /\ taken' = [taken EXCEPT ![p] = NoConnection]
    /\ Become(p, "server")
    /\ UNCHANGED <<attempt, name, pending, peer>>

\* The client has not written for 30 seconds: the observer is notified without
\* data, and the connection is deleted.
GiveUp(p) ==
    /\ pc[p] = "reading" /\ taken[p].data = "none"
    /\ taken' = [taken EXCEPT ![p] = NoConnection]
    /\ Become(p, "server")
    /\ UNCHANGED <<attempt, name, pending, peer, owed>>

\* What goes with a process: a server's connections, and a client's own.
Without(who, p) == [q \in Procs |-> IF who[q] = p THEN NoProc ELSE who[q]]

Gone(p) ==
    /\ pending' = [s \in Procs |->
                     IF s = p THEN <<>> ELSE EndIn(pending[s], p, "aborted")]
    /\ taken' = [s \in Procs |->
                   IF s = p THEN NoConnection ELSE Ending(taken[s], p, "aborted")]
    /\ owed' = Without(owed, p)
    /\ peer' = [Without(peer, p) EXCEPT ![p] = NoProc]
    /\ Become(p, "closed")
    /\ UNCHANGED attempt

\* MUTANT: clients remove the file as well.
RemovedByAll(p) == NoProc

NameAfter(p) == IF pc[p] = "server" THEN NoProc ELSE name

\* RLocalSocket::close(): deleting the QLocalServer removes the file.
Close(p) ==
    /\ pc[p] \in {"server", "client", "failed"}
    /\ name' = NameAfter(p)
    /\ Gone(p)

\* The file stays.
Crash(p) ==
    /\ pc[p] # "closed"
    /\ UNCHANGED name
    /\ Gone(p)

Runs(p) == \/ ProbeFindsServer(p) \/ ProbeFails(p) \/ RemoveServer(p)
           \/ ListenWorks(p) \/ ListenFails(p) \/ Write(p)
           \/ TakeConnection(p) \/ Notify(p)

Steps == \E p \in Procs : Open(p) \/ Connect(p) \/ Close(p) \/ Crash(p) \/ Runs(p)

Next == Steps \/ \E p \in Procs : GiveUp(p)

Spec == Init /\ [][Next]_vars
================================================================================
