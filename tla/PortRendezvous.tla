---------------------------- MODULE PortRendezvous ----------------------------
(***************************************************************************)
(* RRendezvous on Amiga OS, with the part of RApplication::Main() that     *)
(* serves it.  Every process opens the rendezvous of one name: who finds   *)
(* no public message port of that name adds one and is the server, the     *)
(* others are clients, which put a message on the port and wait for the    *)
(* reply.  The message lives in the memory of its sender.                  *)
(*                                                                         *)
(* Ports, signals and Forbid() belong to the operating system: PutMsg()    *)
(* queues a message and sets the signal of the port, Wait() returns with a *)
(* signal and clears it.                                                   *)
(***************************************************************************)
EXTENDS Naturals, Sequences

CONSTANTS
    Procs,      \* the processes
    NoProc      \* no sender

ASSUME PortAssumption == NoProc \notin Procs

VARIABLES
    pc,         \* where each process is
    ports,      \* the list of public ports of the name, by their owners
    queue,      \* the messages on the port of each process, by their senders
    signal,     \* the signal of that port is set
    message,    \* the message the server is processing
    replied     \* the signal of the reply port of each client is set

vars == <<pc, ports, queue, signal, message, replied>>

\* The type invariant.
TypeOK ==
    /\ pc \in [Procs -> {"closed", "opening", "server", "woken", "serving",
                         "client", "sending"}]
    /\ ports \in Seq(Procs)
    /\ queue \in [Procs -> Seq(Procs)]
    /\ signal \in [Procs -> BOOLEAN]
    /\ message \in [Procs -> Procs \cup {NoProc}]
    /\ replied \in [Procs -> BOOLEAN]

Init ==
    /\ pc = [p \in Procs |-> "closed"]
    /\ ports = <<>>
    /\ queue = [p \in Procs |-> <<>>]
    /\ signal = [p \in Procs |-> FALSE]
    /\ message = [p \in Procs |-> NoProc]
    /\ replied = [p \in Procs |-> FALSE]

Become(p, state) == pc' = [pc EXCEPT ![p] = state]

--------------------------------------------------------------------------------
(***************************************************************************)
(* RRendezvous::open() looks for the port under Forbid(), and adds its own *)
(* after Permit().                                                         *)
(***************************************************************************)

\* MUTANT: open() looks at no port and adds its own.
FindsNothing == TRUE

FindsNone == ports = <<>>

FindPort(p) ==
    /\ pc[p] = "closed"
    /\ Become(p, IF FindsNone THEN "opening" ELSE "client")
    /\ UNCHANGED <<ports, queue, signal, message, replied>>

AddPort(p) ==
    /\ pc[p] = "opening"
    /\ Become(p, "server")
    /\ ports' = Append(ports, p)
    /\ queue' = [queue EXCEPT ![p] = <<>>]
    /\ signal' = [signal EXCEPT ![p] = FALSE]
    /\ UNCHANGED <<message, replied>>

AddPortFails(p) ==
    /\ pc[p] = "opening"
    /\ Become(p, "closed")
    /\ UNCHANGED <<ports, queue, signal, message, replied>>

RemPort(p) ==
    \/ /\ \A i \in 1 .. Len(ports) : ports[i] # p
       /\ UNCHANGED ports
    \/ \E i \in 1 .. Len(ports) :
          /\ ports[i] = p
          /\ ports' = SubSeq(ports, 1, i - 1) \o SubSeq(ports, i + 1, Len(ports))

\* RRendezvous::close().  Messages on the port are neither taken off it nor
\* replied to.
Close(p) ==
    /\ pc[p] \in {"server", "woken", "client"}
    /\ Become(p, "closed")
    /\ RemPort(p)
    /\ queue' = [queue EXCEPT ![p] = <<>>]
    /\ signal' = [signal EXCEPT ![p] = FALSE]
    /\ UNCHANGED <<message, replied>>

(***************************************************************************)
(* RRendezvous::Rendezvous() of a client.  It finds the port and puts the  *)
(* message under Forbid(); if there is no port it returns EFalse.          *)
(***************************************************************************)
Send(p) ==
    /\ pc[p] = "client" /\ ports # <<>>
    /\ LET s == Head(ports) IN
         /\ queue' = [queue EXCEPT ![s] = Append(@, p)]
         /\ signal' = [signal EXCEPT ![s] = TRUE]
    /\ Become(p, "sending")
    /\ UNCHANGED <<ports, message, replied>>

\* MUTANT: the client does not wait for the reply.
WaitsForNothing(p) == TRUE

Answered(p) == replied[p]

\* The message and its reply port are freed.
Return(p) ==
    /\ pc[p] = "sending" /\ Answered(p)
    /\ Become(p, "client")
    /\ replied' = [replied EXCEPT ![p] = FALSE]
    /\ UNCHANGED <<ports, queue, signal, message>>

(***************************************************************************)
(* RApplication::Main() of the server: one message for each return of      *)
(* Wait() with the signal of the port.  A server that has been closed in   *)
(* between, by a handler that ran first, has no signal and skips this.     *)
(***************************************************************************)

\* MUTANT: the signal stays set.
SignalKept(p) == UNCHANGED signal

SignalCleared(p) == signal' = [signal EXCEPT ![p] = FALSE]

Wake(p) ==
    /\ pc[p] = "server" /\ signal[p]
    /\ SignalCleared(p)
    /\ Become(p, "woken")
    /\ UNCHANGED <<ports, queue, message, replied>>

\* GetMsg() and MessageReceived(), whose pointer is used without a check.
GetMsg(p) ==
    /\ pc[p] = "woken"
    /\ queue[p] # <<>>
    /\ message' = [message EXCEPT ![p] = Head(queue[p])]
    /\ queue' = [queue EXCEPT ![p] = Tail(@)]
    /\ Become(p, "serving")
    /\ UNCHANGED <<ports, signal, replied>>

\* MUTANT: the message is not replied to.
ReplyForgotten(p) == UNCHANGED replied

Replies(p) == replied' = [replied EXCEPT ![message[p]] = TRUE]

ReplyMsg(p) ==
    /\ pc[p] = "serving"
    /\ Replies(p)
    /\ message' = [message EXCEPT ![p] = NoProc]
    /\ Become(p, "server")
    /\ UNCHANGED <<ports, queue, signal>>

Runs(p) == \/ AddPort(p) \/ AddPortFails(p) \/ Return(p)
           \/ Wake(p) \/ GetMsg(p) \/ ReplyMsg(p)

Next == \E p \in Procs : FindPort(p) \/ Close(p) \/ Send(p) \/ Runs(p)

Spec == Init /\ [][Next]_vars

--------------------------------------------------------------------------------
\* Main() uses the message GetMsg() returns without a check: whenever the
\* signal of the port wakes it, there is a message on the port, although one
\* signal can stand for several messages and several wakes for one burst.
MessageForWake == \A p \in Procs : pc[p] = "woken" => queue[p] # <<>>

\* A message on a port, or being processed, lies in the memory of a client
\* that still waits for its reply, and is in one place only: it is never freed
\* under the server, nor replied to twice.
Waiting(q) == pc[q] = "sending" /\ ~replied[q]

MessageAlive ==
    \A p \in Procs :
      /\ message[p] # NoProc => Waiting(message[p])
      /\ \A i \in 1 .. Len(queue[p]) :
           /\ Waiting(queue[p][i])
           /\ \A q \in Procs :
                /\ message[q] # queue[p][i]
                /\ \A j \in 1 .. Len(queue[q]) :
                      queue[p][i] = queue[q][j] => p = q /\ i = j
      /\ \A q \in Procs : message[p] = message[q] /\ p # q => message[p] = NoProc

\* What makes MessageForWake and MessageAlive inductive: a signal that is still
\* set stands for a message that no wake has been spent on.
SignalsCounted ==
    \A p \in Procs :
      /\ signal[p] => queue[p] # <<>>
      /\ signal[p] /\ pc[p] = "woken" => Len(queue[p]) >= 2
      /\ pc[p] = "serving" => message[p] # NoProc
      /\ replied[p] => pc[p] = "sending"

IInv == TypeOK /\ MessageForWake /\ MessageAlive /\ SignalsCounted
--------------------------------------------------------------------------------
(***************************************************************************)
(* The same with a record of how it has been used, which restricts         *)
(* nothing: what the code promises of servers and answers holds until      *)
(* processes open, send or close in one of three ways.                     *)
(***************************************************************************)
VARIABLE usage

\* Two processes were in open() at the same time.
Overlap == \E p, q \in Procs : FindPort(p) /\ pc[q] = "opening"

\* A message came under a signal that was already set for another.
Merge == \E p \in Procs : Send(p) /\ signal[Head(ports)]

\* A server closed with messages on its port.
Drop == \E p \in Procs : Close(p) /\ queue[p] # <<>>

HInit == Init /\ usage = {}

HNext ==
    /\ Next
    /\ usage' = usage \cup (IF Overlap THEN {"overlap"} ELSE {})
                      \cup (IF Merge THEN {"merge"} ELSE {})
                      \cup (IF Drop THEN {"drop"} ELSE {})

\* A process that can run, once it is inside a call or has been signalled,
\* runs.  Nothing makes a process open, send or close.
HSpec == HInit /\ [][HNext]_<<vars, usage>> /\ \A p \in Procs : WF_vars(Runs(p))

\* "The process that calls this method first will automatically become the
\* server, and any subsequent processes that call it will become clients": as
\* long as no two processes have been in open() at the same time, there is one
\* server, however servers and clients come and go.
OneServerApart == "overlap" \in usage \/ Len(ports) <= 1

\* What makes it inductive: one process at most is on its way to be the server,
\* and the list of ports is its own.
Serves(p) == pc[p] \in {"server", "woken", "serving"}

HostAlone ==
    "overlap" \notin usage =>
      /\ \A p, q \in Procs :
           (Serves(p) \/ pc[p] = "opening") /\ (Serves(q) \/ pc[q] = "opening") => p = q
      /\ ports = <<>> \/ \E p \in Procs : ports = <<p>> /\ Serves(p)
      /\ \A p \in Procs : Serves(p) => ports = <<p>>

\* A client that has sent its message gets the reply and goes on, unless some
\* message shared a signal with another or was left on a closed port.
SenderReturnsAlone ==
    \A p \in Procs : pc[p] = "sending" ~>
        (pc[p] # "sending" \/ "merge" \in usage \/ "drop" \in usage)
================================================================================
