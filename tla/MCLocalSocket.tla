----------------------------- MODULE MCLocalSocket -----------------------------
(***************************************************************************)
(* LocalSocket for TLC, with a record of the two things its promises       *)
(* depend on: whether processes have been in open() at the same time, and  *)
(* whose connections have been given up because nothing came for 30        *)
(* seconds.                                                                *)
(***************************************************************************)
EXTENDS LocalSocket

VARIABLES
    overlapped,     \* two processes have been in open() at the same time
    abandoned       \* clients whose connection the server has given up

hvars == <<vars, overlapped, abandoned>>

Opening(p) == pc[p] \in {"probing", "removing", "listening"}

HInit == Init /\ overlapped = FALSE /\ abandoned = {}

\* A client that has connected, or has sent a message not delivered yet.
Engaged(q) == pc[q] = "connected" \/ owed[q] # NoProc

HNext ==
    /\ \/ Steps /\ abandoned' = {q \in abandoned : Engaged(q)'}
       \/ \E p \in Procs : GiveUp(p) /\ abandoned' = abandoned \cup {taken[p].from}
    /\ overlapped' = (overlapped \/ \E p, q \in Procs : p # q /\ Opening(p)' /\ Opening(q)')

\* Calls that have begun go on, and the server's event loop runs.  Nothing makes
\* a process open, connect, close or crash, or a client keep the server waiting.
HSpec == HInit /\ [][HNext]_hvars /\ \A p \in Procs : WF_vars(Runs(p))

\* Opens apart in time leave one server, and it can be found by its name: nobody
\* has removed the file under it, and no file of a crashed process is in its
\* place.
ServerIsFound == overlapped \/ \A p \in Procs : IsServer(p) => name = p

\* Such an open() never fails for the file a crashed process has left.
OpenRecovers == overlapped \/ \A p \in Procs : pc[p] # "failed"

\* The types hold, and a message sent with success over a connection that was
\* not given up is on its way: whatever other processes remove, close or crash,
\* it is at the server it was sent to, and has its data.
MessageIsKept ==
    /\ TypeOK
    /\ \A q \in Procs : owed[q] # NoProc /\ q \notin abandoned =>
         \/ taken[owed[q]] = Connection(q, "sent")
         \/ \E i \in DOMAIN pending[owed[q]] :
               pending[owed[q]][i] = Connection(q, "sent")

\* The observer of a server is given every such message, if the server stays.
Delivered ==
    \A q \in Procs : owed[q] # NoProc ~> (owed[q] = NoProc \/ q \in abandoned)

(***************************************************************************)
(* The inductive invariants behind MessageIsKept, and behind ServerIsFound *)
(* and OpenRecovers.                                                       *)
(***************************************************************************)
AtServer(s, c) == taken[s] = c \/ \E i \in DOMAIN pending[s] : pending[s][i] = c

\* A connection is at its server from the moment it is made: without data while
\* its client is connected, with data when it has sent its message.
ConnectionIsKept ==
    /\ TypeOK
    /\ \A p \in Procs : pc[p] # "reading" => taken[p] = NoConnection
    /\ \A q \in Procs : q \notin abandoned =>
          /\ pc[q] = "connected" /\ peer[q] # NoProc => AtServer(peer[q], Connection(q, "none"))
          /\ owed[q] # NoProc => AtServer(owed[q], Connection(q, "sent"))

\* One process at a time is in open(); once it has found no server there is
\* none, and once it has removed the file there is no file.
OneOpens ==
    \/ overlapped
    \/ /\ \A p, q \in Procs : Opening(p) /\ Opening(q) => p = q
       /\ \A p \in Procs :
             /\ IsServer(p) => name = p
             /\ pc[p] # "failed"
             /\ pc[p] \in {"removing", "listening"} => \A q \in Procs : ~IsServer(q)
             /\ pc[p] = "listening" => name = NoProc
================================================================================
