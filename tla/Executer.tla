-------------------------------- MODULE Executer --------------------------------
(***************************************************************************)
(* RStdExecuter on the three systems, with RQtExecuter below it on Qt: a   *)
(* command is launched, its output is streamed to the callback of the      *)
(* client, and its end is reported.  One object, used for one command      *)
(* after the other by clients that may also ask again while it is busy, or *)
(* from the callback that reports the end.                                 *)
(*                                                                         *)
(* A request is one call of launchCommand(), with a callback of its own.   *)
(* The pieces of output of its command are numbered.  On Qt they come by   *)
(* two channels; elsewhere both are one pipe.                              *)
(***************************************************************************)
EXTENDS Naturals, Sequences, FiniteSets

CONSTANTS
    Platforms,      \* of "Amiga", "Qt" and "Windows"
    Null,           \* an unset field
    Garbage,        \* the value of a field nobody has set
    MaxRequests,    \* bound: calls of launchCommand()
    MaxPieces       \* bound: pieces of output of a command

VARIABLES
    platform,   \* what the library was built for
    field,      \* the members of the object, and the request each was set for
    opened,     \* resources of the operating system that are in use
    callback,   \* m_callback: the request whose callback it is
    exitCode,   \* m_exitData.m_exitCode: the request whose command left it
    reading,    \* the request that a read of its output is under way for
    signals,    \* Amiga OS: signals the task has not seen
    child,      \* of each request: its command
    pipe,       \* of each request: what its command has written, by channel
    written,    \* of each request: how many pieces there have been
    hushed,     \* requests whose command has written no bytes, on Windows
    told,       \* of each request: what its callback was given
    accepted,   \* the requests that were answered with KErrNone
    overlapped  \* a client has asked while the object was in use

object == <<field, opened, callback, exitCode>>
output == <<written, hushed>>
asked  == <<accepted, overlapped>>
vars   == <<platform, object, reading, signals, child, pipe, output, told, asked>>

Requests == 1 .. MaxRequests

Fields ==
    [Amiga   |-> {"stdInRead", "stdOutWrite", "stdOutRead", "port", "packet",
                  "buffer", "sigBit"},
     Qt      |-> {"process"},
     Windows |-> {"stdOutRead", "stdOutWrite", "stdInRead", "stdInWrite",
                  "childProcess", "buffer"}]

AllFields == UNION {Fields[p] : p \in {"Amiga", "Qt", "Windows"}}

Channels == IF platform = "Qt" THEN {"out", "err"} ELSE {"out"}

\* A piece of output; none of it for a command that writes no bytes at all.
Piece(r, c, n) == [of |-> r, by |-> c, n |-> n]

Exit(r) == [of |-> r, by |-> "end", n |-> 0]

\* KErrGeneral: reading went wrong.
Broken(r) == [of |-> r, by |-> "error", n |-> 0]

\* The type invariant.
TypeOK ==
    /\ platform \in Platforms
    /\ field \in [AllFields -> Requests \cup {Null, Garbage}]
    /\ opened \subseteq AllFields \X Requests
    /\ callback \in Requests \cup {Null} /\ exitCode \in Requests \cup {Null}
    /\ reading \in Requests \cup {Null}
    /\ signals \subseteq {"data", "exit"}
    /\ child \in [Requests -> {"none", "refused", "running", "closed", "exited"}]
    /\ DOMAIN pipe = Requests /\ DOMAIN told = Requests
    /\ written \in [Requests -> 0 .. MaxPieces] /\ hushed \subseteq Requests
    /\ accepted \subseteq Requests /\ overlapped \in BOOLEAN

\* The constructor leaves the members for Windows as they are.
Init ==
    /\ platform \in Platforms
    /\ \E init \in IF platform = "Windows" THEN {Null, Garbage} ELSE {Null} :
           field = [f \in AllFields |-> init]
    /\ opened = {} /\ callback = Null /\ exitCode = Null /\ reading = Null
    /\ signals = {}
    /\ child = [r \in Requests |-> "none"]
    /\ pipe = [r \in Requests |-> [c \in {"out", "err"} |-> <<>>]]
    /\ told = [r \in Requests |-> <<>>]
    /\ written = [r \in Requests |-> 0] /\ hushed = {} /\ accepted = {}
    /\ overlapped = FALSE

--------------------------------------------------------------------------------
(***************************************************************************)
(* The object, as a record that its methods take and return.               *)
(***************************************************************************)
Object ==
    [field |-> field, opened |-> opened, callback |-> callback, code |-> exitCode]

Becomes(x) ==
    /\ field' = x.field /\ opened' = x.opened
    /\ callback' = x.callback /\ exitCode' = x.code

Set(x, fs, r) ==
    [x EXCEPT !.field = [f \in AllFields |-> IF f \in fs THEN r ELSE @[f]],
              !.opened = @ \cup (fs \X {r})]

\* MUTANT: the members of what is freed keep their values.
ReleaseUncleared(x, fs) == [x EXCEPT !.opened = @ \ {<<f, x.field[f]>> : f \in fs}]

\* Resources that are freed, and their members cleared.
Release(x, fs) ==
    [x EXCEPT !.field = [f \in AllFields |-> IF f \in fs THEN Null ELSE @[f]],
              !.opened = @ \ {<<f, x.field[f]>> : f \in fs}]

\* Resources that the command owns from now on.
HandOver(x, fs) == Release(x, fs)

\* MUTANT: close() forgets the buffer.
CloseBarely(x) ==
    IF platform = "Qt" THEN x
    ELSE [Release(x, Fields[platform] \ {"buffer"}) EXCEPT !.code = Null]

\* close(): nothing on Qt.
Close(x) ==
    IF platform = "Qt" THEN x ELSE [Release(x, Fields[platform]) EXCEPT !.code = Null]

IsRunning(x) ==
    CASE platform = "Amiga"   -> x.field["stdOutRead"] # Null
      [] platform = "Qt"      -> x.field["process"] # Null
      [] platform = "Windows" -> x.field["childProcess"] # Null

\* What a call of launchCommand() can come to: the object it leaves, and whether
\* the command runs and is read from.
Outcome(x, launched, started) == [object |-> x, launched |-> launched, started |-> started]

\* Any of the six resources may be missing, the shell may not start, and nothing
\* asks whether AllocSignal() has found a signal.
LaunchOnAmiga(x, r) ==
    IF IsRunning(x) THEN {Outcome(x, FALSE, FALSE)}
    ELSE LET y      == [x EXCEPT !.callback = r, !.code = Null]
             first  == Fields["Amiga"] \ {"sigBit"}
             got(b) == Set(y, first \cup b, r)
         IN {Outcome(Close(Set(y, fs, r)), FALSE, FALSE) : fs \in SUBSET first}
            \cup {Outcome(Close(got({"sigBit"})), FALSE, FALSE)}
            \cup {Outcome(HandOver(got(b), {"stdInRead", "stdOutWrite"}), TRUE, TRUE) :
                      b \in SUBSET {"sigBit"}}

\* The callback is set before RQtExecuter finds that a process is running.
LaunchOnQt(x, r) ==
    LET y == [x EXCEPT !.callback = r]
    IN IF IsRunning(x) THEN {Outcome(y, FALSE, FALSE)}
       ELSE {Outcome(Set(y, {"process"}, r), TRUE, TRUE), Outcome(y, FALSE, FALSE)}

\* createChildProcess(): the command has got its ends of the pipes.
ChildProcess(x, r) == Release(Set(x, {"childProcess"}, r), {"stdOutWrite", "stdInRead"})

\* Nothing asks whether a command is running.  CreateNamedPipe(), CreateFile(),
\* CreatePipe(), CreateProcess() or ReadFileEx() may be what fails.
LaunchOnWindows(x, r) ==
    LET y == [x EXCEPT !.callback = r]
        steps == <<{"stdOutRead"}, {"stdOutRead", "stdOutWrite"},
                   {"stdOutRead", "stdOutWrite", "stdInRead", "stdInWrite"}>>
        ready == Set(ChildProcess(Set(y, steps[3], r), r), {"buffer"}, r)
    IN {Outcome(Close(y), FALSE, FALSE)}
       \cup {Outcome(Close(Set(y, steps[i], r)), FALSE, FALSE) : i \in 1 .. 3}
       \cup {Outcome(ready, TRUE, TRUE), Outcome(Close(ready), FALSE, TRUE)}

LaunchCommand(x, r) ==
    CASE platform = "Amiga"   -> LaunchOnAmiga(x, r)
      [] platform = "Qt"      -> LaunchOnQt(x, r)
      [] platform = "Windows" -> LaunchOnWindows(x, r)

--------------------------------------------------------------------------------
Fresh(r) == child[r] = "none" /\ \A q \in Requests : q < r => child[q] # "none"

StateAfter(o) == IF o.started THEN "running" ELSE "refused"

Asked(r, o) ==
    /\ child' = [child EXCEPT ![r] = StateAfter(o)]
    /\ accepted' = IF o.launched THEN accepted \cup {r} ELSE accepted

\* A client calls launchCommand().  On Windows the new read takes the place of
\* the old one in m_overlapped.
Launch(r) ==
    /\ Fresh(r)
    /\ \E o \in LaunchCommand(Object, r) :
        /\ Becomes(o.object)
        /\ Asked(r, o)
        /\ reading' = IF o.launched THEN r ELSE reading
        /\ overlapped' = (overlapped \/ (IsRunning(Object) /\ callback # Null))
    /\ UNCHANGED <<platform, signals, pipe, output, told>>

\* What the callback is given goes to the client whose callback it is.
Tell(things) ==
    told' = IF callback = Null THEN told ELSE [told EXCEPT ![callback] = @ \o things]

\* The client launches its next command from the callback, or does not: the
\* objects readComplete() may go on with.
\* (The request, Null for none, goes with each.)
AfterCallback ==
    {[request |-> Null, outcome |-> Outcome(Object, FALSE, FALSE)]} \cup
    UNION {{[request |-> r, outcome |-> o] : o \in LaunchCommand(Object, r)} :
              r \in {q \in Requests : Fresh(q)}}

AskedAfter(a) ==
    IF a.request = Null THEN UNCHANGED <<child, asked>>
    ELSE Asked(a.request, a.outcome) /\ overlapped' = TRUE

--------------------------------------------------------------------------------
(***************************************************************************)
(* The command: it writes, its output is closed, it exits.  On Amiga OS    *)
(* the shell closes the output and the exit function signals the parent.   *)
(***************************************************************************)
Write(r, c) ==
    /\ child[r] = "running" /\ c \in Channels /\ written[r] < MaxPieces
    /\ written' = [written EXCEPT ![r] = @ + 1]
    /\ pipe' = [pipe EXCEPT ![r][c] = Append(@, Piece(r, c, written[r] + 1))]
    /\ UNCHANGED <<platform, object, reading, signals, child, hushed, told, asked>>

WriteNothing(r) ==
    /\ platform = "Windows" /\ child[r] = "running" /\ r \notin hushed
    /\ hushed' = hushed \cup {r}
    /\ pipe' = [pipe EXCEPT ![r]["out"] = Append(@, Piece(r, "out", 0))]
    /\ UNCHANGED <<platform, object, reading, signals, child, written, told, asked>>

CloseOutput(r) ==
    /\ child[r] = "running"
    /\ child' = [child EXCEPT ![r] = "closed"]
    /\ UNCHANGED <<platform, output, object, reading, signals, pipe, told, asked>>

\* ExitFunction(): it is given the exit data of the object, and leaves the exit code
\* and signals the bit that is there by now: that of a later command, if the object
\* was closed when the output ended and has launched another since.
ExitChild(r) ==
    /\ child[r] = "closed"
    /\ child' = [child EXCEPT ![r] = "exited"]
    /\ exitCode' = IF platform = "Amiga" THEN r ELSE exitCode
    /\ signals' = IF platform = "Amiga" /\ field["sigBit"] # Null
                  THEN signals \cup {"exit"} ELSE signals
    /\ UNCHANGED <<platform, output, field, opened, callback, reading, pipe, told, asked>>

--------------------------------------------------------------------------------
(***************************************************************************)
(* Amiga OS.  A read is a packet sent to the handler of the pipe, which    *)
(* replies when there is output or no writer is left.  reading is the      *)
(* packet until its reply has been taken from m_port.                      *)
(***************************************************************************)
AtEnd(r) == pipe[r]["out"] = <<>> /\ child[r] \in {"closed", "exited"}

ReplyPacket ==
    /\ platform = "Amiga" /\ reading # Null
    /\ pipe[reading]["out"] # <<>> \/ AtEnd(reading)
    /\ "data" \notin signals
    /\ signals' = signals \cup {"data"}
    /\ UNCHANGED <<platform, output, object, reading, child, pipe, told, asked>>

\* The main loop calls readComplete(TRUE), unless the completion signal is there
\* as well.
DataAvailable ==
    /\ platform = "Amiga" /\ "data" \in signals /\ "exit" \notin signals
    /\ signals' = {}
    /\ IF pipe[reading]["out"] # <<>>
       THEN /\ Tell(<<Head(pipe[reading]["out"])>>)
            /\ pipe' = [pipe EXCEPT ![reading]["out"] = Tail(@)]
            /\ UNCHANGED <<object, reading>>
       ELSE /\ Becomes(Close(Object)) /\ reading' = Null
            /\ UNCHANGED <<told, pipe>>
    /\ UNCHANGED <<platform, output, child, asked>>

\* readComplete(FALSE): close() frees the packet, replied to or not.
ChildExited ==
    /\ platform = "Amiga" /\ "exit" \in signals
    /\ Tell(<<Exit(exitCode)>>)
    /\ \E a \in AfterCallback :
        /\ Becomes(Close(a.outcome.object))
        /\ AskedAfter(a)
    /\ reading' = Null /\ signals' = {}
    /\ UNCHANGED <<platform, output, pipe>>

--------------------------------------------------------------------------------
(***************************************************************************)
(* Qt.  QProcess keeps what it has read of both channels, and gives its    *)
(* finished signal when they are empty.                                    *)
(***************************************************************************)
Drained(r) == pipe[r]["out"] = <<>> /\ pipe[r]["err"] = <<>>

\* onReadyRead(): all of the one channel, then all of the other.
OnReadyRead ==
    /\ platform = "Qt" /\ reading # Null
    /\ ~Drained(reading)
    /\ Tell(pipe[reading]["out"] \o pipe[reading]["err"])
    /\ pipe' = [pipe EXCEPT ![reading] = [c \in {"out", "err"} |-> <<>>]]
    /\ UNCHANGED <<platform, output, object, reading, signals, child, asked>>

\* onFinished(): the process is deleted after the callback.
OnFinished ==
    /\ platform = "Qt" /\ reading # Null
    /\ child[reading] = "exited" /\ Drained(reading)
    /\ Tell(<<Exit(reading)>>)
    /\ \E a \in AfterCallback :
        /\ Becomes(Release(a.outcome.object, {"process"}))
        /\ AskedAfter(a)
    /\ reading' = Null
    /\ UNCHANGED <<platform, output, signals, pipe>>

--------------------------------------------------------------------------------
(***************************************************************************)
(* Windows: the completion routine of ReadFileEx().                        *)
(***************************************************************************)
ReadSome ==
    /\ platform = "Windows" /\ reading # Null /\ pipe[reading]["out"] # <<>>
    /\ LET piece == Head(pipe[reading]["out"])
       IN \/ /\ piece.n > 0
             /\ Tell(<<piece>>) /\ UNCHANGED <<object, reading>>
          \/ /\ piece.n > 0             \* the next ReadFileEx() fails
             /\ Tell(<<piece, Broken(reading)>>)
             /\ Becomes(Close(Object)) /\ reading' = Null
          \/ /\ piece.n = 0             \* neither data nor an error
             /\ reading' = Null /\ UNCHANGED <<told, object>>
    /\ pipe' = [pipe EXCEPT ![reading]["out"] = Tail(@)]
    /\ UNCHANGED <<platform, output, signals, child, asked>>

\* ERROR_BROKEN_PIPE: close() follows the callback whatever that has launched.
PipeBroken ==
    /\ platform = "Windows" /\ reading # Null /\ AtEnd(reading)
    /\ Tell(<<Exit(reading)>>)
    /\ \E a \in AfterCallback :
        /\ Becomes(Close(a.outcome.object))
        /\ AskedAfter(a)
    /\ reading' = Null
    /\ UNCHANGED <<platform, output, signals, pipe>>

--------------------------------------------------------------------------------
Serves ==
    \/ ReplyPacket \/ DataAvailable \/ ChildExited
    \/ OnReadyRead \/ OnFinished
    \/ ReadSome \/ PipeBroken

Next ==
    \/ Serves
    \/ \E r \in Requests :
        \/ Launch(r) \/ WriteNothing(r) \/ CloseOutput(r) \/ ExitChild(r)
        \/ \E c \in {"out", "err"} : Write(r, c)

Spec == Init /\ [][Next]_vars

\* The system completes reads and delivers signals, and the main loop serves them.
FairSpec == Spec /\ WF_vars(Serves)

--------------------------------------------------------------------------------
\* Nothing refuses a second request on Windows, and on Qt its callback has taken
\* the place of the first by then.
Disturbed == platform # "Amiga" /\ overlapped

Pieces(r) == {i \in DOMAIN told[r] : told[r][i].n > 0}

Ends(r) == {i \in DOMAIN told[r] : told[r][i].n = 0}

\* On Amiga OS: the end of an earlier command, which has exited after its output was
\* seen to end.
OfAnother(t) == platform = "Amiga" /\ t.by = "end" /\ child[t.of] = "exited"

OwnThings(r) == \A i \in DOMAIN told[r] : told[r][i].of = r \/ OfAnother(told[r][i])

\* A client's callback is given the output of its own command, each channel in
\* the order it was written with nothing left out or told twice, then at most one
\* end and nothing after it; and the exit code comes when all of the output has,
\* but on Amiga OS, where what is in the pipe when the command exits is dropped,
\* and where the end can be that of an earlier command, as OfAnother() has it.
StreamsToItsClient ==
    Disturbed \/ \A r \in Requests :
        /\ OwnThings(r)
        /\ \A i, j \in Pieces(r) :
              i < j /\ told[r][i].by = told[r][j].by => told[r][i].n < told[r][j].n
        /\ \A i \in Pieces(r), m \in 1 .. MaxPieces :
              m < told[r][i].n =>
                 \/ \E j \in Pieces(r) : told[r][j].n = m
                 \/ \E c \in Channels \ {told[r][i].by} :
                       \E j \in DOMAIN pipe[r][c] : pipe[r][c][j].n = m
        /\ Ends(r) \subseteq {Len(told[r])}
        /\ platform # "Amiga" /\ Exit(r) \in {told[r][i] : i \in DOMAIN told[r]} =>
              Cardinality(Pieces(r)) = written[r]

\* However far a launch gets before it fails, and however a command ends, what
\* the system has given is in the members that close() looks at, and an object
\* that is not running has given it all back.
NothingLeaks ==
    Disturbed \/
        /\ \A u \in opened : field[u[1]] = u[2]
        /\ ~IsRunning(Object) => opened = {}

\* A command that has exited leaves the object free for the next, and its client
\* has been told: but for a command that wrote no bytes, which is not read any
\* more, and for Amiga OS, where the end of the output closes the executer if it
\* is seen before the exit.
EndIsKnown(r) ==
    \/ Disturbed \/ r \in hushed
    \/ /\ \A f \in AllFields : field[f] # r
       /\ platform # "Amiga" => Ends(r) # {}

Owed(r) == r \in accepted /\ child[r] = "exited" /\ ~EndIsKnown(r)

--------------------------------------------------------------------------------
(***************************************************************************)
(* The inductive invariant behind StreamsToItsClient and NothingLeaks.     *)
(***************************************************************************)
\* What a command that runs has of what was opened for it, the signal bit if there
\* was one.
Kept ==
    [Amiga   |-> Fields["Amiga"] \ {"stdInRead", "stdOutWrite"},
     Qt      |-> {"process"},
     Windows |-> {"stdOutRead", "stdInWrite", "childProcess", "buffer"}]

\* An object between two commands, or one on Windows that was never used.
HasNothing(x) ==
    /\ x.opened = {}
    /\ \/ \A f \in Fields[platform] : x.field[f] = Null
       \/ platform = "Windows" /\ x.callback = Null

IsOf(x, r) ==
    /\ x.callback = r
    /\ \E kept \in {Kept[platform], Kept[platform] \ {"sigBit"}} :
          /\ x.opened = kept \X {r}
          /\ \A f \in Fields[platform] : x.field[f] = IF f \in kept THEN r ELSE Null

Things == [of : Requests, by : {"out", "err", "end", "error"}, n : 0 .. MaxPieces]

Serving(r) ==
    /\ IsOf(Object, r) /\ child[r] \in {"running", "closed", "exited"} /\ Ends(r) = {}
    /\ reading = r \/ (platform = "Windows" /\ reading = Null)
    /\ platform = "Amiga" \/ signals = {}
    /\ "exit" \in signals => exitCode \in Requests /\ child[exitCode] = "exited"

\* The object has one command, whose callback it has and which it reads from, or none.
OneCommand ==
    \/ HasNothing(Object) /\ reading = Null /\ signals = {}
    \/ \E r \in Requests : Serving(r)

\* What a client was told, t, and the pipes of its command, p, are together what has
\* been written, w pieces, each channel in its order.
InOrder(r, t, p, w) ==
    /\ \A i \in DOMAIN t : t[i].n \in 0 .. w /\ (t[i].n > 0 => t[i].of = r)
    /\ \A c \in {"out", "err"} : \A j \in DOMAIN p[c] :
          /\ p[c][j].of = r /\ p[c][j].by = c /\ p[c][j].n \in 0 .. w
          /\ \A i \in DOMAIN t : t[i].n > 0 /\ p[c][j].n > 0 =>
                /\ t[i].n # p[c][j].n
                /\ t[i].by = c => t[i].n < p[c][j].n
          /\ \A k \in DOMAIN p[c] : p[c][j].n > 0 /\ p[c][k].n > 0 /\ j < k => p[c][j].n < p[c][k].n
    /\ \A i \in DOMAIN p["out"], j \in DOMAIN p["err"] :
          p["out"][i].n > 0 => p["out"][i].n # p["err"][j].n
    /\ \A i, j \in DOMAIN t : t[i].n > 0 /\ t[j].n > 0 /\ i < j =>
          /\ t[i].n # t[j].n
          /\ t[i].by = t[j].by => t[i].n < t[j].n
    /\ \A m \in 1 .. w :
          \/ \E i \in DOMAIN t : t[i].n = m
          \/ \E c \in {"out", "err"} : \E j \in DOMAIN p[c] : p[c][j].n = m

OutputFlows ==
    /\ told \in [Requests -> Seq(Things)]
    /\ pipe \in [Requests -> [{"out", "err"} -> Seq(Things)]]
    /\ \A r \in Requests :
          /\ InOrder(r, told[r], pipe[r], written[r])
          /\ \A c \in {"out", "err"} :
                /\ c \notin Channels => pipe[r][c] = <<>>
                /\ platform # "Windows" => \A j \in DOMAIN pipe[r][c] : pipe[r][c][j].n > 0
          /\ Ends(r) \subseteq {Len(told[r])}
          /\ child[r] = "none" => Ends(r) = {}
          /\ platform # "Amiga" /\ Exit(r) \in {told[r][i] : i \in DOMAIN told[r]} =>
                child[r] \in {"closed", "exited"} /\ Cardinality(Pieces(r)) = written[r]

Follows ==
    /\ TypeOK
    /\ ~Disturbed => OneCommand /\ OutputFlows /\ \A r \in Requests : OwnThings(r)
================================================================================
