-------------------------------- MODULE MainLoop --------------------------------
(***************************************************************************)
(* RApplication::Main() on Amiga OS: one task that waits for the signals   *)
(* of its executers, file watchers and windows, and serves those that      *)
(* Wait() has returned, while the code it calls adds and removes members   *)
(* of the collections it goes through.                                     *)
(*                                                                         *)
(* A source is an executer with one of its two signals, a watcher or a     *)
(* window.  The rendezvous, which takes one message per pass, is in        *)
(* PortRendezvous; what the events of a window are turned into is in Input.*)
(***************************************************************************)
EXTENDS Naturals, Sequences, FiniteSets, SequencesExt

CONSTANTS
    Executers,      \* RStdExecuter objects
    Watchers,       \* RAmiFileWatcher objects
    Windows,        \* CWindow objects
    MaxEvents       \* bound: events that come in all

VARIABLES
    pc,         \* "wait", "executers", "watchers", "input", "returned" or "undefined"
    app,        \* the object: m_oExecuters, m_oWatchers, m_poWindows and m_bDone
    signals,    \* signals of the task
    taken,      \* Signal: what Wait() has returned
    at,         \* the position that the range-based for is at
    limit,      \* the end it began with
    served,     \* Watcher or Window, whose messages are being taken: one, or none
    work,       \* of each source: events that have come and not been taken
    events,     \* how many there have been
    crowd       \* of what there have been too many at a time (ghost)

vars == <<pc, app, signals, taken, at, limit, served, work, events, crowd>>

ExecuterSources == Executers \X {"data", "exit"}

Sources == ExecuterSources \cup Watchers \cup Windows

--------------------------------------------------------------------------------
(***************************************************************************)
(* A std::vector: its slots, the first len of which are its elements; what *)
(* was in the others is still there.  erase() moves the elements behind    *)
(* one to the front; begin and end of a loop in progress do not change.    *)
(***************************************************************************)
Elements(v) == {v.slots[i] : i \in 1 .. v.len}

PushBack(v, x) ==
    [slots |-> IF v.len < Len(v.slots) THEN [v.slots EXCEPT ![v.len + 1] = x]
               ELSE Append(v.slots, x),
     len   |-> v.len + 1]

Erase(v, x) ==
    IF x \notin Elements(v) THEN v
    ELSE LET i == CHOOSE j \in 1 .. v.len : v.slots[j] = x
         IN [slots |-> [j \in DOMAIN v.slots |->
                           IF j \in i .. v.len - 1 THEN v.slots[j + 1] ELSE v.slots[j]],
             len |-> v.len - 1]

Holding(objects) == [slots |-> SetToSeq(objects), len |-> Cardinality(objects)]

AddExecuter(a, e) == [a EXCEPT !.executers = PushBack(@, e)]

RemoveExecuter(a, e) == [a EXCEPT !.executers = Erase(@, e)]

AddWatcher(a, w) == [a EXCEPT !.watchers = PushBack(@, w)]

RemoveWatcher(a, w) == [a EXCEPT !.watchers = Erase(@, w)]

AddWindow(a, n) == [a EXCEPT !.windows = Append(@, n)]

RemoveWindow(a, n) ==
    IF n \notin ToSet(a.windows) THEN a
    ELSE [a EXCEPT !.windows = RemoveAt(@, CHOOSE i \in DOMAIN @ : @[i] = n)]

Exit(a) == [a EXCEPT !.done = TRUE]

\* m_ulExecuterSignals, m_ulWatcherSignals and m_ulWindowSignals.
MaskOf(a) == (Elements(a.executers) \X {"data", "exit"}) \cup Elements(a.watchers)
                \cup ToSet(a.windows)

Mask == MaskOf(app)

--------------------------------------------------------------------------------
(***************************************************************************)
(* What a callback of the client may do: nothing, launch another command,  *)
(* stop or start a watcher, open or close a window, or end the program.    *)
(***************************************************************************)
Launches(a) == {AddExecuter(a, e) : e \in Executers \ Elements(a.executers)}

Watches(a) ==
    {AddWatcher(a, w) : w \in Watchers \ Elements(a.watchers)}
        \cup {RemoveWatcher(a, w) : w \in Elements(a.watchers)}

Opens(a) == {AddWindow(a, n) : n \in Windows \ ToSet(a.windows)}

\* HandleCommand() of a window.
Commands(a, n) ==
    {a, RemoveWindow(a, n), Exit(a), Exit(RemoveWindow(a, n))}
        \cup Launches(a) \cup Watches(a) \cup Opens(a)

\* So many at a time that one may be passed over.
TooMany(executers, watchers, windows) ==
    LET many == [executers |-> executers > 2, watchers |-> watchers > 2, windows |-> windows > 1]
    IN {k \in DOMAIN many : many[k]}

\* The program has been running for a while.
Init ==
    /\ pc = "wait"
    /\ \E es \in SUBSET Executers, ws \in SUBSET Watchers, ns \in (SUBSET Windows) \ {{}} :
           app = [executers |-> Holding(es), watchers |-> Holding(ws),
                  windows |-> SetToSeq(ns), done |-> FALSE]
    /\ signals = {} /\ taken = {} /\ at = 1 /\ limit = 0 /\ served = {}
    /\ work = [s \in Sources |-> 0]
    /\ events = 0
    /\ crowd = TooMany(app.executers.len, app.watchers.len, 0)

\* The type invariant.
TypeOK ==
    /\ pc \in {"wait", "executers", "watchers", "input", "returned", "undefined"}
    /\ Elements(app.executers) \subseteq Executers /\ Elements(app.watchers) \subseteq Watchers
    /\ ToSet(app.windows) \subseteq Windows /\ app.done \in BOOLEAN
    /\ signals \subseteq Sources /\ taken \subseteq Sources
    /\ at \in 1 .. 1 + limit
    /\ Cardinality(served) <= 1 /\ served \subseteq Watchers \cup Windows
    /\ work \in [Sources -> 0 .. MaxEvents]
    /\ crowd \subseteq {"executers", "watchers", "windows"}

Crowded(executers, windows) ==
    crowd' = crowd \cup TooMany(executers, app'.watchers.len, windows)

\* Objects that are out of use lose what was for them; their signals are cleared
\* when they are allocated again.
Dropped ==
    /\ work' = [s \in Sources |-> IF s \in MaskOf(app') THEN work[s] ELSE 0]
    /\ signals' = signals \cap MaskOf(app')

\* The same, and one event of a source has been taken.
DroppedAnd(source) ==
    /\ work' = [s \in Sources |-> IF s \notin MaskOf(app') THEN 0
                                  ELSE IF s = source /\ work[s] > 0 THEN work[s] - 1 ELSE work[s]]
    /\ signals' = signals \cap MaskOf(app')

--------------------------------------------------------------------------------
(***************************************************************************)
(* Events.                                                                 *)
(***************************************************************************)
\* A packet comes back only when one was sent, and a command exits once.
MayCome(s) ==
    /\ s \in Mask
    /\ s \in ExecuterSources => work[s] = 0

Event(s) ==
    /\ events < MaxEvents /\ MayCome(s) /\ pc \notin {"returned", "undefined"}
    /\ events' = events + 1
    /\ work' = [work EXCEPT ![s] = @ + 1]
    /\ signals' = signals \cup {s}
    /\ UNCHANGED <<pc, app, taken, at, limit, served, crowd>>

--------------------------------------------------------------------------------
(***************************************************************************)
(* The loop.                                                               *)
(***************************************************************************)
\* Wait() clears the signals that it returns.
Begin ==
    /\ pc = "wait"
    /\ taken' = signals \cap Mask /\ signals' = {}
    /\ pc' = "executers" /\ at' = 1 /\ limit' = app'.executers.len
    /\ served' = {} /\ work' = [s \in Sources |-> IF s \in MaskOf(app') THEN work[s] ELSE 0]
    /\ Crowded(app'.executers.len, Cardinality(taken' \cap Windows))

Wake == UNCHANGED <<app, events>> /\ signals \cap Mask # {} /\ Begin

\* CTRL_C as well: the first window gets IDCANCEL.
Break ==
    /\ events < MaxEvents /\ events' = events + 1
    /\ app' \in IF app.windows = <<>> THEN {app} ELSE Commands(app, Head(app.windows))
    /\ Begin

\* Adding to the vector that is gone through may move it.
Onward(grown) ==
    /\ \/ pc' = pc /\ at' = at + 1
       \/ grown /\ pc' = "undefined" /\ at' = at
    /\ UNCHANGED <<taken, limit, served, events>>

ExecuterAt == app.executers.slots[at]

Signalled(e, s) == <<e, s>> \in taken /\ e \in Elements(app.executers)

\* readComplete(FALSE): the callback, then close().
EndOfCommand ==
    /\ pc = "executers" /\ at <= limit
    /\ Signalled(ExecuterAt, "exit")
    /\ \E a \in {app} \cup Launches(app) \cup Watches(app) :
          app' = RemoveExecuter(a, ExecuterAt)
    /\ Dropped
    /\ Onward(app'.executers.len = app.executers.len)
    /\ Crowded(app'.executers.len + 1, 0)

\* readComplete(TRUE): the reply, if it is still there, has output or the end.
DataOfCommand ==
    /\ pc = "executers" /\ at <= limit
    /\ ~Signalled(ExecuterAt, "exit") /\ Signalled(ExecuterAt, "data")
    /\ app' \in IF work[<<ExecuterAt, "data">>] = 0 THEN {app}
                ELSE {app, RemoveExecuter(app, ExecuterAt)} \cup Launches(app) \cup Watches(app)
    /\ DroppedAnd(<<ExecuterAt, "data">>)
    /\ Onward(app'.executers.len > app.executers.len)
    /\ Crowded(app'.executers.len, 0)

QuietExecuter ==
    /\ pc = "executers" /\ at <= limit
    /\ ~Signalled(ExecuterAt, "exit") /\ ~Signalled(ExecuterAt, "data")
    /\ at' = at + 1
    /\ UNCHANGED <<pc, app, signals, taken, limit, served, work, events, crowd>>

AllExecuters ==
    /\ pc = "executers" /\ at > limit
    /\ pc' = "watchers" /\ at' = 1 /\ limit' = app.watchers.len
    /\ UNCHANGED <<app, signals, taken, served, work, events, crowd>>

WatcherAt == app.watchers.slots[at]

\* Wait() has returned the signal of the next watcher.
TakeWatcher ==
    /\ pc = "watchers" /\ at <= limit /\ served = {}
    /\ WatcherAt \in taken \cap Elements(app.watchers)
    /\ served' = {WatcherAt}
    /\ UNCHANGED <<pc, app, signals, taken, at, limit, work, events, crowd>>

\* One message: changed(), then ReplyMsg().  A watcher that its callback stops
\* has no port any more, and the message is gone.
Change(w) ==
    /\ pc = "watchers" /\ w \in served /\ work[w] > 0
    /\ app' \in {app} \cup Launches(app) \cup Watches(app)
    /\ DroppedAnd(w)
    /\ pc' \in IF w \notin Elements(app'.watchers) THEN {"undefined"}
               ELSE IF app'.watchers.len > app.watchers.len THEN {"watchers", "undefined"}
               ELSE {"watchers"}
    /\ Crowded(app'.executers.len, 0)
    /\ UNCHANGED <<taken, at, limit, served, events>>

\* MUTANT: one message is taken from each watcher.
NextWatcherAfterOne ==
    /\ pc = "watchers" /\ at <= limit
    /\ served = {} => WatcherAt \notin taken \cap Elements(app.watchers)
    /\ at' = at + 1 /\ served' = {}
    /\ UNCHANGED <<pc, app, signals, taken, limit, work, events, crowd>>

\* It has no message left, or there is no signal of it.
NextWatcher ==
    /\ pc = "watchers" /\ at <= limit
    /\ served = {} => WatcherAt \notin taken \cap Elements(app.watchers)
    /\ \A w \in served : work[w] = 0
    /\ at' = at + 1 /\ served' = {}
    /\ UNCHANGED <<pc, app, signals, taken, limit, work, events, crowd>>

Again == IF app.done THEN "returned" ELSE "wait"

\* The first window with a signal.
ChooseWindow ==
    /\ pc = "watchers" /\ at > limit
    /\ LET lit == {i \in DOMAIN app.windows : app.windows[i] \in taken}
       IN IF lit = {} THEN pc' = Again /\ served' = {}
          ELSE \E i \in lit : /\ \A j \in lit : i <= j
                              /\ pc' = "input" /\ served' = {app.windows[i]}
    /\ UNCHANGED <<app, signals, taken, at, limit, work, events, crowd>>

\* RA_HandleInput() has an event for it.
Handle(n) ==
    /\ pc = "input" /\ n \in served /\ n \in ToSet(app.windows) /\ work[n] > 0
    /\ app' \in Commands(app, n)
    /\ DroppedAnd(n)
    /\ Crowded(app'.executers.len, 0)
    /\ UNCHANGED <<pc, taken, at, limit, served, events>>

\* WMHI_LASTMSG, also of a window that has been closed.
LastMessage(n) ==
    /\ pc = "input" /\ n \in served
    /\ n \in ToSet(app.windows) => work[n] = 0
    /\ pc' = Again /\ served' = {}
    /\ UNCHANGED <<app, signals, taken, at, limit, work, events, crowd>>

Loop ==
    \/ Wake \/ EndOfCommand \/ DataOfCommand \/ QuietExecuter \/ AllExecuters
    \/ TakeWatcher \/ (\E w \in Watchers : Change(w)) \/ NextWatcher \/ ChooseWindow
    \/ \E n \in Windows : Handle(n) \/ LastMessage(n)

Next == Break \/ Loop \/ \E s \in Sources : Event(s)

Spec == Init /\ [][Next]_vars

--------------------------------------------------------------------------------
\* Sources that may be passed over: a window that is not the first whose signal
\* Wait() has returned, and a member behind one that was erased from three or more.
Excused(s) ==
    \/ s \in Windows /\ "windows" \in crowd
    \/ s \in ExecuterSources /\ "executers" \in crowd
    \/ s \in Watchers /\ "watchers" \in crowd

\* Whatever callbacks add to and remove from the collections they are called from,
\* the loop waits only when each event that has come was handled, or dropped with
\* its object, or has its signal set: unless its source is one of the excused.
NothingForgotten ==
    pc = "wait" => \A s \in Sources : work[s] = 0 \/ s \in signals \/ Excused(s)

--------------------------------------------------------------------------------
(***************************************************************************)
(* The inductive invariant: what has come and is not signalled any more is *)
(* still ahead of the loop.                                                *)
(***************************************************************************)
IsVector(v, S) ==
    /\ v \in [slots : Seq(S), len : Nat] /\ v.len <= Len(v.slots)
    /\ \A i, j \in 1 .. v.len : v.slots[i] = v.slots[j] => i = j

AppOK ==
    /\ app \in [executers : [slots : Seq(Executers), len : Nat],
                watchers : [slots : Seq(Watchers), len : Nat],
                windows : Seq(Windows), done : BOOLEAN]
    /\ IsVector(app.executers, Executers) /\ IsVector(app.watchers, Watchers)

\* Events are counted, and of sources in use; a command has one of each kind.
WorkCounted ==
    /\ events \in 0 .. MaxEvents
    /\ \A s \in Sources : /\ work[s] <= events
                          /\ work[s] # 0 => s \in Mask
                          /\ s \in ExecuterSources => work[s] <= 1

\* The loops stay within the slots, and what is crowded is known to be.
LoopsInBounds ==
    /\ limit \in Nat
    /\ app.executers.len > 2 => "executers" \in crowd
    /\ app.watchers.len > 2 => "watchers" \in crowd
    /\ pc = "executers" => /\ limit <= Len(app.executers.slots) /\ served = {}
                           /\ limit > 2 => "executers" \in crowd
    /\ pc = "watchers" => /\ limit <= Len(app.watchers.slots)
                          /\ served \subseteq Elements(app.watchers)
                          /\ limit > 2 => "watchers" \in crowd
                          /\ served # {} => at <= limit
    /\ pc \in {"executers", "watchers"} =>
          \A m, n \in taken \cap Windows : m = n \/ "windows" \in crowd

Pending(s) == work[s] # 0 /\ s \notin signals /\ ~Excused(s)

Ahead(s) ==
    /\ s \in taken
    /\ \/ /\ s \in ExecuterSources /\ pc = "executers"
          /\ \E i \in at .. limit : app.executers.slots[i] = s[1]
       \/ s \in Watchers /\ pc = "executers"
       \/ /\ s \in Watchers /\ pc = "watchers"
          /\ \/ s \in served
             \/ \E i \in at .. limit : app.watchers.slots[i] = s /\ (served # {} => i > at)
       \/ s \in Windows /\ pc \in {"executers", "watchers"}
       \/ s \in Windows /\ pc = "input" /\ s \in served

Follows ==
    /\ TypeOK /\ AppOK /\ WorkCounted /\ LoopsInBounds
    /\ pc \notin {"returned", "undefined"} => \A s \in Sources : Pending(s) => Ahead(s)
================================================================================
