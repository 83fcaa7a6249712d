-------------------------------- MODULE MCDesk ---------------------------------
(***************************************************************************)
(* What an application has on the desk, for TLC: its commands, the loop    *)
(* that serves them, the input of its windows and their menus.  One part   *)
(* of it runs at a time, with the variables of its module; the others of   *)
(* the modules are 0.                                                      *)
(***************************************************************************)
EXTENDS Naturals, Sequences, FiniteSets

CONSTANTS
    Platforms, Null, Garbage, MaxRequests, MaxPieces,           \* of Executer
    Executers, Watchers, Windows, MaxEvents,                    \* of MainLoop
    FirstWindow, SecondWindow, Keys, Spots, None, MaxInputs,    \* of Input
    NewIds, NewKeys, NoKey, Shortages, MaxCalls                 \* of the menus

ASSUME CommandsAssumption ==
    /\ Platforms \subseteq {"Amiga", "Qt", "Windows"}
    /\ MaxRequests \in Nat /\ MaxPieces \in Nat /\ Null \notin 1 .. MaxRequests

ASSUME LoopAssumption ==
    /\ IsFiniteSet(Executers) /\ IsFiniteSet(Watchers) /\ IsFiniteSet(Windows)
    /\ (Executers \X {"data", "exit"}) \cap (Watchers \cup Windows) = {}
    /\ Watchers \cap Windows = {} /\ MaxEvents \in Nat

ASSUME MenuAssumption ==
    /\ NewIds \subseteq Nat \ {0} /\ "a" \in NewKeys /\ NoKey \notin NewKeys
    /\ Shortages \subseteq BOOLEAN

ASSUME InputAssumption == MaxInputs \in Nat /\ 0 \in Spots /\ None \notin {FirstWindow, SecondWindow}

\* Two windows; two keys are Shift, and Ctrl-s is a shortcut.
WindowOrder == <<FirstWindow, SecondWindow>>

MapsTo == [k \in Keys |-> CASE k \in {"left shift", "right shift"} -> "shift"
                            [] k = "s" -> "char"
                            [] OTHER -> k]

Shortcuts == {<<"s", TRUE>>}

\* Menus with two titles and an item that can be ticked, and with a submenu.
MenuItem(type, id, key, modifier) == [type |-> type, id |-> id, key |-> key, modifier |-> modifier]

Title == MenuItem("Title", 0, NoKey, "None")

TwoMenus == <<Title, MenuItem("Item", 1, "a", "None"), MenuItem("Check", 2, NoKey, "None"),
              Title, MenuItem("Item", 3, "a", "Control")>>

WithSubMenu == <<Title, MenuItem("SubMenu", 0, NoKey, "None"), MenuItem("Item", 1, "a", "None"),
                 MenuItem("SubMenuEnd", 0, NoKey, "None"), MenuItem("Item", 3, NoKey, "None")>>

Descriptions == {TwoMenus, WithSubMenu}

VARIABLES
    part,                                 \* the part that runs
    platform, field, opened, callback, exitCode, reading,     \* "commands"
    signals, child, pipe, written, hushed, told, accepted, overlapped,
    pc, app, loopSignals, taken, at, limit, served, work,     \* "loop"
    events, crowd,
    active, held, queue, inputSignals, serving, pressed,      \* "input"
    isActive, click, unheard, called, presses, inputs,
    items, newMenus, mappings, native, attached,              \* "amiga"
    itemsAsked, added, displaced, calls, failed, missed,
    system, bar, table, entriesAsked, entriesAdded, starved,  \* "menus"
    misread, result, menuCalls

X == INSTANCE Executer
L == INSTANCE MainLoop WITH signals <- loopSignals
I == INSTANCE Input WITH Windows <- WindowOrder, signals <- inputSignals
A == INSTANCE AmiMenus WITH asked <- itemsAsked
M == INSTANCE WindowMenus WITH platform <- system, asked <- entriesAsked,
                               added <- entriesAdded, calls <- menuCalls

ofCommands == <<platform, field, opened, callback, exitCode, reading, signals, child, pipe, written,
                hushed, told, accepted, overlapped>>

ofLoop == <<pc, app, loopSignals, taken, at, limit, served, work, events, crowd>>

ofInput == <<active, held, queue, inputSignals, serving, pressed, isActive, click, unheard,
             called, presses, inputs>>

ofAmiga == <<items, newMenus, mappings, native, attached, itemsAsked, added, displaced, calls,
             failed, missed>>

ofMenus == <<system, bar, table, entriesAsked, entriesAdded, starved, misread, result,
             menuCalls>>

all == <<part, ofCommands, ofLoop, ofInput, ofAmiga, ofMenus>>

\* A part that does not run.
NoCommands ==
    /\ platform = 0 /\ field = 0 /\ opened = 0 /\ callback = 0 /\ exitCode = 0
    /\ reading = 0 /\ signals = 0 /\ child = 0 /\ pipe = 0 /\ written = 0 /\ hushed = 0 /\ told = 0
    /\ accepted = 0 /\ overlapped = 0

NoLoop ==
    /\ pc = 0 /\ app = 0 /\ loopSignals = 0 /\ taken = 0 /\ at = 0 /\ limit = 0
    /\ served = 0 /\ work = 0 /\ events = 0 /\ crowd = 0

NoInput ==
    /\ active = 0 /\ held = 0 /\ queue = 0 /\ inputSignals = 0 /\ serving = 0
    /\ pressed = 0 /\ isActive = 0 /\ click = 0 /\ unheard = 0 /\ called = 0 /\ presses = 0
    /\ inputs = 0

NoAmiga ==
    /\ items = 0 /\ newMenus = 0 /\ mappings = 0 /\ native = 0 /\ attached = 0 /\ itemsAsked = 0
    /\ added = 0 /\ displaced = 0 /\ calls = 0 /\ failed = 0 /\ missed = 0

NoMenus ==
    /\ system = 0 /\ bar = 0 /\ table = 0 /\ entriesAsked = 0 /\ entriesAdded = 0
    /\ starved = 0 /\ misread = 0 /\ result = 0 /\ menuCalls = 0

AllInit ==
    \/ part = "commands" /\ X!Init
       /\ NoLoop /\ NoInput /\ NoAmiga /\ NoMenus
    \/ part = "loop" /\ L!Init
       /\ NoCommands /\ NoInput /\ NoAmiga /\ NoMenus
    \/ part = "input" /\ I!Init
       /\ NoCommands /\ NoLoop /\ NoAmiga /\ NoMenus
    \/ part = "amiga" /\ A!Init
       /\ NoCommands /\ NoLoop /\ NoInput /\ NoMenus
    \/ part = "menus" /\ M!Init
       /\ NoCommands /\ NoLoop /\ NoInput /\ NoAmiga

AllNext ==
    \/ /\ part = "commands" /\ X!Next
       /\ UNCHANGED <<part, ofLoop, ofInput, ofAmiga, ofMenus>>
    \/ /\ part = "loop" /\ L!Next
       /\ UNCHANGED <<part, ofCommands, ofInput, ofAmiga, ofMenus>>
    \/ /\ part = "input" /\ I!Next
       /\ UNCHANGED <<part, ofCommands, ofLoop, ofAmiga, ofMenus>>
    \/ /\ part = "amiga" /\ A!Next
       /\ UNCHANGED <<part, ofCommands, ofLoop, ofInput, ofMenus>>
    \/ /\ part = "menus" /\ M!Next
       /\ UNCHANGED <<part, ofCommands, ofLoop, ofInput, ofAmiga>>

\* Of the parts, only the commands have a fairness to rely on.
Serves == part = "commands" /\ X!Serves /\ UNCHANGED <<part, ofLoop, ofInput, ofAmiga, ofMenus>>

AllSpec == AllInit /\ [][AllNext]_all /\ WF_all(Serves)

--------------------------------------------------------------------------------
\* RStdExecuter: a command's output goes to its own client, whole, in order and
\* with at most one end, which on Amiga OS may be that of an earlier command;
\* nothing that the system gave for it outlives it.
CommandsAreKeptApart ==
    part = "commands" => X!TypeOK /\ X!StreamsToItsClient /\ X!NothingLeaks

Ended(r) == part = "commands" /\ X!Owed(r)

\* A command that has exited is done with in the end, and its client told.
EndIsReported == \A r \in 1 .. MaxRequests : Ended(r) ~> ~Ended(r)

\* RApplication::Main(): whatever callbacks add and remove, no event is waited
\* over but those of sources the code is known to pass over; no modifier key stays
\* pressed when it is not held, unless its release could not be read; and three clicks are not two double clicks.
EventsAreServed ==
    CASE part = "loop"  -> L!TypeOK /\ L!NothingForgotten
      [] part = "input" -> I!TypeOK /\ I!ModifiersAreHeld /\ I!PairsAreApart
      [] OTHER          -> TRUE

\* The menus are those the client has made of them, on all three platforms, and
\* their shortcuts run items that are there.
MenusAreAsAsked ==
    CASE part = "amiga" -> A!TypeOK /\ A!ItemsAreAsAsked /\ A!ShortcutRunsItsItem
      [] part = "menus" -> M!TypeOK /\ M!ItemsAreAsAsked /\ M!ShortcutsAreOfItems
      [] OTHER          -> TRUE
================================================================================
