--------------------------------- MODULE Input ---------------------------------
(***************************************************************************)
(* The input of the windows of an application on Amiga OS: Intuition       *)
(* queues events at the window that is active, and RApplication::Main()    *)
(* takes them window by window and turns them into the calls of CWindow,   *)
(* with the state of the modifier keys and of the last click on the way.   *)
(*                                                                         *)
(* A key is one on the keyboard.  What a call does to the window is the    *)
(* client's, and what it does to the collections of windows is in          *)
(* MainLoop.                                                               *)
(***************************************************************************)
EXTENDS Integers, Sequences, FiniteSets, SequencesExt

CONSTANTS
    Windows,        \* the windows, in the order of m_poWindows
    Keys,           \* keys of the keyboard
    MapsTo,         \* of each key in g_aoKeyMap: its m_iStdKey; of the others "char" or "wheel"
    Shortcuts,      \* keys with m_bCtrlPressed that the menus have as shortcuts
    Spots,          \* places of a window: 0 is the corner, those below are outside
    None,           \* no window
    MaxInputs       \* bound: events in all

VARIABLES
    active,     \* the window that is active, for the user
    held,       \* the keys that are down
    queue,      \* of each window: events that it has not taken
    signals,    \* windows whose signal is set
    serving,    \* the window that Main() is serving, or None
    pressed,    \* m_bAltPressed, m_bCtrlPressed and m_bShiftPressed: those that are set
    isActive,   \* m_bIsActive
    click,      \* m_iLastX, m_iLastY and how long m_ulMainSeconds is ago
    unheard,    \* modifiers whose last key went up in an event that could not be read (ghost)
    called,     \* the last call of the window
    presses,    \* how many single and double presses it has been told of (ghost)
    inputs      \* how many events there have been

vars == <<active, held, queue, signals, serving, pressed, isActive, click, unheard, called, presses,
          inputs>>

Modifiers == {"alt", "ctrl", "shift"}

Held(keys) == {MapsTo[k] : k \in keys} \cap Modifiers

\* The type invariant.
TypeOK ==
    /\ active \in Range(Windows) \cup {None} /\ serving \in Range(Windows) \cup {None}
    /\ held \subseteq Keys /\ pressed \subseteq Modifiers /\ unheard \subseteq Modifiers
    /\ signals \subseteq Range(Windows) /\ isActive \in BOOLEAN
    /\ click \in [spot : Spots, ago : {"long", "short"}]
    /\ inputs \in 0 .. MaxInputs

NoCall == [kind |-> "none"]

Init ==
    /\ active = None /\ held = {}
    /\ queue = [w \in Range(Windows) |-> <<>>] /\ signals = {} /\ serving = None
    /\ pressed = {} /\ isActive = FALSE
    /\ click = [spot |-> 0, ago |-> "long"] /\ unheard = {} /\ called = NoCall
    /\ presses = [single |-> 0, double |-> 0] /\ inputs = 0

--------------------------------------------------------------------------------
(***************************************************************************)
(* The user and Intuition.                                                 *)
(***************************************************************************)
Untouched == UNCHANGED <<serving, pressed, isActive, click, unheard, called, presses>>

\* Events come, of each of some windows one.
Come(events) ==
    /\ inputs < MaxInputs /\ inputs' = inputs + 1
    /\ queue' = [w \in Range(Windows) |->
                   IF w \in DOMAIN events THEN Append(queue[w], events[w]) ELSE queue[w]]
    /\ signals' = signals \cup DOMAIN events

Activate(w) ==
    /\ w # active
    /\ active' = w
    /\ Come([v \in {active, w} \ {None} |-> [kind |-> IF v = w THEN "active" ELSE "inactive"]])
    /\ UNCHANGED held /\ Untouched

\* A key goes down or up; an event has the modifiers that are down with it.
Key(k) ==
    /\ held' = IF k \in held THEN held \ {k} ELSE held \cup {k}
    /\ IF active = None THEN UNCHANGED <<queue, signals, inputs>>
       ELSE Come([v \in {active} |-> [kind |-> "key", key |-> k, down |-> k \notin held,
                                      qualifier |-> Held(held')]])
    /\ UNCHANGED active /\ Untouched

Button(spot, down) ==
    /\ active # None
    /\ Come([v \in {active} |-> [kind |-> "button", spot |-> spot, down |-> down]])
    /\ UNCHANGED <<active, held>> /\ Untouched

\* A second click comes too late to be one with the first.
TimePasses ==
    /\ click.ago = "short"
    /\ click' = [click EXCEPT !.ago = "long"]
    /\ UNCHANGED <<active, held, queue, signals, serving, pressed, isActive, unheard, called, presses,
                   inputs>>

--------------------------------------------------------------------------------
(***************************************************************************)
(* RApplication::Main().                                                   *)
(***************************************************************************)
\* Wait() takes all signals; the first window that has one is served.
Wait ==
    /\ serving = None /\ signals # {}
    /\ serving' = Windows[CHOOSE i \in DOMAIN Windows :
                             /\ Windows[i] \in signals
                             /\ \A j \in 1 .. i - 1 : Windows[j] \notin signals]
    /\ signals' = {}
    /\ UNCHANGED <<active, held, queue, pressed, isActive, click, unheard, called, presses, inputs>>

LastMessage ==
    /\ serving # None /\ queue[serving] = <<>>
    /\ serving' = None
    /\ UNCHANGED <<active, held, queue, signals, pressed, isActive, click, unheard, called, presses,
                   inputs>>

\* WMHI_ACTIVE and WMHI_INACTIVE: keys that are let go in another window are
\* never heard of.
Activated(e) ==
    /\ isActive' = (e.kind = "active")
    /\ pressed' = IF e.kind = "active" THEN pressed ELSE {}
    /\ unheard' = IF e.kind = "active" THEN unheard ELSE {}
    /\ called' = [kind |-> "activated"]
    /\ UNCHANGED <<click, presses>>

\* A button outside is ignored.  DoubleClick() is asked about a click and the last
\* at the same spot, and not again about one that was half of a pair; the times
\* compared are those at which the events are taken.
MouseButtons(e) ==
    LET double == e.down /\ e.spot = click.spot /\ click.ago = "short"
    IN /\ UNCHANGED <<pressed, isActive, unheard>>
       /\ IF e.spot < 0 THEN UNCHANGED <<click, called, presses>>
          ELSE /\ called' = [kind |-> IF double THEN "double" ELSE IF e.down THEN "down" ELSE "up"]
               /\ click' = [spot |-> IF double THEN click.spot ELSE e.spot,
                            ago  |-> IF double THEN "long" ELSE IF e.down THEN "short" ELSE click.ago]
               /\ presses' = IF double THEN [presses EXCEPT !.double = @ + 1]
                             ELSE IF e.down THEN [presses EXCEPT !.single = @ + 1] ELSE presses

IsShortcut(k) == <<k, "ctrl" \in pressed'>> \in Shortcuts

\* A key of g_aoKeyMap: first the flags, then the menus, then the window.
MappedKey(e) ==
    /\ pressed' = IF MapsTo[e.key] \notin Modifiers THEN pressed
                  ELSE IF e.down THEN pressed \cup {MapsTo[e.key]}
                  ELSE pressed \ {MapsTo[e.key]}
    /\ unheard' = unheard \ {MapsTo[e.key]}
    /\ called' = IF e.down /\ IsShortcut(e.key) THEN [kind |-> "command"]
                 ELSE [kind |-> "offered", key |-> e.key, down |-> e.down]

\* Another key: MapRawKey() gives its character with the qualifiers, without them
\* when Ctrl or the left Alt is among them.  Of Ctrl and a letter the lower case is
\* offered.
OtherKey(e) ==
    /\ UNCHANGED <<pressed, unheard>>
    /\ called' =
         CASE ~e.down -> NoCall
           [] e.down /\ MapsTo[e.key] = "wheel" -> [kind |-> "wheel"]
           [] e.down /\ IsShortcut(e.key) -> [kind |-> "command"]
           [] OTHER -> [kind  |-> "offered", key |-> e.key, down |-> TRUE,
                        upper |-> "shift" \in e.qualifier
                                    /\ ~("ctrl" \in pressed /\ "alt" \notin pressed)]

\* GetAttr() does not give the InputEvent: the key is lost.
LostKey(e) ==
    /\ called' = NoCall
    /\ unheard' = IF e.down THEN unheard ELSE unheard \cup ({MapsTo[e.key]} \cap Modifiers)
    /\ UNCHANGED pressed

RawKey(e) ==
    /\ \/ MapsTo[e.key] \in {"char", "wheel"} /\ OtherKey(e)
       \/ MapsTo[e.key] \notin {"char", "wheel"} /\ MappedKey(e)
       \/ LostKey(e)
    /\ UNCHANGED <<isActive, click, presses>>

HandleInput ==
    /\ serving # None /\ queue[serving] # <<>>
    /\ LET e == Head(queue[serving])
       IN CASE e.kind \in {"active", "inactive"} -> Activated(e)
            [] e.kind = "button"                 -> MouseButtons(e)
            [] e.kind = "key"                    -> RawKey(e)
    /\ queue' = [queue EXCEPT ![serving] = Tail(@)]
    /\ UNCHANGED <<active, held, signals, serving, inputs>>

Next ==
    \/ \E w \in Range(Windows) \cup {None} : Activate(w)
    \/ \E k \in Keys : Key(k)
    \/ \E spot \in Spots, down \in BOOLEAN : Button(spot, down)
    \/ TimePasses
    \/ Wait
    \/ LastMessage
    \/ HandleInput

Spec == Init /\ [][Next]_vars

--------------------------------------------------------------------------------
Taken == \A w \in Range(Windows) : queue[w] = <<>>

\* No modifier is stuck: when every event has been taken, those that are set are
\* held, in whatever windows their keys went down and up, unless it was the release
\* of such a key that GetAttr() did not give; the next key of the same modifier, or
\* the next change of the window, mends that.
ModifiersAreHeld == Taken => pressed \subseteq Held(held) \cup unheard

\* Every double press has a single press of its own before it: three clicks are
\* not two pairs.
PairsAreApart == presses.double <= presses.single

--------------------------------------------------------------------------------
(***************************************************************************)
(* The inductive invariant: a modifier that is set, or that an event is to *)
(* set, is held in the active window, or an event behind clears it, or its *)
(* release was lost.                                                       *)
(***************************************************************************)
Events ==
    [kind : {"active", "inactive"}]
        \cup [kind : {"button"}, spot : Spots, down : BOOLEAN]
        \cup [kind : {"key"}, key : Keys, down : BOOLEAN, qualifier : SUBSET Modifiers]

Clears(e, m) ==
    e.kind = "inactive" \/ (e.kind = "key" /\ ~e.down /\ MapsTo[e.key] = m)

Sets(e, m) == e.kind = "key" /\ e.down /\ MapsTo[e.key] = m

\* An event behind position i of the queue of w clears m.
ClearedLater(w, i, m) == \E j \in DOMAIN queue[w] : j > i /\ Clears(queue[w][j], m)

\* The key of a press that no event clears again is still down.
PressesEnd ==
    \A w \in Range(Windows), m \in Modifiers : \A i \in DOMAIN queue[w] :
        Sets(queue[w][i], m) => \/ w = active /\ queue[w][i].key \in held
                                \/ ClearedLater(w, i, m)

PressedEnds ==
    \A m \in pressed : \/ active # None /\ m \in Held(held)
                       \/ m \in unheard
                       \/ \E w \in Range(Windows) : ClearedLater(w, 0, m)

\* A click that may become half of a pair is not half of one yet.
ClicksCounted ==
    /\ presses \in [single : Nat, double : Nat]
    /\ presses.double <= presses.single
    /\ click.ago = "short" => presses.double < presses.single

Follows ==
    /\ TypeOK /\ queue \in [Range(Windows) -> Seq(Events)]
    /\ PressesEnd /\ PressedEnds /\ ClicksCounted
================================================================================
