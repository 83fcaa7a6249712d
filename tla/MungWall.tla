-------------------------------- MODULE MungWall --------------------------------
(***************************************************************************)
(* MungWall, the debugging allocator behind new, delete, malloc() and      *)
(* free() in the debug builds: every block lies between two walls of a     *)
(* known value, and an arena in front of it links it into a list of all    *)
(* blocks.                                                                 *)
(*                                                                         *)
(* The client is any code of the program: it allocates and frees, writes   *)
(* over a wall, frees a block twice, or frees one that is not the wall's,  *)
(* such as one that a global object has had from it since before its       *)
(* constructor ran.                                                        *)
(***************************************************************************)
EXTENDS Naturals, FiniteSets

CONSTANTS
    Addresses,      \* where malloc() can put a block
    Early,          \* blocks of before the constructor, which forgets them; they are not freed
    Sizes,          \* sizes asked for
    Most,           \* blocks left behind that the destructor reports one by one
    NULL            \* no pointer

VARIABLES
    arena,          \* the arenas that malloc() has given out, by address
    first,          \* paFirstArena
    numNews,        \* ulNumNews
    enabled,        \* bEnableOutput
    profiled,       \* bEnableProfiling, and ulNumProfiledNews capped at MaxProfiled
    report          \* what the last call printed

vars == <<arena, first, numNews, enabled, profiled, report>>

MaxProfiled == 2

Walls == {"before", "after"}

NoReport == [kind |-> "none", walls |-> {}, blocks |-> {}]

Live == DOMAIN arena

--------------------------------------------------------------------------------
(***************************************************************************)
(* The wall is the heap and the list through it, [arena, first, numNews];  *)
(* the operations take one and return the next, with what they print.      *)
(***************************************************************************)
Without(f, x) == [y \in DOMAIN f \ {x} |-> f[y]]

With(f, x, v) == [y \in DOMAIN f \cup {x} |-> IF y = x THEN v ELSE f[y]]

\* CheckBlockValidity() follows the list from its head.
ListFrom(w) ==
    LET reach[n \in 0 .. Cardinality(Addresses)] ==
            IF n = 0 THEN {w.first} \ {NULL}
            ELSE reach[n - 1] \cup ({w.arena[a].next : a \in reach[n - 1]} \ {NULL})
    IN reach[Cardinality(Addresses)]

Unlinked(w, a) ==
    LET e == w.arena[a]
    IN [first |-> IF w.first = a THEN e.next ELSE w.first,
        arena |-> [b \in DOMAIN w.arena \ {a} |->
                     [w.arena[b] EXCEPT !.next = IF b = e.prev THEN e.next ELSE @,
                                        !.prev = IF b = e.next THEN e.prev ELSE @]],
        numNews |-> w.numNews - 1]

\* CheckOverWrites(): the walls in front of and behind the block that no longer
\* hold 0xdeadbeef.
OverWrites(w, a) == w.arena[a].walls

FreeOf(w, a) ==
    IF w.first = NULL \/ a = NULL THEN [wall |-> w, report |-> NoReport]
    ELSE IF a \notin ListFrom(w)
         THEN [wall |-> w, report |-> [NoReport EXCEPT !.kind = "invalid"]]
    ELSE [wall |-> Unlinked(w, a),
          report |-> IF OverWrites(w, a) = {} THEN NoReport
                     ELSE [kind |-> "overwritten", walls |-> OverWrites(w, a),
                           blocks |-> {a}]]

NewIn(w, a, size) ==
    LET e == [prev |-> NULL, next |-> w.first, size |-> size, walls |-> {}]
        linked == [b \in DOMAIN w.arena |->
                     IF b = w.first THEN [w.arena[b] EXCEPT !.prev = a] ELSE w.arena[b]]
    IN [arena |-> With(linked, a, e), first |-> a, numNews |-> w.numNews + 1]

Wall == [arena |-> arena, first |-> first, numNews |-> numNews]

Become(w) ==
    /\ arena' = w.arena
    /\ first' = w.first
    /\ numNews' = w.numNews

Profile == profiled' = [profiled EXCEPT !.news =
                            IF profiled.on /\ @ < MaxProfiled THEN @ + 1 ELSE @]

Init ==
    /\ arena = [a \in {} |-> NULL]
    /\ first = NULL
    /\ numNews = 0
    /\ enabled = TRUE
    /\ profiled \in [on : BOOLEAN, news : {0}]      \* the constructor leaves it unset
    /\ report = NoReport

\* new, new [] and malloc(): the block is a new head of the list; with no memory,
\* or a size that overflows, the caller is given NULL.
New ==
    \/ \E size \in Sizes, a \in Addresses \ Live :
           /\ Become(NewIn(Wall, a, size))
           /\ Profile
           /\ report' = NoReport
           /\ UNCHANGED enabled
    \/ /\ Profile                                   \* malloc() fails
       /\ report' = NoReport
       /\ UNCHANGED <<arena, first, numNews, enabled>>
    \/ /\ report' = NoReport                        \* the size with the walls overflows
       /\ UNCHANGED <<arena, first, numNews, enabled, profiled>>

\* delete, delete [] and free().
Free ==
    \E a \in Addresses \cup Early \cup {NULL} :
        LET f == FreeOf(Wall, a)
        IN /\ Become(f.wall)
           /\ report' = f.report
           /\ UNCHANGED <<enabled, profiled>>

\* ReNew() frees the old block whether or not it could allocate the new one.  It
\* reads the arena of the block it is given before it has been checked: the
\* client passes one that is allocated.
ReNew ==
    \E a \in Live \cup Early :
        \/ \E size \in Sizes, b \in Addresses \ Live :
               LET f == FreeOf(NewIn(Wall, b, size), a)
               IN /\ Become(f.wall)
                  /\ Profile
                  /\ report' = f.report
                  /\ UNCHANGED enabled
        \/ LET f == FreeOf(Wall, a)
           IN /\ Become(f.wall)
              /\ Profile
              /\ report' = f.report
              /\ UNCHANGED enabled

\* The client writes past an end of a block that it has.
OverRun ==
    \E a \in Live, side \in Walls :
        /\ arena' = [arena EXCEPT ![a].walls = @ \cup {side}]
        /\ report' = NoReport
        /\ UNCHANGED <<first, numNews, enabled, profiled>>

EnableOutput ==
    \E enable \in BOOLEAN :
        /\ enabled' = enable
        /\ report' = NoReport
        /\ UNCHANGED <<arena, first, numNews, profiled>>

EnableProfiling ==
    \E enable \in BOOLEAN :
        /\ profiled' = [on |-> enable, news |-> IF enable THEN 0 ELSE profiled.news]
        /\ report' = NoReport
        /\ UNCHANGED <<arena, first, numNews, enabled>>

(***************************************************************************)
(* The destructor.  Of many blocks it frees every one on the list, reading *)
(* the next of each before it frees it; of a few it prints one line each   *)
(* and leaves them.  Global objects that are destroyed after it go on      *)
(* calling delete, which finds no list and does nothing: their blocks and  *)
(* those that were left stay allocated.                                    *)
(***************************************************************************)
AllFreed(w) ==
    LET freed[n \in 0 .. Cardinality(Addresses)] ==
            IF n = 0 THEN [wall |-> w, at |-> w.first]
            ELSE LET s == freed[n - 1]
                 IN IF s.at = NULL THEN s
                    ELSE [wall |-> FreeOf(s.wall, s.at).wall,
                          at |-> s.wall.arena[s.at].next]
    IN freed[Cardinality(Addresses)].wall

Destroy ==
    /\ IF enabled /\ numNews > Most
       THEN Become([AllFreed(Wall) EXCEPT !.first = NULL])
       ELSE Become([Wall EXCEPT !.first = NULL])
    /\ report' = IF ~enabled \/ first = NULL THEN NoReport
                 ELSE [kind |-> IF numNews > Most THEN "cleaned" ELSE "leaked",
                       walls |-> {}, blocks |-> ListFrom(Wall)]
    /\ UNCHANGED <<enabled, profiled>>

Next ==
    \/ New
    \/ Free
    \/ ReNew
    \/ OverRun
    \/ EnableOutput
    \/ EnableProfiling
    \/ Destroy

Spec == Init /\ [][Next]_vars

--------------------------------------------------------------------------------
Arenas == [prev : Addresses \cup {NULL}, next : Addresses \cup {NULL}, size : Sizes,
           walls : SUBSET Walls]

TypeOK ==
    /\ Live \subseteq Addresses
    /\ \A a \in Live : arena[a] \in Arenas
    /\ first \in Addresses \cup {NULL}
    /\ numNews \in 0 .. Cardinality(Addresses)
    /\ enabled \in BOOLEAN
    /\ profiled \in [on : BOOLEAN, news : 0 .. MaxProfiled]
    /\ report \in [kind : {"none", "invalid", "overwritten", "cleaned", "leaked"},
                   walls : SUBSET Walls, blocks : SUBSET Addresses]

\* The blocks on the list are linked both ways, and a block that has been freed
\* is reached from none of them (Free() and New()).
ListIsWhole ==
    \A a \in ListFrom(Wall) :
        /\ a \in Live
        /\ a = first <=> arena[a].prev = NULL
        /\ arena[a].prev # NULL =>
               arena[a].prev \in Live /\ arena[arena[a].prev].next = a
        /\ arena[a].next # NULL => arena[a].next \in Live /\ arena[arena[a].next].prev = a

\* ulNumNews is the number of blocks that have been allocated since the constructor
\* and not freed, whoever frees one of before it; what a destroyed wall left
\* behind goes on being counted, so that a later one takes it for a leak of its own.
NewsAreCounted == numNews = Cardinality(Live)

--------------------------------------------------------------------------------
(***************************************************************************)
(* The inductive invariant.  ListIsWhole speaks of the blocks a walk over  *)
(* the list meets; that they are the ones linked both ways takes a set     *)
(* that no link leaves.                                                    *)
(***************************************************************************)
Closed(w, blocks) ==
    /\ blocks \subseteq DOMAIN w.arena
    /\ w.first \in blocks \cup {NULL}
    /\ \A a \in blocks :
        /\ a = w.first <=> w.arena[a].prev = NULL
        /\ w.arena[a].prev # NULL =>
               w.arena[a].prev \in blocks /\ w.arena[w.arena[a].prev].next = a
        /\ w.arena[a].next # NULL =>
               w.arena[a].next \in blocks /\ w.arena[w.arena[a].next].prev = a

Whole(w) ==
    /\ DOMAIN w.arena \subseteq Addresses
    /\ \A a \in DOMAIN w.arena : w.arena[a] \in Arenas
    /\ w.numNews = Cardinality(DOMAIN w.arena)
    /\ \E blocks \in SUBSET Addresses : Closed(w, blocks)

WallInOrder == TypeOK /\ Whole(Wall)
================================================================================
