------------------------------ MODULE WindowMenus ------------------------------
(***************************************************************************)
(* CWindow and its menus on Windows and with Qt, where the native menus    *)
(* can be changed in place (those of Amiga OS are in AmiMenus).  On        *)
(* Windows the hot keys are in a table beside the menus that can only be   *)
(* replaced; with Qt they belong to the actions.                           *)
(*                                                                         *)
(* An entry of a menu is an item, an item with a tick, a separator or a    *)
(* submenu.  Labels are left out, but for the hot key that they show.      *)
(* Ordinals count from 0.                                                  *)
(***************************************************************************)
EXTENDS Integers, Sequences, FiniteSets, SequencesExt, FiniteSetsExt

CONSTANTS
    Descriptions,   \* the arrays of SStdMenuItem a program may pass, less EStdMenuEnd
    NewIds,         \* commands of items that are added later
    NewKeys,        \* the hot keys they may have
    NoKey,          \* the hot key of an item that has none
    Shortages,      \* {TRUE, FALSE} if memory can run out, else {FALSE}
    MaxCalls        \* bound: calls, and picks of the user

VARIABLES
    platform,   \* "Windows" or "Qt"
    bar,        \* the menu bar: a sequence of menus, which are sequences of entries
    table,      \* m_poAccelerators: its entries, of which a table has one at least
    asked,      \* of each command: the state its item was last given
    added,      \* the commands of items that the client has in its menus
    starved,    \* memory has run out in making a table
    misread,    \* an action that is no CQtAction has been taken for the one looked for
    result,     \* what the last call returned
    calls       \* how many there have been

vars == <<platform, bar, table, asked, added, starved, misread, result, calls>>

Ids == NewIds \cup UNION {{d[k].id : k \in DOMAIN d} : d \in Descriptions}

--------------------------------------------------------------------------------
(***************************************************************************)
(* The native menus.                                                       *)
(***************************************************************************)
Entry(type, id, key) ==
    [type |-> type, id |-> id, key |-> key, shown |-> key,
     checked |-> FALSE, disabled |-> FALSE, sub |-> <<>>]

\* Places of a menu bar: <<menu, entry, 0>> or <<menu, entry, subentry>>.
Places ==
    UNION {UNION {{<<m, e, s>> : s \in 0 .. Len(bar[m][e].sub)} : e \in DOMAIN bar[m]} :
              m \in DOMAIN bar}

At(p) == IF p[3] = 0 THEN bar[p[1]][p[2]] ELSE bar[p[1]][p[2]].sub[p[3]]

Put(p, entry) ==
    IF p[3] = 0 THEN [bar EXCEPT ![p[1]][p[2]] = entry]
    ELSE [bar EXCEPT ![p[1]][p[2]].sub[p[3]] = entry]

Drop(p) ==
    IF p[3] = 0 THEN [bar EXCEPT ![p[1]] = RemoveAt(@, p[2])]
    ELSE [bar EXCEPT ![p[1]][p[2]].sub = RemoveAt(@, p[3])]

IsItem(p) == At(p).type \in {"Item", "Check"}

HasKey(p) == IsItem(p) /\ At(p).key # NoKey

PlacesOf(id) == {p \in Places : At(p).type # "SubMenu" /\ At(p).id = id}

--------------------------------------------------------------------------------
(***************************************************************************)
(* createMenus().                                                          *)
(***************************************************************************)
Accelerator(key, id) == [key |-> key, cmd |-> id]

\* x behind the last menu of b, or in the submenu that is its last entry.
Behind(b, x) == [b EXCEPT ![Len(b)] = Append(@, x)]

Within(b, x) == [b EXCEPT ![Len(b)][Len(b[Len(b)])].sub = Append(@, x)]

\* What element i makes of a bar.
Made(i) ==
    Entry(IF platform = "Windows" /\ i.type = "Check" THEN "Item" ELSE i.type, i.id, i.key)

With(i, s) ==
    CASE i.type = "Title"      -> [bar |-> Append(s.bar, <<>>), inSub |-> FALSE]
      [] i.type = "SubMenu"    -> [bar |-> Behind(s.bar, Made(i)), inSub |-> TRUE]
      [] i.type = "SubMenuEnd" -> [bar |-> s.bar, inSub |-> FALSE]
      [] OTHER -> [bar   |-> IF s.inSub THEN Within(s.bar, Made(i)) ELSE Behind(s.bar, Made(i)),
                   inSub |-> s.inSub]

Created(d) ==
    LET f[n \in 0 .. Len(d)] ==
            IF n = 0 THEN [bar |-> <<>>, inSub |-> FALSE] ELSE With(d[n], f[n - 1])
    IN f[Len(d)].bar

\* The table is made by going through the array a second time.
AcceleratorsOf(d) ==
    LET f[n \in 0 .. Len(d)] ==
            IF n = 0 THEN <<>>
            ELSE IF d[n].key = NoKey THEN f[n - 1]
            ELSE Append(f[n - 1], Accelerator(d[n].key, d[n].id))
    IN IF platform = "Qt" THEN <<>> ELSE f[Len(d)]

Init ==
    /\ platform \in {"Windows", "Qt"}
    /\ \E d \in Descriptions :
          /\ bar = Created(d)
          /\ table = AcceleratorsOf(d)
          /\ added = {d[k].id : k \in DOMAIN d} \ {0}
    /\ asked = [i \in Ids |-> [checked |-> FALSE, disabled |-> FALSE]]
    /\ starved = FALSE /\ misread = FALSE /\ result = "KErrNone" /\ calls = 0

\* The type invariant.
TypeOK ==
    /\ \A p \in Places :
          /\ At(p).type \in {"Item", "Check", "Separator", "SubMenu"}
          /\ At(p).id \in Ids /\ {At(p).key, At(p).shown} \subseteq NewKeys \cup {NoKey}
    /\ \A k \in DOMAIN table : table[k].cmd \in Ids
    /\ added \subseteq Ids

--------------------------------------------------------------------------------
(***************************************************************************)
(* The table of accelerators, on Windows.                                  *)
(***************************************************************************)
\* CreateAcceleratorTable(): there are no empty tables.
CanCreate(entries, shortage) == entries # <<>> /\ ~shortage

\* AddAccelerator(): m_poAccelerators is overwritten before it is known whether
\* there is a new table.
WithAccelerator(id, key, shortage) ==
    IF CanCreate(Append(table, Accelerator(key, id)), shortage)
    THEN [table |-> Append(table, Accelerator(key, id)), result |-> "KErrNone"]
    ELSE [table |-> <<>>, result |-> "KErrNoMemory"]

EntriesOf(t, id) == {k \in DOMAIN t : t[k].cmd = id}

\* MUTANT: an accelerator whose item goes is left behind.
AcceleratorLeft(t, id, shortage) == [table |-> t, result |-> "KErrNone"]

\* RemoveAccelerator(): the first entry of the command.
WithoutAccelerator(t, id, shortage) ==
    IF EntriesOf(t, id) = {} THEN [table |-> t, result |-> "KErrNotFound"]
    ELSE LET rest == RemoveAt(t, Min(EntriesOf(t, id)))
         IN IF CanCreate(rest, shortage) THEN [table |-> rest, result |-> "KErrNone"]
            ELSE [table |-> t, result |-> "KErrGeneral"]

--------------------------------------------------------------------------------
(***************************************************************************)
(* The operations.                                                         *)
(***************************************************************************)
\* Where AddMenuItem() appends: a menu that exists, or one of its submenus; with
\* Qt a place that does not exist ends the program.
HasPlace(menu, sub) ==
    /\ menu + 1 \in DOMAIN bar
    /\ \/ sub = -1
       \/ sub + 1 \in DOMAIN bar[menu + 1] /\ bar[menu + 1][sub + 1].type = "SubMenu"

Appended(menu, sub, entry) ==
    IF sub = -1 THEN [bar EXCEPT ![menu + 1] = Append(@, entry)]
    ELSE [bar EXCEPT ![menu + 1][sub + 1].sub = Append(@, entry)]

\* A menu item of Qt has its shortcut; on Windows its accelerator is added when it
\* is in the menu already, and taken out again with it if that fails.
AddMenuItem(id, key, menu, sub) ==
    /\ PlacesOf(id) = {}
    /\ UNCHANGED misread
    /\ \/ /\ HasPlace(menu, sub)
          /\ \E shortage \in Shortages :
                LET now == Appended(menu, sub, Entry("Item", id, key))
                    acc == WithAccelerator(id, key, shortage)
                IN IF platform = "Windows" /\ key # NoKey
                   THEN /\ table' = acc.table
                        /\ starved' = (starved \/ shortage)
                        /\ result' = acc.result
                        /\ bar' = IF acc.result = "KErrNone" THEN now ELSE bar
                   ELSE /\ bar' = now
                        /\ result' = "KErrNone"
                        /\ UNCHANGED <<table, starved>>
          /\ added' = IF result' = "KErrNone" THEN added \cup {id} ELSE added
          /\ asked' = [asked EXCEPT ![id] = [checked |-> FALSE, disabled |-> FALSE]]
       \/ /\ ~HasPlace(menu, sub)
          /\ platform = "Qt" => menu + 1 \in DOMAIN bar /\ sub + 1 \in DOMAIN bar[menu + 1]
          /\ result' = "KErrNotFound"
          /\ UNCHANGED <<bar, table, starved, added, asked>>

\* The actions of a menu, in the order RemoveMenuItem() and UpdateMenuItem() look
\* at them with Qt.  A submenu's is no CQtAction: the command read from it is
\* whatever is in memory behind it.
MaybeFirst(menu, id) ==
    {e \in DOMAIN bar[menu + 1] :
        /\ bar[menu + 1][e].type = "SubMenu" \/ bar[menu + 1][e].id = id
        /\ \A b \in 1 .. e - 1 : bar[menu + 1][b].type = "SubMenu" \/ bar[menu + 1][b].id # id}

\* RemoveMenuItem(): on Windows the item is looked for in the submenus as well.
RemoveMenuItem(id, menu) ==
    /\ id \in added /\ \E p \in PlacesOf(id) : p[1] = menu + 1
    /\ added' = added \ {id}
    /\ UNCHANGED asked
    /\ \/ /\ platform = "Windows"
          /\ bar' = Drop(CHOOSE p \in PlacesOf(id) : p[1] = menu + 1)
          /\ \E shortage \in Shortages :
                /\ table' = WithoutAccelerator(table, id, shortage).table
                /\ result' = WithoutAccelerator(table, id, shortage).result
                /\ starved' = (starved \/ shortage)
          /\ UNCHANGED misread
       \/ /\ platform = "Qt"
          /\ IF MaybeFirst(menu, id) = {} THEN bar' = bar /\ misread' = misread
             ELSE \E e \in MaybeFirst(menu, id) :
                     /\ bar' = Drop(<<menu + 1, e, 0>>)
                     /\ misread' = (misread \/ bar[menu + 1][e].type = "SubMenu")
          /\ UNCHANGED <<table, starved, result>>

\* ModifyMenu(): its flags say nothing of the state, and that is no tick and enabled.
Modified(entry, key) == [entry EXCEPT !.shown = key, !.checked = FALSE, !.disabled = FALSE]

\* UpdateMenuItem(): on Windows the label shows a new hot key, whose accelerator
\* stays the old one, and what CheckMenuItem() and EnableMenuItem() had made of the
\* item is lost; Qt's stays as it is.
UpdateMenuItem(id, key, menu) ==
    /\ id \in added /\ \E p \in PlacesOf(id) : p[1] = menu + 1
    /\ IF platform = "Windows"
       THEN /\ bar' = LET p == CHOOSE p \in PlacesOf(id) : p[1] = menu + 1
                      IN Put(p, Modified(At(p), key))
            /\ asked' = [asked EXCEPT ![id] = [checked |-> FALSE, disabled |-> FALSE]]
       ELSE UNCHANGED <<bar, asked>>
    /\ UNCHANGED <<table, added, starved, misread, result>>

\* FindMenuItem(): an entry of a menu or of a submenu; those of later menus are
\* looked for even when one has been found.  An empty submenu may be taken for it.
FindMenuItem(id) ==
    LET found == PlacesOf(id)
        empty == {p \in Places : At(p).type = "SubMenu" /\ At(p).sub = <<>>}
    IN [item |-> found, mistaken |-> {p \in empty : \A q \in found : p[1] > q[1]
                                                      \/ (p[1] = q[1] /\ p[2] < q[2])}]

\* The entry that EnableMenuItem() and CheckMenuItem() change.
Found(id) ==
    IF platform = "Windows" THEN PlacesOf(id)
    ELSE FindMenuItem(id).item \cup FindMenuItem(id).mistaken

EnableMenuItem(id, enable) ==
    /\ id \in added
    /\ asked' = [asked EXCEPT ![id].disabled = ~enable]
    /\ IF Found(id) = {} THEN UNCHANGED <<bar, misread>>
       ELSE \E p \in Found(id) :
               /\ bar' = Put(p, [At(p) EXCEPT !.disabled = ~enable])
               /\ misread' = (misread \/ p \notin PlacesOf(id))
    /\ UNCHANGED <<table, added, starved, result>>

\* With Qt an action has a tick if it was made with one; on Windows any item can have
\* one, although the comment of the function says that nothing happens to the others.
CheckMenuItem(id, enable) ==
    /\ id \in added
    /\ IF Found(id) = {} THEN UNCHANGED <<bar, misread, asked>>
       ELSE \E p \in Found(id) :
               LET ticks == platform = "Windows" \/ At(p).type = "Check"
               IN /\ bar' = IF ticks THEN Put(p, [At(p) EXCEPT !.checked = enable]) ELSE bar
                  /\ asked' = IF ticks \/ p \notin PlacesOf(id)
                              THEN [asked EXCEPT ![id].checked = enable] ELSE asked
                  /\ misread' = (misread \/ p \notin PlacesOf(id))
    /\ UNCHANGED <<table, added, starved, result>>

\* The commands of items with a tick in the application's own array.
Checkable ==
    UNION {{d[k].id : k \in {j \in DOMAIN d : d[j].type = "Check"}} : d \in Descriptions}

\* The user picks an item with a tick: Qt toggles it, and on Windows WindowProc()
\* does, if the array of the application says that it has one.
PickItem(p) ==
    /\ IsItem(p) /\ ~At(p).disabled
    /\ IF platform = "Qt" THEN At(p).type = "Check" ELSE At(p).id \in Checkable
    /\ bar' = Put(p, [At(p) EXCEPT !.checked = ~@])
    /\ asked' = [asked EXCEPT ![At(p).id].checked = ~At(p).checked]
    /\ UNCHANGED <<table, added, starved, misread, result>>

Next ==
    /\ calls < MaxCalls /\ calls' = calls + 1
    /\ UNCHANGED platform
    /\ \/ \E id \in NewIds, key \in NewKeys \cup {NoKey}, menu \in 0 .. 2, sub \in -1 .. 1 :
             AddMenuItem(id, key, menu, sub)
       \/ \E id \in Ids, menu \in 0 .. 1 :
             \/ RemoveMenuItem(id, menu)
             \/ \E key \in NewKeys : UpdateMenuItem(id, key, menu)
       \/ \E id \in Ids, enable \in BOOLEAN : EnableMenuItem(id, enable) \/ CheckMenuItem(id, enable)
       \/ \E p \in Places : PickItem(p)

Spec == Init /\ [][Next]_vars

--------------------------------------------------------------------------------
\* What the client has added and not removed is in its menus, each item once and in
\* the state it was last given by the client or the user, or on Windows by an update
\* of its label since, which unticks and enables it; what it has removed is not,
\* unless it was in a submenu of Qt's.
ItemsAreAsAsked ==
    ~misread =>
       /\ \A id \in added : PlacesOf(id) # {}
       /\ \A p \in Places : IsItem(p) =>
             LET id == At(p).id
             IN /\ PlacesOf(id) = {p}
                /\ id \notin added => platform = "Qt" /\ p[3] # 0
                /\ id \in added => /\ At(p).checked = asked[id].checked
                                  /\ At(p).disabled = asked[id].disabled

\* On Windows, while memory lasts, an item has the accelerator it was given for as
\* long as it is there, and no accelerator but the last one is of an item that has
\* been removed.
ShortcutsAreOfItems ==
    platform = "Windows" /\ ~starved =>
        /\ \A p \in Places :
              HasKey(p) /\ At(p).id \in added =>
                 \E k \in DOMAIN table : table[k] = Accelerator(At(p).key, At(p).id)
        /\ Cardinality({k \in DOMAIN table : table[k].cmd \notin added}) <= 1

--------------------------------------------------------------------------------
(***************************************************************************)
(* The inductive invariant, of menus without separators.                   *)
(***************************************************************************)
Leaves ==
    [type : {"Item", "Check"}, id : Ids, key : NewKeys \cup {NoKey}, shown : NewKeys \cup {NoKey},
     checked : BOOLEAN, disabled : BOOLEAN, sub : {<<>>}]

SubMenus ==
    [type : {"SubMenu"}, id : Ids, key : NewKeys \cup {NoKey}, shown : NewKeys \cup {NoKey},
     checked : BOOLEAN, disabled : BOOLEAN, sub : Seq(Leaves)]

Typed ==
    /\ platform \in {"Windows", "Qt"}
    /\ bar \in Seq(Seq(Leaves \cup SubMenus))
    /\ table \in Seq([key : NewKeys, cmd : Ids])
    /\ asked \in [Ids -> [checked : BOOLEAN, disabled : BOOLEAN]]
    /\ added \subseteq Ids \ {0} /\ starved \in BOOLEAN /\ misread \in BOOLEAN
    /\ platform = "Windows" => ~misread

\* All entries of the table but one are those of the items, one of each.
TableFits ==
    platform = "Windows" /\ ~starved =>
        \E left \in 0 .. Len(table) :
            LET own == DOMAIN table \ {left}
                of(k, p) == HasKey(p) /\ table[k] = Accelerator(At(p).key, At(p).id)
            IN /\ \A p \in Places : HasKey(p) => \E k \in own : of(k, p)
               /\ \A k \in own : \E p \in Places : of(k, p)
               /\ \A k, l \in own : table[k].cmd = table[l].cmd => k = l

InOrder == Typed /\ ItemsAreAsAsked /\ TableFits
================================================================================
