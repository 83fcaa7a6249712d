-------------------------------- MODULE AmiMenus --------------------------------
(***************************************************************************)
(* CAmiMenus: the menus of a window on Amiga OS, which Intuition cannot    *)
(* change once they are made.  The class keeps an array of NewMenu         *)
(* structures with an array of full menu numbers beside it, rebuilds the   *)
(* native menus from the one, and addresses their items by the other.      *)
(*                                                                         *)
(* Positions in the arrays count from 1.  A full menu number is a record   *)
(* of the ordinals of menu, item and subitem.  Labels are left out; hot    *)
(* keys are the ones of ExecuteShortcut(), not those Intuition handles.    *)
(***************************************************************************)
EXTENDS Integers, Sequences, FiniteSets, SequencesExt, FiniteSetsExt

CONSTANTS
    Descriptions,   \* the arrays of SStdMenuItem a program may pass, less EStdMenuEnd
    NewIds,         \* commands of items that are added later
    NoKey,          \* the hot key of an item that has none
    MaxCalls        \* bound: calls, and picks of the user

VARIABLES
    items,      \* m_pcoMenuItems
    newMenus,   \* m_poNewMenus: m_iNumMenus entries
    mappings,   \* m_poMenuMappings: as many
    native,     \* m_poMenus: the items Intuition has
    attached,   \* the window has them: its menu strip is set
    asked,      \* of each command: what EnableItem() and CheckItem() were told last
    added,      \* the commands of items that the client has in its menus
    displaced,  \* an item has been removed, or a separator put among subitems
    missed,     \* OnMenu() or OffMenu() has found no menu strip since native was made
    calls,      \* how many calls there have been
    failed      \* the menus could not be rebuilt when that was last tried

ghosts == <<asked, added, displaced, failed, missed, calls>>
vars   == <<items, newMenus, mappings, native, attached, ghosts>>

Ids == NewIds \cup UNION {{d[k].id : k \in DOMAIN d} : d \in Descriptions}

FULLMENUNUM(menu, item, sub) == [menu |-> menu, item |-> item, sub |-> sub]

\* new gives zeroed memory, and that is an entry of type NM_END; its mapping, and
\* the number of the first item of the first menu, are 0.
NotFound == FULLMENUNUM(0, 0, 0)

Entry(type, id) == [type |-> type, id |-> id, checked |-> FALSE, disabled |-> FALSE]

Zero == Entry("End", 0)

\* Items with a tick, which Intuition toggles when they are picked.
Checkable == {items[k].id : k \in {i \in DOMAIN items : items[i].type = "Check"}}

HasSubMenus == \E k \in DOMAIN items : items[k].type = "SubMenu"

--------------------------------------------------------------------------------
(***************************************************************************)
(* Intuition.                                                              *)
(***************************************************************************)
\* CreateMenus() stops at the first NM_END.
CreateMenus(entries) ==
    LET Ends == {k \in DOMAIN entries : entries[k].type = "End"}
    IN IF Ends = {} THEN entries ELSE SubSeq(entries, 1, Min(Ends) - 1)

Count(entries, type, from, to) ==
    Cardinality({k \in from .. to : entries[k].type = type})

\* The last entry of the type at or before a position, 0 if there is none.
LastOf(entries, type, k) ==
    LET before == {j \in 1 .. k : entries[j].type = type}
    IN Max(before \cup {0})

\* What the number of an item on the screen is; 0 for the subitem of an item that
\* is no submenu.
NumberOf(entries, k) ==
    LET title == LastOf(entries, "Title", k)
        item  == LastOf(entries, "Item", k)
    IN FULLMENUNUM(Count(entries, "Title", 1, k) - 1,
                   Count(entries, "Item", title + 1, k) - 1,
                   IF entries[k].type = "Sub" THEN k - item - 1 ELSE 0)

HasSubs(entries, k) == k < Len(entries) /\ entries[k + 1].type = "Sub"

\* ItemAddress(), OnMenu() and OffMenu(): the positions a number denotes.
ItemAddress(entries, num) ==
    {k \in DOMAIN entries :
        /\ entries[k].type = "Sub" \/ (entries[k].type = "Item" /\ ~HasSubs(entries, k))
        /\ NumberOf(entries, k) = num}

--------------------------------------------------------------------------------
(***************************************************************************)
(* Construct() and the search operations.                                  *)
(***************************************************************************)
\* AddItem(): the type of the NewMenu.  CreateLabel() makes an item of every
\* separator.
NewMenuType(type, inSubMenu) ==
    CASE type \in {"SubMenu", "Separator"} -> "Item"
      [] type \in {"Check", "Item"}        -> IF inSubMenu THEN "Sub" ELSE "Item"
      [] type = "Title"                    -> IF inSubMenu THEN "Sub" ELSE "Title"

\* The running values of Menu and Item: items of a submenu are counted as items.
Counted(i, c) ==
    CASE i.type = "Title"      -> [menu |-> c.menu + 1, item |-> -1, sub |-> c.sub]
      [] i.type = "SubMenuEnd" -> [menu |-> c.menu, item |-> c.item + 1, sub |-> FALSE]
      [] i.type = "SubMenu"    -> [menu |-> c.menu, item |-> c.item, sub |-> TRUE]
      [] OTHER                 -> [menu |-> c.menu, item |-> c.item + 1, sub |-> c.sub]

\* What an element adds to the arrays.
Constructed(i, s) ==
    LET now == Counted(i, s.count)
        new == [entry   |-> Entry(NewMenuType(i.type, s.count.sub), i.id),
                mapping |-> [id |-> i.id, num |-> FULLMENUNUM(now.menu, now.item, 0)]]
    IN [count |-> now,
        made  |-> IF i.type = "SubMenuEnd" THEN s.made ELSE Append(s.made, new)]

\* Entries for all but the ends of submenus, then NM_END, then what is left of
\* the array.
Construct(d) ==
    LET f[n \in 0 .. Len(d)] ==
            IF n = 0 THEN [count |-> [menu |-> -1, item |-> 0, sub |-> FALSE], made |-> <<>>]
            ELSE Constructed(d[n], f[n - 1])
        all  == f[Len(d)].made
        rest == Len(d) + 1 - Len(all)
    IN [newMenus |-> [k \in DOMAIN all |-> all[k].entry] \o [k \in 1 .. rest |-> Zero],
        mappings |-> [k \in DOMAIN all |-> all[k].mapping]
                        \o [k \in 1 .. rest |-> [id |-> 0, num |-> NotFound]]]

\* FindItem(): the first entry with the command, 0 if there is none.
FindItem(id) ==
    LET at == {k \in DOMAIN mappings : mappings[k].id = id}
    IN IF at = {} THEN 0 ELSE Min(at)

FindMapping(id) == IF FindItem(id) = 0 THEN NotFound ELSE mappings[FindItem(id)].num

\* FindMenu(): the title with the ordinal.
FindMenu(ordinal) ==
    LET at == {k \in DOMAIN newMenus :
                 /\ newMenus[k].type = "Title"
                 /\ Count(newMenus, "Title", 1, k) = ordinal + 1}
    IN IF at = {} THEN 0 ELSE CHOOSE k \in at : TRUE

Init ==
    /\ items \in Descriptions
    /\ newMenus = Construct(items).newMenus
    /\ mappings = Construct(items).mappings
    /\ native = CreateMenus(newMenus)
    /\ asked = [i \in Ids |-> [checked |-> FALSE, disabled |-> FALSE]]
    /\ added = {items[k].id : k \in DOMAIN items} \ {0}
    /\ attached = TRUE /\ missed = FALSE
    /\ displaced = FALSE /\ failed = FALSE /\ calls = 0

Entries ==
    [type : {"Title", "Item", "Sub", "End"}, id : Ids \cup {0},
     checked : BOOLEAN, disabled : BOOLEAN]

\* The type invariant.
TypeOK ==
    /\ items \in Descriptions
    /\ Len(newMenus) = Len(mappings)
    /\ \A k \in DOMAIN newMenus : newMenus[k] \in Entries
    /\ \A k \in DOMAIN native : native[k].type # "End"
    /\ added \subseteq Ids /\ {displaced, failed, attached, missed} \subseteq BOOLEAN

--------------------------------------------------------------------------------
(***************************************************************************)
(* The operations.                                                         *)
(***************************************************************************)
\* Where AddItem() inserts in a menu, and with which number: behind the items of
\* the menu, or behind the subitems of one of them.
Insertion(ordinal, subOrdinal) ==
    LET menu == FindMenu(ordinal)
        next == IF FindMenu(ordinal + 1) # 0 THEN FindMenu(ordinal + 1) ELSE Len(newMenus)
    IN IF subOrdinal = -1
       THEN [at |-> next, num |-> FULLMENUNUM(ordinal, next - menu - 1, 0)]
       ELSE LET item == CHOOSE k \in menu + 1 .. next :
                           /\ newMenus[k].type # "Sub"
                           /\ k - menu - Count(newMenus, "Sub", menu + 1, k) = subOrdinal + 1
                end  == CHOOSE k \in item + 1 .. next :
                           /\ \A j \in item + 1 .. k - 1 : newMenus[j].type = "Sub"
                           /\ k = next \/ newMenus[k].type # "Sub"
            IN [at |-> end, num |-> FULLMENUNUM(ordinal, subOrdinal, end - item - 1)]

\* The items of the menu, by their ordinals: submenus or to become such.
SubOrdinals(ordinal) ==
    LET menu == FindMenu(ordinal)
    IN {Count(newMenus, "Item", menu + 1, k) - 1 : k \in
          {j \in menu + 1 .. Len(newMenus) :
             /\ newMenus[j].type = "Item"
             /\ \A i \in menu + 1 .. j : newMenus[i].type \in {"Item", "Sub"}}}

\* AddItem(): if the new menus cannot be made or attached none of them is kept; but
\* by the time SetMenuStrip() fails, the window has lost the old ones.
AddItem(type, id, ordinal, subOrdinal) ==
    /\ id \notin added
    /\ FindMenu(ordinal) # 0 /\ subOrdinal \in {-1} \cup SubOrdinals(ordinal)
    /\ LET where == Insertion(ordinal, subOrdinal)
           grown == InsertAt(newMenus, where.at, Entry(NewMenuType(type, subOrdinal # -1), id))
       IN \/ /\ newMenus' = grown
             /\ mappings' = InsertAt(mappings, where.at, [id |-> id, num |-> where.num])
             /\ native' = CreateMenus(grown) /\ attached' = TRUE /\ missed' = FALSE
             /\ added' = added \cup {id}
             /\ asked' = [asked EXCEPT ![id] = [checked |-> FALSE, disabled |-> FALSE]]
          \/ /\ attached' \in {attached, FALSE}
             /\ UNCHANGED <<newMenus, mappings, native, added, asked, missed>>
    /\ displaced' = (displaced \/ (type = "Separator" /\ subOrdinal # -1))
    /\ UNCHANGED <<items, failed>>

\* Rebuilding fails, or gives the new menus, which SetMenuStrip() attaches or not:
\* the arrays have changed already.
Rebuild ==
    \/ /\ native' = CreateMenus(newMenus') /\ failed' = FALSE /\ missed' = FALSE
       /\ attached' \in BOOLEAN
    \/ failed' = TRUE /\ UNCHANGED <<native, attached, missed>>

\* RemoveItem(): the mappings behind the item move up, with the numbers they had.
RemoveItem(id) ==
    /\ id \in added /\ FindItem(id) # 0
    /\ newMenus[FindItem(id)].type # "Title"
    /\ newMenus' = RemoveAt(newMenus, FindItem(id))
    /\ mappings' = RemoveAt(mappings, FindItem(id))
    /\ Rebuild
    /\ added' = added \ {id} /\ displaced' = TRUE
    /\ UNCHANGED <<items, asked>>

\* UpdateItem(): another label.
UpdateItem(id) ==
    /\ id \in added /\ FindItem(id) # 0
    /\ UNCHANGED newMenus
    /\ Rebuild
    /\ UNCHANGED <<items, mappings, asked, added, displaced>>

Denoted(id) == ItemAddress(native, FindMapping(id))

\* CheckItem(): nothing happens when the number is 0 or denotes no item.  The strip
\* is taken off the window and put back, even if it was off.
CheckItem(id, enable) ==
    /\ id \in added \cap Checkable
    /\ asked' = [asked EXCEPT ![id].checked = enable]
    /\ IF FindMapping(id) # NotFound /\ Denoted(id) # {}
       THEN /\ newMenus' = [newMenus EXCEPT ![FindItem(id)].checked = enable]
            /\ native' = [k \in DOMAIN native |->
                 IF k \in Denoted(id) THEN [native[k] EXCEPT !.checked = enable] ELSE native[k]]
            /\ attached' = TRUE
       ELSE UNCHANGED <<newMenus, native, attached>>
    /\ UNCHANGED <<items, mappings, added, displaced, failed, missed>>

\* EnableItem(): OnMenu() and OffMenu() look for the item in the strip of the
\* window, and change nothing if it has none.
EnableItem(id, enable) ==
    /\ id \in added
    /\ asked' = [asked EXCEPT ![id].disabled = ~enable]
    /\ IF FindMapping(id) # NotFound
       THEN /\ newMenus' = [newMenus EXCEPT ![FindItem(id)].disabled = ~enable]
            /\ native' = [k \in DOMAIN native |->
                 IF attached /\ k \in Denoted(id) THEN [native[k] EXCEPT !.disabled = ~enable]
                 ELSE native[k]]
            /\ missed' = (missed \/ ~attached)
       ELSE UNCHANGED <<newMenus, native, missed>>
    /\ UNCHANGED <<items, mappings, attached, added, displaced, failed>>

\* The user picks a checkable item: Intuition toggles it, and the main loop calls
\* UpdateCheckStatus() with the state the item has then.
PickItem(k) ==
    /\ attached /\ k \in DOMAIN native /\ native[k].type # "Title" /\ ~native[k].disabled
    /\ native[k].id \in added \cap Checkable
    /\ native' = [native EXCEPT ![k].checked = ~@]
    /\ newMenus' = IF FindItem(native[k].id) = 0 THEN newMenus
                   ELSE [newMenus EXCEPT ![FindItem(native[k].id)].checked = ~native[k].checked]
    /\ asked' = [asked EXCEPT ![native[k].id].checked = ~native[k].checked]
    /\ UNCHANGED <<items, mappings, attached, added, displaced, failed, missed>>

\* ItemChecked().
ItemChecked(id) ==
    /\ FindMapping(id) # NotFound
    /\ \E k \in Denoted(id) : native[k].checked

--------------------------------------------------------------------------------
(***************************************************************************)
(* ExecuteShortcut(): a scan of the items the program began with.  RetVal  *)
(* and Command are kept from item to item, but for a Command whose         *)
(* modifier does not fit.                                                  *)
(***************************************************************************)
Fits(modifier, shift, ctrl) ==
    \/ shift /\ modifier = "Shift"
    \/ ctrl /\ modifier = "Control"
    \/ ~ctrl /\ modifier = "None"

Enabled(id) == FindItem(id) # 0 /\ ~newMenus[FindItem(id)].disabled

Scanned(i, s, key, shift, ctrl) ==
    LET command == s.command \/ i.key = key
        fits    == command /\ Fits(i.modifier, shift, ctrl)
        result  == s.result \/ fits
    IN IF s.sent # 0 \/ i.type # "Item" \/ i.key = NoKey THEN s
       ELSE [command |-> fits, result |-> result,
             sent    |-> IF command /\ result /\ Enabled(i.id) THEN i.id ELSE 0]

ExecuteShortcut(key, shift, ctrl) ==
    LET f[k \in 0 .. Len(items)] ==
            IF k = 0 THEN [command |-> FALSE, result |-> FALSE, sent |-> 0]
            ELSE Scanned(items[k], f[k - 1], key, shift, ctrl)
    IN f[Len(items)]

HotKeys == (UNION {{d[k].key : k \in DOMAIN d} : d \in Descriptions}) \ {NoKey}

Next ==
    /\ calls < MaxCalls /\ calls' = calls + 1
    /\ \/ \E id \in NewIds, type \in {"Item", "Separator"}, ordinal \in 0 .. 1 :
             \E sub \in {-1} \cup SubOrdinals(ordinal) : AddItem(type, id, ordinal, sub)
       \/ \E id \in Ids :
             \/ RemoveItem(id) \/ UpdateItem(id)
             \/ \E enable \in BOOLEAN : CheckItem(id, enable) \/ EnableItem(id, enable)
       \/ \E k \in DOMAIN native : PickItem(k)

Spec == Init /\ [][Next]_vars

--------------------------------------------------------------------------------
\* Numbers are right as long as no item has been removed, submenus are not among
\* the items the program began with, and an item is not behind a submenu.
Numbered(k) ==
    /\ ~displaced /\ ~HasSubMenus
    /\ newMenus[k].type = "Sub" \/ Count(newMenus, "Sub", LastOf(newMenus, "Title", k) + 1, k) = 0

\* An item with a number of its own that Intuition knows it by.
Addressed(k) ==
    /\ newMenus[k].type \in {"Item", "Sub"}
    /\ Numbered(k) /\ ~HasSubs(newMenus, k)
    /\ mappings[k].num # NotFound
    /\ \A j \in DOMAIN mappings \ {k} : mappings[j].num # mappings[k].num

\* An entry and its item are alike; but the item may be disabled or not as it was
\* before the window lost its strip.
Agree(entry, item) == entry.checked = item.checked /\ (missed \/ entry = item)

\* What the client has added and not removed is in its menus, each item once and
\* in the state it was last given, by the client or by the user: in the array, in
\* m_poMenus and for ItemChecked(), wherever Numbered holds; but the first item of
\* the first menu, whose number is taken for none, can be neither checked nor
\* disabled, and the number of a submenu is that of its first subitem.  With
\* submenus among the first items, what is added to the last menu may be behind
\* the end of the array.  The window has no menus at all after SetMenuStrip() has
\* failed, until the next change that does not; an item that is enabled or disabled
\* meanwhile is so in the array only, until the menus are rebuilt.
ItemsAreAsAsked ==
    /\ \A id \in added : Cardinality({k \in DOMAIN mappings : mappings[k].id = id}) = 1
    /\ ~failed /\ ~HasSubMenus =>
          {native[k].id : k \in DOMAIN native} \ {0} = added
    /\ ~failed => [k \in DOMAIN native |-> native[k].id]
                    = LET made == CreateMenus(newMenus) IN [k \in DOMAIN made |-> made[k].id]
    /\ \A k \in DOMAIN newMenus :
          LET id == newMenus[k].id
          IN Addressed(k) =>
                /\ mappings[k].num = NumberOf(newMenus, k)
                /\ Agree(newMenus[k], native[k])
                /\ newMenus[k].checked = asked[id].checked
                /\ newMenus[k].disabled = asked[id].disabled
                /\ ItemChecked(id) = asked[id].checked

\* A shortcut runs an item that has the key, if there is one, and only then says
\* so: unless one that has it is disabled or gone.
ShortcutRunsItsItem ==
    \A key \in HotKeys, shift, ctrl \in BOOLEAN :
        LET ran  == ExecuteShortcut(key, shift, ctrl)
            have == {items[k].id : k \in {i \in DOMAIN items :
                        /\ items[i].type = "Item" /\ items[i].key = key
                        /\ Fits(items[i].modifier, shift, ctrl)}}
        IN (\A id \in have : Enabled(id)) =>
               /\ ran.result = (have # {})
               /\ IF have = {} THEN ran.sent = 0 ELSE ran.sent \in have

--------------------------------------------------------------------------------
(***************************************************************************)
(* The inductive invariant.                                                *)
(***************************************************************************)
Mappings == [id : Ids \cup {0}, num : [menu : Int, item : Int, sub : Int]]

Typed ==
    /\ items \in Descriptions
    /\ newMenus \in Seq(Entries) /\ mappings \in Seq(Mappings) /\ native \in Seq(Entries)
    /\ asked \in [Ids -> [checked : BOOLEAN, disabled : BOOLEAN]]
    /\ added \subseteq Ids \ {0} /\ displaced \in BOOLEAN /\ failed \in BOOLEAN
    /\ attached \in BOOLEAN /\ missed \in BOOLEAN
    /\ \A k \in DOMAIN native : native[k].type # "End"

\* The arrays go together and end; each has what was added once.
Paired ==
    /\ Len(newMenus) = Len(mappings) /\ newMenus # <<>>
    /\ \A k \in DOMAIN newMenus : mappings[k].id = newMenus[k].id
    /\ \A id \in added : \E k \in DOMAIN newMenus : newMenus[k].id = id
    /\ \A k \in DOMAIN newMenus : newMenus[k].id \in added \cup {0}
    /\ \A k, l \in DOMAIN newMenus : newMenus[k].id = newMenus[l].id /\ newMenus[k].id # 0 => k = l
    /\ newMenus[Len(newMenus)].type = "End"
    /\ \A k \in DOMAIN newMenus : newMenus[k].type = "End" => newMenus[k].id = 0

\* Without submenus at first, and later as long as nothing is displaced.
Regular ==
    /\ ~HasSubMenus => \A k \in DOMAIN newMenus :
          /\ newMenus[k].type = "End" => k = Len(newMenus)
          /\ newMenus[k].type \in {"Item", "Sub"} => newMenus[k].id # 0
    /\ ~HasSubMenus /\ ~displaced =>
          /\ newMenus[1].type = "Title"
          /\ \A k \in DOMAIN newMenus : newMenus[k].type = "Sub" =>
                k > 1 /\ newMenus[k - 1].type \in {"Item", "Sub"}

Alike(a, b) ==
    /\ Len(a) = Len(b)
    /\ \A k \in DOMAIN a : a[k].type = b[k].type /\ a[k].id = b[k].id

Shown == ~failed \/ ~displaced => Alike(native, CreateMenus(newMenus))

Kept ==
    \A k \in DOMAIN newMenus : Addressed(k) =>
        /\ mappings[k].num = NumberOf(newMenus, k)
        /\ Agree(newMenus[k], native[k])
        /\ newMenus[k].checked = asked[newMenus[k].id].checked
        /\ newMenus[k].disabled = asked[newMenus[k].id].disabled

InOrder == Typed /\ Paired /\ Regular /\ Shown /\ Kept
================================================================================
