-------------------------------- MODULE StdList --------------------------------
(***************************************************************************)
(* StdList, the intrusive doubly linked list: every node carries its own   *)
(* links, and every list two dummy nodes and a count.  The operations      *)
(* assign links one by one; items says what the caller has put where, and  *)
(* so what the links and the count should amount to.                       *)
(*                                                                         *)
(* The list checks nothing, so the guards are what its callers owe it: a   *)
(* node is added when it is on no list, and is removed from the list it is *)
(* on or has been taken off.                                               *)
(***************************************************************************)
EXTENDS Integers, SequencesExt

CONSTANTS
    Lists, Nodes,   \* the list objects, and the nodes there are
    Null,           \* the null pointer
    Garbage         \* a link of a node that has never been on a list

HeadOf(l) == <<"head", l>>      \* m_oHead and m_oTail of a list
TailOf(l) == <<"tail", l>>

Cells == Nodes \cup {HeadOf(l) : l \in Lists} \cup {TailOf(l) : l \in Lists}

Pointers == Cells \cup {Null, Garbage}

ASSUME ListAssumption ==
    /\ \A l \in Lists : HeadOf(l) \notin Nodes /\ TailOf(l) \notin Nodes
    /\ Null \notin Cells

VARIABLES
    link,           \* prev and next of every node and dummy node
    count,          \* m_iCount
    items,          \* the nodes of each list in order, as the caller sees it
    off             \* the nodes the caller has taken off a list

vars == <<link, count, items, off>>

Places(l) == DOMAIN items[l]

Members(l) == {items[l][i] : i \in Places(l)}

Fresh(n) == \A l \in Lists : n \notin Members(l)

\* The links of a new node are not initialised.
Init ==
    /\ \E g \in {Null, Garbage} :
         link = [prev |-> [c \in Cells |->
                            IF c \in Nodes THEN g
                            ELSE IF c[1] = "head" THEN Null ELSE HeadOf(c[2])],
                 next |-> [c \in Cells |->
                            IF c \in Nodes THEN g
                            ELSE IF c[1] = "tail" THEN Null ELSE TailOf(c[2])]]
    /\ count = [l \in Lists |-> 0]
    /\ items = [l \in Lists |-> <<>>]
    /\ off = {}

--------------------------------------------------------------------------------
(***************************************************************************)
(* What a caller can read.                                                 *)
(***************************************************************************)
getHead(l) == IF link.next[HeadOf(l)] # TailOf(l) THEN link.next[HeadOf(l)] ELSE Null

getTail(l) == IF link.prev[TailOf(l)] # HeadOf(l) THEN link.prev[TailOf(l)] ELSE Null

getPred(l, n) == IF link.prev[n] # HeadOf(l) THEN link.prev[n] ELSE Null

\* MUTANT: the dummy node at the end is taken for a node.
SuccOrTail(l, n) == link.next[n]

getSucc(l, n) == IF link.next[n] # TailOf(l) THEN link.next[n] ELSE Null

IsOnList(n) == link.prev[n] # Null

\* operator[]: the item of an index counted from 0, or Null.
ItemAt(l, index) ==
    LET at[k \in 0 .. index] ==
            IF k = 0 THEN getHead(l)
            ELSE IF at[k - 1] = Null THEN Null ELSE getSucc(l, at[k - 1])
    IN  at[index]

--------------------------------------------------------------------------------
(***************************************************************************)
(* What the operations do to links and counts.                             *)
(***************************************************************************)

\* Two cells become neighbours.
Joined(k, a, b) == [k EXCEPT !.next[a] = b, !.prev[b] = a]

\* A node goes between two neighbours, or out from between its own.
Inserted(k, a, n, b) == Joined(Joined(k, a, n), n, b)

Bypassed(k, n) == Joined(k, k.prev[n], k.next[n])

Cleared(k, n) == [k EXCEPT !.prev[n] = Null, !.next[n] = Null]

\* Reset(), and the nodes of a source list appended after a cell of another.
Emptied(k, l) == Joined(k, HeadOf(l), TailOf(l))

Spliced(k, a, source, l) ==
    Joined(Joined(k, a, k.next[HeadOf(source)]), k.prev[TailOf(source)], TailOf(l))

Counted(l, d) == count' = [count EXCEPT ![l] = @ + d]

--------------------------------------------------------------------------------
(***************************************************************************)
(* Adding and removing a node.                                             *)
(***************************************************************************)
Added(l, i, n) ==
    /\ items' = [items EXCEPT ![l] = InsertAt(@, i, n)]
    /\ Counted(l, 1)
    /\ off' = off \ {n}

addHead(l, n) ==
    /\ Fresh(n)
    /\ link' = Inserted(link, HeadOf(l), n, link.next[HeadOf(l)])
    /\ Added(l, 1, n)

addTail(l, n) ==
    /\ Fresh(n)
    /\ link' = Inserted(link, link.prev[TailOf(l)], n, TailOf(l))
    /\ Added(l, Len(items[l]) + 1, n)

\* After the node at place i.
insert(l, n, i) ==
    /\ Fresh(n)
    /\ link' = Inserted(link, items[l][i], n, link.next[items[l][i]])
    /\ Added(l, i + 1, n)

TakenOff(l, i, n) ==
    /\ items' = [items EXCEPT ![l] = RemoveAt(@, i)]
    /\ Counted(l, -1)
    /\ off' = off \cup {n}

remHead(l) ==
    LET n == link.next[HeadOf(l)] IN
    /\ n # TailOf(l)
    /\ link' = Cleared(Joined(link, HeadOf(l), link.next[n]), n)
    /\ TakenOff(l, 1, n)

\* MUTANT: the links of the node are left as they were.
StillLinked(l, i) ==
    /\ link' = Bypassed(link, items[l][i])
    /\ TakenOff(l, i, items[l][i])

\* remove() of the node at place i, and of one that is on no list.
remove(l, i) ==
    LET n == items[l][i] IN
    /\ IsOnList(n)
    /\ link' = Cleared(Bypassed(link, n), n)
    /\ TakenOff(l, i, n)

removeAgain(n) ==
    /\ n \in off
    /\ ~IsOnList(n)
    /\ UNCHANGED vars

--------------------------------------------------------------------------------
(***************************************************************************)
(* From one list to another.                                               *)
(***************************************************************************)

\* AppendItem() of the node at place i of the source.
AppendItem(l, source, i) ==
    LET n == items[source][i]
        k == Bypassed(link, n)
    IN
    /\ link' = Inserted(k, k.prev[TailOf(l)], n, TailOf(l))
    /\ count' = [count EXCEPT ![source] = @ - 1, ![l] = @ + 1]
    /\ items' = [items EXCEPT ![source] = RemoveAt(@, i), ![l] = Append(@, n)]
    /\ UNCHANGED off

AppendList(l, source) ==
    /\ count[source] > 0
    /\ link' = Emptied(Spliced(link, link.prev[TailOf(l)], source, l), source)
    /\ count' = [count EXCEPT ![l] = @ + count[source], ![source] = 0]
    /\ items' = [items EXCEPT ![l] = @ \o items[source], ![source] = <<>>]
    /\ UNCHANGED off

\* MUTANT: the source keeps its count.
MovedLinks(l, source) ==
    /\ count[source] > 0
    /\ link' = Emptied(Spliced(link, HeadOf(l), source, l), source)
    /\ count' = [count EXCEPT ![l] = count[source]]
    /\ items' = [items EXCEPT ![l] = items[source], ![source] = <<>>]
    /\ UNCHANGED off

\* The nodes that were on the list are on none afterwards, but they keep
\* their links.  A source with no nodes leaves the list as it is.
moveList(l, source) ==
    /\ count[source] > 0
    /\ link' = Emptied(Spliced(link, HeadOf(l), source, l), source)
    /\ count' = [count EXCEPT ![l] = count[source], ![source] = 0]
    /\ items' = [items EXCEPT ![l] = items[source], ![source] = <<>>]
    /\ UNCHANGED off

\* The move assignment of a source with no nodes empties the list.
moveEmpty(l, source) ==
    /\ link.next[HeadOf(source)] = TailOf(source)
    /\ link' = Emptied(link, l)
    /\ count' = [count EXCEPT ![l] = count[source]]
    /\ items' = [items EXCEPT ![l] = <<>>]
    /\ UNCHANGED off

Reset(l) ==
    /\ link' = Emptied(link, l)
    /\ count' = [count EXCEPT ![l] = 0]
    /\ items' = [items EXCEPT ![l] = <<>>]
    /\ UNCHANGED off

--------------------------------------------------------------------------------
Operation(l, sources) ==
    \/ \E n \in Nodes : addHead(l, n) \/ addTail(l, n)
    \/ \E n \in Nodes, i \in Places(l) : insert(l, n, i)
    \/ remHead(l)
    \/ \E i \in Places(l) : remove(l, i)
    \/ \E n \in Nodes : removeAgain(n)
    \/ \E source \in sources :
         \/ \E i \in Places(source) : AppendItem(l, source, i)
         \/ AppendList(l, source) \/ moveList(l, source) \/ moveEmpty(l, source)
    \/ Reset(l)

Next == \E l \in Lists : Operation(l, Lists \ {l})

Spec == Init /\ [][Next]_vars

--------------------------------------------------------------------------------
(***************************************************************************)
(* Properties.                                                             *)
(***************************************************************************)

TypeOK ==
    /\ link \in [prev : [Cells -> Pointers], next : [Cells -> Pointers]]
    /\ count \in [Lists -> Nat]
    /\ items \in [Lists -> Seq(Nodes)]
    /\ off \subseteq Nodes

\* The cells of a list with the nodes s, from its dummy head to its dummy tail.
Cell(l, s, i) == IF i = 0 THEN HeadOf(l)
                 ELSE IF i = Len(s) + 1 THEN TailOf(l)
                 ELSE s[i]

Chain(k, l, s) ==
    /\ k.prev[HeadOf(l)] = Null /\ k.next[TailOf(l)] = Null
    /\ \A i \in 0 .. Len(s) : /\ k.next[Cell(l, s, i)] = Cell(l, s, i + 1)
                             /\ k.prev[Cell(l, s, i + 1)] = Cell(l, s, i)

\* No node is on two lists, or twice on one.
Distinct(its) ==
    \A l, m \in Lists : \A i \in DOMAIN its[l], j \in DOMAIN its[m] :
        its[l][i] = its[m][j] => l = m /\ i = j

\* Forwards and backwards the links of a list lead through exactly the nodes
\* its callers have put on it, whatever was spliced, moved or reset before,
\* and its count is their number.
Linked ==
    /\ Distinct(items)
    /\ \A l \in Lists : count[l] = Len(items[l]) /\ Chain(link, l, items[l])

\* A node that was taken off says so, and one that is on a list does not:
\* remove() may be called for either (StdList.h, the comment on remove()).
IsOnListTells ==
    \A n \in Nodes : /\ n \in off => ~IsOnList(n) /\ Fresh(n)
                     /\ ~Fresh(n) => IsOnList(n)

\* A walk in either direction from either end meets every node once, in
\* order, and an index counts from 0 and ends with Null.
ReadsAgree ==
    \A l \in Lists :
        LET len == Len(items[l])
            Item(i) == IF i \in 1 .. len THEN items[l][i] ELSE Null
        IN
        /\ getHead(l) = Item(1) /\ getTail(l) = Item(len)
        /\ \A i \in 1 .. len : /\ getSucc(l, items[l][i]) = Item(i + 1)
                               /\ getPred(l, items[l][i]) = Item(i - 1)
        /\ \A i \in 0 .. len : ItemAt(l, i) = Item(i + 1)
================================================================================
