------------------------------- MODULE ListSort --------------------------------
(***************************************************************************)
(* StdList::Sort(), a bottom-up merge sort that needs no memory: the nodes *)
(* are appended one by one to a second list, which is then moved back.     *)
(* Every change to a list is an operation of StdList.  The steps are those *)
(* of the loops; nothing else runs in between.                             *)
(***************************************************************************)
EXTENDS StdList, FiniteSets

CONSTANTS
    Local,          \* the list the function declares
    Key             \* the order of the nodes: a_poCompare compares their keys

ASSUME SortAssumption == Local \in Lists /\ Key \in [Nodes -> Int]

VARIABLE
    sort            \* the local variables; from is the list as it was given

svars == <<vars, sort>>

Steps == {"idle", "pass", "step", "merge"}

InUse == Lists \ {Local}

NotCalled == [at |-> "idle", list |-> Local, p |-> Null, q |-> Null, psize |-> 0,
              qsize |-> 0, insize |-> 0, merges |-> 0, from |-> <<>>]

SInit == Init /\ sort = NotCalled

AtEnd(c) == c = TailOf(sort.list)

Call(l) ==
    /\ sort.at = "idle"
    /\ sort' = [sort EXCEPT !.at = "pass", !.list = l, !.p = link.next[HeadOf(l)],
                            !.insize = 1, !.merges = 0, !.from = items[l]]
    /\ UNCHANGED vars

\* A merge: Q starts where P does.
Begin ==
    /\ sort.at = "pass" /\ ~AtEnd(sort.p)
    /\ sort' = [sort EXCEPT !.at = "step", !.q = sort.p, !.psize = 0, !.merges = @ + 1]
    /\ UNCHANGED vars

\* It moves on by insize nodes, unless the list ends before.
Step ==
    LET q == link.next[sort.q] IN
    /\ sort.at = "step"
    /\ sort' = [sort EXCEPT !.q = q, !.psize = @ + 1, !.qsize = sort.insize,
                            !.at = IF AtEnd(q) \/ sort.psize + 1 = sort.insize
                                     THEN "merge" ELSE "step"]
    /\ UNCHANGED vars

HasP == sort.psize > 0

HasQ == sort.qsize > 0 /\ ~AtEnd(sort.q)

\* MUTANT: nodes that compare equal come from Q first.
Less == HasP /\ (HasQ => Key[sort.p] < Key[sort.q])

FromP == HasP /\ (HasQ => Key[sort.p] <= Key[sort.q])

Moved(e) ==
    \E i \in Places(sort.list) : /\ items[sort.list][i] = e
                                 /\ AppendItem(Local, sort.list, i)

\* The next node of the merged list comes from P, or from Q.
TakeP ==
    /\ sort.at = "merge" /\ FromP
    /\ sort' = [sort EXCEPT !.p = link.next[sort.p], !.psize = @ - 1]
    /\ Moved(sort.p)

TakeQ ==
    /\ sort.at = "merge" /\ HasQ /\ ~FromP
    /\ sort' = [sort EXCEPT !.q = link.next[sort.q], !.qsize = @ - 1]
    /\ Moved(sort.q)

Merged ==
    /\ sort.at = "merge" /\ ~HasP /\ ~HasQ
    /\ sort' = [sort EXCEPT !.at = "pass", !.p = sort.q, !.q = Null]
    /\ UNCHANGED vars

MovedBack ==
    \/ moveList(sort.list, Local)
    \/ count[Local] = 0 /\ UNCHANGED vars

\* MUTANT: insize stays as it is.
SameSize == sort.insize

NextSize == 2 * sort.insize

\* The end of a pass.  One merge or none has sorted the list.
PassDone ==
    /\ sort.at = "pass" /\ AtEnd(sort.p)
    /\ MovedBack
    /\ sort' = IF sort.merges > 1
                 THEN [sort EXCEPT !.insize = NextSize, !.merges = 0,
                                   !.p = link'.next[HeadOf(sort.list)]]
                 ELSE NotCalled

Sorting == Begin \/ Step \/ TakeP \/ TakeQ \/ Merged \/ PassDone

Uses(l) == /\ sort.at = "idle"
           /\ Operation(l, InUse \ {l})
           /\ UNCHANGED sort

SNext == (\E l \in InUse : Call(l) \/ Uses(l)) \/ Sorting

SortSpec == SInit /\ [][SNext]_svars

FairSpec == SortSpec /\ WF_svars(Sorting)

--------------------------------------------------------------------------------
(***************************************************************************)
(* Properties.                                                             *)
(***************************************************************************)

\* The place a stable sort by Key gives to each node of a sequence.
Before(s, i, j) == \/ Key[s[i]] < Key[s[j]]
                   \/ Key[s[i]] = Key[s[j]] /\ i < j

Place(s, j) == Cardinality({i \in DOMAIN s : Before(s, i, j)}) + 1

\* A call ends with the nodes in the order of their keys, and those with
\* equal keys in the order they had.
SortsStably ==
    [][sort.at # "idle" /\ sort'.at = "idle" =>
         /\ Len(items'[sort.list]) = Len(sort.from)
         /\ \A j \in DOMAIN sort.from :
              items'[sort.list][Place(sort.from, j)] = sort.from[j]]_svars

\* In the middle of the sort every node of the list is on one of the two
\* lists, and nothing else is; the other lists are left alone by then.
LosesNoNode ==
    sort.at # "idle" =>
        Members(sort.list) \cup Members(Local) = {sort.from[i] : i \in DOMAIN sort.from}

Left(i) == Cell(sort.list, items[sort.list], i)

\* P is the first node that is left and Q the one psize after it, so that
\* what is between them is what P stands for.
PointersInPlace ==
    /\ sort.at = "idle" => items[Local] = <<>>
    /\ sort.at = "pass" => sort.p = Left(1)
    /\ sort.at \in {"step", "merge"} =>
         /\ sort.psize \in 0 .. Len(items[sort.list])
         /\ sort.psize > 0 => sort.p = Left(1)
         /\ sort.q = Left(sort.psize + 1)
    /\ sort.at = "step" => ~AtEnd(sort.q) /\ (sort.psize = 0 => sort.p = sort.q)

\* The passes come to an end.
SortReturns == (sort.at # "idle") ~> (sort.at = "idle")
================================================================================
