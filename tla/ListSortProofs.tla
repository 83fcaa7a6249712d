----------------------------- MODULE ListSortProofs ----------------------------
(***************************************************************************)
(* The links of every list lead through the nodes its callers put on it,   *)
(* whatever the operations and a sort do, for any lists, nodes and keys.   *)
(***************************************************************************)
EXTENDS ListSort, SequenceTheorems, WellFoundedInduction, TLAPS

--------------------------------------------------------------------------------
(***************************************************************************)
(* Inserting into a sequence and removing from it.                         *)
(***************************************************************************)

LEMMA InsertAtFacts ==
    ASSUME NEW S, NEW s \in Seq(S), NEW i \in 1 .. Len(s) + 1, NEW e \in S
    PROVE  /\ InsertAt(s, i, e) \in Seq(S)
           /\ Len(InsertAt(s, i, e)) = Len(s) + 1
           /\ \A j \in 1 .. Len(s) + 1 :
                /\ j < i => InsertAt(s, i, e)[j] = s[j]
                /\ j = i => InsertAt(s, i, e)[j] = e
                /\ j > i => InsertAt(s, i, e)[j] = s[j - 1]
  <1> DEFINE a == SubSeq(s, 1, i - 1)
             b == SubSeq(s, i, Len(s))
  <1>1. a \in Seq(S) /\ Len(a) = i - 1 /\ \A j \in 1 .. i - 1 : a[j] = s[j]
    OBVIOUS
  <1>2. b \in Seq(S) /\ Len(b) = Len(s) - i + 1
        /\ \A j \in 1 .. Len(s) - i + 1 : b[j] = s[i + j - 1]
    OBVIOUS
  <1>3. <<e>> \in Seq(S) /\ Len(<<e>>) = 1 /\ <<e>>[1] = e
    OBVIOUS
  <1> HIDE DEF a, b
  <1>4. a \o <<e>> \in Seq(S) /\ Len(a \o <<e>>) = i
        /\ \A j \in 1 .. i : (a \o <<e>>)[j] = IF j < i THEN s[j] ELSE e
    BY <1>1, <1>3, ConcatProperties
  <1> DEFINE c == a \o <<e>>
  <1> HIDE DEF c
  <1>5. c \in Seq(S) /\ Len(c) = i
        /\ \A j \in 1 .. i : c[j] = IF j < i THEN s[j] ELSE e
    BY <1>4 DEF c
  <1>6. /\ c \o b \in Seq(S) /\ Len(c \o b) = Len(s) + 1
        /\ \A j \in 1 .. Len(s) + 1 :
             (c \o b)[j] = IF j <= i THEN c[j] ELSE b[j - i]
    BY <1>2, <1>5, ConcatProperties
  <1>7. InsertAt(s, i, e) = c \o b
    BY DEF InsertAt, a, b, c
  <1>8. ASSUME NEW j \in 1 .. Len(s) + 1
        PROVE  /\ j < i => (c \o b)[j] = s[j]
               /\ j = i => (c \o b)[j] = e
               /\ j > i => (c \o b)[j] = s[j - 1]
    <2>1. CASE j <= i
      BY <2>1, <1>5, <1>6
    <2>2. CASE j > i
      <3>1. j - i \in 1 .. Len(s) - i + 1 /\ i + (j - i) - 1 = j - 1
        BY <2>2
      <3>2. b[j - i] = s[j - 1]
        BY <3>1, <1>2
      <3> QED BY <2>2, <3>2, <1>6
    <2>3. j <= i \/ j > i
      OBVIOUS
    <2> QED BY <2>1, <2>2, <2>3, Zenon
  <1> QED BY <1>6, <1>7, <1>8

LEMMA InsertAtIs ==
    ASSUME NEW S, NEW s \in Seq(S), NEW i \in 1 .. Len(s) + 1, NEW e \in S
    PROVE  InsertAt(s, i, e) = [j \in 1 .. Len(s) + 1 |->
             IF j < i THEN s[j] ELSE IF j = i THEN e ELSE s[j - 1]]
  <1>1. /\ InsertAt(s, i, e) = [j \in DOMAIN InsertAt(s, i, e) |-> InsertAt(s, i, e)[j]]
        /\ DOMAIN InsertAt(s, i, e) = 1 .. Len(s) + 1
    BY InsertAtFacts
  <1>2. \A j \in 1 .. Len(s) + 1 :
          InsertAt(s, i, e)[j] = IF j < i THEN s[j] ELSE IF j = i THEN e ELSE s[j - 1]
    BY InsertAtFacts
  <1> QED BY <1>1, <1>2

LEMMA RemoveAtFacts ==
    ASSUME NEW S, NEW s \in Seq(S), NEW i \in 1 .. Len(s)
    PROVE  /\ RemoveAt(s, i) \in Seq(S)
           /\ Len(RemoveAt(s, i)) = Len(s) - 1
           /\ \A j \in 1 .. Len(s) - 1 :
                /\ j < i => RemoveAt(s, i)[j] = s[j]
                /\ j >= i => RemoveAt(s, i)[j] = s[j + 1]
  <1> DEFINE a == SubSeq(s, 1, i - 1)
             b == SubSeq(s, i + 1, Len(s))
  <1>1. a \in Seq(S) /\ Len(a) = i - 1 /\ \A j \in 1 .. i - 1 : a[j] = s[j]
    OBVIOUS
  <1>2. b \in Seq(S) /\ Len(b) = Len(s) - i
        /\ \A j \in 1 .. Len(s) - i : b[j] = s[i + j]
    OBVIOUS
  <1> HIDE DEF a, b
  <1>0. Len(s) \in Nat /\ i \in Int /\ Len(a) + Len(b) = Len(s) - 1
    BY <1>1, <1>2
  <1>3. /\ a \o b \in Seq(S) /\ Len(a \o b) = Len(s) - 1
        /\ \A j \in 1 .. Len(s) - 1 :
             (a \o b)[j] = IF j <= i - 1 THEN a[j] ELSE b[j - (i - 1)]
    <2>1. /\ a \o b \in Seq(S) /\ Len(a \o b) = Len(a) + Len(b)
          /\ \A j \in 1 .. Len(a) + Len(b) :
               (a \o b)[j] = IF j <= Len(a) THEN a[j] ELSE b[j - Len(a)]
      BY <1>1, <1>2, ConcatProperties
    <2> QED BY <2>1, <1>0, <1>1
  <1>4. ASSUME NEW j \in 1 .. Len(s) - 1
        PROVE  /\ j < i => (a \o b)[j] = s[j]
               /\ j >= i => (a \o b)[j] = s[j + 1]
    <2>1. CASE j < i
      BY <2>1, <1>1, <1>3
    <2>2. CASE j >= i
      <3>1. j - (i - 1) \in 1 .. Len(s) - i /\ i + (j - (i - 1)) = j + 1
        BY <2>2
      <3>2. b[j - (i - 1)] = s[j + 1]
        BY <3>1, <1>2
      <3>3. (a \o b)[j] = b[j - (i - 1)]
        BY <2>2, <1>3
      <3> QED BY <2>2, <3>2, <3>3
    <2>3. j \in Int
      OBVIOUS
    <2> QED BY <2>1, <2>2, <2>3, <1>0
  <1>5. RemoveAt(s, i) = a \o b
    BY DEF RemoveAt, a, b
  <1> QED BY <1>3, <1>4, <1>5

LEMMA RemoveAtIs ==
    ASSUME NEW S, NEW s \in Seq(S), NEW i \in 1 .. Len(s)
    PROVE  RemoveAt(s, i) = [j \in 1 .. Len(s) - 1 |-> IF j < i THEN s[j] ELSE s[j + 1]]
  <1>1. /\ RemoveAt(s, i) = [j \in DOMAIN RemoveAt(s, i) |-> RemoveAt(s, i)[j]]
        /\ DOMAIN RemoveAt(s, i) = 1 .. Len(s) - 1
    BY RemoveAtFacts
  <1>2. \A j \in 1 .. Len(s) - 1 :
          RemoveAt(s, i)[j] = IF j < i THEN s[j] ELSE s[j + 1]
    <2> TAKE j \in 1 .. Len(s) - 1
    <2>1. j < i => RemoveAt(s, i)[j] = s[j]
      BY RemoveAtFacts
    <2>2. j >= i => RemoveAt(s, i)[j] = s[j + 1]
      BY RemoveAtFacts
    <2> QED BY <2>1, <2>2
  <1> QED BY <1>1, <1>2

--------------------------------------------------------------------------------
(***************************************************************************)
(* The cells of the lists.                                                 *)
(***************************************************************************)
Links == [prev : [Cells -> Pointers], next : [Cells -> Pointers]]

Arrangements == [Lists -> Seq(Nodes)]

OnNone(s, n) == \A l \in Lists : \A i \in DOMAIN s[l] : s[l][i] # n

\* The links k are those of the arrangement s.
Represents(k, s) ==
    /\ k \in Links /\ s \in Arrangements
    /\ Distinct(s)
    /\ \A l \in Lists : Chain(k, l, s[l])

\* s with the nodes v on the list l.
With(s, l, v) == [s EXCEPT ![l] = v]

LEMMA DummyCells ==
    ASSUME NEW l \in Lists, NEW m \in Lists
    PROVE  /\ HeadOf(l) \in Cells /\ TailOf(l) \in Cells
           /\ HeadOf(l) \notin Nodes /\ TailOf(l) \notin Nodes
           /\ HeadOf(l) # TailOf(m)
           /\ HeadOf(l) = HeadOf(m) => l = m
           /\ TailOf(l) = TailOf(m) => l = m
  BY ListAssumption DEF Cells, HeadOf, TailOf

LEMMA CellInCells ==
    ASSUME NEW l \in Lists, NEW s \in Seq(Nodes), NEW i \in 0 .. Len(s) + 1
    PROVE  /\ Cell(l, s, i) \in Cells
           /\ i \in 1 .. Len(s) => Cell(l, s, i) = s[i] /\ s[i] \in Nodes
  BY DummyCells DEF Cell, Cells

\* A cell has one place.
LEMMA OnePlace ==
    ASSUME NEW s \in Arrangements, Distinct(s),
           NEW l \in Lists, NEW i \in 0 .. Len(s[l]) + 1,
           NEW m \in Lists, NEW j \in 0 .. Len(s[m]) + 1,
           Cell(l, s[l], i) = Cell(m, s[m], j)
    PROVE  l = m /\ i = j
  <1>1. s[l] \in Seq(Nodes) /\ s[m] \in Seq(Nodes)
    BY DEF Arrangements
  <1>2. DOMAIN s[l] = 1 .. Len(s[l]) /\ DOMAIN s[m] = 1 .. Len(s[m])
        /\ Len(s[l]) \in Nat /\ Len(s[m]) \in Nat
    BY <1>1
  <1>3. CASE i \in 1 .. Len(s[l]) /\ j \in 1 .. Len(s[m])
    <2>1. s[l][i] = s[m][j]
      BY <1>1, <1>3, CellInCells
    <2>2. i \in DOMAIN s[l] /\ j \in DOMAIN s[m]
      BY <1>2, <1>3
    <2> QED BY <2>1, <2>2 DEF Distinct
  <1>4. CASE i \in 1 .. Len(s[l]) /\ j \notin 1 .. Len(s[m])
    <2>1. Cell(l, s[l], i) \in Nodes
      BY <1>1, <1>4, CellInCells
    <2>2. j = 0 \/ j = Len(s[m]) + 1
      BY <1>2, <1>4
    <2> QED BY <2>1, <2>2, DummyCells DEF Cell
  <1>5. CASE i \notin 1 .. Len(s[l]) /\ j \in 1 .. Len(s[m])
    <2>1. Cell(m, s[m], j) \in Nodes
      BY <1>1, <1>5, CellInCells
    <2>2. i = 0 \/ i = Len(s[l]) + 1
      BY <1>2, <1>5
    <2> QED BY <2>1, <2>2, DummyCells DEF Cell
  <1>6. CASE i \notin 1 .. Len(s[l]) /\ j \notin 1 .. Len(s[m])
    <2>1. (i = 0 \/ i = Len(s[l]) + 1) /\ (j = 0 \/ j = Len(s[m]) + 1)
      BY <1>2, <1>6
    <2>2. l = m
      BY <2>1, <1>2, DummyCells DEF Cell
    <2> QED BY <2>1, <2>2, <1>2, DummyCells DEF Cell
  <1> QED BY <1>3, <1>4, <1>5, <1>6

LEMMA NotOnNone ==
    ASSUME NEW s \in Arrangements, NEW n \in Nodes, OnNone(s, n),
           NEW l \in Lists, NEW i \in 0 .. Len(s[l]) + 1
    PROVE  Cell(l, s[l], i) # n
  <1>1. s[l] \in Seq(Nodes) /\ DOMAIN s[l] = 1 .. Len(s[l]) /\ Len(s[l]) \in Nat
    BY DEF Arrangements
  <1>2. CASE i \in 1 .. Len(s[l])
    BY <1>1, <1>2, CellInCells DEF OnNone
  <1>3. CASE i = 0 \/ i = Len(s[l]) + 1
    BY <1>3, DummyCells DEF Cell
  <1> QED BY <1>1, <1>2, <1>3

--------------------------------------------------------------------------------
(***************************************************************************)
(* What joining two cells does to an arrangement.                          *)
(***************************************************************************)
LEMMA JoinedFacts ==
    ASSUME NEW k \in Links, NEW a \in Cells, NEW b \in Cells
    PROVE  /\ Joined(k, a, b) \in Links
           /\ Joined(k, a, b).next = [k.next EXCEPT ![a] = b]
           /\ Joined(k, a, b).prev = [k.prev EXCEPT ![b] = a]
  BY DEF Joined, Links, Pointers

LEMMA ChainStep ==
    ASSUME NEW k, NEW s, Represents(k, s), NEW l \in Lists, NEW i \in 0 .. Len(s[l])
    PROVE  /\ k.next[Cell(l, s[l], i)] = Cell(l, s[l], i + 1)
           /\ k.prev[Cell(l, s[l], i + 1)] = Cell(l, s[l], i)
  BY DEF Represents, Chain

LEMMA InsertNode ==
    ASSUME NEW k, NEW s, Represents(k, s),
           NEW n \in Nodes, OnNone(s, n),
           NEW l \in Lists, NEW i \in 1 .. Len(s[l]) + 1,
           NEW k2, k2 = Inserted(k, Cell(l, s[l], i - 1), n, Cell(l, s[l], i)),
           NEW s2, s2 = With(s, l, InsertAt(s[l], i, n))
    PROVE  /\ Represents(k2, s2)
           /\ Len(s2[l]) = Len(s[l]) + 1
           /\ \A x \in Nodes : OnNone(s, x) /\ x # n =>
                k2.prev[x] = k.prev[x] /\ OnNone(s2, x)
  <1> USE DEF With
  <1> DEFINE a == Cell(l, s[l], i - 1)
             b == Cell(l, s[l], i)
             t == s2[l]
  <1>1. /\ k \in Links /\ s \in Arrangements /\ s[l] \in Seq(Nodes) /\ Distinct(s)
        /\ Len(s[l]) \in Nat /\ DOMAIN s[l] = 1 .. Len(s[l])
        /\ \A m \in Lists : Chain(k, m, s[m])
    BY DEF Represents, Arrangements
  <1>2. /\ t \in Seq(Nodes) /\ Len(t) = Len(s[l]) + 1
        /\ t = [j \in 1 .. Len(s[l]) + 1 |->
                 IF j < i THEN s[l][j] ELSE IF j = i THEN n ELSE s[l][j - 1]]
    <2> DEFINE u == s[l]
    <2>1. t = InsertAt(u, i, n) /\ u \in Seq(Nodes) /\ i \in 1 .. Len(u) + 1
      BY <1>1 DEF Arrangements
    <2> HIDE DEF t, u
    <2>2. /\ t \in Seq(Nodes) /\ Len(t) = Len(u) + 1
      BY <2>1, InsertAtFacts
    <2>3. t = [j \in 1 .. Len(u) + 1 |->
                 IF j < i THEN u[j] ELSE IF j = i THEN n ELSE u[j - 1]]
      BY <2>1, InsertAtIs
    <2> QED BY <2>2, <2>3 DEF u
  <1>3. s2 \in Arrangements /\ \A m \in Lists : m # l => s2[m] = s[m]
    BY <1>1, <1>2 DEF Arrangements
  <1>p. \A m \in Lists : \A j \in 0 .. Len(s[m]) + 1 :
          /\ Cell(m, s[m], j) \in Cells /\ Cell(m, s[m], j) # n
          /\ Cell(m, s[m], j) = a => m = l /\ j = i - 1
          /\ Cell(m, s[m], j) = b => m = l /\ j = i
    <2> TAKE m \in Lists
    <2> TAKE j \in 0 .. Len(s[m]) + 1
    <2>1. i \in 0 .. Len(s[l]) + 1 /\ i - 1 \in 0 .. Len(s[l]) + 1
      BY <1>1
    <2>2. s[m] \in Seq(Nodes)
      BY <1>1 DEF Arrangements
    <2>3. Cell(m, s[m], j) \in Cells
      BY <2>2, CellInCells
    <2>4. Cell(m, s[m], j) # n
      BY <1>1, NotOnNone
    <2>5. ASSUME Cell(m, s[m], j) = Cell(l, s[l], i - 1) PROVE m = l /\ j = i - 1
      BY <2>5, <2>1, <1>1, OnePlace
    <2>6. ASSUME Cell(m, s[m], j) = Cell(l, s[l], i) PROVE m = l /\ j = i
      BY <2>6, <2>1, <1>1, OnePlace
    <2> QED BY <2>3, <2>4, <2>5, <2>6
  <1>4. a \in Cells /\ b \in Cells /\ n \in Cells /\ a # n /\ b # n
    <2>1. i \in 0 .. Len(s[l]) + 1 /\ i - 1 \in 0 .. Len(s[l]) + 1
      BY <1>1
    <2> QED BY <2>1, <1>p DEF Cells
  <1>5. /\ k2 \in Links
        /\ k2.next = [[k.next EXCEPT ![a] = n] EXCEPT ![n] = b]
        /\ k2.prev = [[k.prev EXCEPT ![n] = a] EXCEPT ![b] = n]
    <2> DEFINE k1 == Joined(k, a, n)
    <2>1. k1 \in Links /\ k1.next = [k.next EXCEPT ![a] = n]
          /\ k1.prev = [k.prev EXCEPT ![n] = a]
      BY <1>1, <1>4, JoinedFacts
    <2>2. k2 = Joined(k1, n, b)
      BY DEF Inserted
    <2> HIDE DEF k1, a, b
    <2> QED BY <2>1, <2>2, <1>4, JoinedFacts
  <1>6. \A x \in Cells : /\ x # a /\ x # n => k2.next[x] = k.next[x]
                         /\ x # b /\ x # n => k2.prev[x] = k.prev[x]
    BY <1>1, <1>5 DEF Links
  <1>7. k2.next[a] = n /\ k2.next[n] = b /\ k2.prev[n] = a /\ k2.prev[b] = n
    BY <1>1, <1>4, <1>5 DEF Links
  <1> HIDE DEF a, b, t
  <1>8. \A j \in 0 .. Len(t) + 1 :
          Cell(l, t, j) = IF j < i THEN Cell(l, s[l], j)
                          ELSE IF j = i THEN n ELSE Cell(l, s[l], j - 1)
    <2> TAKE j \in 0 .. Len(t) + 1
    <2>1. CASE j = 0 \/ j = Len(t) + 1
      BY <2>1, <1>1, <1>2 DEF Cell
    <2>2. CASE j \in 1 .. Len(t)
      BY <2>2, <1>1, <1>2 DEF Cell
    <2> QED BY <1>2, <2>1, <2>2
  <1>9. Distinct(s2)
    <2> SUFFICES ASSUME NEW p \in Lists, NEW m \in Lists,
                        NEW c \in DOMAIN s2[p], NEW d \in DOMAIN s2[m],
                        s2[p][c] = s2[m][d]
                 PROVE  p = m /\ c = d
      BY DEF Distinct
    <2>1. DOMAIN s2[p] = 1 .. Len(s2[p]) /\ DOMAIN s2[m] = 1 .. Len(s2[m])
          /\ Len(s2[p]) \in Nat /\ Len(s2[m]) \in Nat
      BY <1>3 DEF Arrangements
    <2>2. \A q \in Lists : \A e \in DOMAIN s2[q] :
            \/ q = l /\ e = i /\ s2[q][e] = n
            \/ /\ q = l => e # i
               /\ LET f == IF q = l /\ e > i THEN e - 1 ELSE e
                  IN  f \in DOMAIN s[q] /\ s2[q][e] = s[q][f]
      <3> TAKE q \in Lists
      <3> TAKE e \in DOMAIN s2[q]
      <3>1. CASE q = l
        BY <3>1, <1>1, <1>2 DEF t
      <3>2. CASE q # l
        BY <3>2, <1>3
      <3> QED BY <3>1, <3>2
    <2>3. \A q \in Lists : \A f \in DOMAIN s[q] : s[q][f] # n
      BY DEF OnNone
    <2>4. CASE p = l /\ c = i
      BY <2>2, <2>3, <2>4
    <2>5. CASE m = l /\ d = i
      BY <2>2, <2>3, <2>5
    <2>6. CASE ~(p = l /\ c = i) /\ ~(m = l /\ d = i)
      <3> DEFINE f == IF p = l /\ c > i THEN c - 1 ELSE c
                 g == IF m = l /\ d > i THEN d - 1 ELSE d
      <3>1. f \in DOMAIN s[p] /\ s2[p][c] = s[p][f]
        BY <2>2, <2>6
      <3>2. g \in DOMAIN s[m] /\ s2[m][d] = s[m][g]
        BY <2>2, <2>6
      <3>3. p = m /\ f = g
        BY <3>1, <3>2, <1>1 DEF Distinct
      <3> QED BY <3>3, <2>1, <2>6
    <2> QED BY <2>4, <2>5, <2>6
  <1>10. ASSUME NEW m \in Lists PROVE Chain(k2, m, s2[m])
    <2>1. k2.prev[HeadOf(m)] = Null /\ k2.next[TailOf(m)] = Null
      <3>1. HeadOf(m) = Cell(m, s[m], 0) /\ TailOf(m) = Cell(m, s[m], Len(s[m]) + 1)
            /\ Len(s[m]) \in Nat
        BY <1>1 DEF Cell, Arrangements
      <3>2. HeadOf(m) # n /\ TailOf(m) # n
        BY DummyCells
      <3>3. HeadOf(m) # b
        <4>1. 0 \in 0 .. Len(s[m]) + 1 /\ 0 # i
          BY <3>1, <1>1
        <4> QED BY <3>1, <4>1, <1>p
      <3>4. TailOf(m) # a
        <4>1. Len(s[m]) + 1 \in 0 .. Len(s[m]) + 1 /\ (m = l => Len(s[m]) + 1 # i - 1)
          BY <3>1, <1>1
        <4> QED BY <3>1, <4>1, <1>p
      <3> QED BY <3>2, <3>3, <3>4, <1>1, <1>6, DummyCells DEF Chain
    <2>2. CASE m # l
      <3> SUFFICES ASSUME NEW j \in 0 .. Len(s[m])
                   PROVE  /\ k2.next[Cell(m, s[m], j)] = Cell(m, s[m], j + 1)
                          /\ k2.prev[Cell(m, s[m], j + 1)] = Cell(m, s[m], j)
        BY <2>1, <2>2, <1>3 DEF Chain
      <3>1. j + 1 \in 0 .. Len(s[m]) + 1 /\ j \in 0 .. Len(s[m]) + 1
        BY <1>1 DEF Arrangements
      <3>2. Cell(m, s[m], j) # a /\ Cell(m, s[m], j) # n
            /\ Cell(m, s[m], j + 1) # b /\ Cell(m, s[m], j + 1) # n
        BY <3>1, <2>2, <1>p
      <3>3. Cell(m, s[m], j) \in Cells /\ Cell(m, s[m], j + 1) \in Cells
        BY <3>1, <1>1, CellInCells DEF Arrangements
      <3> QED BY <3>2, <3>3, <1>6, ChainStep
    <2>3. CASE m = l
      <3> SUFFICES ASSUME NEW j \in 0 .. Len(t)
                   PROVE  /\ k2.next[Cell(l, t, j)] = Cell(l, t, j + 1)
                          /\ k2.prev[Cell(l, t, j + 1)] = Cell(l, t, j)
        BY <2>1, <2>3 DEF Chain, t
      <3>0. j \in 0 .. Len(t) + 1 /\ j + 1 \in 0 .. Len(t) + 1
        BY <1>1, <1>2
      <3>1. CASE j = i - 1
        BY <3>0, <3>1, <1>7, <1>8 DEF a
      <3>2. CASE j = i
        BY <3>0, <3>2, <1>7, <1>8 DEF b
      <3>3. CASE j < i - 1 \/ j > i
        <4> DEFINE h == IF j < i THEN j ELSE j - 1
        <4>1. h \in 0 .. Len(s[l]) /\ h # i - 1
          BY <3>3, <1>1, <1>2
        <4>2. Cell(l, t, j) = Cell(l, s[l], h)
              /\ Cell(l, t, j + 1) = Cell(l, s[l], h + 1)
          BY <3>0, <3>3, <1>8
        <4> HIDE DEF h
        <4>3. h \in 0 .. Len(s[l]) + 1 /\ h + 1 \in 0 .. Len(s[l]) + 1
          BY <4>1, <1>1
        <4>4. Cell(l, s[l], h) # a /\ Cell(l, s[l], h) # n
              /\ Cell(l, s[l], h + 1) # b /\ Cell(l, s[l], h + 1) # n
          BY <4>1, <4>3, <1>p
        <4>5. Cell(l, s[l], h) \in Cells /\ Cell(l, s[l], h + 1) \in Cells
          BY <4>3, <1>1, CellInCells
        <4> QED BY <4>1, <4>2, <4>4, <4>5, <1>6, ChainStep
      <3> QED BY <3>0, <3>1, <3>2, <3>3
    <2> QED BY <2>2, <2>3
  <1>11. ASSUME NEW x \in Nodes, OnNone(s, x), x # n
         PROVE  k2.prev[x] = k.prev[x] /\ OnNone(s2, x)
    <2>1. k2.prev[x] = k.prev[x]
      <3>1. i \in 0 .. Len(s[l]) + 1
        BY <1>1
      <3> QED BY <3>1, <1>1, <1>6, <1>11, NotOnNone DEF b, Cells
    <2>2. ASSUME NEW m \in Lists, NEW j \in DOMAIN s2[m] PROVE s2[m][j] # x
      <3>1. CASE m # l
        BY <3>1, <1>3, <1>11 DEF OnNone
      <3>2. CASE m = l
        <4> DEFINE h == IF j < i THEN j ELSE j - 1
        <4>1. \/ j = i /\ t[j] = n
              \/ h \in DOMAIN s[l] /\ t[j] = s[l][h]
          BY <3>2, <1>1, <1>2 DEF t
        <4> QED BY <4>1, <3>2, <1>11 DEF OnNone, t
      <3> QED BY <3>1, <3>2
    <2> QED BY <2>1, <2>2 DEF OnNone
  <1> QED BY <1>1, <1>2, <1>3, <1>5, <1>9, <1>10, <1>11 DEF Represents, t

LEMMA RemoveNode ==
    ASSUME NEW k, NEW s, Represents(k, s),
           NEW l \in Lists, NEW i \in 1 .. Len(s[l]),
           NEW n, n = s[l][i],
           NEW k2, k2 = Bypassed(k, n),
           NEW s2, s2 = With(s, l, RemoveAt(s[l], i))
    PROVE  /\ Represents(k2, s2)
           /\ Len(s2[l]) = Len(s[l]) - 1
           /\ n \in Nodes /\ OnNone(s2, n)
           /\ \A x \in Nodes : OnNone(s, x) =>
                k2.prev[x] = k.prev[x] /\ OnNone(s2, x)
  <1> USE DEF With
  <1> DEFINE a == Cell(l, s[l], i - 1)
             b == Cell(l, s[l], i + 1)
             t == s2[l]
  <1>1. /\ k \in Links /\ s \in Arrangements /\ s[l] \in Seq(Nodes) /\ Distinct(s)
        /\ Len(s[l]) \in Nat /\ DOMAIN s[l] = 1 .. Len(s[l])
        /\ \A m \in Lists : Chain(k, m, s[m])
    BY DEF Represents, Arrangements
  <1>2. /\ t \in Seq(Nodes) /\ Len(t) = Len(s[l]) - 1
        /\ t = [j \in 1 .. Len(s[l]) - 1 |-> IF j < i THEN s[l][j] ELSE s[l][j + 1]]
    <2> DEFINE u == s[l]
    <2>1. t = RemoveAt(u, i) /\ u \in Seq(Nodes) /\ i \in 1 .. Len(u)
      BY <1>1 DEF Arrangements
    <2> HIDE DEF t, u
    <2>2. /\ t \in Seq(Nodes) /\ Len(t) = Len(u) - 1
      BY <2>1, RemoveAtFacts
    <2>3. t = [j \in 1 .. Len(u) - 1 |-> IF j < i THEN u[j] ELSE u[j + 1]]
      BY <2>1, RemoveAtIs
    <2> QED BY <2>2, <2>3 DEF u
  <1>3. s2 \in Arrangements /\ \A m \in Lists : m # l => s2[m] = s[m]
    BY <1>1, <1>2 DEF Arrangements
  <1>p. \A m \in Lists : \A j \in 0 .. Len(s[m]) + 1 :
          /\ Cell(m, s[m], j) \in Cells
          /\ Cell(m, s[m], j) = a => m = l /\ j = i - 1
          /\ Cell(m, s[m], j) = b => m = l /\ j = i + 1
    <2> TAKE m \in Lists
    <2> TAKE j \in 0 .. Len(s[m]) + 1
    <2>1. i + 1 \in 0 .. Len(s[l]) + 1 /\ i - 1 \in 0 .. Len(s[l]) + 1
      BY <1>1
    <2>2. s[m] \in Seq(Nodes)
      BY <1>1 DEF Arrangements
    <2>3. Cell(m, s[m], j) \in Cells
      BY <2>2, CellInCells
    <2>5. ASSUME Cell(m, s[m], j) = Cell(l, s[l], i - 1) PROVE m = l /\ j = i - 1
      BY <2>5, <2>1, <1>1, OnePlace
    <2>6. ASSUME Cell(m, s[m], j) = Cell(l, s[l], i + 1) PROVE m = l /\ j = i + 1
      BY <2>6, <2>1, <1>1, OnePlace
    <2> QED BY <2>3, <2>5, <2>6
  <1>4. a \in Cells /\ b \in Cells /\ n \in Nodes /\ n = Cell(l, s[l], i)
    <2>1. i + 1 \in 0 .. Len(s[l]) + 1 /\ i - 1 \in 0 .. Len(s[l]) + 1
          /\ i \in 0 .. Len(s[l]) + 1
      BY <1>1
    <2>2. Cell(l, s[l], i) = s[l][i] /\ s[l][i] \in Nodes
      BY <2>1, <1>1, CellInCells
    <2> QED BY <2>1, <2>2, <1>p
  <1>5. /\ k2 \in Links
        /\ k2.next = [k.next EXCEPT ![a] = b]
        /\ k2.prev = [k.prev EXCEPT ![b] = a]
    <2>1. k.prev[n] = a
      <3>1. i - 1 \in 0 .. Len(s[l]) /\ (i - 1) + 1 = i
        BY <1>1
      <3> QED BY <3>1, <1>4, ChainStep
    <2>2. k.next[n] = b
      <3>1. i \in 0 .. Len(s[l])
        BY <1>1
      <3> QED BY <3>1, <1>4, ChainStep
    <2>3. k2 = Joined(k, a, b)
      BY <2>1, <2>2 DEF Bypassed
    <2> HIDE DEF a, b
    <2> QED BY <2>3, <1>1, <1>4, JoinedFacts
  <1>6. \A x \in Cells : /\ x # a => k2.next[x] = k.next[x]
                         /\ x # b => k2.prev[x] = k.prev[x]
    BY <1>1, <1>5 DEF Links
  <1>7. k2.next[a] = b /\ k2.prev[b] = a
    BY <1>1, <1>4, <1>5 DEF Links
  <1> HIDE DEF a, b, t
  <1>8. \A j \in 0 .. Len(t) + 1 :
          Cell(l, t, j) = IF j < i THEN Cell(l, s[l], j) ELSE Cell(l, s[l], j + 1)
    <2> TAKE j \in 0 .. Len(t) + 1
    <2>1. CASE j = 0 \/ j = Len(t) + 1
      BY <2>1, <1>1, <1>2 DEF Cell
    <2>2. CASE j \in 1 .. Len(t)
      BY <2>2, <1>1, <1>2 DEF Cell
    <2> QED BY <1>2, <2>1, <2>2
  <1>9. \A q \in Lists : \A e \in DOMAIN s2[q] :
          LET f == IF q = l /\ e >= i THEN e + 1 ELSE e
          IN  f \in DOMAIN s[q] /\ s2[q][e] = s[q][f] /\ (q = l => f # i)
    <2> TAKE q \in Lists
    <2> TAKE e \in DOMAIN s2[q]
    <2>1. CASE q = l
      <3>1. e \in 1 .. Len(t) /\ t[e] = s2[q][e]
        BY <2>1, <1>2 DEF t
      <3>2. e < i => e \in DOMAIN s[l] /\ t[e] = s[l][e]
        BY <3>1, <1>1, <1>2
      <3>3. e >= i => e + 1 \in DOMAIN s[l] /\ t[e] = s[l][e + 1]
        BY <3>1, <1>1, <1>2
      <3>4. e < i \/ e >= i
        BY <3>1
      <3> QED BY <2>1, <3>1, <3>2, <3>3, <3>4
    <2>2. CASE q # l
      BY <2>2, <1>3
    <2> QED BY <2>1, <2>2
  <1>10. Distinct(s2)
    <2> SUFFICES ASSUME NEW p \in Lists, NEW m \in Lists,
                        NEW c \in DOMAIN s2[p], NEW d \in DOMAIN s2[m],
                        s2[p][c] = s2[m][d]
                 PROVE  p = m /\ c = d
      BY DEF Distinct
    <2>1. DOMAIN s2[p] = 1 .. Len(s2[p]) /\ DOMAIN s2[m] = 1 .. Len(s2[m])
          /\ Len(s2[p]) \in Nat /\ Len(s2[m]) \in Nat
      BY <1>3 DEF Arrangements
    <2> DEFINE f == IF p = l /\ c >= i THEN c + 1 ELSE c
               g == IF m = l /\ d >= i THEN d + 1 ELSE d
    <2>2. f \in DOMAIN s[p] /\ s2[p][c] = s[p][f]
      BY <1>9
    <2>3. g \in DOMAIN s[m] /\ s2[m][d] = s[m][g]
      BY <1>9
    <2>4. p = m /\ f = g
      BY <2>2, <2>3, <1>1 DEF Distinct
    <2> QED BY <2>4, <2>1
  <1>11. ASSUME NEW m \in Lists PROVE Chain(k2, m, s2[m])
    <2>1. k2.prev[HeadOf(m)] = Null /\ k2.next[TailOf(m)] = Null
      <3>1. HeadOf(m) = Cell(m, s[m], 0) /\ TailOf(m) = Cell(m, s[m], Len(s[m]) + 1)
            /\ Len(s[m]) \in Nat
        BY <1>1 DEF Cell, Arrangements
      <3>2. HeadOf(m) # b
        <4>1. 0 \in 0 .. Len(s[m]) + 1 /\ 0 # i + 1
          BY <3>1, <1>1
        <4> QED BY <3>1, <4>1, <1>p
      <3>3. TailOf(m) # a
        <4>1. Len(s[m]) + 1 \in 0 .. Len(s[m]) + 1 /\ (m = l => Len(s[m]) + 1 # i - 1)
          BY <3>1, <1>1
        <4> QED BY <3>1, <4>1, <1>p
      <3> QED BY <3>2, <3>3, <1>1, <1>6, DummyCells DEF Chain
    <2>2. CASE m # l
      <3> SUFFICES ASSUME NEW j \in 0 .. Len(s[m])
                   PROVE  /\ k2.next[Cell(m, s[m], j)] = Cell(m, s[m], j + 1)
                          /\ k2.prev[Cell(m, s[m], j + 1)] = Cell(m, s[m], j)
        BY <2>1, <2>2, <1>3 DEF Chain
      <3>1. j + 1 \in 0 .. Len(s[m]) + 1 /\ j \in 0 .. Len(s[m]) + 1
        BY <1>1 DEF Arrangements
      <3>2. Cell(m, s[m], j) # a /\ Cell(m, s[m], j + 1) # b
        BY <3>1, <2>2, <1>p
      <3>3. Cell(m, s[m], j) \in Cells /\ Cell(m, s[m], j + 1) \in Cells
        BY <3>1, <1>p
      <3> QED BY <3>2, <3>3, <1>6, ChainStep
    <2>3. CASE m = l
      <3> SUFFICES ASSUME NEW j \in 0 .. Len(t)
                   PROVE  /\ k2.next[Cell(l, t, j)] = Cell(l, t, j + 1)
                          /\ k2.prev[Cell(l, t, j + 1)] = Cell(l, t, j)
        BY <2>1, <2>3 DEF Chain, t
      <3>0. j \in 0 .. Len(t) + 1 /\ j + 1 \in 0 .. Len(t) + 1
        BY <1>1, <1>2
      <3>1. CASE j = i - 1
        BY <3>0, <3>1, <1>7, <1>8 DEF a, b
      <3>2. CASE j # i - 1
        <4> DEFINE h == IF j < i THEN j ELSE j + 1
        <4>1. h \in 0 .. Len(s[l]) /\ h # i - 1 /\ h # i
          BY <3>2, <1>1, <1>2
        <4>2. Cell(l, t, j) = Cell(l, s[l], h)
              /\ Cell(l, t, j + 1) = Cell(l, s[l], h + 1)
          BY <3>0, <3>2, <1>8
        <4> HIDE DEF h
        <4>3. h \in 0 .. Len(s[l]) + 1 /\ h + 1 \in 0 .. Len(s[l]) + 1
          BY <4>1, <1>1
        <4>4. Cell(l, s[l], h) # a /\ Cell(l, s[l], h + 1) # b
          BY <4>1, <4>3, <1>p
        <4>5. Cell(l, s[l], h) \in Cells /\ Cell(l, s[l], h + 1) \in Cells
          BY <4>3, <1>p
        <4> QED BY <4>1, <4>2, <4>4, <4>5, <1>6, ChainStep
      <3> QED BY <3>0, <3>1, <3>2
    <2> QED BY <2>2, <2>3
  <1>12. OnNone(s2, n)
    <2> SUFFICES ASSUME NEW m \in Lists, NEW j \in DOMAIN s2[m], s2[m][j] = s[l][i]
                 PROVE  FALSE
      BY DEF OnNone
    <2> DEFINE f == IF m = l /\ j >= i THEN j + 1 ELSE j
    <2>1. f \in DOMAIN s[m] /\ s[m][f] = s[l][i] /\ (m = l => f # i)
      BY <1>9
    <2> QED BY <2>1, <1>1 DEF Distinct
  <1>13. ASSUME NEW x \in Nodes, OnNone(s, x)
         PROVE  k2.prev[x] = k.prev[x] /\ OnNone(s2, x)
    <2>1. k2.prev[x] = k.prev[x]
      <3>1. i + 1 \in 0 .. Len(s[l]) + 1
        BY <1>1
      <3> QED BY <3>1, <1>1, <1>6, <1>13, NotOnNone DEF b, Cells
    <2>2. ASSUME NEW m \in Lists, NEW j \in DOMAIN s2[m] PROVE s2[m][j] # x
      <3> DEFINE f == IF m = l /\ j >= i THEN j + 1 ELSE j
      <3>1. f \in DOMAIN s[m] /\ s2[m][j] = s[m][f]
        BY <1>9
      <3> QED BY <3>1, <1>13 DEF OnNone
    <2> QED BY <2>1, <2>2 DEF OnNone
  <1> QED BY <1>1, <1>2, <1>3, <1>4, <1>5, <1>10, <1>11, <1>12, <1>13 DEF Represents, t

LEMMA ClearNode ==
    ASSUME NEW k, NEW s, Represents(k, s),
           NEW n \in Nodes, OnNone(s, n),
           NEW k2, k2 = Cleared(k, n)
    PROVE  /\ Represents(k2, s)
           /\ k2.prev[n] = Null
           /\ \A x \in Nodes : x # n => k2.prev[x] = k.prev[x]
  <1>1. /\ k \in Links /\ s \in Arrangements /\ Distinct(s)
        /\ \A m \in Lists : Chain(k, m, s[m])
    BY DEF Represents
  <1>2. /\ k2 \in Links
        /\ k2.next = [k.next EXCEPT ![n] = Null]
        /\ k2.prev = [k.prev EXCEPT ![n] = Null]
    BY <1>1 DEF Cleared, Links, Pointers
  <1>3. \A x \in Cells : x # n => k2.next[x] = k.next[x] /\ k2.prev[x] = k.prev[x]
    BY <1>1, <1>2 DEF Links
  <1>4. k2.prev[n] = Null
    BY <1>1, <1>2 DEF Links, Cells
  <1>5. ASSUME NEW m \in Lists PROVE Chain(k2, m, s[m])
    <2>1. s[m] \in Seq(Nodes) /\ Len(s[m]) \in Nat
      BY <1>1 DEF Arrangements
    <2>2. k2.prev[HeadOf(m)] = Null /\ k2.next[TailOf(m)] = Null
      BY <1>1, <1>3, DummyCells DEF Chain
    <2>3. ASSUME NEW j \in 0 .. Len(s[m])
          PROVE  /\ k2.next[Cell(m, s[m], j)] = Cell(m, s[m], j + 1)
                 /\ k2.prev[Cell(m, s[m], j + 1)] = Cell(m, s[m], j)
      <3>1. j + 1 \in 0 .. Len(s[m]) + 1 /\ j \in 0 .. Len(s[m]) + 1
        BY <2>1
      <3>2. Cell(m, s[m], j) \in Cells /\ Cell(m, s[m], j + 1) \in Cells
        BY <3>1, <2>1, CellInCells
      <3>3. Cell(m, s[m], j) # n /\ Cell(m, s[m], j + 1) # n
        BY <3>1, <1>1, NotOnNone
      <3> QED BY <3>2, <3>3, <1>3, ChainStep
    <2> QED BY <2>2, <2>3 DEF Chain
  <1> QED BY <1>1, <1>2, <1>3, <1>4, <1>5 DEF Represents, Cells

LEMMA EmptyList ==
    ASSUME NEW k, NEW s, Represents(k, s), NEW l \in Lists,
           NEW k2, k2 = Emptied(k, l),
           NEW s2, s2 = With(s, l, <<>>)
    PROVE  /\ Represents(k2, s2)
           /\ Len(s2[l]) = 0
           /\ \A x \in Nodes : OnNone(s, x) => k2.prev[x] = k.prev[x] /\ OnNone(s2, x)
  <1> USE DEF With
  <1>1. /\ k \in Links /\ s \in Arrangements /\ Distinct(s)
        /\ \A m \in Lists : Chain(k, m, s[m])
    BY DEF Represents
  <1>2. s2 \in Arrangements /\ s2[l] = <<>> /\ \A m \in Lists : m # l => s2[m] = s[m]
    BY <1>1 DEF Arrangements
  <1>3. Len(s2[l]) = 0 /\ DOMAIN s2[l] = {}
    BY <1>2
  <1>4. /\ k2 \in Links
        /\ k2.next = [k.next EXCEPT ![HeadOf(l)] = TailOf(l)]
        /\ k2.prev = [k.prev EXCEPT ![TailOf(l)] = HeadOf(l)]
    BY <1>1, DummyCells, JoinedFacts DEF Emptied
  <1>5. \A x \in Cells : /\ x # HeadOf(l) => k2.next[x] = k.next[x]
                         /\ x # TailOf(l) => k2.prev[x] = k.prev[x]
    BY <1>1, <1>4 DEF Links
  <1>6. k2.next[HeadOf(l)] = TailOf(l) /\ k2.prev[TailOf(l)] = HeadOf(l)
    BY <1>1, <1>4, DummyCells DEF Links
  <1>7. ASSUME NEW m \in Lists PROVE Chain(k2, m, s2[m])
    <2>1. s[m] \in Seq(Nodes) /\ Len(s[m]) \in Nat
      BY <1>1 DEF Arrangements
    <2>2. k2.prev[HeadOf(m)] = Null /\ k2.next[TailOf(m)] = Null
      <3>1. HeadOf(m) # TailOf(l) /\ TailOf(m) # HeadOf(l)
            /\ HeadOf(m) \in Cells /\ TailOf(m) \in Cells
        BY DummyCells
      <3> QED BY <3>1, <1>1, <1>5 DEF Chain
    <2>3. CASE m = l
      BY <2>2, <2>3, <1>3, <1>6 DEF Chain, Cell
    <2>4. CASE m # l
      <3>1. ASSUME NEW j \in 0 .. Len(s[m])
            PROVE  /\ k2.next[Cell(m, s[m], j)] = Cell(m, s[m], j + 1)
                   /\ k2.prev[Cell(m, s[m], j + 1)] = Cell(m, s[m], j)
        <4>1. j + 1 \in 0 .. Len(s[m]) + 1 /\ j \in 0 .. Len(s[m]) + 1
          BY <2>1
        <4>2. Cell(m, s[m], j) \in Cells /\ Cell(m, s[m], j + 1) \in Cells
          BY <4>1, <2>1, CellInCells
        <4>3. /\ HeadOf(l) = Cell(l, s[l], 0) /\ 0 \in 0 .. Len(s[l]) + 1
              /\ TailOf(l) = Cell(l, s[l], Len(s[l]) + 1)
              /\ Len(s[l]) + 1 \in 0 .. Len(s[l]) + 1
          BY <1>1 DEF Cell, Arrangements
        <4>4. Cell(m, s[m], j) # HeadOf(l)
          BY <4>1, <4>3, <2>4, <1>1, OnePlace
        <4>5. Cell(m, s[m], j + 1) # TailOf(l)
          BY <4>1, <4>3, <2>4, <1>1, OnePlace
        <4> QED BY <4>2, <4>4, <4>5, <1>5, ChainStep
      <3> QED BY <2>2, <2>4, <3>1, <1>2 DEF Chain
    <2> QED BY <2>3, <2>4
  <1>8. Distinct(s2)
    <2> SUFFICES ASSUME NEW p \in Lists, NEW m \in Lists,
                        NEW c \in DOMAIN s2[p], NEW d \in DOMAIN s2[m],
                        s2[p][c] = s2[m][d]
                 PROVE  p = m /\ c = d
      BY DEF Distinct
    <2>1. p # l /\ m # l
      BY <1>3
    <2> QED BY <2>1, <1>1, <1>2 DEF Distinct
  <1>9. ASSUME NEW x \in Nodes, OnNone(s, x)
        PROVE  k2.prev[x] = k.prev[x] /\ OnNone(s2, x)
    BY <1>2, <1>3, <1>5, <1>9, DummyCells DEF OnNone, Cells
  <1> QED BY <1>2, <1>3, <1>4, <1>7, <1>8, <1>9 DEF Represents

LEMMA FourRanges ==
    ASSUME NEW a \in Nat, NEW b \in Nat, NEW i \in 0 .. a + b + 1
    PROVE  i = 0 \/ i = a + b + 1 \/ i \in 1 .. a \/ i \in a + 1 .. a + b
  OBVIOUS

\* The nodes of a list m go after the first j nodes of a list l, whose other
\* nodes are discarded.
LEMMA SpliceList ==
    ASSUME NEW k, NEW s, Represents(k, s),
           NEW l \in Lists, NEW m \in Lists, l # m, s[m] # <<>>,
           NEW j \in 0 .. Len(s[l]),
           NEW t \in Seq(Nodes), Len(t) = j, \A i \in 1 .. j : t[i] = s[l][i],
           NEW k2, k2 = Emptied(Spliced(k, Cell(l, s[l], j), m, l), m),
           NEW s2, s2 = With(With(s, l, t \o s[m]), m, <<>>)
    PROVE  /\ Represents(k2, s2)
           /\ Len(s2[l]) = j + Len(s[m])
           /\ Len(s2[m]) = 0
           /\ \A x \in Nodes : OnNone(s, x) => k2.prev[x] = k.prev[x] /\ OnNone(s2, x)
  <1> USE DEF With
  <1> DEFINE u == s[m]
             c == Len(u)
             a == Cell(l, s[l], j)
             f == Cell(m, s[m], 1)
             e == Cell(m, s[m], c)
             w == s2[l]
  <1>1. /\ k \in Links /\ s \in Arrangements /\ Distinct(s)
        /\ s[l] \in Seq(Nodes) /\ Len(s[l]) \in Nat /\ DOMAIN s[l] = 1 .. Len(s[l])
        /\ u \in Seq(Nodes) /\ c \in Nat /\ c > 0 /\ DOMAIN u = 1 .. c
        /\ \A q \in Lists : Chain(k, q, s[q])
    BY DEF Represents, Arrangements
  <1>0. /\ j \in Nat /\ c \in Nat /\ c > 0 /\ Len(s[l]) \in Nat /\ j <= Len(s[l])
        /\ c = Len(s[m]) /\ u = s[m] /\ k \in Links
    BY <1>1
  <1>2. /\ w \in Seq(Nodes) /\ Len(w) = j + c
        /\ \A i \in 1 .. j + c : w[i] = IF i <= j THEN s[l][i] ELSE u[i - j]
    <2>1. w = t \o u
      BY <1>1 DEF Arrangements
    <2>2. u \in Seq(Nodes) /\ c = Len(u)
      BY <1>1
    <2> HIDE DEF u, w, c
    <2>3. w \in Seq(Nodes) /\ Len(w) = Len(t) + Len(u)
      BY <2>1, <2>2, ConcatProperties
    <2>4. ASSUME NEW i \in 1 .. j + c
          PROVE  w[i] = IF i <= j THEN s[l][i] ELSE u[i - j]
      <3>1. i \in 1 .. Len(t) + Len(u)
        BY <2>2
      <3>2. w[i] = IF i <= Len(t) THEN t[i] ELSE u[i - Len(t)]
        BY <2>1, <2>2, <3>1, ConcatProperties
      <3>3. i <= j => i \in 1 .. j
        BY <1>0
      <3> QED BY <3>2, <3>3
    <2> QED BY <2>2, <2>3, <2>4
  <1> HIDE DEF u, c
  <1>3. s2 \in Arrangements /\ s2[m] = <<>> /\ \A q \in Lists : q # l /\ q # m => s2[q] = s[q]
    <2>1. s \in [Lists -> Seq(Nodes)] /\ s[m] \in Seq(Nodes) /\ <<>> \in Seq(Nodes)
      BY <1>1 DEF Arrangements
    <2>2. t \o s[m] \in Seq(Nodes)
      BY <2>1, ConcatProperties
    <2> DEFINE v == t \o s[m]
    <2>3. s2 = [s EXCEPT ![l] = v, ![m] = <<>>] /\ v \in Seq(Nodes)
      BY <2>2
    <2> HIDE DEF v, w
    <2> QED BY <2>1, <2>3 DEF Arrangements
  <1>4. Len(s2[m]) = 0 /\ DOMAIN s2[m] = {}
    <2>1. \A z : z = <<>> => Len(z) = 0 /\ DOMAIN z = {}
      OBVIOUS
    <2> QED BY <2>1, <1>3
  <1>p. \A q \in Lists : \A i \in 0 .. Len(s[q]) + 1 :
          /\ Cell(q, s[q], i) \in Cells
          /\ Cell(q, s[q], i) = a => q = l /\ i = j
          /\ Cell(q, s[q], i) = f => q = m /\ i = 1
          /\ Cell(q, s[q], i) = e => q = m /\ i = c
          /\ Cell(q, s[q], i) = HeadOf(m) => q = m /\ i = 0
          /\ Cell(q, s[q], i) = TailOf(m) => q = m /\ i = c + 1
          /\ Cell(q, s[q], i) = TailOf(l) => q = l /\ i = Len(s[l]) + 1
    <2> TAKE q \in Lists
    <2> TAKE i \in 0 .. Len(s[q]) + 1
    <2>1. /\ j \in 0 .. Len(s[l]) + 1 /\ Len(s[l]) + 1 \in 0 .. Len(s[l]) + 1
          /\ 0 \in 0 .. Len(s[m]) + 1 /\ 1 \in 0 .. Len(s[m]) + 1
          /\ c \in 0 .. Len(s[m]) + 1 /\ c + 1 \in 0 .. Len(s[m]) + 1
      BY <1>0
    <2>2. Cell(q, s[q], i) \in Cells
      BY <1>1, CellInCells DEF Arrangements
    <2>3. ASSUME Cell(q, s[q], i) = Cell(l, s[l], j) PROVE q = l /\ i = j
      BY <2>3, <2>1, <1>1, OnePlace
    <2>4. ASSUME Cell(q, s[q], i) = Cell(m, s[m], 1) PROVE q = m /\ i = 1
      <3>1. \A z \in 0 .. Len(s[m]) + 1 :
              Cell(q, s[q], i) = Cell(m, s[m], z) => q = m /\ i = z
        BY <1>1, OnePlace
      <3> QED BY <2>4, <2>1, <3>1
    <2>5. ASSUME Cell(q, s[q], i) = Cell(m, s[m], c) PROVE q = m /\ i = c
      BY <2>5, <2>1, <1>1, OnePlace
    <2>6. ASSUME Cell(q, s[q], i) = HeadOf(m) PROVE q = m /\ i = 0
      <3>1. Cell(q, s[q], i) = Cell(m, s[m], 0)
        BY <2>6 DEF Cell
      <3> QED BY <3>1, <2>1, <1>1, OnePlace
    <2>7. ASSUME Cell(q, s[q], i) = TailOf(m) PROVE q = m /\ i = c + 1
      <3>1. Cell(q, s[q], i) = Cell(m, s[m], c + 1)
        BY <2>7, <1>0 DEF Cell
      <3> QED BY <3>1, <2>1, <1>1, OnePlace
    <2>8. ASSUME Cell(q, s[q], i) = TailOf(l) PROVE q = l /\ i = Len(s[l]) + 1
      <3>1. Cell(q, s[q], i) = Cell(l, s[l], Len(s[l]) + 1)
        BY <2>8, <1>1 DEF Cell
      <3> QED BY <3>1, <2>1, <1>1, OnePlace
    <2> QED BY <2>2, <2>3, <2>4, <2>5, <2>6, <2>7, <2>8
  <1>5. /\ a \in Cells /\ f \in Cells /\ e \in Cells
        /\ HeadOf(m) \in Cells /\ TailOf(m) \in Cells /\ TailOf(l) \in Cells
        /\ a # e /\ a # HeadOf(m) /\ e # HeadOf(m)
        /\ f # TailOf(l) /\ f # TailOf(m) /\ TailOf(l) # TailOf(m)
    <2>1. j \in 0 .. Len(s[l]) + 1 /\ 1 \in 0 .. Len(s[m]) + 1 /\ c \in 0 .. Len(s[m]) + 1
          /\ c # 0 /\ 1 # c + 1
      BY <1>0
    <2> QED BY <2>1, <1>p, DummyCells
  <1>6. /\ k2 \in Links
        /\ k2.next = [[[k.next EXCEPT ![a] = f] EXCEPT ![e] = TailOf(l)]
                       EXCEPT ![HeadOf(m)] = TailOf(m)]
        /\ k2.prev = [[[k.prev EXCEPT ![f] = a] EXCEPT ![TailOf(l)] = e]
                       EXCEPT ![TailOf(m)] = HeadOf(m)]
    <2>1. k.next[HeadOf(m)] = f
      <3>1. 0 \in 0 .. Len(s[m]) /\ 0 + 1 = 1 /\ Cell(m, s[m], 0) = HeadOf(m)
        BY <1>0 DEF Cell
      <3> QED BY <3>1, ChainStep
    <2>2. k.prev[TailOf(m)] = e
      <3>1. c \in 0 .. Len(s[m]) /\ Cell(m, s[m], c + 1) = TailOf(m)
        BY <1>0 DEF Cell
      <3> QED BY <3>1, ChainStep
    <2> DEFINE k0 == Joined(k, a, f)
               k1 == Joined(k0, e, TailOf(l))
    <2>3. k2 = Joined(k1, HeadOf(m), TailOf(m))
      BY <2>1, <2>2 DEF Emptied, Spliced
    <2>c. k \in Links /\ a \in Cells /\ f \in Cells /\ e \in Cells
          /\ HeadOf(m) \in Cells /\ TailOf(m) \in Cells /\ TailOf(l) \in Cells
      BY <1>0, <1>5
    <2> HIDE DEF a, e, f
    <2>4. k0 \in Links /\ k0.next = [k.next EXCEPT ![a] = f]
          /\ k0.prev = [k.prev EXCEPT ![f] = a]
      BY <2>c, JoinedFacts
    <2> HIDE DEF k0
    <2>t. k0 \in Links /\ e \in Cells /\ TailOf(l) \in Cells
      BY <2>4, <2>c
    <2>5. k1 \in Links /\ k1.next = [k0.next EXCEPT ![e] = TailOf(l)]
          /\ k1.prev = [k0.prev EXCEPT ![TailOf(l)] = e]
      BY <2>t, JoinedFacts
    <2> HIDE DEF k1
    <2>6. /\ k2 \in Links
          /\ k2.next = [k1.next EXCEPT ![HeadOf(m)] = TailOf(m)]
          /\ k2.prev = [k1.prev EXCEPT ![TailOf(m)] = HeadOf(m)]
      <3>1. k1 \in Links /\ HeadOf(m) \in Cells /\ TailOf(m) \in Cells
        BY <2>5, <2>c
      <3> QED BY <3>1, <2>3, JoinedFacts
    <2> QED BY <2>4, <2>5, <2>6
  <1> HIDE DEF a, e, f
  <1>7. \A x \in Cells :
          /\ x # a /\ x # e /\ x # HeadOf(m) => k2.next[x] = k.next[x]
          /\ x # f /\ x # TailOf(l) /\ x # TailOf(m) => k2.prev[x] = k.prev[x]
    BY <1>1, <1>6 DEF Links
  <1>8. /\ k2.next[a] = f /\ k2.next[e] = TailOf(l) /\ k2.next[HeadOf(m)] = TailOf(m)
        /\ k2.prev[f] = a /\ k2.prev[TailOf(l)] = e /\ k2.prev[TailOf(m)] = HeadOf(m)
    BY <1>1, <1>5, <1>6 DEF Links
  <1> HIDE DEF w
  <1>9. \A i \in 0 .. j + c + 1 :
          Cell(l, w, i) = IF i <= j THEN Cell(l, s[l], i)
                          ELSE IF i <= j + c THEN Cell(m, s[m], i - j) ELSE TailOf(l)
    <2> TAKE i \in 0 .. j + c + 1
    <2>1. CASE i = 0 \/ i = j + c + 1
      <3>1. CASE i = 0
        BY <3>1, <1>0 DEF Cell
      <3>2. CASE i = j + c + 1
        <4>1. Cell(l, w, i) = TailOf(l)
          BY <3>2, <1>0, <1>2 DEF Cell
        <4>2. ~(i <= j) /\ ~(i <= j + c)
          BY <3>2, <1>0
        <4> QED BY <4>1, <4>2
      <3> QED BY <2>1, <3>1, <3>2
    <2>2. CASE i \in 1 .. j
      <3>1. w[i] = s[l][i]
        <4>1. i \in 1 .. j + c /\ i <= j
          BY <2>2, <1>0
        <4> QED BY <4>1, <1>2
      <3>2. i <= j /\ i # 0 /\ i # j + c + 1 /\ i # Len(s[l]) + 1
        BY <2>2, <1>0
      <3>3. Cell(l, w, i) = w[i]
        BY <3>2, <1>2 DEF Cell
      <3>4. Cell(l, s[l], i) = s[l][i]
        BY <3>2 DEF Cell
      <3> QED BY <3>1, <3>2, <3>3, <3>4
    <2>3. CASE i \in j + 1 .. j + c
      <3>1. w[i] = s[m][i - j]
        <4>1. i \in 1 .. j + c /\ ~(i <= j)
          BY <2>3, <1>0
        <4>2. w[i] = u[i - j]
          BY <4>1, <1>2
        <4> QED BY <4>2, <1>0
      <3>2. Cell(l, w, i) = w[i]
        BY <2>3, <1>0, <1>2 DEF Cell
      <3>3. Cell(m, s[m], i - j) = s[m][i - j]
        <4> DEFINE h == i - j
        <4>1. h \in Int /\ h # 0 /\ h # c + 1
          BY <2>3, <1>0
        <4> HIDE DEF h
        <4>2. Cell(m, s[m], h) = s[m][h]
          BY <4>1, <1>0 DEF Cell
        <4> QED BY <4>2 DEF h
      <3> QED BY <3>1, <3>2, <3>3, <2>3, <1>0
    <2>4. i = 0 \/ i = j + c + 1 \/ i \in 1 .. j \/ i \in j + 1 .. j + c
      BY <1>0, FourRanges, Zenon
    <2> QED BY <2>1, <2>2, <2>3, <2>4
  <1>10. ASSUME NEW q \in Lists PROVE Chain(k2, q, s2[q])
    <2>1. s[q] \in Seq(Nodes) /\ Len(s[q]) \in Nat
      BY <1>1 DEF Arrangements
    <2>2. k2.prev[HeadOf(q)] = Null /\ k2.next[TailOf(q)] = Null
      <3>1. HeadOf(q) = Cell(q, s[q], 0) /\ TailOf(q) = Cell(q, s[q], Len(s[q]) + 1)
            /\ 0 \in 0 .. Len(s[q]) + 1 /\ Len(s[q]) + 1 \in 0 .. Len(s[q]) + 1
        BY <2>1 DEF Cell
      <3>2. HeadOf(q) # f /\ HeadOf(q) # TailOf(l) /\ HeadOf(q) # TailOf(m)
        <4>1. 0 # 1
          OBVIOUS
        <4> QED BY <3>1, <4>1, <1>p, DummyCells
      <3>3. TailOf(q) # a /\ TailOf(q) # e /\ TailOf(q) # HeadOf(m)
        <4>1. (q = l => Len(s[q]) + 1 # j) /\ (q = m => Len(s[q]) + 1 # c)
          BY <1>0
        <4> QED BY <3>1, <4>1, <1>p, DummyCells
      <3> QED BY <3>2, <3>3, <1>1, <1>7, DummyCells DEF Chain
    <2>3. CASE q = m
      BY <2>2, <2>3, <1>4, <1>8 DEF Chain, Cell
    <2>4. CASE q # l /\ q # m
      <3>1. ASSUME NEW i \in 0 .. Len(s[q])
            PROVE  /\ k2.next[Cell(q, s[q], i)] = Cell(q, s[q], i + 1)
                   /\ k2.prev[Cell(q, s[q], i + 1)] = Cell(q, s[q], i)
        <4>1. i + 1 \in 0 .. Len(s[q]) + 1 /\ i \in 0 .. Len(s[q]) + 1
          BY <2>1
        <4> QED BY <4>1, <2>4, <1>p, <1>7, ChainStep
      <3> QED BY <2>2, <2>4, <3>1, <1>3 DEF Chain
    <2>5. CASE q = l
      <3> SUFFICES ASSUME NEW i \in 0 .. j + c
                   PROVE  /\ k2.next[Cell(l, w, i)] = Cell(l, w, i + 1)
                          /\ k2.prev[Cell(l, w, i + 1)] = Cell(l, w, i)
        BY <2>2, <2>5, <1>2 DEF Chain, w
      <3>0. i \in 0 .. j + c + 1 /\ i + 1 \in 0 .. j + c + 1
        BY <1>0
      <3>1. CASE i < j
        <4>1. i \in 0 .. Len(s[l]) /\ i \in 0 .. Len(s[l]) + 1 /\ i + 1 \in 0 .. Len(s[l]) + 1
              /\ i # j /\ i + 1 # Len(s[l]) + 1
          BY <3>1, <1>0
        <4>2. Cell(l, w, i) = Cell(l, s[l], i) /\ Cell(l, w, i + 1) = Cell(l, s[l], i + 1)
          BY <3>0, <3>1, <1>9
        <4> QED BY <4>1, <4>2, <1>p, <1>7, ChainStep
      <3>2. CASE i = j
        <4>1. Cell(l, w, i) = a /\ Cell(l, w, i + 1) = f
          BY <3>0, <3>2, <1>0, <1>9 DEF a, f
        <4> QED BY <4>1, <1>8
      <3>3. CASE i > j /\ i < j + c
        <4> DEFINE h == i - j
        <4>1. h \in 0 .. Len(s[m]) /\ h \in 0 .. Len(s[m]) + 1 /\ h + 1 \in 0 .. Len(s[m]) + 1
              /\ h # 0 /\ h # c /\ h + 1 # 1 /\ h + 1 # c + 1
          BY <3>3, <1>0
        <4>2. Cell(l, w, i) = Cell(m, s[m], h) /\ Cell(l, w, i + 1) = Cell(m, s[m], h + 1)
          BY <3>0, <3>3, <1>0, <1>9
        <4> HIDE DEF h
        <4>3. /\ k.next[Cell(m, s[m], h)] = Cell(m, s[m], h + 1)
              /\ k.prev[Cell(m, s[m], h + 1)] = Cell(m, s[m], h)
          BY <4>1, ChainStep
        <4>4. /\ Cell(m, s[m], h) \in Cells
              /\ Cell(m, s[m], h) # a /\ Cell(m, s[m], h) # e
              /\ Cell(m, s[m], h) # HeadOf(m)
          BY <4>1, <1>p
        <4>5. /\ Cell(m, s[m], h + 1) \in Cells
              /\ Cell(m, s[m], h + 1) # f /\ Cell(m, s[m], h + 1) # TailOf(l)
              /\ Cell(m, s[m], h + 1) # TailOf(m)
          BY <4>1, <1>p
        <4> QED BY <4>2, <4>3, <4>4, <4>5, <1>7
      <3>4. CASE i = j + c
        <4>1. Cell(l, w, i) = e /\ Cell(l, w, i + 1) = TailOf(l)
          BY <3>0, <3>4, <1>0, <1>9 DEF e
        <4> QED BY <4>1, <1>8
      <3>5. i < j \/ i = j \/ (i > j /\ i < j + c) \/ i = j + c
        BY <1>0
      <3> QED BY <3>1, <3>2, <3>3, <3>4, <3>5
    <2> QED BY <2>3, <2>4, <2>5
  <1>11. \A q \in Lists : \A i \in DOMAIN s2[q] :
           /\ q # m
           /\ LET p == IF q = l /\ i > j THEN m ELSE q
                  h == IF q = l /\ i > j THEN i - j ELSE i
              IN  h \in DOMAIN s[p] /\ s2[q][i] = s[p][h] /\ (p = l => h <= j)
    <2> TAKE q \in Lists
    <2> TAKE i \in DOMAIN s2[q]
    <2>1. q # m
      BY <1>4
    <2>2. CASE q = l /\ i <= j
      <3>1. i \in 1 .. j + c
        BY <2>2, <1>2 DEF w
      <3>2. s2[q][i] = s[l][i]
        BY <3>1, <2>2, <1>2 DEF w
      <3> QED BY <3>1, <3>2, <2>1, <2>2, <1>0, <1>1
    <2>3. CASE q = l /\ i > j
      <3>1. i \in 1 .. j + c
        BY <2>3, <1>2 DEF w
      <3>2. s2[q][i] = s[m][i - j]
        <4>1. w[i] = u[i - j]
          BY <3>1, <2>3, <1>0, <1>2
        <4> QED BY <4>1, <2>3, <1>0 DEF w
      <3>3. i - j \in DOMAIN s[m]
        BY <3>1, <2>3, <1>0, <1>1
      <3> QED BY <3>2, <3>3, <2>1, <2>3
    <2>4. CASE q # l
      BY <2>1, <2>4, <1>3
    <2>5. q = l => i \in Int
      BY <1>2 DEF w
    <2> QED BY <2>2, <2>3, <2>4, <2>5
  <1>12. Distinct(s2)
    <2> SUFFICES ASSUME NEW q \in Lists, NEW r \in Lists,
                        NEW x \in DOMAIN s2[q], NEW y \in DOMAIN s2[r],
                        s2[q][x] = s2[r][y]
                 PROVE  q = r /\ x = y
      BY DEF Distinct
    <2> DEFINE q0 == IF q = l /\ x > j THEN m ELSE q
               x0 == IF q = l /\ x > j THEN x - j ELSE x
               r0 == IF r = l /\ y > j THEN m ELSE r
               y0 == IF r = l /\ y > j THEN y - j ELSE y
    <2>1. q # m /\ x0 \in DOMAIN s[q0] /\ s2[q][x] = s[q0][x0]
      BY <1>11
    <2>2. r # m /\ y0 \in DOMAIN s[r0] /\ s2[r][y] = s[r0][y0]
      BY <1>11
    <2>3. q0 \in Lists /\ r0 \in Lists
      OBVIOUS
    <2>4. q0 = r0 /\ x0 = y0
      <3> HIDE DEF q0, x0, r0, y0
      <3> QED BY <2>1, <2>2, <2>3, <1>1 DEF Distinct
    <2>5. (q = l => x \in Int) /\ (r = l => y \in Int)
      BY <1>2 DEF w
    <2> QED BY <2>1, <2>2, <2>4, <2>5, <1>0
  <1>13. ASSUME NEW x \in Nodes, OnNone(s, x)
         PROVE  k2.prev[x] = k.prev[x] /\ OnNone(s2, x)
    <2>1. x # f /\ x # TailOf(l) /\ x # TailOf(m) /\ x \in Cells
      <3>1. 1 \in 0 .. Len(s[m]) + 1
        BY <1>0
      <3>2. \A z \in 0 .. Len(s[m]) + 1 : Cell(m, s[m], z) # x
        BY <1>1, <1>13, NotOnNone
      <3> QED BY <3>1, <3>2, DummyCells DEF f, Cells
    <2>2. ASSUME NEW q \in Lists, NEW i \in DOMAIN s2[q] PROVE s2[q][i] # x
      <3> DEFINE p == IF q = l /\ i > j THEN m ELSE q
                 h == IF q = l /\ i > j THEN i - j ELSE i
      <3>1. h \in DOMAIN s[p] /\ s2[q][i] = s[p][h] /\ p \in Lists
        BY <1>11
      <3> QED BY <3>1, <1>13 DEF OnNone
    <2> QED BY <2>1, <2>2, <1>7 DEF OnNone
  <1>14. Represents(k2, s2)
    BY <1>3, <1>6, <1>10, <1>12 DEF Represents
  <1>15. Len(s2[l]) = j + Len(s[m])
    BY <1>0, <1>2 DEF w
  <1> QED BY <1>4, <1>13, <1>14, <1>15

--------------------------------------------------------------------------------
(***************************************************************************)
(* The operations.  Besides what the links and the counts are, the         *)
(* invariant says of a node that was taken off that its links are clear    *)
(* and that it is on no list: without the second, clearing the links of a  *)
(* node could break a list.                                                *)
(***************************************************************************)
CountsAgree == count \in [Lists -> Nat] /\ \A q \in Lists : count[q] = Len(items[q])

OffAreClear == off \subseteq Nodes /\ \A n \in off : link.prev[n] = Null /\ OnNone(items, n)

ListInv == Represents(link, items) /\ CountsAgree /\ OffAreClear

LEMMA FreshOnNone ==
    ASSUME NEW n, Fresh(n)
    PROVE  OnNone(items, n)
  BY DEF Fresh, Members, Places, OnNone

LEMMA ItemsTyped ==
    ASSUME Represents(link, items), NEW l \in Lists
    PROVE  /\ items[l] \in Seq(Nodes) /\ Len(items[l]) \in Nat
           /\ Places(l) = 1 .. Len(items[l])
           /\ link \in Links /\ items \in [Lists -> Seq(Nodes)]
  BY DEF Represents, Arrangements, Places

\* The ends of a list as its dummy nodes have them.
LEMMA Ends ==
    ASSUME NEW k, NEW s, Represents(k, s), NEW l \in Lists
    PROVE  /\ HeadOf(l) = Cell(l, s[l], 0)
           /\ TailOf(l) = Cell(l, s[l], Len(s[l]) + 1)
           /\ k.next[HeadOf(l)] = Cell(l, s[l], 1)
           /\ k.prev[TailOf(l)] = Cell(l, s[l], Len(s[l]))
  <1>1. Len(s[l]) \in Nat
    BY DEF Represents, Arrangements
  <1>2. HeadOf(l) = Cell(l, s[l], 0) /\ TailOf(l) = Cell(l, s[l], Len(s[l]) + 1)
    BY <1>1 DEF Cell
  <1>3. k.next[HeadOf(l)] = Cell(l, s[l], 1)
    <2>1. 0 \in 0 .. Len(s[l]) /\ 0 + 1 = 1
      BY <1>1
    <2> QED BY <1>2, <2>1, ChainStep
  <1>4. k.prev[TailOf(l)] = Cell(l, s[l], Len(s[l]))
    <2>1. Len(s[l]) \in 0 .. Len(s[l])
      BY <1>1
    <2> QED BY <1>2, <2>1, ChainStep
  <1> QED BY <1>2, <1>3, <1>4

LEMMA CountOf ==
    ASSUME ListInv, Represents(link', items'), NEW l \in Lists, NEW d \in Int,
           NEW v, items' = With(items, l, v), Len(items'[l]) = Len(items[l]) + d,
           Counted(l, d)
    PROVE  CountsAgree'
  <1>1. /\ items \in [Lists -> Seq(Nodes)] /\ items' \in [Lists -> Seq(Nodes)]
        /\ count \in [Lists -> Nat] /\ \A q \in Lists : count[q] = Len(items[q])
    BY DEF ListInv, Represents, Arrangements, CountsAgree
  <1>2. ASSUME NEW q \in Lists PROVE count'[q] = Len(items'[q]) /\ Len(items'[q]) \in Nat
    <2>1. CASE q = l
      BY <1>1, <2>1 DEF Counted
    <2>2. CASE q # l
      BY <1>1, <2>2 DEF Counted, With
    <2> QED BY <2>1, <2>2
  <1>3. count' \in [Lists -> Nat]
    <2>1. count' = [q \in Lists |-> count'[q]]
      BY <1>1 DEF Counted
    <2> QED BY <2>1, <1>2
  <1> QED BY <1>2, <1>3 DEF CountsAgree

LEMMA AddNode ==
    ASSUME ListInv, NEW n \in Nodes, Fresh(n),
           NEW l \in Lists, NEW i \in 1 .. Len(items[l]) + 1,
           link' = Inserted(link, Cell(l, items[l], i - 1), n, Cell(l, items[l], i)),
           Added(l, i, n)
    PROVE  ListInv'
  <1>1. Represents(link, items) /\ OnNone(items, n)
        /\ items' = With(items, l, InsertAt(items[l], i, n))
    BY FreshOnNone DEF ListInv, Added, With
  <1>2. /\ Represents(link', items')
        /\ Len(items'[l]) = Len(items[l]) + 1
        /\ \A x \in Nodes : OnNone(items, x) /\ x # n =>
             link'.prev[x] = link.prev[x] /\ OnNone(items', x)
    BY <1>1, InsertNode
  <1>3. CountsAgree'
    <2>1. Counted(l, 1)
      BY DEF Added
    <2> QED BY <1>1, <1>2, <2>1, CountOf
  <1>4. OffAreClear'
    BY <1>2 DEF Added, ListInv, OffAreClear
  <1> QED BY <1>2, <1>3, <1>4 DEF ListInv

LEMMA TakeNode ==
    ASSUME ListInv, NEW l \in Lists, NEW i \in 1 .. Len(items[l]), NEW n, n = items[l][i],
           link' = Cleared(Bypassed(link, n), n),
           TakenOff(l, i, n)
    PROVE  ListInv'
  <1> DEFINE k == Bypassed(link, n)
  <1>1. Represents(link, items) /\ items' = With(items, l, RemoveAt(items[l], i))
    BY DEF ListInv, TakenOff, With
  <1>2. /\ Represents(k, items')
        /\ Len(items'[l]) = Len(items[l]) - 1
        /\ n \in Nodes /\ OnNone(items', n)
        /\ \A x \in Nodes : OnNone(items, x) =>
             k.prev[x] = link.prev[x] /\ OnNone(items', x)
    BY <1>1, RemoveNode
  <1> HIDE DEF k
  <1>3. /\ Represents(link', items')
        /\ link'.prev[n] = Null
        /\ \A x \in Nodes : x # n => link'.prev[x] = k.prev[x]
    <2>1. link' = Cleared(k, n)
      BY DEF k
    <2> QED BY <2>1, <1>2, ClearNode
  <1>4. CountsAgree'
    <2>1. Counted(l, -1)
      BY DEF TakenOff
    <2>2. Len(items'[l]) = Len(items[l]) + -1 /\ -1 \in Int
      BY <1>1, <1>2, ItemsTyped
    <2> QED BY <1>1, <1>3, <2>1, <2>2, CountOf
  <1>5. OffAreClear'
    BY <1>2, <1>3 DEF TakenOff, ListInv, OffAreClear
  <1> QED BY <1>3, <1>4, <1>5 DEF ListInv

\* The off list is kept by what moves only nodes that are on a list.
LEMMA OffKept ==
    ASSUME ListInv, UNCHANGED off,
           \A x \in Nodes : OnNone(items, x) =>
             link'.prev[x] = link.prev[x] /\ OnNone(items', x)
    PROVE  OffAreClear'
  BY DEF ListInv, OffAreClear

LEMMA CountsMoved ==
    ASSUME ListInv, Represents(link', items'),
           NEW l \in Lists, NEW m \in Lists, l # m,
           \A q \in Lists : q # l /\ q # m => items'[q] = items[q],
           NEW c, NEW d, count' = [count EXCEPT ![l] = c, ![m] = d],
           c = Len(items'[l]), d = Len(items'[m])
    PROVE  CountsAgree'
  <1>1. /\ items' \in [Lists -> Seq(Nodes)]
        /\ count \in [Lists -> Nat] /\ \A q \in Lists : count[q] = Len(items[q])
    BY DEF ListInv, Represents, Arrangements, CountsAgree
  <1>2. ASSUME NEW q \in Lists PROVE count'[q] = Len(items'[q]) /\ Len(items'[q]) \in Nat
    <2>1. CASE q = l
      BY <1>1, <2>1
    <2>2. CASE q = m
      BY <1>1, <2>2
    <2>3. CASE q # l /\ q # m
      BY <1>1, <2>3
    <2> QED BY <2>1, <2>2, <2>3
  <1>3. count' \in [Lists -> Nat]
    <2>1. count' = [q \in Lists |-> count'[q]]
      BY <1>1
    <2> QED BY <2>1, <1>2
  <1> QED BY <1>2, <1>3 DEF CountsAgree

LEMMA AppendIsInsert ==
    ASSUME NEW S, NEW s \in Seq(S), NEW e \in S
    PROVE  InsertAt(s, Len(s) + 1, e) = Append(s, e)
  <1>1. Len(s) + 1 \in 1 .. Len(s) + 1
    OBVIOUS
  <1>2. InsertAt(s, Len(s) + 1, e) = [j \in 1 .. Len(s) + 1 |->
          IF j < Len(s) + 1 THEN s[j] ELSE IF j = Len(s) + 1 THEN e ELSE s[j - 1]]
    BY <1>1, InsertAtIs
  <1>3. Append(s, e) = [j \in 1 .. Len(s) + 1 |-> Append(s, e)[j]]
    <2> DEFINE v == Append(s, e)
    <2>1. v \in Seq(S) /\ Len(v) = Len(s) + 1
      OBVIOUS
    <2> HIDE DEF v
    <2>2. v = [j \in 1 .. Len(v) |-> v[j]]
      BY <2>1
    <2> QED BY <2>1, <2>2 DEF v
  <1>4. \A j \in 1 .. Len(s) + 1 :
          Append(s, e)[j] = IF j < Len(s) + 1 THEN s[j] ELSE e
    OBVIOUS
  <1> QED BY <1>2, <1>3, <1>4

\* A node is taken out and goes to the end of another list.
LEMMA AppendItemKeeps ==
    ASSUME ListInv, NEW l \in Lists, NEW m \in Lists, l # m,
           NEW i \in Places(m), AppendItem(l, m, i)
    PROVE  ListInv'
  <1> DEFINE n == items[m][i]
             k == Bypassed(link, n)
             s == With(items, m, RemoveAt(items[m], i))
             j == Len(s[l]) + 1
  <1>1. Represents(link, items) /\ i \in 1 .. Len(items[m])
        /\ items \in [Lists -> Seq(Nodes)]
    BY ItemsTyped DEF ListInv
  <1>2. /\ Represents(k, s)
        /\ Len(s[m]) = Len(items[m]) - 1
        /\ n \in Nodes /\ OnNone(s, n)
        /\ \A x \in Nodes : OnNone(items, x) => k.prev[x] = link.prev[x] /\ OnNone(s, x)
    BY <1>1, RemoveNode
  <1>3. s[l] = items[l] /\ s[l] \in Seq(Nodes) /\ Len(s[l]) \in Nat
    BY <1>1 DEF With
  <1>4. /\ link' = Inserted(k, k.prev[TailOf(l)], n, TailOf(l))
        /\ items' = With(s, l, Append(items[l], n))
        /\ count' = [count EXCEPT ![m] = @ - 1, ![l] = @ + 1]
        /\ UNCHANGED off
    BY <1>1 DEF AppendItem, With
  <1>5. s[m] = RemoveAt(items[m], i)
    BY <1>1 DEF With
  <1> HIDE DEF n, k, s
  <1>6. k.prev[TailOf(l)] = Cell(l, s[l], j - 1) /\ TailOf(l) = Cell(l, s[l], j)
    <2>1. TailOf(l) = Cell(l, s[l], j) /\ j - 1 = Len(s[l]) /\ Len(s[l]) \in 0 .. Len(s[l])
      BY <1>3 DEF Cell
    <2>2. k.prev[Cell(l, s[l], Len(s[l]) + 1)] = Cell(l, s[l], Len(s[l]))
      BY <2>1, <1>2, ChainStep
    <2> QED BY <2>1, <2>2
  <1>7. items' = With(s, l, InsertAt(s[l], j, n))
    BY <1>2, <1>3, <1>4, AppendIsInsert
  <1>8. /\ Represents(link', items')
        /\ Len(items'[l]) = Len(s[l]) + 1
        /\ \A x \in Nodes : OnNone(s, x) /\ x # n =>
             link'.prev[x] = k.prev[x] /\ OnNone(items', x)
    <2>1. link' = Inserted(k, Cell(l, s[l], j - 1), n, Cell(l, s[l], j))
          /\ j \in 1 .. Len(s[l]) + 1
      BY <1>3, <1>4, <1>6
    <2> HIDE DEF j
    <2> QED BY <2>1, <1>2, <1>7, InsertNode
  <1>9. \A q \in Lists : q # l => items'[q] = s[q]
    BY <1>2, <1>4 DEF With, Represents, Arrangements
  <1>10. \A q \in Lists : q # m => s[q] = items[q]
    BY <1>1 DEF s, With
  <1>11. CountsAgree'
    <2>1. count[l] = Len(items[l]) /\ count[m] = Len(items[m])
          /\ count \in [Lists -> Nat]
      BY DEF ListInv, CountsAgree
    <2>2. count' = [count EXCEPT ![m] = count[m] - 1, ![l] = count[l] + 1]
      BY <1>4, <2>1
    <2>3. count[m] - 1 = Len(items'[m]) /\ count[l] + 1 = Len(items'[l])
      BY <2>1, <1>2, <1>3, <1>8, <1>9
    <2>4. \A q \in Lists : q # m /\ q # l => items'[q] = items[q]
      BY <1>9, <1>10
    <2> QED BY <2>2, <2>3, <2>4, <1>8, CountsMoved
  <1>12. OffAreClear'
    <2>1. ASSUME NEW x \in Nodes, OnNone(items, x)
          PROVE  link'.prev[x] = link.prev[x] /\ OnNone(items', x)
      <3>1. x # n
        BY <2>1, <1>1 DEF n, OnNone, Places
      <3> QED BY <2>1, <3>1, <1>2, <1>8
    <2> QED BY <2>1, <1>4, OffKept
  <1> QED BY <1>8, <1>11, <1>12 DEF ListInv

\* All nodes of a list go after the first j of another.
LEMMA SpliceKeeps ==
    ASSUME ListInv, NEW l \in Lists, NEW m \in Lists, l # m, count[m] > 0,
           NEW j \in 0 .. Len(items[l]),
           NEW t \in Seq(Nodes), Len(t) = j, \A i \in 1 .. j : t[i] = items[l][i],
           link' = Emptied(Spliced(link, Cell(l, items[l], j), m, l), m),
           items' = With(With(items, l, t \o items[m]), m, <<>>),
           count' = [count EXCEPT ![l] = j + count[m], ![m] = 0],
           UNCHANGED off
    PROVE  ListInv'
  <1>1. Represents(link, items) /\ count[m] = Len(items[m])
        /\ items \in [Lists -> Seq(Nodes)]
    BY ItemsTyped DEF ListInv, CountsAgree
  <1>2. items[m] # <<>>
    <2>1. \A z : z = <<>> => Len(z) = 0
      OBVIOUS
    <2> QED BY <2>1, <1>1
  <1>3. /\ Represents(link', items')
        /\ Len(items'[l]) = j + Len(items[m])
        /\ Len(items'[m]) = 0
        /\ \A x \in Nodes : OnNone(items, x) =>
             link'.prev[x] = link.prev[x] /\ OnNone(items', x)
    BY <1>1, <1>2, SpliceList
  <1>4. CountsAgree'
    <2>1. \A q \in Lists : q # l /\ q # m => items'[q] = items[q]
      BY <1>1 DEF With
    <2>2. j + count[m] = Len(items'[l]) /\ 0 = Len(items'[m])
      BY <1>1, <1>3
    <2> QED BY <2>1, <2>2, <1>3, CountsMoved
  <1> QED BY <1>3, <1>4, OffKept DEF ListInv

LEMMA AppendListKeeps ==
    ASSUME ListInv, NEW l \in Lists, NEW m \in Lists, l # m, AppendList(l, m)
    PROVE  ListInv'
  <1>1. Represents(link, items) /\ items[l] \in Seq(Nodes) /\ items[m] \in Seq(Nodes)
        /\ Len(items[l]) \in 0 .. Len(items[l]) /\ count[l] = Len(items[l])
        /\ items \in [Lists -> Seq(Nodes)]
    BY ItemsTyped DEF ListInv, CountsAgree
  <1>2. /\ link' = Emptied(Spliced(link, Cell(l, items[l], Len(items[l])), m, l), m)
        /\ items' = With(With(items, l, items[l] \o items[m]), m, <<>>)
        /\ count' = [count EXCEPT ![l] = Len(items[l]) + count[m], ![m] = 0]
        /\ count[m] > 0 /\ UNCHANGED off
    <2>1. link.prev[TailOf(l)] = Cell(l, items[l], Len(items[l]))
      BY <1>1, Ends
    <2>2. count' = [count EXCEPT ![l] = count[l] + count[m], ![m] = 0]
      BY DEF AppendList, ListInv, CountsAgree
    <2> QED BY <1>1, <2>1, <2>2 DEF AppendList, With
  <1> DEFINE t == items[l]
  <1>3. t \in Seq(Nodes) /\ \A i \in 1 .. Len(items[l]) : t[i] = items[l][i]
    BY <1>1
  <1> QED BY <1>1, <1>2, <1>3, SpliceKeeps

LEMMA moveListKeeps ==
    ASSUME ListInv, NEW l \in Lists, NEW m \in Lists, l # m, moveList(l, m)
    PROVE  ListInv'
  <1>1. Represents(link, items) /\ items[m] \in Seq(Nodes)
        /\ 0 \in 0 .. Len(items[l]) /\ items \in [Lists -> Seq(Nodes)]
        /\ count[m] \in Nat
    BY ItemsTyped DEF ListInv, CountsAgree
  <1> DEFINE t == <<>>
  <1>2. t \in Seq(Nodes) /\ Len(t) = 0 /\ t \o items[m] = items[m]
        /\ \A i \in 1 .. 0 : t[i] = items[l][i]
    BY <1>1, ConcatEmptySeq
  <1> HIDE DEF t
  <1>3. /\ link' = Emptied(Spliced(link, Cell(l, items[l], 0), m, l), m)
        /\ items' = With(With(items, l, t \o items[m]), m, <<>>)
        /\ count' = [count EXCEPT ![l] = 0 + count[m], ![m] = 0]
        /\ count[m] > 0 /\ UNCHANGED off
    <2>1. HeadOf(l) = Cell(l, items[l], 0)
      BY DEF Cell
    <2>2. 0 + count[m] = count[m]
      BY <1>1
    <2> QED BY <1>2, <2>1, <2>2 DEF moveList, With
  <1> QED BY <1>1, <1>2, <1>3, SpliceKeeps

\* The nodes of a list are left to themselves.
LEMMA EmptyKeeps ==
    ASSUME ListInv, NEW l \in Lists, Reset(l)
    PROVE  ListInv'
  <1>1. Represents(link, items) /\ link' = Emptied(link, l)
        /\ items' = With(items, l, <<>>) /\ items \in [Lists -> Seq(Nodes)]
    BY ItemsTyped DEF ListInv, Reset, With
  <1>2. /\ Represents(link', items')
        /\ Len(items'[l]) = 0
        /\ \A x \in Nodes : OnNone(items, x) =>
             link'.prev[x] = link.prev[x] /\ OnNone(items', x)
    BY <1>1, EmptyList
  <1>3. CountsAgree'
    <2>1. /\ count \in [Lists -> Nat] /\ count' = [count EXCEPT ![l] = 0]
          /\ \A q \in Lists : count[q] = Len(items[q])
      BY DEF ListInv, CountsAgree, Reset
    <2>2. ASSUME NEW q \in Lists PROVE count'[q] = Len(items'[q])
      <3>1. CASE q = l
        BY <3>1, <2>1, <1>2
      <3>2. CASE q # l
        BY <3>2, <2>1, <1>1 DEF With
      <3> QED BY <3>1, <3>2
    <2> QED BY <2>1, <2>2 DEF CountsAgree
  <1>4. UNCHANGED off
    BY DEF Reset
  <1> QED BY <1>2, <1>3, <1>4, OffKept DEF ListInv

\* The source of a move has no nodes when its dummy nodes are neighbours.
LEMMA moveEmptyKeeps ==
    ASSUME ListInv, NEW l \in Lists, NEW m \in Lists, l # m, moveEmpty(l, m)
    PROVE  ListInv'
  <1>1. /\ Represents(link, items) /\ items \in Arrangements /\ Distinct(items)
        /\ Len(items[m]) \in Nat /\ count[m] = Len(items[m])
    BY ItemsTyped DEF ListInv, CountsAgree, Represents
  <1>2. Cell(m, items[m], 1) = Cell(m, items[m], Len(items[m]) + 1)
    BY <1>1, Ends DEF moveEmpty
  <1>3. count[m] = 0
    <2>1. 1 \in 0 .. Len(items[m]) + 1 /\ Len(items[m]) + 1 \in 0 .. Len(items[m]) + 1
      BY <1>1
    <2>2. 1 = Len(items[m]) + 1
      <3>1. \A z \in 0 .. Len(items[m]) + 1 :
              Cell(m, items[m], Len(items[m]) + 1) = Cell(m, items[m], z)
                => Len(items[m]) + 1 = z
        BY <2>1, <1>1, OnePlace
      <3> QED BY <1>2, <2>1, <3>1
    <2> QED BY <2>2, <1>1
  <1>4. Reset(l)
    BY <1>3 DEF moveEmpty, Reset
  <1> QED BY <1>4, EmptyKeeps

\* One step per operation.
LEMMA OperationKeeps ==
    ASSUME ListInv, NEW l \in Lists, NEW sources, sources \subseteq Lists \ {l},
           Operation(l, sources)
    PROVE  ListInv'
  <1>1. Represents(link, items) /\ Len(items[l]) \in Nat
        /\ Places(l) = 1 .. Len(items[l])
    BY ItemsTyped DEF ListInv
  <1>2. ASSUME NEW n \in Nodes, addHead(l, n) PROVE ListInv'
    <2>1. /\ link' = Inserted(link, Cell(l, items[l], 1 - 1), n, Cell(l, items[l], 1))
          /\ Fresh(n) /\ Added(l, 1, n) /\ 1 \in 1 .. Len(items[l]) + 1
      <3>1. 1 - 1 = 0 /\ 1 \in 1 .. Len(items[l]) + 1
        BY <1>1
      <3> QED BY <1>1, <1>2, <3>1, Ends DEF addHead
    <2>2. \A i \in 1 .. Len(items[l]) + 1 :
            /\ link' = Inserted(link, Cell(l, items[l], i - 1), n, Cell(l, items[l], i))
            /\ Fresh(n) /\ Added(l, i, n)
            => ListInv'
      BY AddNode
    <2> QED BY <2>1, <2>2
  <1>3. ASSUME NEW n \in Nodes, addTail(l, n) PROVE ListInv'
    <2> DEFINE i == Len(items[l]) + 1
    <2>1. /\ link' = Inserted(link, Cell(l, items[l], i - 1), n, Cell(l, items[l], i))
          /\ Fresh(n) /\ Added(l, i, n) /\ i \in 1 .. Len(items[l]) + 1
      <3>1. i - 1 = Len(items[l]) /\ i \in 1 .. Len(items[l]) + 1
        BY <1>1
      <3> QED BY <1>1, <1>3, <3>1, Ends DEF addTail
    <2> HIDE DEF i
    <2> QED BY <2>1, AddNode
  <1>4. ASSUME NEW n \in Nodes, NEW p \in Places(l), insert(l, n, p) PROVE ListInv'
    <2> DEFINE i == p + 1
    <2>1. /\ link' = Inserted(link, Cell(l, items[l], i - 1), n, Cell(l, items[l], i))
          /\ Fresh(n) /\ Added(l, i, n) /\ i \in 1 .. Len(items[l]) + 1
      <3>1. p \in 1 .. Len(items[l]) /\ p \in 0 .. Len(items[l]) /\ i - 1 = p
            /\ i \in 1 .. Len(items[l]) + 1
        BY <1>1
      <3>2. Cell(l, items[l], p) = items[l][p]
        BY <3>1, <1>1 DEF Cell
      <3>3. link.next[Cell(l, items[l], p)] = Cell(l, items[l], p + 1)
        BY <3>1, <1>1, ChainStep
      <3> QED BY <1>4, <3>1, <3>2, <3>3 DEF insert
    <2> HIDE DEF i
    <2> QED BY <2>1, AddNode
  <1>5. CASE remHead(l)
    <2> DEFINE n == link.next[HeadOf(l)]
    <2>1. n = Cell(l, items[l], 1) /\ n # TailOf(l)
      BY <1>1, <1>5, Ends DEF remHead
    <2>2. 1 \in 1 .. Len(items[l]) /\ 0 \in 0 .. Len(items[l])
      BY <1>1, <2>1 DEF Cell
    <2>3. n = items[l][1] /\ link.prev[n] = HeadOf(l)
      <3>1. n = items[l][1]
        BY <2>1, <2>2, <1>1 DEF Cell
      <3>2. link.prev[Cell(l, items[l], 0 + 1)] = Cell(l, items[l], 0)
        BY <2>2, <1>1, ChainStep
      <3>3. 0 + 1 = 1 /\ Cell(l, items[l], 0) = HeadOf(l)
        BY DEF Cell
      <3> QED BY <3>1, <3>2, <3>3, <2>1
    <2>4. link' = Cleared(Bypassed(link, n), n) /\ TakenOff(l, 1, n)
      BY <1>5, <2>3 DEF remHead, Bypassed
    <2> HIDE DEF n
    <2>5. \A i \in 1 .. Len(items[l]) : n = items[l][i] /\ TakenOff(l, i, n) => ListInv'
      BY <2>4, TakeNode
    <2> QED BY <2>2, <2>3, <2>4, <2>5
  <1>6. ASSUME NEW i \in Places(l), remove(l, i) PROVE ListInv'
    <2> DEFINE n == items[l][i]
    <2>1. link' = Cleared(Bypassed(link, n), n) /\ TakenOff(l, i, n)
          /\ i \in 1 .. Len(items[l])
      BY <1>1, <1>6 DEF remove
    <2> HIDE DEF n
    <2>2. n = items[l][i]
      BY DEF n
    <2> QED BY <2>1, <2>2, TakeNode
  <1>7. ASSUME NEW n \in Nodes, removeAgain(n) PROVE ListInv'
    BY <1>7 DEF removeAgain, vars, ListInv, CountsAgree, OffAreClear
  <1>8. ASSUME NEW m \in sources,
               \/ \E i \in Places(m) : AppendItem(l, m, i)
               \/ AppendList(l, m) \/ moveList(l, m) \/ moveEmpty(l, m)
        PROVE  ListInv'
    <2>1. m \in Lists /\ l # m
      OBVIOUS
    <2>2. ASSUME NEW i \in Places(m), AppendItem(l, m, i) PROVE ListInv'
      BY <2>1, <2>2, AppendItemKeeps
    <2>3. CASE AppendList(l, m)
      BY <2>1, <2>3, AppendListKeeps
    <2>4. CASE moveList(l, m)
      BY <2>1, <2>4, moveListKeeps
    <2>5. CASE moveEmpty(l, m)
      BY <2>1, <2>5, moveEmptyKeeps
    <2> QED BY <1>8, <2>2, <2>3, <2>4, <2>5
  <1>9. CASE Reset(l)
    BY <1>9, EmptyKeeps
  <1> QED BY <1>2, <1>3, <1>4, <1>5, <1>6, <1>7, <1>8, <1>9 DEF Operation

LEMMA InitHolds ==
    ASSUME Init
    PROVE  ListInv
  <1>1. /\ count = [l \in Lists |-> 0] /\ items = [l \in Lists |-> <<>>] /\ off = {}
    BY DEF Init
  <1>2. PICK g \in {Null, Garbage} :
          link = [prev |-> [c \in Cells |->
                             IF c \in Nodes THEN g
                             ELSE IF c[1] = "head" THEN Null ELSE HeadOf(c[2])],
                  next |-> [c \in Cells |->
                             IF c \in Nodes THEN g
                             ELSE IF c[1] = "tail" THEN Null ELSE TailOf(c[2])]]
    BY DEF Init
  <1>3. link \in Links
    <2>1. \A c \in Cells : c \notin Nodes /\ c[1] # "head" => HeadOf(c[2]) \in Cells
      BY DEF Cells, HeadOf, TailOf
    <2>2. \A c \in Cells : c \notin Nodes /\ c[1] # "tail" => TailOf(c[2]) \in Cells
      BY DEF Cells, HeadOf, TailOf
    <2> QED BY <1>2, <2>1, <2>2 DEF Links, Pointers
  <1>4. ASSUME NEW l \in Lists
        PROVE  items[l] = <<>> /\ Chain(link, l, items[l])
    <2>1. items[l] = <<>> /\ Len(items[l]) = 0
      BY <1>1
    <2>2. /\ HeadOf(l) \in Cells /\ HeadOf(l) \notin Nodes
          /\ HeadOf(l)[1] = "head" /\ HeadOf(l)[2] = l
          /\ TailOf(l) \in Cells /\ TailOf(l) \notin Nodes
          /\ TailOf(l)[1] = "tail" /\ TailOf(l)[2] = l
      BY DummyCells DEF HeadOf, TailOf
    <2>3. /\ link.prev[HeadOf(l)] = Null /\ link.next[TailOf(l)] = Null
          /\ link.next[HeadOf(l)] = TailOf(l) /\ link.prev[TailOf(l)] = HeadOf(l)
      BY <1>2, <2>2
    <2>4. ASSUME NEW i \in 0 .. Len(items[l])
          PROVE  /\ link.next[Cell(l, items[l], i)] = Cell(l, items[l], i + 1)
                 /\ link.prev[Cell(l, items[l], i + 1)] = Cell(l, items[l], i)
      <3>1. i = 0 /\ Len(items[l]) + 1 = 1 /\ i + 1 = 1
        BY <2>1
      <3>2. Cell(l, items[l], i) = HeadOf(l) /\ Cell(l, items[l], i + 1) = TailOf(l)
        BY <3>1 DEF Cell
      <3> QED BY <3>2, <2>3
    <2> QED BY <2>1, <2>3, <2>4 DEF Chain
  <1>5. Represents(link, items)
    <2>1. items \in Arrangements /\ Distinct(items)
      BY <1>1, EmptySeq DEF Arrangements, Distinct
    <2> QED BY <1>3, <1>4, <2>1 DEF Represents
  <1> QED BY <1>1, <1>4, <1>5 DEF ListInv, CountsAgree, OffAreClear

LEMMA StutterKeeps ==
    ASSUME ListInv, UNCHANGED vars
    PROVE  ListInv'
  BY DEF ListInv, CountsAgree, OffAreClear, vars

LEMMA InvType ==
    ASSUME ListInv
    PROVE  TypeOK
  BY DEF ListInv, Represents, CountsAgree, OffAreClear, TypeOK, Links, Arrangements

LEMMA InvLinked ==
    ASSUME ListInv
    PROVE  Linked
  BY DEF ListInv, Represents, CountsAgree, Linked

LEMMA InvTells ==
    ASSUME ListInv
    PROVE  IsOnListTells
  <1> SUFFICES ASSUME NEW n \in Nodes
               PROVE  /\ n \in off => ~IsOnList(n) /\ Fresh(n)
                      /\ ~Fresh(n) => IsOnList(n)
    BY DEF IsOnListTells
  <1>1. n \in off => ~IsOnList(n) /\ Fresh(n)
    BY DEF ListInv, OffAreClear, IsOnList, Fresh, OnNone, Members, Places
  <1>2. ASSUME ~Fresh(n) PROVE IsOnList(n)
    <2>1. PICK l \in Lists : \E i \in Places(l) : items[l][i] = n
      BY <1>2 DEF Fresh, Members
    <2>2. PICK i \in Places(l) : items[l][i] = n
      BY <2>1
    <2>3. Represents(link, items) /\ items[l] \in Seq(Nodes) /\ Len(items[l]) \in Nat
          /\ i \in 1 .. Len(items[l])
      BY ItemsTyped DEF ListInv
    <2> DEFINE h == i - 1
    <2>4. h \in 0 .. Len(items[l]) /\ h + 1 = i /\ h \in 0 .. Len(items[l]) + 1
          /\ i # 0 /\ i # Len(items[l]) + 1
      BY <2>3
    <2>5. Cell(l, items[l], i) = n
      BY <2>2, <2>4 DEF Cell
    <2> HIDE DEF h
    <2>6. link.prev[Cell(l, items[l], h + 1)] = Cell(l, items[l], h)
      BY <2>3, <2>4, ChainStep
    <2>7. Cell(l, items[l], h) \in Cells
      BY <2>3, <2>4, CellInCells
    <2> QED BY <2>4, <2>5, <2>6, <2>7, ListAssumption DEF IsOnList
  <1> QED BY <1>1, <1>2

--------------------------------------------------------------------------------
LEMMA ListInvariant == Spec => []ListInv
  <1>1. Init => ListInv
    BY InitHolds
  <1>2. ListInv /\ [Next]_vars => ListInv'
    <2> SUFFICES ASSUME ListInv, [Next]_vars PROVE ListInv'
      OBVIOUS
    <2>1. ASSUME NEW l \in Lists, Operation(l, Lists \ {l}) PROVE ListInv'
      <3> DEFINE sources == Lists \ {l}
      <3>1. sources \subseteq Lists \ {l} /\ Operation(l, sources)
        BY <2>1
      <3> HIDE DEF sources
      <3> QED BY <3>1, OperationKeeps
    <2>2. CASE UNCHANGED vars
      BY <2>2, StutterKeeps
    <2> QED BY <2>1, <2>2 DEF Next
  <1> QED BY <1>1, <1>2, PTL DEF Spec

\* The links and counts of the lists stay what the callers have made of them,
\* whatever nodes are added, removed, moved, spliced and discarded, in any order
\* (the operations of StdList.h), for any number of lists and nodes.
THEOREM LinksHold == Spec => []Linked
  BY ListInvariant, InvLinked, PTL

\* isOnList() tells a node that is on a list from one that was taken off, so
\* that remove() may be called for either.
THEOREM OnListIsTold == Spec => []IsOnListTells
  BY ListInvariant, InvTells, PTL

THEOREM ListTypeCorrect == Spec => []TypeOK
  BY ListInvariant, InvType, PTL

--------------------------------------------------------------------------------
(***************************************************************************)
(* The sort.  Its pointers are kept in place by the invariant of the lists *)
(* and by each other; the nodes left are counted from P.                   *)
(***************************************************************************)
SortRecord == [at : Steps, list : Lists, p : Pointers, q : Pointers, psize : Nat,
               qsize : Int, insize : Nat, merges : Nat, from : Seq(Nodes)]

SortTypeOK ==
    /\ sort \in SortRecord
    /\ sort.at # "idle" => sort.list \in InUse

\* An operation touches the lists it is given.
LEMMA OthersKept ==
    ASSUME NEW l \in Lists, NEW sources, sources \subseteq Lists,
           items \in [Lists -> Seq(Nodes)], Operation(l, sources),
           NEW q \in Lists, q # l, q \notin sources
    PROVE  items'[q] = items[q]
  <1>1. ASSUME NEW n \in Nodes, addHead(l, n) \/ addTail(l, n) PROVE items'[q] = items[q]
    BY <1>1 DEF addHead, addTail, Added
  <1>2. ASSUME NEW n \in Nodes, NEW i \in Places(l), insert(l, n, i)
        PROVE  items'[q] = items[q]
    BY <1>2 DEF insert, Added
  <1>3. CASE remHead(l)
    BY <1>3 DEF remHead, TakenOff
  <1>4. ASSUME NEW i \in Places(l), remove(l, i) PROVE items'[q] = items[q]
    BY <1>4 DEF remove, TakenOff
  <1>5. ASSUME NEW n \in Nodes, removeAgain(n) PROVE items'[q] = items[q]
    BY <1>5 DEF removeAgain, vars
  <1>6. ASSUME NEW m \in sources, NEW i \in Places(m), AppendItem(l, m, i)
        PROVE  items'[q] = items[q]
    BY <1>6 DEF AppendItem
  <1>7. ASSUME NEW m \in sources, AppendList(l, m) \/ moveList(l, m) \/ moveEmpty(l, m)
        PROVE  items'[q] = items[q]
    BY <1>7 DEF AppendList, moveList, moveEmpty
  <1>8. CASE Reset(l)
    BY <1>8 DEF Reset
  <1> QED BY <1>1, <1>2, <1>3, <1>4, <1>5, <1>6, <1>7, <1>8 DEF Operation

LEMMA MovedKeeps ==
    ASSUME ListInv, sort.list \in InUse, NEW e, Moved(e)
    PROVE  ListInv'
  <1>1. PICK i \in Places(sort.list) : AppendItem(Local, sort.list, i)
    BY DEF Moved
  <1>2. sort.list \in Lists /\ Local \in Lists /\ Local # sort.list
    BY SortAssumption DEF InUse
  <1> DEFINE m == sort.list
  <1>3. m \in Lists /\ i \in Places(m) /\ AppendItem(Local, m, i)
    BY <1>1, <1>2
  <1> QED BY <1>2, <1>3, AppendItemKeeps

LEMMA SortKeepsLists ==
    ASSUME ListInv, SortTypeOK, [SNext]_svars
    PROVE  ListInv'
  <1>1. ASSUME NEW l \in InUse, Uses(l) PROVE ListInv'
    <2> DEFINE sources == InUse \ {l}
    <2>1. l \in Lists /\ sources \subseteq Lists \ {l} /\ Operation(l, sources)
      BY <1>1 DEF InUse, Uses
    <2> HIDE DEF sources
    <2> QED BY <2>1, OperationKeeps
  <1>2. ASSUME NEW l \in InUse, Call(l) PROVE ListInv'
    BY <1>2, StutterKeeps DEF Call
  <1>3. CASE Begin \/ Step \/ Merged
    BY <1>3, StutterKeeps DEF Begin, Step, Merged
  <1>4. CASE TakeP
    BY <1>4, MovedKeeps DEF TakeP, SortTypeOK
  <1>5. CASE TakeQ
    BY <1>5, MovedKeeps DEF TakeQ, SortTypeOK
  <1>6. CASE PassDone
    <2>1. CASE UNCHANGED vars
      BY <2>1, StutterKeeps
    <2>2. CASE moveList(sort.list, Local)
      <3> DEFINE m == sort.list
      <3>1. m \in Lists /\ Local \in Lists /\ m # Local /\ moveList(m, Local)
        BY <1>6, <2>2, SortAssumption DEF PassDone, SortTypeOK, InUse
      <3> HIDE DEF m
      <3> QED BY <3>1, moveListKeeps
    <2> QED BY <1>6, <2>1, <2>2 DEF PassDone, MovedBack
  <1>7. CASE UNCHANGED svars
    BY <1>7, StutterKeeps DEF svars
  <1> QED BY <1>1, <1>2, <1>3, <1>4, <1>5, <1>6, <1>7 DEF SNext, Sorting

\* Following a link from a cell that is not the end of the list.
LEMMA NextCell ==
    ASSUME Represents(link, items), NEW l \in Lists, NEW h \in 0 .. Len(items[l]) + 1,
           Cell(l, items[l], h) # TailOf(l)
    PROVE  /\ h <= Len(items[l])
           /\ link.next[Cell(l, items[l], h)] = Cell(l, items[l], h + 1)
  <1>1. Len(items[l]) \in Nat
    BY ItemsTyped
  <1>2. h <= Len(items[l])
    <2>1. h # Len(items[l]) + 1
      BY Ends
    <2> QED BY <1>1, <2>1
  <1>3. h \in 0 .. Len(items[l])
    BY <1>1, <1>2
  <1> QED BY <1>2, <1>3, ChainStep

LEMMA LinksArePointers ==
    ASSUME Represents(link, items), NEW c \in Cells
    PROVE  link.next[c] \in Pointers
  BY DEF Represents, Links

\* The cells behind a node that is removed move up.
CellsMoveUp(m, u, v, h) ==
    /\ \A z \in 0 .. h - 1 : Cell(m, v, z) = Cell(m, u, z)
    /\ \A z \in h .. Len(u) : Cell(m, v, z) = Cell(m, u, z + 1)

LEMMA RemovedCells ==
    ASSUME NEW u \in Seq(Nodes), NEW c \in Nat, c = Len(u), NEW h \in 1 .. c,
           NEW e, e = u[h], NEW v, v = RemoveAt(u, h), NEW m \in Lists
    PROVE  /\ Len(v) = c - 1
           /\ CellsMoveUp(m, u, v, h)
           /\ Range(u) = Range(v) \cup {e}
  <1>1. c \in Nat /\ DOMAIN u = 1 .. c
    OBVIOUS
  <1>2. h \in Int /\ 1 <= h /\ h <= c
    OBVIOUS
  <1>6. /\ v \in Seq(Nodes) /\ Len(v) = c - 1 /\ DOMAIN v = 1 .. c - 1
        /\ \A z \in 1 .. c - 1 : z < h => v[z] = u[z]
        /\ \A z \in 1 .. c - 1 : z >= h => v[z] = u[z + 1]
    <2>1. v \in Seq(Nodes) /\ Len(v) = c - 1
      BY RemoveAtFacts
    <2>2. ASSUME NEW z \in 1 .. c - 1
          PROVE  (z < h => v[z] = u[z]) /\ (z >= h => v[z] = u[z + 1])
      BY RemoveAtFacts
    <2> QED BY <2>1, <2>2
  <1>7. ASSUME NEW z \in 0 .. h - 1 PROVE Cell(m, v, z) = Cell(m, u, z)
    <2>1. CASE z = 0
      BY <2>1 DEF Cell
    <2>2. CASE z # 0
      <3>1. z \in 1 .. c - 1 /\ z < h /\ z # c + 1 /\ z # c - 1 + 1
        BY <2>2, <1>1, <1>2
      <3> QED BY <3>1, <2>2, <1>6 DEF Cell
    <2> QED BY <2>1, <2>2
  <1>8. ASSUME NEW z \in h .. c PROVE Cell(m, v, z) = Cell(m, u, z + 1)
    <2>1. CASE z = c
      <3>1. z # 0 /\ z = Len(v) + 1 /\ z + 1 = c + 1 /\ z + 1 # 0
        BY <2>1, <1>1, <1>6
      <3>2. Cell(m, v, z) = TailOf(m)
        BY <3>1 DEF Cell
      <3>3. Cell(m, u, z + 1) = TailOf(m)
        BY <3>1, <1>1 DEF Cell
      <3> QED BY <3>2, <3>3
    <2>2. CASE z # c
      <3>1. z \in 1 .. c - 1 /\ z >= h /\ z # 0 /\ z # Len(v) + 1
            /\ z + 1 # c + 1 /\ z + 1 # 0
        BY <2>2, <1>1, <1>2, <1>6
      <3>2. v[z] = u[z + 1]
        BY <3>1, <1>6
      <3> DEFINE y == z + 1
      <3>3. Cell(m, v, z) = v[z]
        BY <3>1 DEF Cell
      <3>4. y # c + 1 /\ y # 0 /\ v[z] = u[y]
        BY <3>1, <3>2
      <3> HIDE DEF y
      <3>5. Cell(m, u, y) = u[y]
        BY <3>4 DEF Cell
      <3> QED BY <3>3, <3>4, <3>5 DEF y
    <2> QED BY <2>1, <2>2
  <1>9. ASSUME NEW x
        PROVE  (\E z \in DOMAIN u : u[z] = x) <=> (\E z \in DOMAIN v : v[z] = x) \/ x = e
    <2>1. ASSUME NEW z \in DOMAIN u, u[z] = x
          PROVE  (\E y \in DOMAIN v : v[y] = x) \/ x = e
      <3>1. CASE z < h
        <4>1. z \in 1 .. c - 1
          BY <3>1, <1>1
        <4> QED BY <4>1, <3>1, <2>1, <1>6
      <3>2. CASE z = h
        BY <3>2, <2>1
      <3>3. CASE z > h
        <4> DEFINE y == z - 1
        <4>1. y \in 1 .. c - 1 /\ y >= h /\ y + 1 = z
          BY <3>3, <1>1
        <4> HIDE DEF y
        <4>2. v[y] = u[z]
          BY <4>1, <1>6
        <4> QED BY <4>1, <4>2, <2>1, <1>6
      <3>4. z < h \/ z = h \/ z > h
        BY <1>1
      <3> QED BY <3>1, <3>2, <3>3, <3>4
    <2>2. ASSUME NEW z \in DOMAIN v, v[z] = x PROVE \E y \in DOMAIN u : u[y] = x
      <3>1. CASE z < h
        <4>1. v[z] = u[z] /\ z \in DOMAIN u
          BY <3>1, <1>1, <1>6
        <4> QED BY <4>1, <2>2
      <3>2. CASE z >= h
        <4> DEFINE y == z + 1
        <4>1. v[z] = u[y] /\ y \in DOMAIN u
          BY <3>2, <1>1, <1>6
        <4> HIDE DEF y
        <4> QED BY <4>1, <2>2
      <3>3. z < h \/ z >= h
        BY <1>6
      <3> QED BY <3>1, <3>2, <3>3
    <2>3. e = u[h] /\ h \in DOMAIN u
      BY <1>1
    <2> QED BY <2>1, <2>2, <2>3
  <1>10. Range(u) = Range(v) \cup {e}
    BY <1>9 DEF Range
  <1> QED BY <1>6, <1>7, <1>8, <1>10 DEF CellsMoveUp

\* The nodes of a list and of the local one.
Together(s, l) == Range(s[l]) \cup Range(s[Local])

\* Moving the node at place h of the list: the cells behind it move up, and
\* the two lists together keep their nodes.
LEMMA MovedPlace ==
    ASSUME ListInv, NEW m \in InUse, sort.list = m, NEW h \in 1 .. Len(items[m]),
           NEW e, e = items[m][h], Moved(e)
    PROVE  /\ Len(items'[m]) = Len(items[m]) - 1
           /\ \A z \in 0 .. h - 1 : Cell(m, items'[m], z) = Cell(m, items[m], z)
           /\ \A z \in h .. Len(items[m]) : Cell(m, items'[m], z) = Cell(m, items[m], z + 1)
           /\ Together(items', m) = Together(items, m)
  <1> DEFINE u == items[m]
             v == items'[m]
             a == items[Local]
             b == items'[Local]
  <1>1. /\ m \in Lists /\ Local \in Lists /\ Local # m
        /\ items \in [Lists -> Seq(Nodes)] /\ Distinct(items)
        /\ u \in Seq(Nodes) /\ a \in Seq(Nodes) /\ Len(u) \in Nat /\ DOMAIN u = 1 .. Len(u)
    BY SortAssumption DEF InUse, ListInv, Represents, Arrangements
  <1>2. PICK i \in Places(m) : items[m][i] = e /\ AppendItem(Local, m, i)
    BY DEF Moved
  <1>3. i = h
    <2>1. i \in DOMAIN items[m] /\ h \in DOMAIN items[m] /\ items[m][i] = items[m][h]
      BY <1>1, <1>2 DEF Places
    <2> QED BY <2>1, <1>1 DEF Distinct
  <1>4. v = RemoveAt(u, h) /\ b = Append(a, e)
    BY <1>1, <1>2, <1>3 DEF AppendItem
  <1>5. e \in Nodes
    BY <1>1
  <1> HIDE DEF u, v, a, b
  <1>h. h \in 1 .. Len(u) /\ e = u[h]
    BY DEF u
  <1>6. /\ Len(v) = Len(u) - 1
        /\ CellsMoveUp(m, u, v, h)
        /\ Range(u) = Range(v) \cup {e}
    <2> DEFINE c == Len(u)
    <2>1. u \in Seq(Nodes) /\ c \in Nat /\ c = Len(u) /\ h \in 1 .. c /\ e = u[h]
          /\ v = RemoveAt(u, h) /\ m \in Lists
      BY <1>1, <1>4, <1>h
    <2> HIDE DEF c
    <2>2. Len(v) = c - 1 /\ CellsMoveUp(m, u, v, h)
      BY <2>1, RemovedCells
    <2>3. Range(u) = Range(v) \cup {e}
      BY <2>1, RemovedCells
    <2> QED BY <2>2, <2>3 DEF c
  <1>10. /\ \A z \in DOMAIN a : z \in DOMAIN b /\ b[z] = a[z]
         /\ \A z \in DOMAIN b : (z \in DOMAIN a /\ b[z] = a[z]) \/ b[z] = e
         /\ Len(a) + 1 \in DOMAIN b /\ b[Len(a) + 1] = e
    BY <1>1, <1>4, <1>5
  <1>11. Range(b) = Range(a) \cup {e}
    BY <1>10 DEF Range
  <1>12. Together(items', m) = Together(items, m)
    BY <1>6, <1>11 DEF Together, u, v, a, b
  <1> QED BY <1>6, <1>12 DEF u, v, CellsMoveUp

SortInv == ListInv /\ SortTypeOK /\ PointersInPlace /\ LosesNoNode

SortHolds == SortTypeOK /\ PointersInPlace /\ LosesNoNode

\* While a sort is under way its list is not the local one.
LEMMA ListOfSort ==
    ASSUME SortInv, sort.at # "idle", NEW m, m = sort.list
    PROVE  /\ m \in InUse /\ m \in Lists /\ Local \in Lists /\ Local # m
           /\ Represents(link, items) /\ items[m] \in Seq(Nodes)
           /\ Len(items[m]) \in Nat
  BY ItemsTyped, SortAssumption DEF SortInv, SortTypeOK, InUse, ListInv

LEMMA SortTyped ==
    ASSUME SortInv, sort.at # "idle"
    PROVE  /\ sort \in SortRecord /\ sort.list \in InUse
           /\ sort.p \in Pointers /\ sort.q \in Pointers /\ sort.psize \in Nat
           /\ sort.qsize \in Int /\ sort.insize \in Nat /\ sort.merges \in Nat
  BY DEF SortInv, SortTypeOK, SortRecord

LEMMA NodesStay ==
    ASSUME SortInv, sort.at # "idle",
           Together(items', sort.list) = Together(items, sort.list),
           sort'.list = sort.list, sort'.from = sort.from
    PROVE  LosesNoNode'
  <1>1. Together(items, sort.list) = {sort.from[i] : i \in DOMAIN sort.from}
    BY DEF SortInv, LosesNoNode, Members, Places, Together, Range
  <1>2. Together(items', sort'.list) = {sort'.from[i] : i \in DOMAIN sort'.from}
    BY <1>1
  <1> QED BY <1>2 DEF LosesNoNode, Members, Places, Together, Range

LEMMA CallHolds ==
    ASSUME SortInv, NEW l \in InUse, Call(l)
    PROVE  SortHolds'
  <1>1. /\ l \in Lists /\ Local \in Lists /\ Represents(link, items)
        /\ link.next[HeadOf(l)] = Cell(l, items[l], 1)
        /\ items[l] \in Seq(Nodes) /\ items[Local] = <<>>
        /\ HeadOf(l) \in Cells
    BY ItemsTyped, Ends, DummyCells, SortAssumption
       DEF SortInv, ListInv, InUse, PointersInPlace, Call
  <1>2. /\ sort' = [sort EXCEPT !.at = "pass", !.list = l, !.p = link.next[HeadOf(l)],
                                !.insize = 1, !.merges = 0, !.from = items[l]]
        /\ items' = items
    BY DEF Call, vars
  <1>3. SortTypeOK'
    <2>1. link.next[HeadOf(l)] \in Pointers
      BY <1>1, LinksArePointers
    <2> QED BY <1>1, <1>2, <2>1 DEF SortInv, SortTypeOK, SortRecord, Steps
  <1>4. sort'.at = "pass" /\ sort'.list = l /\ sort'.p = link.next[HeadOf(l)]
        /\ sort'.from = items[l]
    BY <1>2 DEF SortInv, SortTypeOK, SortRecord
  <1>5. PointersInPlace'
    BY <1>1, <1>2, <1>4 DEF PointersInPlace, Left
  <1>6. LosesNoNode'
    <2>1. Members(l)' = {items[l][i] : i \in DOMAIN items[l]} /\ Members(Local)' = {}
      BY <1>1, <1>2 DEF Members, Places
    <2> QED BY <1>4, <2>1 DEF LosesNoNode
  <1> QED BY <1>3, <1>5, <1>6 DEF SortHolds

LEMMA BeginHolds ==
    ASSUME SortInv, Begin
    PROVE  SortHolds'
  <1> DEFINE m == sort.list
  <1>1. m = sort.list /\ sort.at = "pass" /\ Represents(link, items) /\ Len(items[m]) \in Nat
        /\ sort.p = Left(1) /\ ~AtEnd(sort.p)
    BY ListOfSort DEF SortInv, PointersInPlace, Begin
  <1>2. /\ sort' = [sort EXCEPT !.at = "step", !.q = sort.p, !.psize = 0, !.merges = @ + 1]
        /\ items' = items
    BY DEF Begin, vars
  <1>3. SortTypeOK'
    <2>1. sort.at # "idle"
      BY <1>1
    <2>2. sort' \in SortRecord /\ sort'.list = sort.list
      <3>1. sort \in SortRecord /\ sort.p \in Pointers /\ sort.merges \in Nat
        BY <2>1, SortTyped
      <3>2. sort.merges + 1 \in Nat
        BY <3>1
      <3> DEFINE a == sort.p
                 b == sort.merges + 1
      <3>3. sort' = [sort EXCEPT !.at = "step", !.q = a, !.psize = 0, !.merges = b]
            /\ a \in Pointers /\ b \in Nat
        BY <1>2, <3>1, <3>2
      <3> HIDE DEF a, b, m
      <3> QED BY <3>1, <3>3 DEF SortRecord, Steps
    <2> QED BY <2>1, <2>2, SortTyped DEF SortTypeOK
  <1>4. sort'.at = "step" /\ sort'.list = m /\ sort'.p = sort.p /\ sort'.q = sort.p
        /\ sort'.psize = 0 /\ sort'.from = sort.from
    BY <1>2 DEF SortInv, SortTypeOK, SortRecord
  <1>5. PointersInPlace'
    BY <1>1, <1>2, <1>4 DEF PointersInPlace, Left, AtEnd
  <1>6. LosesNoNode'
    BY <1>1, <1>2, <1>4, NodesStay
  <1> QED BY <1>3, <1>5, <1>6 DEF SortHolds

LEMMA StepHolds ==
    ASSUME SortInv, Step
    PROVE  SortHolds'
  <1> DEFINE m == sort.list
             h == sort.psize + 1
             u == items[m]
  <1>1. /\ sort.at = "step" /\ m \in InUse /\ m \in Lists
        /\ Represents(link, items) /\ u \in Seq(Nodes) /\ Len(u) \in Nat
        /\ sort.psize \in 0 .. Len(u)
        /\ sort.q = Cell(m, u, h) /\ sort.q # TailOf(m)
        /\ sort.psize > 0 => sort.p = Cell(m, u, 1)
        /\ sort.psize = 0 => sort.p = sort.q
    BY ListOfSort DEF SortInv, PointersInPlace, Step, AtEnd, Left
  <1>2. h \in 0 .. Len(u) + 1 /\ h \in Nat /\ h > 0 /\ (sort.psize = 0 => h = 1)
    BY <1>1
  <1>3. h <= Len(u) /\ link.next[sort.q] = Cell(m, u, h + 1)
    BY <1>1, <1>2, NextCell
  <1>4. sort.p = Cell(m, u, 1)
    BY <1>1, <1>2
  <1>5. /\ sort' = [sort EXCEPT !.q = link.next[sort.q], !.psize = @ + 1,
                                !.qsize = sort.insize,
                                !.at = IF AtEnd(link.next[sort.q])
                                          \/ sort.psize + 1 = sort.insize
                                         THEN "merge" ELSE "step"]
        /\ items' = items
    BY DEF Step, vars
  <1>6. SortTypeOK'
    <2>1. link.next[sort.q] \in Pointers
      BY <1>1, <1>2, CellInCells, LinksArePointers
    <2>2. sort.at # "idle"
      BY <1>1
    <2>3. sort' \in SortRecord /\ sort'.list = sort.list
      <3>1. sort \in SortRecord /\ sort.psize \in Nat /\ sort.insize \in Nat
        BY <2>2, SortTyped
      <3> DEFINE a == link.next[sort.q]
                 b == sort.psize + 1
                 c == sort.insize
                 d == IF AtEnd(a) \/ b = c THEN "merge" ELSE "step"
      <3>2. sort' = [sort EXCEPT !.q = a, !.psize = b, !.qsize = c, !.at = d]
            /\ a \in Pointers /\ b \in Nat /\ c \in Int /\ d \in Steps
        BY <1>5, <2>1, <3>1 DEF Steps
      <3> HIDE DEF a, b, c, d, m, h, u
      <3> QED BY <3>1, <3>2 DEF SortRecord
    <2> QED BY <2>2, <2>3, SortTyped DEF SortTypeOK
  <1>7. /\ sort'.list = m /\ sort'.p = sort.p /\ sort'.q = link.next[sort.q]
        /\ sort'.psize = h /\ sort'.from = sort.from
        /\ sort'.at \in {"step", "merge"}
        /\ sort'.at = "step" => ~(link.next[sort.q] = TailOf(m))
    BY <1>5 DEF SortInv, SortTypeOK, SortRecord, AtEnd
  <1>8. PointersInPlace'
    <2>1. sort'.psize \in 0 .. Len(u)
      BY <1>1, <1>2, <1>3, <1>7
    <2> HIDE DEF h
    <2> QED BY <1>2, <1>3, <1>4, <1>5, <1>7, <2>1 DEF PointersInPlace, Left, AtEnd
  <1>9. LosesNoNode'
    BY <1>1, <1>5, <1>7, NodesStay
  <1> QED BY <1>6, <1>8, <1>9 DEF SortHolds

LEMMA MergedHolds ==
    ASSUME SortInv, Merged
    PROVE  SortHolds'
  <1> DEFINE m == sort.list
  <1>1. sort.at = "merge" /\ sort.psize = 0 /\ sort.q = Left(sort.psize + 1)
    BY ListOfSort DEF SortInv, SortTypeOK, SortRecord, PointersInPlace, Merged, HasP
  <1>2. /\ sort' = [sort EXCEPT !.at = "pass", !.p = sort.q, !.q = Null]
        /\ items' = items
    BY DEF Merged, vars
  <1>3. SortTypeOK'
    BY <1>1, <1>2 DEF SortInv, SortTypeOK, SortRecord, Steps, Pointers
  <1>4. sort'.at = "pass" /\ sort'.list = m /\ sort'.p = sort.q /\ sort'.from = sort.from
    BY <1>2 DEF SortInv, SortTypeOK, SortRecord
  <1>5. PointersInPlace'
    BY <1>1, <1>2, <1>4 DEF PointersInPlace, Left
  <1>6. LosesNoNode'
    BY <1>1, <1>2, <1>4, NodesStay
  <1> QED BY <1>3, <1>5, <1>6 DEF SortHolds

LEMMA TakePHolds ==
    ASSUME SortInv, TakeP
    PROVE  SortHolds'
  <1> DEFINE m == sort.list
             u == items[m]
             v == items'[m]
  <1>1. /\ sort.at = "merge" /\ m \in InUse /\ m \in Lists
        /\ Represents(link, items) /\ u \in Seq(Nodes) /\ Len(u) \in Nat
        /\ sort.psize \in 1 .. Len(u)
        /\ sort.p = Cell(m, u, 1) /\ sort.q = Cell(m, u, sort.psize + 1)
        /\ Moved(sort.p)
    BY ListOfSort DEF SortInv, PointersInPlace, TakeP, FromP, HasP, Left
  <1>2. 1 \in 1 .. Len(u) /\ 1 \in 0 .. Len(u) + 1 /\ 1 # Len(u) + 1
    BY <1>1
  <1>3. sort.p = u[1]
    BY <1>1, <1>2 DEF Cell
  <1>4. /\ Len(v) = Len(u) - 1
        /\ \A z \in 1 .. Len(u) : Cell(m, v, z) = Cell(m, u, z + 1)
        /\ Together(items', m) = Together(items, m)
    <2> DEFINE n == m
    <2>1. n \in InUse /\ sort.list = n /\ ListInv /\ Moved(sort.p)
          /\ sort.p = items[n][1] /\ 1 \in 1 .. Len(items[n])
      BY <1>1, <1>2, <1>3 DEF SortInv
    <2> HIDE DEF n
    <2>2. \A h \in 1 .. Len(items[n]) : sort.p = items[n][h] =>
            /\ Len(items'[n]) = Len(items[n]) - 1
            /\ \A z \in h .. Len(items[n]) :
                 Cell(n, items'[n], z) = Cell(n, items[n], z + 1)
            /\ Together(items', n) = Together(items, n)
      BY <2>1, MovedPlace
    <2> QED BY <2>1, <2>2 DEF n
  <1>5. link.next[sort.p] = Cell(m, u, 2)
    <2>1. Cell(m, u, 1) # TailOf(m)
      BY <1>1, <1>3, DummyCells
    <2>2. link.next[Cell(m, u, 1)] = Cell(m, u, 1 + 1)
      BY <1>1, <1>2, <2>1, NextCell
    <2> QED BY <1>1, <2>2
  <1>6. sort' = [sort EXCEPT !.p = link.next[sort.p], !.psize = sort.psize - 1]
    BY DEF TakeP
  <1>7. sort.at # "idle" /\ sort \in SortRecord /\ sort.psize - 1 \in Nat
        /\ link.next[sort.p] \in Pointers
    <2>1. link.next[sort.p] \in Pointers
      BY <1>1, <1>2, CellInCells, LinksArePointers
    <2> QED BY <1>1, <2>1, SortTyped
  <1>8. SortTypeOK'
    <2>1. sort' \in SortRecord /\ sort'.list = sort.list
      <3> DEFINE a == link.next[sort.p]
                 b == sort.psize - 1
      <3>1. sort' = [sort EXCEPT !.p = a, !.psize = b] /\ a \in Pointers /\ b \in Nat
        BY <1>6, <1>7
      <3> HIDE DEF a, b, m, u, v
      <3> QED BY <1>7, <3>1 DEF SortRecord
    <2> QED BY <1>7, <2>1, SortTyped DEF SortTypeOK
  <1>9. /\ sort'.at = "merge" /\ sort'.list = m /\ sort'.p = Cell(m, u, 2)
        /\ sort'.q = sort.q /\ sort'.psize = sort.psize - 1 /\ sort'.from = sort.from
    BY <1>1, <1>5, <1>6, <1>7 DEF SortRecord
  <1> HIDE DEF m, u, v
  <1>10. PointersInPlace'
    <2> DEFINE d == sort.psize - 1
    <2>1. d \in 0 .. Len(v) /\ d + 1 = sort.psize /\ d + 1 \in 1 .. Len(u)
      BY <1>1, <1>4
    <2>2. Cell(m, v, d + 1) = sort.q
      BY <1>1, <1>4, <2>1
    <2>3. Cell(m, v, 1) = Cell(m, u, 2)
      <3>1. Cell(m, v, 1) = Cell(m, u, 1 + 1)
        BY <1>2, <1>4
      <3> QED BY <3>1
    <2>4. sort'.psize = d /\ sort'.q = Cell(m, v, d + 1) /\ sort'.p = Cell(m, v, 1)
      BY <1>9, <2>2, <2>3
    <2> HIDE DEF d
    <2>5. v = items'[sort'.list]
      BY <1>9 DEF v
    <2> QED BY <1>9, <2>1, <2>4, <2>5 DEF PointersInPlace, Left
  <1>11. LosesNoNode'
    BY <1>4, <1>7, <1>9, NodesStay DEF m
  <1> QED BY <1>8, <1>10, <1>11 DEF SortHolds

LEMMA TakeQHolds ==
    ASSUME SortInv, TakeQ
    PROVE  SortHolds'
  <1> DEFINE m == sort.list
             u == items[m]
             v == items'[m]
             h == sort.psize + 1
  <1>1. /\ sort.at = "merge" /\ m \in InUse /\ m \in Lists
        /\ Represents(link, items) /\ u \in Seq(Nodes) /\ Len(u) \in Nat
        /\ sort.psize \in 0 .. Len(u)
        /\ sort.psize > 0 => sort.p = Cell(m, u, 1)
        /\ sort.q = Cell(m, u, h) /\ sort.q # TailOf(m)
        /\ Moved(sort.q)
    BY ListOfSort DEF SortInv, PointersInPlace, TakeQ, HasQ, AtEnd, Left
  <1>2. h \in 0 .. Len(u) + 1 /\ h \in Nat /\ h > 0
    BY <1>1
  <1>3. h <= Len(u) /\ link.next[sort.q] = Cell(m, u, h + 1)
    BY <1>1, <1>2, NextCell
  <1>4. h \in 1 .. Len(u) /\ sort.q = u[h]
    <2>1. h \in 1 .. Len(u) /\ h # 0 /\ h # Len(u) + 1
      BY <1>1, <1>2, <1>3
    <2> QED BY <1>1, <2>1 DEF Cell
  <1>5. /\ Len(v) = Len(u) - 1
        /\ \A z \in 0 .. h - 1 : Cell(m, v, z) = Cell(m, u, z)
        /\ \A z \in h .. Len(u) : Cell(m, v, z) = Cell(m, u, z + 1)
        /\ Together(items', m) = Together(items, m)
    <2> DEFINE n == m
    <2>1. n \in InUse /\ sort.list = n /\ ListInv /\ Moved(sort.q)
          /\ sort.q = items[n][h] /\ h \in 1 .. Len(items[n])
      BY <1>1, <1>4 DEF SortInv
    <2> HIDE DEF n, h
    <2>2. /\ Len(items'[n]) = Len(items[n]) - 1
          /\ \A z \in 0 .. h - 1 : Cell(n, items'[n], z) = Cell(n, items[n], z)
          /\ \A z \in h .. Len(items[n]) :
               Cell(n, items'[n], z) = Cell(n, items[n], z + 1)
          /\ Together(items', n) = Together(items, n)
      BY <2>1, MovedPlace
    <2> QED BY <2>2 DEF n
  <1>6. sort' = [sort EXCEPT !.q = link.next[sort.q], !.qsize = sort.qsize - 1]
    BY DEF TakeQ
  <1>7. sort.at # "idle" /\ sort \in SortRecord /\ sort.qsize - 1 \in Int
        /\ link.next[sort.q] \in Pointers
    <2>1. link.next[sort.q] \in Pointers
      BY <1>1, <1>2, CellInCells, LinksArePointers
    <2> QED BY <1>1, <2>1, SortTyped
  <1>8. SortTypeOK'
    <2>1. sort' \in SortRecord /\ sort'.list = sort.list
      <3> DEFINE a == link.next[sort.q]
                 b == sort.qsize - 1
      <3>1. sort' = [sort EXCEPT !.q = a, !.qsize = b] /\ a \in Pointers /\ b \in Int
        BY <1>6, <1>7
      <3> HIDE DEF a, b, m, u, v, h
      <3> QED BY <1>7, <3>1 DEF SortRecord
    <2> QED BY <1>7, <2>1, SortTyped DEF SortTypeOK
  <1>9. /\ sort'.at = "merge" /\ sort'.list = m /\ sort'.p = sort.p
        /\ sort'.q = link.next[sort.q] /\ sort'.psize = sort.psize
        /\ sort'.from = sort.from
    BY <1>1, <1>6, <1>7 DEF SortRecord
  <1>10. sort.psize = h - 1 /\ sort.psize \in 0 .. Len(v)
    BY <1>1, <1>2, <1>3, <1>5
  <1>11. sort.psize > 0 => 1 \in 0 .. h - 1
    BY <1>2, <1>10
  <1> HIDE DEF m, u, v, h
  <1>12. PointersInPlace'
    <2>1. h \in h .. Len(u)
      BY <1>1, <1>2, <1>3
    <2>2. Cell(m, v, h) = link.next[sort.q]
      BY <1>3, <1>5, <2>1
    <2>3. sort.psize > 0 => sort.p = Cell(m, v, 1)
      BY <1>1, <1>5, <1>11
    <2>4. v = items'[sort'.list] /\ sort.psize + 1 = h
      BY <1>9 DEF v, h
    <2> QED BY <1>9, <1>10, <2>2, <2>3, <2>4 DEF PointersInPlace, Left
  <1>13. LosesNoNode'
    BY <1>5, <1>7, <1>9, NodesStay DEF m
  <1> QED BY <1>8, <1>12, <1>13 DEF SortHolds

\* A pass has ended when no node is left, so the local list has them all.
LEMMA PassDoneHolds ==
    ASSUME SortInv, PassDone, ListInv'
    PROVE  SortHolds'
  <1> DEFINE m == sort.list
  <1>1. /\ sort.at = "pass" /\ sort.at # "idle" /\ m \in InUse /\ m \in Lists
        /\ Local \in Lists /\ Local # m
        /\ Represents(link, items) /\ items[m] \in Seq(Nodes) /\ Len(items[m]) \in Nat
        /\ sort.p = Cell(m, items[m], 1) /\ sort.p = TailOf(m)
    BY ListOfSort DEF SortInv, PointersInPlace, PassDone, Left, AtEnd
  <1>2. Len(items[m]) = 0
    <2>1. items \in Arrangements /\ Distinct(items)
          /\ 1 \in 0 .. Len(items[m]) + 1 /\ Len(items[m]) + 1 \in 0 .. Len(items[m]) + 1
      BY <1>1 DEF Represents
    <2>2. Cell(m, items[m], Len(items[m]) + 1) = sort.p
      BY <1>1, Ends
    <2>3. \A z \in 0 .. Len(items[m]) + 1 :
            Cell(m, items[m], Len(items[m]) + 1) = Cell(m, items[m], z)
              => Len(items[m]) + 1 = z
      BY <2>1, <1>1, OnePlace
    <2>4. Len(items[m]) + 1 = 1
      BY <1>1, <2>1, <2>2, <2>3
    <2> QED BY <1>1, <2>4
  <1>3. Range(items[m]) = {}
    BY <1>1, <1>2 DEF Range
  <1>4. items'[Local] = <<>> /\ Together(items', m) = Together(items, m)
    <2>1. CASE moveList(m, Local)
      <3>1. items'[m] = items[Local] /\ items'[Local] = <<>>
        BY <1>1, <2>1, ItemsTyped DEF moveList
      <3>2. \A z : z = <<>> => Range(z) = {}
        BY DEF Range
      <3> QED BY <3>1, <3>2, <1>3 DEF Together
    <2>2. CASE count[Local] = 0 /\ UNCHANGED vars
      <3>1. items' = items /\ items[Local] \in Seq(Nodes) /\ Len(items[Local]) = 0
        BY <1>1, <2>2, ItemsTyped DEF SortInv, ListInv, CountsAgree, vars
      <3> QED BY <3>1
    <2> QED BY <2>1, <2>2 DEF PassDone, MovedBack
  <1>5. Represents(link', items')
    BY DEF ListInv
  <1>6. CASE sort' = NotCalled
    <2>1. sort'.at = "idle"
      BY <1>6 DEF NotCalled
    <2>2. SortTypeOK'
      <3>1. <<>> \in Seq(Nodes) /\ Null \in Pointers
        BY EmptySeq DEF Pointers
      <3> QED BY <1>6, <2>1, <3>1, <1>1 DEF NotCalled, SortTypeOK, SortRecord, Steps
    <2> QED BY <2>1, <2>2, <1>4 DEF SortHolds, PointersInPlace, LosesNoNode
  <1>7. CASE sort' = [sort EXCEPT !.insize = NextSize, !.merges = 0,
                                  !.p = link'.next[HeadOf(sort.list)]]
    <2>1. sort \in SortRecord /\ sort.insize \in Nat
      BY <1>1, SortTyped
    <2> DEFINE a == link'.next[HeadOf(m)]
               b == NextSize
    <2>2. a \in Pointers /\ b \in Nat
          /\ sort' = [sort EXCEPT !.insize = b, !.merges = 0, !.p = a]
      <3>1. HeadOf(m) \in Cells
        BY <1>1, DummyCells
      <3> QED BY <1>5, <1>7, <2>1, <3>1 DEF Represents, Links, NextSize
    <2>3. a = Cell(m, items'[m], 1)
      BY <1>1, <1>5, Ends
    <2>4. m = sort.list /\ sort.at = "pass"
      BY <1>1
    <2> HIDE DEF a, b, m
    <2>5. sort' \in SortRecord /\ sort'.list = m /\ sort'.p = a /\ sort'.at = "pass"
          /\ sort'.from = sort.from
      BY <2>1, <2>2, <2>4 DEF SortRecord
    <2>6. SortTypeOK'
      BY <1>1, <2>5 DEF SortTypeOK
    <2>7. PointersInPlace'
      BY <2>3, <2>5 DEF PointersInPlace, Left
    <2>8. LosesNoNode'
      BY <1>1, <1>4, <2>4, <2>5, NodesStay
    <2> QED BY <2>6, <2>7, <2>8 DEF SortHolds
  <1> QED BY <1>6, <1>7 DEF PassDone

\* Between two sorts the local list is nobody's.
LEMMA UsesHolds ==
    ASSUME SortInv, NEW l \in InUse, Uses(l)
    PROVE  SortHolds'
  <1>1. sort.at = "idle" /\ sort' = sort /\ items[Local] = <<>>
    BY DEF Uses, SortInv, PointersInPlace
  <1>2. items'[Local] = items[Local]
    <2> DEFINE sources == InUse \ {l}
    <2>1. /\ l \in Lists /\ sources \subseteq Lists /\ Operation(l, sources)
          /\ Local \in Lists /\ Local # l /\ Local \notin sources
          /\ items \in [Lists -> Seq(Nodes)]
      BY SortAssumption
         DEF InUse, Uses, SortInv, ListInv, Represents, Arrangements
    <2> HIDE DEF sources
    <2> QED BY <2>1, OthersKept
  <1>3. SortTypeOK'
    BY <1>1 DEF SortInv, SortTypeOK
  <1> QED BY <1>1, <1>2, <1>3 DEF SortHolds, PointersInPlace, LosesNoNode

LEMMA SortStutters ==
    ASSUME SortInv, UNCHANGED svars
    PROVE  SortHolds'
  <1>1. sort' = sort /\ items' = items
    BY DEF svars, vars
  <1>2. SortTypeOK'
    BY <1>1 DEF SortInv, SortTypeOK
  <1>3. PointersInPlace'
    BY <1>1 DEF SortInv, PointersInPlace, Left, AtEnd
  <1>4. LosesNoNode'
    <2>1. CASE sort.at = "idle"
      BY <2>1, <1>1 DEF LosesNoNode
    <2>2. CASE sort.at # "idle"
      BY <2>2, <1>1, NodesStay
    <2> QED BY <2>1, <2>2
  <1> QED BY <1>2, <1>3, <1>4 DEF SortHolds

LEMMA SortInvariant == SortSpec => []SortInv
  <1>1. SInit => SortInv
    <2> SUFFICES ASSUME SInit PROVE SortInv
      OBVIOUS
    <2>1. ListInv
      BY InitHolds DEF SInit
    <2>2. sort = NotCalled /\ sort.at = "idle" /\ items[Local] = <<>>
      BY SortAssumption DEF SInit, Init, NotCalled
    <2>3. SortTypeOK
      <3>1. <<>> \in Seq(Nodes) /\ Null \in Pointers /\ Local \in Lists
        BY EmptySeq, SortAssumption DEF Pointers
      <3> QED BY <2>2, <3>1 DEF NotCalled, SortTypeOK, SortRecord, Steps
    <2> QED BY <2>1, <2>2, <2>3 DEF SortInv, PointersInPlace, LosesNoNode
  <1>2. SortInv /\ [SNext]_svars => SortInv'
    <2> SUFFICES ASSUME SortInv, [SNext]_svars PROVE SortInv'
      OBVIOUS
    <2>1. ListInv'
      BY SortKeepsLists DEF SortInv
    <2>2. SortHolds'
      <3>1. ASSUME NEW l \in InUse, Call(l) PROVE SortHolds'
        BY <3>1, CallHolds
      <3>2. ASSUME NEW l \in InUse, Uses(l) PROVE SortHolds'
        BY <3>2, UsesHolds
      <3>3. CASE Begin
        BY <3>3, BeginHolds
      <3>4. CASE Step
        BY <3>4, StepHolds
      <3>5. CASE TakeP
        BY <3>5, TakePHolds
      <3>6. CASE TakeQ
        BY <3>6, TakeQHolds
      <3>7. CASE Merged
        BY <3>7, MergedHolds
      <3>8. CASE PassDone
        BY <3>8, <2>1, PassDoneHolds
      <3>9. CASE UNCHANGED svars
        BY <3>9, SortStutters
      <3> QED BY <3>1, <3>2, <3>3, <3>4, <3>5, <3>6, <3>7, <3>8, <3>9 DEF SNext, Sorting
    <2> QED BY <2>1, <2>2 DEF SortInv, SortHolds
  <1> QED BY <1>1, <1>2, PTL DEF SortSpec

\* The links hold in the middle of a sort as well, for any keys, and so for any
\* outcome of its comparisons.
THEOREM SortKeepsLinked == SortSpec => []Linked
  <1>1. SortInv => Linked
    BY InvLinked DEF SortInv
  <1> QED BY <1>1, SortInvariant, PTL

\* Sort() never follows a link of a node it has already appended: P is the
\* first node left, Q the one psize after it (StdList.h, the loops of Sort()).
THEOREM SortPointersInPlace == SortSpec => []PointersInPlace
  <1>1. SortInv => PointersInPlace
    BY DEF SortInv
  <1> QED BY <1>1, SortInvariant, PTL

\* No node gets lost or comes in while a list is sorted.
THEOREM SortLosesNoNode == SortSpec => []LosesNoNode
  <1>1. SortInv => LosesNoNode
    BY DEF SortInv
  <1> QED BY <1>1, SortInvariant, PTL
--------------------------------------------------------------------------------
(***************************************************************************)
(* What a caller reads.                                                    *)
(***************************************************************************)
LEMMA Least ==
    ASSUME NEW T, T \subseteq Nat, T # {}
    PROVE  \E k \in T : \A j \in T : k <= j
  <1> DEFINE R == OpToRel(<, Nat)
  <1>1. IsWellFoundedOn(R, Nat)
    BY NatLessThanWellFounded
  <1>2. \A i, j \in Nat : i < j => <<i, j>> \in R
    BY DEF OpToRel
  <1> HIDE DEF R
  <1>3. PICK k \in T : \A j \in T : ~(<<j, k>> \in R)
    BY <1>1, WFMin
  <1>4. ASSUME NEW j \in T PROVE k <= j
    <2>1. ~(j < k) /\ j \in Nat /\ k \in Nat
      BY <1>2, <1>3
    <2> QED BY <2>1
  <1> QED BY <1>4

\* The node at a place, or Null, as ReadsAgree has it.
ItemOf(l, i) == IF i \in 1 .. Len(items[l]) THEN items[l][i] ELSE Null

LEMMA ReadsEnds ==
    ASSUME ListInv, NEW l \in Lists
    PROVE  /\ items[l] \in Seq(Nodes) /\ Len(items[l]) \in Nat
           /\ getHead(l) = ItemOf(l, 1) /\ getTail(l) = ItemOf(l, Len(items[l]))
           /\ \A i \in 1 .. Len(items[l]) :
                /\ items[l][i] \in Nodes /\ items[l][i] # Null
                /\ getSucc(l, items[l][i]) = ItemOf(l, i + 1)
                /\ getPred(l, items[l][i]) = ItemOf(l, i - 1)
  <1> DEFINE s == items[l]
  <1>1. Represents(link, items) /\ s \in Seq(Nodes) /\ Len(s) \in Nat
    BY ItemsTyped DEF ListInv
  <1>2. /\ HeadOf(l) = Cell(l, s, 0) /\ TailOf(l) = Cell(l, s, Len(s) + 1)
        /\ link.next[HeadOf(l)] = Cell(l, s, 1) /\ link.prev[TailOf(l)] = Cell(l, s, Len(s))
    BY <1>1, Ends
  <1>3. \A i \in 0 .. Len(s) : /\ link.next[Cell(l, s, i)] = Cell(l, s, i + 1)
                              /\ link.prev[Cell(l, s, i + 1)] = Cell(l, s, i)
    BY <1>1, ChainStep
  <1>4. \A i \in 1 .. Len(s) : Cell(l, s, i) = s[i] /\ s[i] \in Nodes /\ s[i] # Null
    BY <1>1, CellInCells, ListAssumption DEF Cells
  <1>5. HeadOf(l) \notin Nodes /\ TailOf(l) \notin Nodes /\ HeadOf(l) # TailOf(l)
    BY DummyCells
  <1>6. \A i : ItemOf(l, i) = IF i \in 1 .. Len(s) THEN s[i] ELSE Null
    BY DEF ItemOf
  <1> HIDE DEF s
  <1>7. getHead(l) = ItemOf(l, 1)
    <2>1. CASE Len(s) = 0
      <3>1. link.next[HeadOf(l)] = TailOf(l) /\ 1 \notin 1 .. Len(s)
        BY <1>2, <2>1
      <3> QED BY <1>6, <3>1 DEF getHead
    <2>2. CASE Len(s) # 0
      <3>1. 1 \in 1 .. Len(s)
        BY <1>1, <2>2
      <3> QED BY <1>2, <1>4, <1>5, <1>6, <3>1 DEF getHead
    <2> QED BY <2>1, <2>2
  <1>8. getTail(l) = ItemOf(l, Len(s))
    <2>1. CASE Len(s) = 0
      <3>1. link.prev[TailOf(l)] = HeadOf(l) /\ Len(s) \notin 1 .. Len(s)
        BY <1>2, <2>1
      <3> QED BY <1>6, <3>1 DEF getTail
    <2>2. CASE Len(s) # 0
      <3>1. Len(s) \in 1 .. Len(s)
        BY <1>1, <2>2
      <3> QED BY <1>2, <1>4, <1>5, <1>6, <3>1 DEF getTail
    <2> QED BY <2>1, <2>2
  <1>9. ASSUME NEW i \in 1 .. Len(s) PROVE getSucc(l, s[i]) = ItemOf(l, i + 1)
    <2>1. link.next[s[i]] = Cell(l, s, i + 1)
      <3>1. i \in 0 .. Len(s)
        BY <1>1
      <3> QED BY <1>3, <1>4, <3>1
    <2>2. CASE i = Len(s)
      <3>1. i + 1 \notin 1 .. Len(s) /\ link.next[s[i]] = TailOf(l)
        BY <1>1, <1>2, <2>1, <2>2
      <3> QED BY <1>6, <3>1 DEF getSucc
    <2>3. CASE i # Len(s)
      <3>1. i + 1 \in 1 .. Len(s)
        BY <1>1, <2>3
      <3> QED BY <1>4, <1>5, <1>6, <2>1, <3>1 DEF getSucc
    <2> QED BY <2>2, <2>3
  <1>10. ASSUME NEW i \in 1 .. Len(s) PROVE getPred(l, s[i]) = ItemOf(l, i - 1)
    <2>1. link.prev[s[i]] = Cell(l, s, i - 1)
      <3>1. i - 1 \in 0 .. Len(s) /\ (i - 1) + 1 = i
        BY <1>1
      <3> QED BY <1>3, <1>4, <3>1
    <2>2. CASE i = 1
      <3>1. i - 1 \notin 1 .. Len(s) /\ link.prev[s[i]] = HeadOf(l)
        BY <1>1, <1>2, <2>1, <2>2
      <3> QED BY <1>6, <3>1 DEF getPred
    <2>3. CASE i # 1
      <3>1. i - 1 \in 1 .. Len(s)
        BY <1>1, <2>3
      <3> QED BY <1>4, <1>5, <1>6, <2>1, <3>1 DEF getPred
    <2> QED BY <2>2, <2>3
  <1> QED BY <1>1, <1>4, <1>7, <1>8, <1>9, <1>10 DEF s

\* operator[]: induction over the index, by way of the least place where the walk
\* would not be at the node of that index.
LEMMA WalkMeets ==
    ASSUME ListInv, NEW l \in Lists, NEW index \in 0 .. Len(items[l])
    PROVE  ItemAt(l, index) = ItemOf(l, index + 1)
  <1> DEFINE Walk(g) == [k \in 0 .. index |->
                           IF k = 0 THEN getHead(l)
                           ELSE IF g[k - 1] = Null THEN Null ELSE getSucc(l, g[k - 1])]
             f == [k \in 0 .. index |-> ItemOf(l, k + 1)]
             at == CHOOSE g : g = Walk(g)
  <1>1. index \in Nat /\ index <= Len(items[l]) /\ Len(items[l]) \in Nat
    BY ReadsEnds
  <1>2. \A k \in 1 .. index : /\ ItemOf(l, k) # Null
                              /\ getSucc(l, ItemOf(l, k)) = ItemOf(l, k + 1)
    BY <1>1, ReadsEnds DEF ItemOf
  <1>3. f = Walk(f)
    <2>1. ASSUME NEW k \in 0 .. index PROVE f[k] = Walk(f)[k]
      <3>1. CASE k = 0
        BY <3>1, ReadsEnds
      <3>2. CASE k # 0
        <4>1. k \in 1 .. index /\ k - 1 \in 0 .. index /\ (k - 1) + 1 = k
          BY <1>1, <3>2
        <4>2. f[k - 1] = ItemOf(l, k)
          BY <4>1
        <4> HIDE DEF f
        <4>3. Walk(f)[k] = ItemOf(l, k + 1)
          BY <1>2, <3>2, <4>1, <4>2
        <4> QED BY <4>3 DEF f
      <3> QED BY <3>1, <3>2
    <2> QED BY <2>1
  <1>4. at = Walk(at)
    BY <1>3
  <1> HIDE DEF at
  <1>5. ASSUME NEW j \in 0 .. index, at[j] # f[j] PROVE FALSE
    <2> DEFINE T == {k \in 0 .. index : at[k] # f[k]}
    <2>1. T \subseteq Nat /\ T # {}
      BY <1>1, <1>5
    <2>2. PICK k \in T : \A i \in T : k <= i
      BY <2>1, Least
    <2>3. k \in 0 .. index /\ at[k] # f[k]
      OBVIOUS
    <2>4. k # 0
      BY <1>4, <2>3, ReadsEnds
    <2>5. k - 1 \in 0 .. index /\ k - 1 \notin T
      BY <1>1, <2>2, <2>3, <2>4
    <2>6. at[k - 1] = f[k - 1]
      BY <2>5
    <2>7. at[k] = Walk(at)[k] /\ f[k] = Walk(f)[k]
      BY <1>3, <1>4
    <2> HIDE DEF f
    <2>8. Walk(at)[k] = Walk(f)[k]
      BY <2>3, <2>6
    <2> QED BY <2>3, <2>7, <2>8
  <1>6. at[index] = ItemOf(l, index + 1)
    BY <1>1, <1>5
  <1>7. ItemAt(l, index) = at[index]
    BY DEF ItemAt, at
  <1> QED BY <1>6, <1>7

LEMMA InvReads ==
    ASSUME ListInv
    PROVE  ReadsAgree
  <1> SUFFICES ASSUME NEW l \in Lists
               PROVE  /\ getHead(l) = ItemOf(l, 1) /\ getTail(l) = ItemOf(l, Len(items[l]))
                      /\ \A i \in 1 .. Len(items[l]) :
                            /\ getSucc(l, items[l][i]) = ItemOf(l, i + 1)
                            /\ getPred(l, items[l][i]) = ItemOf(l, i - 1)
                      /\ \A i \in 0 .. Len(items[l]) : ItemAt(l, i) = ItemOf(l, i + 1)
    BY DEF ReadsAgree, ItemOf
  <1> QED BY ReadsEnds, WalkMeets

\* Every list is read alike in both directions and by index, even in the middle of
\* a sort: getHead(), getTail(), getSucc(), getPred() and operator[] of StdList.h
\* meet the nodes the callers have put there, and Null after them.
THEOREM SortReadsAgree == SortSpec => []ReadsAgree
  <1>1. SortInv => ReadsAgree
    BY InvReads DEF SortInv
  <1> QED BY <1>1, SortInvariant, PTL
================================================================================
