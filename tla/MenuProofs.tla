------------------------------ MODULE MenuProofs -------------------------------
(***************************************************************************)
(* The menus of an application are those that it has asked for, in         *)
(* WindowMenus (CWindow on Windows and Qt) and in AmiMenus (CAmiMenus on   *)
(* Amiga OS): the inductive invariant InOrder of each, from the places and *)
(* ranks of what is in a menu bar up to the steps, and the theorem.        *)
(***************************************************************************)
EXTENDS MCDesk, FiniteSetTheorems, SequenceTheorems, NaturalsInduction, WellFoundedInduction,
        TLAPS

--------------------------------------------------------------------------------
(***************************************************************************)
(* WindowMenus: the places of a menu bar b, and what is at them.           *)
(***************************************************************************)
MeEntries == M!Leaves \cup M!SubMenus

MeBars == Seq(Seq(MeEntries))

MePlaces(b) ==
    UNION {UNION {{<<m, e, s>> : s \in 0 .. Len(b[m][e].sub)} : e \in DOMAIN b[m]} : m \in DOMAIN b}

MeAt(b, p) == IF p[3] = 0 THEN b[p[1]][p[2]] ELSE b[p[1]][p[2]].sub[p[3]]

LEMMA MeNow ==
    /\ M!Places = MePlaces(bar) /\ \A p : M!At(p) = MeAt(bar, p)
    /\ M!Places' = MePlaces(bar') /\ \A p : M!At(p)' = MeAt(bar', p)
BY DEF M!Places, M!At, MePlaces, MeAt

\* A place of b, by its three ordinals.
MeIs(b, m, e, s) == m \in DOMAIN b /\ e \in DOMAIN b[m] /\ s \in 0 .. Len(b[m][e].sub)

LEMMA MeIn ==
    ASSUME NEW b \in MeBars
    PROVE  /\ \A m, e, s : <<m, e, s>> \in MePlaces(b) <=> MeIs(b, m, e, s)
           /\ \A p \in MePlaces(b) : p = <<p[1], p[2], p[3]>> /\ MeIs(b, p[1], p[2], p[3])
<1>1. ASSUME NEW m, NEW e, NEW s, MeIs(b, m, e, s) PROVE <<m, e, s>> \in MePlaces(b)
  BY <1>1 DEF MeIs, MePlaces
<1>2. ASSUME NEW p \in MePlaces(b)
      PROVE  \E m, e, s : p = <<m, e, s>> /\ MeIs(b, m, e, s)
  BY DEF MeIs, MePlaces
<1>3. ASSUME NEW m, NEW e, NEW s, <<m, e, s>> \in MePlaces(b) PROVE MeIs(b, m, e, s)
  <2>1. PICK n, f, t : <<m, e, s>> = <<n, f, t>> /\ MeIs(b, n, f, t)
    BY <1>2, <1>3
  <2> QED BY <2>1
<1>4. ASSUME NEW p \in MePlaces(b)
      PROVE  p = <<p[1], p[2], p[3]>> /\ MeIs(b, p[1], p[2], p[3])
  <2>1. PICK m, e, s : p = <<m, e, s>> /\ MeIs(b, m, e, s)
    BY <1>2
  <2> QED BY <2>1
<1> QED BY <1>1, <1>3, <1>4

LEMMA MeTyped ==
    ASSUME NEW b \in MeBars, NEW p \in MePlaces(b)
    PROVE  /\ p[1] \in Nat /\ p[2] \in Nat /\ p[3] \in Nat
           /\ p[1] \in 1 .. Len(b) /\ p[2] \in 1 .. Len(b[p[1]])
           /\ b[p[1]] \in Seq(MeEntries) /\ b[p[1]][p[2]] \in MeEntries
           /\ MeAt(b, p) \in MeEntries
           /\ p[3] # 0 => /\ MeAt(b, p) \in M!Leaves /\ b[p[1]][p[2]] \in M!SubMenus
                          /\ p[3] \in 1 .. Len(b[p[1]][p[2]].sub)
<1>1. MeIs(b, p[1], p[2], p[3])
  BY MeIn
<1>2. p[1] \in 1 .. Len(b) /\ b[p[1]] \in Seq(MeEntries)
  BY <1>1 DEF MeIs, MeBars
<1>3. p[2] \in 1 .. Len(b[p[1]]) /\ b[p[1]][p[2]] \in MeEntries
  BY <1>1, <1>2 DEF MeIs
<1>4. b[p[1]][p[2]].sub \in Seq(M!Leaves)
  <2>1. CASE b[p[1]][p[2]] \in M!Leaves
    <3>1. b[p[1]][p[2]].sub = <<>>
      BY <2>1 DEF M!Leaves
    <3> QED BY <3>1
  <2>2. CASE b[p[1]][p[2]] \in M!SubMenus
    BY <2>2 DEF M!SubMenus
  <2> QED BY <1>3, <2>1, <2>2 DEF MeEntries
<1>5. p[3] \in 0 .. Len(b[p[1]][p[2]].sub)
  BY <1>1 DEF MeIs
<1>6. ASSUME p[3] # 0
      PROVE  /\ MeAt(b, p) \in M!Leaves /\ b[p[1]][p[2]] \in M!SubMenus
             /\ p[3] \in 1 .. Len(b[p[1]][p[2]].sub)
  <2>1. p[3] \in 1 .. Len(b[p[1]][p[2]].sub)
    BY <1>4, <1>5, <1>6
  <2>2. b[p[1]][p[2]].sub[p[3]] \in M!Leaves
    BY <1>4, <2>1
  <2>3. b[p[1]][p[2]].sub # <<>>
    BY <2>1
  <2> QED BY <1>3, <1>6, <2>1, <2>2, <2>3 DEF MeEntries, M!Leaves, MeAt
<1>7. MeAt(b, p) \in MeEntries
  BY <1>3, <1>6 DEF MeAt, MeEntries
<1> QED BY <1>2, <1>3, <1>4, <1>5, <1>6, <1>7

\* What of an entry the properties speak of.
MeAlike(x, y) ==
    /\ x.type = y.type /\ x.id = y.id /\ x.key = y.key
    /\ x.checked = y.checked /\ x.disabled = y.disabled

--------------------------------------------------------------------------------
(***************************************************************************)
(* The changes of a bar.                                                   *)
(***************************************************************************)
MePut(b, p, x) ==
    IF p[3] = 0 THEN [b EXCEPT ![p[1]][p[2]] = x]
    ELSE [b EXCEPT ![p[1]][p[2]].sub[p[3]] = x]

LEMMA MeEntry ==
    ASSUME NEW b \in MeBars, NEW m \in DOMAIN b, NEW e \in DOMAIN b[m], NEW x \in MeEntries
    PROVE  LET c == [b EXCEPT ![m][e] = x]
           IN /\ c \in MeBars /\ DOMAIN c = DOMAIN b
              /\ \A n \in DOMAIN b : DOMAIN c[n] = DOMAIN b[n] /\ Len(c[n]) = Len(b[n])
              /\ c[m][e] = x
              /\ \A n \in DOMAIN b : \A f \in DOMAIN b[n] : n # m \/ f # e => c[n][f] = b[n][f]
<1> DEFINE c == [b EXCEPT ![m][e] = x]
<1>1. b[m] \in Seq(MeEntries)
  BY DEF MeBars
<1>2. [b[m] EXCEPT ![e] = x] \in Seq(MeEntries)
  BY <1>1
<1>3. c = [b EXCEPT ![m] = [b[m] EXCEPT ![e] = x]]
  OBVIOUS
<1>4. c \in MeBars /\ DOMAIN c = DOMAIN b
  BY <1>2, <1>3 DEF MeBars
<1>5. c[m] = [b[m] EXCEPT ![e] = x] /\ \A n \in DOMAIN b : n # m => c[n] = b[n]
  BY <1>3 DEF MeBars
<1>6. \A n \in DOMAIN b : DOMAIN c[n] = DOMAIN b[n]
  BY <1>5
<1>7. \A n \in DOMAIN b : Len(c[n]) = Len(b[n])
  <2> SUFFICES ASSUME NEW n \in DOMAIN b PROVE Len(c[n]) = Len(b[n])
    OBVIOUS
  <2>1. c[n] \in Seq(MeEntries) /\ b[n] \in Seq(MeEntries)
    BY <1>4 DEF MeBars
  <2> QED BY <1>6, <2>1
<1> HIDE DEF c
<1>8. c[m][e] = x /\ \A f \in DOMAIN b[m] : f # e => c[m][f] = b[m][f]
  BY <1>1, <1>5
<1> QED BY <1>4, <1>5, <1>6, <1>7, <1>8 DEF c

LEMMA MePutting ==
    ASSUME NEW b \in MeBars, NEW p \in MePlaces(b), NEW x \in MeEntries,
           x.sub = MeAt(b, p).sub, x.type = MeAt(b, p).type
    PROVE  LET c == MePut(b, p, x)
           IN /\ c \in MeBars /\ MePlaces(c) = MePlaces(b) /\ MeAt(c, p) = x
              /\ \A q \in MePlaces(b) : q # p => MeAlike(MeAt(c, q), MeAt(b, q))
<1> DEFINE c == MePut(b, p, x)
           m == p[1]
           e == p[2]
           s == p[3]
           old == b[m][e]
           new == IF s = 0 THEN x ELSE [old EXCEPT !.sub[s] = x]
<1>1. /\ m \in DOMAIN b /\ e \in DOMAIN b[m] /\ old \in MeEntries /\ p = <<m, e, s>>
      /\ s # 0 => old \in M!SubMenus /\ MeAt(b, p) \in M!Leaves /\ s \in 1 .. Len(old.sub)
  BY MeTyped, MeIn DEF MeBars
<1>2. s # 0 => x \in M!Leaves
  BY <1>1 DEF MeEntries, M!Leaves, M!SubMenus
<1>3. /\ new \in MeEntries /\ Len(new.sub) = Len(old.sub)
      /\ s # 0 => MeAlike(new, old) /\ new.sub[s] = x
                  /\ \A t \in 1 .. Len(old.sub) : t # s => new.sub[t] = old.sub[t]
  <2>1. CASE s = 0
    BY <2>1 DEF MeAt
  <2>2. CASE s # 0
    <3>1. old.sub \in Seq(M!Leaves) /\ s \in DOMAIN old.sub
      BY <1>1, <2>2 DEF M!SubMenus
    <3>2. [old.sub EXCEPT ![s] = x] \in Seq(M!Leaves) /\ Len([old.sub EXCEPT ![s] = x]) = Len(old.sub)
      BY <1>2, <2>2, <3>1
    <3>3. new = [old EXCEPT !.sub = [old.sub EXCEPT ![s] = x]]
      BY <2>2
    <3>4. new \in M!SubMenus /\ new.sub = [old.sub EXCEPT ![s] = x] /\ MeAlike(new, old)
      BY <1>1, <2>2, <3>2, <3>3 DEF M!SubMenus, MeAlike
    <3> QED BY <3>1, <3>2, <3>4 DEF MeEntries
  <2> QED BY <2>1, <2>2
<1>4. c = [b EXCEPT ![m][e] = new]
  BY DEF MePut
<1> HIDE DEF new, c, old, m, e, s
<1>5. /\ c \in MeBars /\ DOMAIN c = DOMAIN b
      /\ \A n \in DOMAIN b : DOMAIN c[n] = DOMAIN b[n]
      /\ c[m][e] = new
      /\ \A n \in DOMAIN b : \A f \in DOMAIN b[n] : n # m \/ f # e => c[n][f] = b[n][f]
  BY <1>1, <1>3, <1>4, MeEntry
<1>6. \A n, f, t : MeIs(c, n, f, t) <=> MeIs(b, n, f, t)
  <2> SUFFICES ASSUME NEW n, NEW f, NEW t PROVE MeIs(c, n, f, t) <=> MeIs(b, n, f, t)
    OBVIOUS
  <2>1. n \in DOMAIN b /\ f \in DOMAIN b[n] => Len(c[n][f].sub) = Len(b[n][f].sub)
    BY <1>1, <1>3, <1>5 DEF old
  <2> QED BY <1>5, <2>1 DEF MeIs
<1>7. MePlaces(c) = MePlaces(b)
  <2>1. ASSUME NEW q \in MePlaces(c) PROVE q \in MePlaces(b)
    <3>1. q = <<q[1], q[2], q[3]>> /\ MeIs(c, q[1], q[2], q[3])
      BY <1>5, MeIn
    <3>2. <<q[1], q[2], q[3]>> \in MePlaces(b)
      BY <1>6, <3>1, MeIn
    <3> QED BY <3>1, <3>2
  <2>2. ASSUME NEW q \in MePlaces(b) PROVE q \in MePlaces(c)
    <3>1. q = <<q[1], q[2], q[3]>> /\ MeIs(b, q[1], q[2], q[3])
      BY MeIn
    <3>2. <<q[1], q[2], q[3]>> \in MePlaces(c)
      BY <1>5, <1>6, <3>1, MeIn
    <3> QED BY <3>1, <3>2
  <2> QED BY <2>1, <2>2
<1>8. MeAt(c, p) = x
  BY <1>3, <1>5 DEF MeAt, new, m, e, s
<1>9. ASSUME NEW q \in MePlaces(b), q # p PROVE MeAlike(MeAt(c, q), MeAt(b, q))
  <2>1. q = <<q[1], q[2], q[3]>> /\ MeIs(b, q[1], q[2], q[3])
    BY MeIn
  <2>0. old = b[m][e] /\ (s = 0 => MeAt(b, p) = old)
    BY DEF old, MeAt, m, e, s
  <2>2. CASE q[1] # m \/ q[2] # e
    BY <1>5, <2>1, <2>2 DEF MeAt, MeIs, MeAlike
  <2>3. CASE q[1] = m /\ q[2] = e
    <3>1. q[3] # s
      BY <1>1, <1>9, <2>1, <2>3
    <3>2. s = 0 => new = x
      BY DEF new
    <3>3. CASE q[3] = 0
      BY <1>3, <1>5, <2>0, <2>3, <3>1, <3>3 DEF MeAt, MeAlike
    <3>4. CASE q[3] # 0
      <4>1. q[3] \in 1 .. Len(old.sub)
        BY <2>0, <2>1, <2>3, <3>4 DEF MeIs
      <4>2. new.sub[q[3]] = old.sub[q[3]]
        <5>1. CASE s = 0
          BY <2>0, <3>2, <5>1
        <5>2. CASE s # 0
          BY <1>3, <3>1, <4>1, <5>2
        <5> QED BY <5>1, <5>2
      <4> QED BY <1>5, <2>0, <2>3, <3>4, <4>2 DEF MeAt, MeAlike
    <3> QED BY <3>3, <3>4
  <2> QED BY <2>2, <2>3
<1> QED BY <1>5, <1>7, <1>8, <1>9 DEF c

\* b with x behind the entries of menu m (e = 0), or of its submenu e.
MeGrown(b, m, e, x) ==
    IF e = 0 THEN [b EXCEPT ![m] = Append(@, x)] ELSE [b EXCEPT ![m][e].sub = Append(@, x)]

LEMMA MeGrowing ==
    ASSUME NEW b \in MeBars, NEW m \in DOMAIN b, NEW e \in Nat, NEW x \in M!Leaves,
           e # 0 => e \in DOMAIN b[m] /\ b[m][e] \in M!SubMenus
    PROVE  LET c == MeGrown(b, m, e, x)
           IN /\ c \in MeBars
              /\ \E n : /\ n \notin MePlaces(b) /\ MePlaces(c) = MePlaces(b) \cup {n} /\ MeAt(c, n) = x
                       /\ \A q \in MePlaces(b) : MeAlike(MeAt(c, q), MeAt(b, q))
<1> DEFINE c == MeGrown(b, m, e, x)
           n == IF e = 0 THEN <<m, Len(b[m]) + 1, 0>> ELSE <<m, e, Len(b[m][e].sub) + 1>>
<1>0. b[m] \in Seq(MeEntries) /\ x \in MeEntries /\ x.sub = <<>>
  BY DEF MeBars, MeEntries, M!Leaves
<1>1. /\ c \in MeBars /\ \A k, f, t : MeIs(c, k, f, t) <=> MeIs(b, k, f, t) \/ <<k, f, t>> = n
      /\ ~MeIs(b, n[1], n[2], n[3]) /\ MeAt(c, n) = x
      /\ \A k, f, t : MeIs(b, k, f, t) => MeAlike(MeAt(c, <<k, f, t>>), MeAt(b, <<k, f, t>>))
  <2>1. CASE e = 0
    <3>1. c = [b EXCEPT ![m] = Append(b[m], x)]
      BY <2>1 DEF MeGrown
    <3>2. /\ Append(b[m], x) \in Seq(MeEntries)
          /\ DOMAIN Append(b[m], x) = 1 .. Len(b[m]) + 1 /\ Append(b[m], x)[Len(b[m]) + 1] = x
          /\ \A f \in DOMAIN b[m] : Append(b[m], x)[f] = b[m][f]
      BY <1>0
    <3>3. /\ c \in MeBars /\ DOMAIN c = DOMAIN b /\ c[m] = Append(b[m], x)
          /\ \A k \in DOMAIN b : k # m => c[k] = b[k]
      BY <3>1, <3>2 DEF MeBars
    <3> HIDE DEF c
    <3>4. n = <<m, Len(b[m]) + 1, 0>> /\ MeAt(c, n) = x
      BY <2>1, <3>2, <3>3 DEF MeAt
    <3>5. ASSUME NEW k, NEW f, NEW t PROVE MeIs(c, k, f, t) <=> MeIs(b, k, f, t) \/ <<k, f, t>> = n
      <4>1. CASE k # m
        BY <3>3, <3>4, <4>1 DEF MeIs
      <4>2. CASE k = m /\ f \in DOMAIN b[m]
        BY <1>0, <3>2, <3>3, <3>4, <4>2 DEF MeIs
      <4>3. CASE k = m /\ f = Len(b[m]) + 1
        BY <1>0, <3>2, <3>3, <3>4, <4>3 DEF MeIs
      <4>4. CASE k = m /\ f \notin 1 .. Len(b[m]) + 1
        BY <1>0, <3>2, <3>3, <3>4, <4>4 DEF MeIs
      <4> QED BY <1>0, <4>1, <4>2, <4>3, <4>4
    <3>6. ~MeIs(b, n[1], n[2], n[3])
      BY <1>0, <3>4 DEF MeIs
    <3>7. ASSUME NEW k, NEW f, NEW t, MeIs(b, k, f, t)
          PROVE  MeAlike(MeAt(c, <<k, f, t>>), MeAt(b, <<k, f, t>>))
      BY <3>2, <3>3, <3>7 DEF MeIs, MeAt, MeAlike
    <3> QED BY <3>3, <3>4, <3>5, <3>6, <3>7
  <2>2. CASE e # 0
    <3> DEFINE old == b[m][e]
               new == [old EXCEPT !.sub = Append(old.sub, x)]
    <3>1. c = [b EXCEPT ![m][e] = new]
      BY <2>2 DEF MeGrown
    <3>2. old.sub \in Seq(M!Leaves) /\ Append(old.sub, x) \in Seq(M!Leaves)
      BY <2>2 DEF M!SubMenus
    <3>3. new \in M!SubMenus /\ new.sub = Append(old.sub, x) /\ MeAlike(new, old)
      BY <2>2, <3>2 DEF M!SubMenus, MeAlike
    <3>4. /\ Len(new.sub) = Len(old.sub) + 1 /\ new.sub[Len(old.sub) + 1] = x
          /\ \A t \in 1 .. Len(old.sub) : new.sub[t] = old.sub[t]
      BY <3>2, <3>3
    <3>5. new \in MeEntries /\ e \in DOMAIN b[m]
      BY <2>2, <3>3 DEF MeEntries
    <3> HIDE DEF new, c
    <3>6. /\ c \in MeBars /\ DOMAIN c = DOMAIN b
          /\ \A k \in DOMAIN b : DOMAIN c[k] = DOMAIN b[k]
          /\ c[m][e] = new
          /\ \A k \in DOMAIN b : \A f \in DOMAIN b[k] : k # m \/ f # e => c[k][f] = b[k][f]
      BY <3>1, <3>5, MeEntry
    <3>7. n = <<m, e, Len(old.sub) + 1>> /\ MeAt(c, n) = x
      BY <2>2, <3>2, <3>4, <3>6 DEF MeAt
    <3>8. ASSUME NEW k, NEW f, NEW t PROVE MeIs(c, k, f, t) <=> MeIs(b, k, f, t) \/ <<k, f, t>> = n
      <4>1. CASE k # m \/ f # e
        BY <3>6, <3>7, <4>1 DEF MeIs
      <4>2. CASE k = m /\ f = e
        BY <3>2, <3>4, <3>5, <3>6, <3>7, <4>2 DEF MeIs
      <4> QED BY <4>1, <4>2
    <3>9. ~MeIs(b, n[1], n[2], n[3])
      BY <3>2, <3>7 DEF MeIs
    <3>10. ASSUME NEW k, NEW f, NEW t, MeIs(b, k, f, t)
           PROVE  MeAlike(MeAt(c, <<k, f, t>>), MeAt(b, <<k, f, t>>))
      <4>1. CASE k # m \/ f # e
        BY <3>6, <3>10, <4>1 DEF MeIs, MeAt, MeAlike
      <4>2. CASE k = m /\ f = e /\ t = 0
        BY <3>3, <3>6, <4>2 DEF MeIs, MeAt, MeAlike
      <4>3. CASE k = m /\ f = e /\ t # 0
        <5>1. t \in 1 .. Len(old.sub)
          BY <3>2, <3>10, <4>3 DEF MeIs
        <5> QED BY <3>4, <3>6, <4>3, <5>1 DEF MeAt, MeAlike
      <4> QED BY <4>1, <4>2, <4>3
    <3> QED BY <3>6, <3>7, <3>8, <3>9, <3>10
  <2> QED BY <2>1, <2>2
<1> HIDE DEF c
<1>2. n = <<n[1], n[2], n[3]>>
  OBVIOUS
<1> HIDE DEF n
<1>3. n \notin MePlaces(b)
  BY <1>1, <1>2, MeIn
<1>4. MePlaces(c) = MePlaces(b) \cup {n}
  <2>1. ASSUME NEW q \in MePlaces(c) PROVE q \in MePlaces(b) \cup {n}
    <3>1. q = <<q[1], q[2], q[3]>> /\ MeIs(c, q[1], q[2], q[3])
      BY <1>1, MeIn
    <3>2. MeIs(b, q[1], q[2], q[3]) \/ q = n
      BY <1>1, <3>1
    <3>3. MeIs(b, q[1], q[2], q[3]) => <<q[1], q[2], q[3]>> \in MePlaces(b)
      BY MeIn
    <3> QED BY <3>1, <3>2, <3>3
  <2>2. ASSUME NEW q \in MePlaces(b) \cup {n} PROVE q \in MePlaces(c)
    <3>1. q = <<q[1], q[2], q[3]>> /\ MeIs(c, q[1], q[2], q[3])
      BY <1>1, <1>2, MeIn
    <3>2. <<q[1], q[2], q[3]>> \in MePlaces(c)
      BY <1>1, <3>1, MeIn
    <3> QED BY <3>1, <3>2
  <2> QED BY <2>1, <2>2
<1>5. ASSUME NEW q \in MePlaces(b) PROVE MeAlike(MeAt(c, q), MeAt(b, q))
  <2>1. q = <<q[1], q[2], q[3]>> /\ MeIs(b, q[1], q[2], q[3])
    BY MeIn
  <2>2. MeAlike(MeAt(c, <<q[1], q[2], q[3]>>), MeAt(b, <<q[1], q[2], q[3]>>))
    BY <1>1, <2>1
  <2> QED BY <2>1, <2>2
<1> QED BY <1>1, <1>3, <1>4, <1>5 DEF c

LEMMA MeConcat ==
    ASSUME NEW S, NEW a \in Seq(S), NEW c \in Seq(S)
    PROVE  /\ a \o c \in Seq(S) /\ Len(a \o c) = Len(a) + Len(c)
           /\ \A k \in 1 .. Len(a) : (a \o c)[k] = a[k]
           /\ \A k \in 1 .. Len(c) : (a \o c)[Len(a) + k] = c[k]
OBVIOUS

LEMMA MeRemoveAt ==
    ASSUME NEW S, NEW s \in Seq(S), NEW i \in 1 .. Len(s)
    PROVE  /\ M!RemoveAt(s, i) \in Seq(S) /\ Len(M!RemoveAt(s, i)) = Len(s) - 1
           /\ \A j \in 1 .. Len(s) - 1 : M!RemoveAt(s, i)[j] = IF j < i THEN s[j] ELSE s[j + 1]
<1> DEFINE a == SubSeq(s, 1, i - 1)
           c == SubSeq(s, i + 1, Len(s))
<1>1. a \in Seq(S) /\ Len(a) = i - 1 /\ \A j \in 1 .. i - 1 : a[j] = s[j]
  OBVIOUS
<1>2. c \in Seq(S) /\ Len(c) = Len(s) - i /\ \A j \in 1 .. Len(s) - i : c[j] = s[i + j]
  OBVIOUS
<1>3. M!RemoveAt(s, i) = a \o c
  BY DEF M!RemoveAt
<1> HIDE DEF a, c
<1>4. /\ a \o c \in Seq(S) /\ Len(a \o c) = Len(a) + Len(c)
      /\ \A k \in 1 .. Len(a) : (a \o c)[k] = a[k]
      /\ \A k \in 1 .. Len(c) : (a \o c)[Len(a) + k] = c[k]
  <2>1. a \in Seq(S) /\ c \in Seq(S)
    BY <1>1, <1>2
  <2> QED BY <2>1, MeConcat
<1>5. ASSUME NEW j \in 1 .. Len(s) - 1
      PROVE  (a \o c)[j] = IF j < i THEN s[j] ELSE s[j + 1]
  <2>1. CASE j < i
    <3>1. j \in 1 .. Len(a) /\ j \in 1 .. i - 1
      BY <1>1, <2>1
    <3> QED BY <1>1, <1>4, <2>1, <3>1
  <2>2. CASE ~(j < i)
    <3>1. /\ j - (i - 1) \in 1 .. Len(s) - i /\ i + (j - (i - 1)) = j + 1
          /\ j - (i - 1) \in 1 .. Len(c) /\ Len(a) + (j - (i - 1)) = j
      BY <1>1, <1>2, <2>2
    <3>2. (a \o c)[j] = c[j - (i - 1)]
      BY <1>4, <3>1
    <3> QED BY <1>2, <2>2, <3>1, <3>2
  <2> QED BY <2>1, <2>2
<1>6. Len(a \o c) = Len(s) - 1
  BY <1>1, <1>2, <1>4
<1> QED BY <1>3, <1>4, <1>5, <1>6

MeDropped(b, p) ==
    IF p[3] = 0 THEN [b EXCEPT ![p[1]] = M!RemoveAt(@, p[2])]
    ELSE [b EXCEPT ![p[1]][p[2]].sub = M!RemoveAt(@, p[3])]

\* Where a place of what is left was before.
MeBack(p, q) ==
    IF p[3] = 0 THEN IF q[1] = p[1] /\ q[2] >= p[2] THEN <<q[1], q[2] + 1, q[3]>> ELSE q
    ELSE IF q[1] = p[1] /\ q[2] = p[2] /\ q[3] >= p[3] THEN <<q[1], q[2], q[3] + 1>> ELSE q

LEMMA MeDroppingEntry ==
    ASSUME NEW b \in MeBars, NEW p \in MePlaces(b), p[3] = 0
    PROVE  LET c == MeDropped(b, p)
           IN /\ c \in MeBars
              /\ \A q \in MePlaces(c) :
                    /\ MeBack(p, q) \in MePlaces(b) /\ MeBack(p, q) # p
                    /\ MeAt(c, q) = MeAt(b, MeBack(p, q)) /\ (MeBack(p, q)[3] = 0 <=> q[3] = 0)
              /\ \A r \in MePlaces(b) :
                    r[1] # p[1] \/ r[2] # p[2] => \E q \in MePlaces(c) : MeBack(p, q) = r
<1> DEFINE c == MeDropped(b, p)
           m == p[1]
           e == p[2]
<1>1. m \in DOMAIN b /\ b[m] \in Seq(MeEntries) /\ e \in 1 .. Len(b[m]) /\ p = <<m, e, 0>>
  BY MeTyped, MeIn DEF MeBars
<1>2. c = [b EXCEPT ![m] = M!RemoveAt(b[m], e)]
  BY DEF MeDropped
<1>3. /\ M!RemoveAt(b[m], e) \in Seq(MeEntries) /\ Len(M!RemoveAt(b[m], e)) = Len(b[m]) - 1
      /\ \A f \in 1 .. Len(b[m]) - 1 :
            M!RemoveAt(b[m], e)[f] = IF f < e THEN b[m][f] ELSE b[m][f + 1]
  BY <1>1, MeRemoveAt
<1>4. /\ c \in MeBars /\ DOMAIN c = DOMAIN b /\ c[m] = M!RemoveAt(b[m], e)
      /\ \A k \in DOMAIN b : k # m => c[k] = b[k]
  BY <1>1, <1>2, <1>3 DEF MeBars
<1>5. /\ DOMAIN c[m] = 1 .. Len(b[m]) - 1 /\ DOMAIN b[m] = 1 .. Len(b[m])
      /\ \A f \in 1 .. Len(b[m]) - 1 : c[m][f] = IF f < e THEN b[m][f] ELSE b[m][f + 1]
  BY <1>1, <1>3, <1>4
<1> HIDE DEF c
<1>6. ASSUME NEW q \in MePlaces(c)
      PROVE  /\ MeBack(p, q) \in MePlaces(b) /\ MeBack(p, q) # p
             /\ MeAt(c, q) = MeAt(b, MeBack(p, q)) /\ (MeBack(p, q)[3] = 0 <=> q[3] = 0)
  <2>1. q = <<q[1], q[2], q[3]>> /\ MeIs(c, q[1], q[2], q[3]) /\ q[2] \in Nat
    BY <1>4, MeIn, MeTyped
  <2>2. CASE q[1] = m /\ q[2] >= e
    <3>1. MeBack(p, q) = <<m, q[2] + 1, q[3]>>
      BY <2>2 DEF MeBack
    <3>2. q[2] \in 1 .. Len(b[m]) - 1 /\ q[2] + 1 \in 1 .. Len(b[m]) /\ ~(q[2] < e)
      BY <1>1, <1>5, <2>1, <2>2 DEF MeIs
    <3>3. c[m][q[2]] = b[m][q[2] + 1]
      BY <1>5, <3>2
    <3>4. MeIs(b, m, q[2] + 1, q[3])
      BY <1>1, <1>5, <2>1, <2>2, <3>2, <3>3 DEF MeIs
    <3>5. <<m, q[2] + 1, q[3]>> \in MePlaces(b)
      BY <3>4, MeIn
    <3>6. MeAt(c, q) = MeAt(b, <<m, q[2] + 1, q[3]>>)
      BY <2>2, <3>3 DEF MeAt
    <3>7. <<m, q[2] + 1, q[3]>> # p
      BY <1>1, <2>1, <2>2
    <3> QED BY <3>1, <3>5, <3>6, <3>7
  <2>3. CASE q[1] = m /\ ~(q[2] >= e)
    <3>1. MeBack(p, q) = q
      BY <2>3 DEF MeBack
    <3>2. q[2] \in 1 .. Len(b[m]) - 1 /\ q[2] < e
      BY <1>1, <1>5, <2>1, <2>3 DEF MeIs
    <3>3. c[m][q[2]] = b[m][q[2]]
      BY <1>5, <3>2
    <3>4. MeIs(b, m, q[2], q[3])
      BY <1>1, <1>5, <2>1, <2>3, <3>2, <3>3 DEF MeIs
    <3>5. <<m, q[2], q[3]>> \in MePlaces(b)
      BY <3>4, MeIn
    <3>6. MeAt(c, q) = MeAt(b, q)
      BY <2>3, <3>3 DEF MeAt
    <3>7. q # p
      BY <1>1, <2>1, <3>2
    <3> QED BY <2>1, <2>3, <3>1, <3>5, <3>6, <3>7
  <2>4. CASE q[1] # m
    <3>1. MeBack(p, q) = q
      BY <2>4 DEF MeBack
    <3>2. MeIs(b, q[1], q[2], q[3])
      BY <1>4, <2>1, <2>4 DEF MeIs
    <3>3. <<q[1], q[2], q[3]>> \in MePlaces(b)
      BY <3>2, MeIn
    <3>4. MeAt(c, q) = MeAt(b, q)
      BY <1>4, <2>1, <2>4 DEF MeAt, MeIs
    <3> QED BY <2>1, <2>4, <3>1, <3>3, <3>4
  <2> QED BY <2>2, <2>3, <2>4
<1>7. ASSUME NEW r \in MePlaces(b), r[1] # m \/ r[2] # e
      PROVE  \E q \in MePlaces(c) : MeBack(p, q) = r
  <2>1. r = <<r[1], r[2], r[3]>> /\ MeIs(b, r[1], r[2], r[3]) /\ r[2] \in Nat
    BY MeIn, MeTyped
  <2>2. CASE r[1] = m /\ r[2] > e
    <3>1. r[2] \in 1 .. Len(b[m]) /\ r[2] - 1 \in 1 .. Len(b[m]) - 1 /\ ~(r[2] - 1 < e)
      BY <1>1, <1>5, <2>1, <2>2 DEF MeIs
    <3>2. c[m][r[2] - 1] = b[m][r[2]]
      BY <1>5, <3>1
    <3>3. MeIs(c, m, r[2] - 1, r[3])
      BY <1>1, <1>4, <1>5, <2>1, <2>2, <3>1, <3>2 DEF MeIs
    <3>4. <<m, r[2] - 1, r[3]>> \in MePlaces(c)
      BY <1>4, <3>3, MeIn
    <3>5. MeBack(p, <<m, r[2] - 1, r[3]>>) = r
      BY <1>1, <2>1, <2>2, <3>1 DEF MeBack
    <3> QED BY <3>4, <3>5
  <2>3. CASE r[1] = m /\ r[2] < e
    <3>1. r[2] \in 1 .. Len(b[m]) - 1
      BY <1>1, <1>5, <2>1, <2>3 DEF MeIs
    <3>2. c[m][r[2]] = b[m][r[2]]
      BY <1>5, <2>3, <3>1
    <3>3. MeIs(c, m, r[2], r[3])
      BY <1>1, <1>4, <1>5, <2>1, <2>3, <3>1, <3>2 DEF MeIs
    <3>4. <<m, r[2], r[3]>> \in MePlaces(c)
      BY <1>4, <3>3, MeIn
    <3>5. MeBack(p, r) = r
      BY <1>1, <2>1, <2>3 DEF MeBack
    <3> QED BY <2>1, <2>3, <3>4, <3>5
  <2>4. CASE r[1] # m
    <3>1. MeIs(c, r[1], r[2], r[3])
      BY <1>4, <2>1, <2>4 DEF MeIs
    <3>2. <<r[1], r[2], r[3]>> \in MePlaces(c)
      BY <1>4, <3>1, MeIn
    <3>3. MeBack(p, r) = r
      BY <2>4 DEF MeBack
    <3> QED BY <2>1, <3>2, <3>3
  <2> QED BY <1>1, <1>7, <2>1, <2>2, <2>3, <2>4
<1> QED BY <1>4, <1>6, <1>7 DEF c

LEMMA MeDroppingSub ==
    ASSUME NEW b \in MeBars, NEW p \in MePlaces(b), p[3] # 0
    PROVE  LET c == MeDropped(b, p)
           IN /\ c \in MeBars
              /\ \A q \in MePlaces(c) :
                    /\ MeBack(p, q) \in MePlaces(b) /\ MeBack(p, q) # p
                    /\ MeAlike(MeAt(c, q), MeAt(b, MeBack(p, q)))
                    /\ (MeBack(p, q)[3] = 0 <=> q[3] = 0)
              /\ \A r \in MePlaces(b) : r # p => \E q \in MePlaces(c) : MeBack(p, q) = r
<1> DEFINE c == MeDropped(b, p)
           m == p[1]
           e == p[2]
           s == p[3]
           old == b[m][e]
           new == [old EXCEPT !.sub = M!RemoveAt(old.sub, s)]
<1>1. /\ m \in DOMAIN b /\ e \in DOMAIN b[m] /\ old \in M!SubMenus /\ p = <<m, e, s>>
      /\ s \in 1 .. Len(old.sub) /\ old.sub \in Seq(M!Leaves)
  BY MeTyped, MeIn DEF MeBars, M!SubMenus
<1>2. c = [b EXCEPT ![m][e] = new]
  BY DEF MeDropped
<1>3. /\ M!RemoveAt(old.sub, s) \in Seq(M!Leaves)
      /\ Len(M!RemoveAt(old.sub, s)) = Len(old.sub) - 1
      /\ \A j \in 1 .. Len(old.sub) - 1 :
            M!RemoveAt(old.sub, s)[j] = IF j < s THEN old.sub[j] ELSE old.sub[j + 1]
  BY <1>1, MeRemoveAt
<1>4. new \in M!SubMenus /\ new.sub = M!RemoveAt(old.sub, s) /\ MeAlike(new, old)
  BY <1>1, <1>3 DEF M!SubMenus, MeAlike
<1>5. /\ new \in MeEntries /\ Len(new.sub) = Len(old.sub) - 1
      /\ \A j \in 1 .. Len(old.sub) - 1 :
            new.sub[j] = IF j < s THEN old.sub[j] ELSE old.sub[j + 1]
  BY <1>3, <1>4 DEF MeEntries
<1> HIDE DEF new, c
<1>6. /\ c \in MeBars /\ DOMAIN c = DOMAIN b
      /\ \A k \in DOMAIN b : DOMAIN c[k] = DOMAIN b[k]
      /\ c[m][e] = new
      /\ \A k \in DOMAIN b : \A f \in DOMAIN b[k] : k # m \/ f # e => c[k][f] = b[k][f]
  <2> HIDE DEF old, m, e
  <2> QED BY <1>1, <1>2, <1>5, MeEntry
<1>7. ASSUME NEW q \in MePlaces(c)
      PROVE  /\ MeBack(p, q) \in MePlaces(b) /\ MeBack(p, q) # p
             /\ MeAlike(MeAt(c, q), MeAt(b, MeBack(p, q)))
             /\ (MeBack(p, q)[3] = 0 <=> q[3] = 0)
  <2>1. q = <<q[1], q[2], q[3]>> /\ MeIs(c, q[1], q[2], q[3]) /\ q[3] \in Nat
    BY <1>6, MeIn, MeTyped
  <2>2. CASE q[1] # m \/ q[2] # e
    <3>1. MeBack(p, q) = q /\ q # p
      BY <1>1, <2>1, <2>2 DEF MeBack
    <3>2. MeIs(b, q[1], q[2], q[3])
      BY <1>6, <2>1, <2>2 DEF MeIs
    <3>3. <<q[1], q[2], q[3]>> \in MePlaces(b)
      BY <3>2, MeIn
    <3>4. MeAlike(MeAt(c, q), MeAt(b, q))
      BY <1>6, <2>1, <2>2 DEF MeAt, MeIs, MeAlike
    <3> QED BY <2>1, <3>1, <3>3, <3>4
  <2>3. CASE q[1] = m /\ q[2] = e /\ q[3] >= s
    <3>1. MeBack(p, q) = <<m, e, q[3] + 1>>
      BY <1>1, <2>3 DEF MeBack
    <3>2. q[3] \in 1 .. Len(old.sub) - 1 /\ q[3] + 1 \in 1 .. Len(old.sub) /\ ~(q[3] < s)
      BY <1>1, <1>5, <1>6, <2>1, <2>3 DEF MeIs
    <3>3. new.sub[q[3]] = old.sub[q[3] + 1]
      BY <1>5, <3>2
    <3>4. MeIs(b, m, e, q[3] + 1)
      BY <1>1, <3>2 DEF MeIs
    <3>5. <<m, e, q[3] + 1>> \in MePlaces(b)
      BY <3>4, MeIn
    <3>6. MeAt(c, q) = MeAt(b, <<m, e, q[3] + 1>>)
      BY <1>6, <2>3, <3>2, <3>3 DEF MeAt
    <3>7. <<m, e, q[3] + 1>> # p
      BY <1>1, <2>1, <2>3
    <3> QED BY <3>1, <3>2, <3>5, <3>6, <3>7 DEF MeAlike
  <2>4. CASE q[1] = m /\ q[2] = e /\ ~(q[3] >= s)
    <3>1. MeBack(p, q) = q /\ q[3] < s /\ q # p
      BY <1>1, <2>1, <2>4 DEF MeBack
    <3>2. MeIs(b, m, e, q[3])
      BY <1>1, <2>1, <3>1 DEF MeIs
    <3>3. <<m, e, q[3]>> \in MePlaces(b)
      BY <3>2, MeIn
    <3>4. MeAlike(MeAt(c, q), MeAt(b, q))
      <4>1. CASE q[3] = 0
        BY <1>4, <1>6, <2>4, <4>1 DEF MeAt, MeAlike
      <4>2. CASE q[3] # 0
        <5>1. new.sub[q[3]] = old.sub[q[3]]
          BY <1>1, <1>5, <2>1, <3>1, <4>2
        <5> QED BY <1>6, <2>4, <4>2, <5>1 DEF MeAt, MeAlike
      <4> QED BY <4>1, <4>2
    <3> QED BY <2>1, <2>4, <3>1, <3>3, <3>4
  <2> QED BY <2>2, <2>3, <2>4
<1>8. ASSUME NEW r \in MePlaces(b), r # p
      PROVE  \E q \in MePlaces(c) : MeBack(p, q) = r
  <2>1. r = <<r[1], r[2], r[3]>> /\ MeIs(b, r[1], r[2], r[3]) /\ r[3] \in Nat
    BY MeIn, MeTyped
  <2>2. CASE r[1] # m \/ r[2] # e
    <3>1. MeIs(c, r[1], r[2], r[3])
      BY <1>6, <2>1, <2>2 DEF MeIs
    <3>2. <<r[1], r[2], r[3]>> \in MePlaces(c)
      BY <1>6, <3>1, MeIn
    <3>3. MeBack(p, r) = r
      BY <1>1, <2>2 DEF MeBack
    <3> QED BY <2>1, <3>2, <3>3
  <2>3. CASE r[1] = m /\ r[2] = e /\ r[3] > s
    <3>1. MeIs(c, m, e, r[3] - 1) /\ r[3] - 1 >= s
      BY <1>1, <1>5, <1>6, <2>1, <2>3 DEF MeIs
    <3>2. <<m, e, r[3] - 1>> \in MePlaces(c)
      BY <1>6, <3>1, MeIn
    <3>3. MeBack(p, <<m, e, r[3] - 1>>) = r
      BY <1>1, <2>1, <2>3, <3>1 DEF MeBack
    <3> QED BY <3>2, <3>3
  <2>4. CASE r[1] = m /\ r[2] = e /\ r[3] < s
    <3>1. MeIs(c, m, e, r[3])
      BY <1>1, <1>5, <1>6, <2>1, <2>4 DEF MeIs
    <3>2. <<m, e, r[3]>> \in MePlaces(c)
      BY <1>6, <3>1, MeIn
    <3>3. MeBack(p, r) = r
      BY <1>1, <2>1, <2>4 DEF MeBack
    <3> QED BY <2>1, <2>4, <3>2, <3>3
  <2> QED BY <1>1, <1>8, <2>1, <2>2, <2>3, <2>4
<1> QED BY <1>6, <1>7, <1>8 DEF c

\* MeBack leads to one place from one only.
LEMMA MeBackOnce ==
    ASSUME NEW b \in MeBars, NEW c \in MeBars, NEW p \in MePlaces(b),
           NEW q \in MePlaces(c), NEW r \in MePlaces(c), MeBack(p, q) = MeBack(p, r)
    PROVE  q = r
<1>1. /\ q = <<q[1], q[2], q[3]>> /\ q[1] \in Nat /\ q[2] \in Nat /\ q[3] \in Nat
      /\ r = <<r[1], r[2], r[3]>> /\ r[1] \in Nat /\ r[2] \in Nat /\ r[3] \in Nat
      /\ p[1] \in Nat /\ p[2] \in Nat /\ p[3] \in Nat
  BY MeIn, MeTyped
<1>2. q[1] = r[1] /\ q[2] = r[2] /\ q[3] = r[3]
  <2>1. CASE p[3] = 0
    BY <1>1, <2>1 DEF MeBack
  <2>2. CASE p[3] # 0
    BY <1>1, <2>2 DEF MeBack
  <2> QED BY <2>1, <2>2
<1> QED BY <1>1, <1>2

--------------------------------------------------------------------------------
(***************************************************************************)
(* The items of a bar are those that were added, in the state asked for.   *)
(***************************************************************************)
MeItems(b) == {p \in MePlaces(b) : MeAt(b, p).type # "SubMenu"}

MeAsked(b, ad, as, pf) ==
    /\ \A id \in ad : \E p \in MeItems(b) : MeAt(b, p).id = id
    /\ \A p, q \in MeItems(b) : MeAt(b, p).id = MeAt(b, q).id => p = q
    /\ \A p \in MeItems(b) : MeAt(b, p).id \notin ad => pf = "Qt" /\ p[3] # 0
    /\ \A p \in MeItems(b) : MeAt(b, p).id \in ad =>
          /\ MeAt(b, p).checked = as[MeAt(b, p).id].checked
          /\ MeAt(b, p).disabled = as[MeAt(b, p).id].disabled

LEMMA MeTypes ==
    ASSUME NEW b \in MeBars, NEW p \in MePlaces(b)
    PROVE  /\ MeAt(b, p).type \in {"Item", "Check", "SubMenu"}
           /\ p \in MeItems(b) <=> MeAt(b, p).type \in {"Item", "Check"}
           /\ p \in MeItems(b) <=> MeAt(b, p) \in M!Leaves
BY MeTyped DEF MeItems, MeEntries, M!Leaves, M!SubMenus

LEMMA MeMeans ==
    /\ bar \in MeBars =>
          /\ \A p \in M!Places : M!IsItem(p) <=> p \in MeItems(bar)
          /\ \A id : M!PlacesOf(id) = {p \in MeItems(bar) : MeAt(bar, p).id = id}
          /\ M!ItemsAreAsAsked <=> (~misread => MeAsked(bar, entriesAdded, entriesAsked, system))
    /\ bar' \in MeBars =>
          M!ItemsAreAsAsked' <=>
              (~misread' => MeAsked(bar', entriesAdded', entriesAsked', system'))
<1>1. ASSUME bar \in MeBars
      PROVE  /\ \A p \in M!Places : M!IsItem(p) <=> p \in MeItems(bar)
             /\ \A id : M!PlacesOf(id) = {p \in MeItems(bar) : MeAt(bar, p).id = id}
  BY <1>1, MeNow, MeTypes DEF M!IsItem, M!PlacesOf, MeItems
<1>2. ASSUME bar \in MeBars
      PROVE  M!ItemsAreAsAsked <=> (~misread => MeAsked(bar, entriesAdded, entriesAsked, system))
  <2>1. MeItems(bar) \subseteq M!Places
    BY MeNow DEF MeItems
  <2>2. ASSUME M!ItemsAreAsAsked, ~misread
        PROVE  MeAsked(bar, entriesAdded, entriesAsked, system)
    BY <1>1, <1>2, <2>1, <2>2, MeNow DEF M!ItemsAreAsAsked, MeAsked
  <2>3. ASSUME ~misread, MeAsked(bar, entriesAdded, entriesAsked, system)
        PROVE  M!ItemsAreAsAsked
    <3>1. ASSUME NEW id \in entriesAdded PROVE M!PlacesOf(id) # {}
      BY <1>1, <1>2, <2>3 DEF MeAsked
    <3>2. ASSUME NEW p \in M!Places, M!IsItem(p)
          PROVE  /\ M!PlacesOf(M!At(p).id) = {p}
                 /\ M!At(p).id \notin entriesAdded => system = "Qt" /\ p[3] # 0
                 /\ M!At(p).id \in entriesAdded =>
                       /\ M!At(p).checked = entriesAsked[M!At(p).id].checked
                       /\ M!At(p).disabled = entriesAsked[M!At(p).id].disabled
      <4>1. p \in MeItems(bar) /\ M!At(p) = MeAt(bar, p)
        BY <1>1, <1>2, <3>2, MeNow
      <4>2. M!PlacesOf(MeAt(bar, p).id) = {p}
        BY <1>1, <1>2, <2>3, <4>1 DEF MeAsked
      <4> QED BY <2>3, <4>1, <4>2 DEF MeAsked
    <3> QED BY <3>1, <3>2 DEF M!ItemsAreAsAsked
  <2>4. misread => M!ItemsAreAsAsked
    BY DEF M!ItemsAreAsAsked
  <2> QED BY <2>2, <2>3, <2>4
<1>3. ASSUME bar' \in MeBars
      PROVE  M!ItemsAreAsAsked' <=>
                (~misread' => MeAsked(bar', entriesAdded', entriesAsked', system'))
  <2>0. /\ \A p \in M!Places' : M!IsItem(p)' <=> p \in MeItems(bar')
        /\ \A id : M!PlacesOf(id)' = {p \in MeItems(bar') : MeAt(bar', p).id = id}
    BY <1>3, MeNow, MeTypes DEF M!IsItem, M!PlacesOf, MeItems
  <2>1. MeItems(bar') \subseteq M!Places'
    BY MeNow DEF MeItems
  <2>2. ASSUME M!ItemsAreAsAsked', ~misread'
        PROVE  MeAsked(bar', entriesAdded', entriesAsked', system')
    BY <2>0, <1>3, <2>1, <2>2, MeNow DEF M!ItemsAreAsAsked, M!PlacesOf, MeAsked, MeItems
  <2>3. ASSUME ~misread', MeAsked(bar', entriesAdded', entriesAsked', system')
        PROVE  M!ItemsAreAsAsked'
    <3>1. ASSUME NEW id \in entriesAdded' PROVE M!PlacesOf(id)' # {}
      BY <2>0, <1>3, <2>3 DEF MeAsked
    <3>2. ASSUME NEW p \in M!Places', M!IsItem(p)'
          PROVE  /\ {q \in M!Places' : M!At(q)'.type # "SubMenu" /\ M!At(q)'.id = M!At(p)'.id} = {p}
                 /\ M!At(p)'.id \notin entriesAdded' => system' = "Qt" /\ p[3] # 0
                 /\ M!At(p)'.id \in entriesAdded' =>
                       /\ M!At(p)'.checked = entriesAsked'[M!At(p)'.id].checked
                       /\ M!At(p)'.disabled = entriesAsked'[M!At(p)'.id].disabled
      <4>1. p \in MeItems(bar') /\ M!At(p)' = MeAt(bar', p)
        BY <2>0, <1>3, <3>2, MeNow
      <4>2. {q \in MeItems(bar') : MeAt(bar', q).id = MeAt(bar', p).id} = {p}
        BY <2>3, <4>1 DEF MeAsked
      <4>3. {q \in M!Places' : M!At(q)'.type # "SubMenu" /\ M!At(q)'.id = M!At(p)'.id}
                = {q \in MeItems(bar') : MeAt(bar', q).id = MeAt(bar', p).id}
        BY MeNow DEF MeItems
      <4> QED BY <2>3, <4>1, <4>2, <4>3 DEF MeAsked
    <3> QED BY <3>1, <3>2 DEF M!ItemsAreAsAsked, M!PlacesOf
  <2>4. misread' => M!ItemsAreAsAsked'
    BY DEF M!ItemsAreAsAsked
  <2> QED BY <2>2, <2>3, <2>4
<1> QED BY <1>1, <1>2, <1>3

\* An entry is changed, and what is asked of it.
LEMMA MeAskedPut ==
    ASSUME NEW b \in MeBars, NEW c \in MeBars, NEW ad, NEW as, NEW now, NEW pf,
           NEW p \in MePlaces(b), MePlaces(c) = MePlaces(b),
           MeAt(c, p).type = MeAt(b, p).type, MeAt(c, p).id = MeAt(b, p).id,
           \A q \in MePlaces(b) : q # p => MeAlike(MeAt(c, q), MeAt(b, q)),
           \A id : id # MeAt(b, p).id => now[id] = as[id],
           p \in MeItems(b) /\ MeAt(b, p).id \in ad =>
               /\ MeAt(c, p).checked = now[MeAt(b, p).id].checked
               /\ MeAt(c, p).disabled = now[MeAt(b, p).id].disabled,
           p \notin MeItems(b) => now = as,
           MeAsked(b, ad, as, pf)
    PROVE  MeAsked(c, ad, now, pf)
<1>1. MeItems(c) = MeItems(b)
  BY DEF MeItems, MeAlike
<1>2. \A q \in MeItems(b) : MeAt(c, q).id = MeAt(b, q).id
  BY DEF MeItems, MeAlike
<1>3. ASSUME NEW q \in MeItems(b), MeAt(b, q).id \in ad
      PROVE  /\ MeAt(c, q).checked = now[MeAt(c, q).id].checked
             /\ MeAt(c, q).disabled = now[MeAt(c, q).id].disabled
  <2>1. CASE q = p
    BY <1>2, <1>3, <2>1
  <2>2. CASE q # p
    <3>1. MeAlike(MeAt(c, q), MeAt(b, q)) /\ MeAt(c, q).id = MeAt(b, q).id
      BY <1>2, <2>2 DEF MeItems
    <3>2. now[MeAt(b, q).id] = as[MeAt(b, q).id]
      BY <2>2 DEF MeAsked
    <3>3. /\ MeAt(b, q).checked = as[MeAt(b, q).id].checked
          /\ MeAt(b, q).disabled = as[MeAt(b, q).id].disabled
      BY <1>3 DEF MeAsked
    <3> QED BY <3>1, <3>2, <3>3 DEF MeAlike
  <2> QED BY <2>1, <2>2
<1> QED BY <1>1, <1>2, <1>3 DEF MeAsked

\* An item is added whose command no other one has.
LEMMA MeAskedGrown ==
    ASSUME NEW b \in MeBars, NEW c \in MeBars, NEW ad, NEW as, NEW now, NEW pf,
           NEW n, n \notin MePlaces(b), MePlaces(c) = MePlaces(b) \cup {n},
           MeAt(c, n).type # "SubMenu", ~MeAt(c, n).checked, ~MeAt(c, n).disabled,
           \A q \in MePlaces(b) : MeAlike(MeAt(c, q), MeAt(b, q)),
           \A q \in MeItems(b) : MeAt(b, q).id # MeAt(c, n).id,
           \A id : id # MeAt(c, n).id => now[id] = as[id],
           now[MeAt(c, n).id].checked = FALSE, now[MeAt(c, n).id].disabled = FALSE,
           MeAsked(b, ad, as, pf)
    PROVE  MeAsked(c, ad \cup {MeAt(c, n).id}, now, pf)
<1>0. MeAt(c, n).checked = FALSE /\ MeAt(c, n).disabled = FALSE
  <2>1. n \in MePlaces(c)
    OBVIOUS
  <2>2. MeAt(c, n).checked \in BOOLEAN /\ MeAt(c, n).disabled \in BOOLEAN
    BY <2>1, MeTyped DEF MeEntries, M!Leaves, M!SubMenus
  <2> QED BY <2>2
<1>1. MeItems(c) = MeItems(b) \cup {n}
  BY DEF MeItems, MeAlike
<1>2. \A q \in MeItems(b) : MeAlike(MeAt(c, q), MeAt(b, q))
  BY DEF MeItems
<1>3. \A q \in MeItems(b) : MeAt(c, q).id = MeAt(b, q).id /\ MeAt(c, q).id # MeAt(c, n).id
  BY <1>2 DEF MeAlike
<1>4. \A id \in ad \cup {MeAt(c, n).id} : \E p \in MeItems(c) : MeAt(c, p).id = id
  BY <1>1, <1>3 DEF MeAsked
<1>5. \A p, q \in MeItems(c) : MeAt(c, p).id = MeAt(c, q).id => p = q
  BY <1>1, <1>3 DEF MeAsked
<1>6. ASSUME NEW p \in MeItems(c), MeAt(c, p).id \notin ad \cup {MeAt(c, n).id}
      PROVE  pf = "Qt" /\ p[3] # 0
  BY <1>1, <1>3, <1>6 DEF MeAsked
<1>7. ASSUME NEW p \in MeItems(c), MeAt(c, p).id \in ad \cup {MeAt(c, n).id}
      PROVE  /\ MeAt(c, p).checked = now[MeAt(c, p).id].checked
             /\ MeAt(c, p).disabled = now[MeAt(c, p).id].disabled
  <2>1. CASE p = n
    BY <1>0, <2>1
  <2>2. CASE p # n
    <3>1. p \in MeItems(b) /\ MeAt(b, p).id \in ad
      BY <1>1, <1>3, <1>7, <2>2
    <3>2. now[MeAt(b, p).id] = as[MeAt(b, p).id]
      BY <1>3, <3>1
    <3>3. /\ MeAt(b, p).checked = as[MeAt(b, p).id].checked
          /\ MeAt(b, p).disabled = as[MeAt(b, p).id].disabled
      BY <3>1 DEF MeAsked
    <3>4. MeAlike(MeAt(c, p), MeAt(b, p))
      BY <1>2, <3>1
    <3> QED BY <3>2, <3>3, <3>4 DEF MeAlike
  <2> QED BY <2>1, <2>2
<1> QED BY <1>4, <1>5, <1>6, <1>7 DEF MeAsked

\* An item is taken out of the menus.
LEMMA MeAskedDropped ==
    ASSUME NEW b \in MeBars, NEW p \in MeItems(b), NEW ad, NEW as, NEW pf,
           MeAsked(b, ad, as, pf)
    PROVE  LET c == MeDropped(b, p)
           IN /\ c \in MeBars /\ MeAsked(c, ad \ {MeAt(b, p).id}, as, pf)
              /\ \A q \in MeItems(c) : \E r \in MeItems(b) \ {p} : MeAlike(MeAt(c, q), MeAt(b, r))
              /\ \A r \in MeItems(b) \ {p} : \E q \in MeItems(c) : MeAlike(MeAt(c, q), MeAt(b, r))
<1> DEFINE c == MeDropped(b, p)
<1>0. p \in MePlaces(b) /\ MeAt(b, p) \in M!Leaves
  BY MeTypes DEF MeItems
<1>1. /\ c \in MeBars
      /\ \A q \in MePlaces(c) :
            /\ MeBack(p, q) \in MePlaces(b) /\ MeBack(p, q) # p
            /\ MeAlike(MeAt(c, q), MeAt(b, MeBack(p, q)))
            /\ (MeBack(p, q)[3] = 0 <=> q[3] = 0)
      /\ \A r \in MePlaces(b) : r # p => \E q \in MePlaces(c) : MeBack(p, q) = r
  <2>1. CASE p[3] = 0
    <3>1. ASSUME NEW r \in MePlaces(b), r # p PROVE r[1] # p[1] \/ r[2] # p[2]
      <4>1. /\ r = <<r[1], r[2], r[3]>> /\ p = <<p[1], p[2], p[3]>>
            /\ r[3] \in 0 .. Len(b[r[1]][r[2]].sub)
        BY <1>0, MeIn DEF MeIs
      <4>2. MeAt(b, p) = b[p[1]][p[2]] /\ Len(b[p[1]][p[2]].sub) = 0
        BY <1>0, <2>1 DEF MeAt, M!Leaves
      <4> QED BY <2>1, <3>1, <4>1, <4>2
    <3> QED BY <1>0, <2>1, <3>1, MeDroppingEntry DEF MeAlike
  <2>2. CASE p[3] # 0
    BY <1>0, <2>2, MeDroppingSub
  <2> QED BY <2>1, <2>2
<1> HIDE DEF c
<1>2. ASSUME NEW q \in MeItems(c)
      PROVE  /\ MeBack(p, q) \in MeItems(b) \ {p} /\ MeAlike(MeAt(c, q), MeAt(b, MeBack(p, q)))
             /\ (MeBack(p, q)[3] = 0 <=> q[3] = 0)
  BY <1>1 DEF MeItems, MeAlike
<1>3. ASSUME NEW r \in MeItems(b) \ {p}
      PROVE  \E q \in MeItems(c) : MeAlike(MeAt(c, q), MeAt(b, r)) /\ MeBack(p, q) = r
  BY <1>1 DEF MeItems, MeAlike
<1>4. ASSUME NEW q \in MeItems(c), NEW r \in MeItems(c), MeAt(c, q).id = MeAt(c, r).id
      PROVE  q = r
  <2>1. MeBack(p, q) = MeBack(p, r)
    BY <1>2, <1>4 DEF MeAsked, MeAlike
  <2> QED BY <1>0, <1>1, <2>1, MeBackOnce DEF MeItems
<1>5. \A q \in MeItems(c) : MeAt(c, q).id # MeAt(b, p).id
  BY <1>2 DEF MeAsked, MeAlike
<1>6. ASSUME NEW id \in ad \ {MeAt(b, p).id} PROVE \E q \in MeItems(c) : MeAt(c, q).id = id
  <2>1. PICK r \in MeItems(b) : MeAt(b, r).id = id
    BY DEF MeAsked
  <2> QED BY <1>3, <2>1 DEF MeAlike
<1>7. ASSUME NEW q \in MeItems(c), MeAt(c, q).id \notin ad \ {MeAt(b, p).id}
      PROVE  pf = "Qt" /\ q[3] # 0
  BY <1>2, <1>5, <1>7 DEF MeAsked, MeAlike
<1>8. ASSUME NEW q \in MeItems(c), MeAt(c, q).id \in ad \ {MeAt(b, p).id}
      PROVE  /\ MeAt(c, q).checked = as[MeAt(c, q).id].checked
             /\ MeAt(c, q).disabled = as[MeAt(c, q).id].disabled
  <2> DEFINE r == MeBack(p, q)
  <2>1. r \in MeItems(b) /\ MeAlike(MeAt(c, q), MeAt(b, r)) /\ MeAt(b, r).id = MeAt(c, q).id
    BY <1>2 DEF MeAlike
  <2> HIDE DEF r
  <2>2. /\ MeAt(b, r).checked = as[MeAt(b, r).id].checked
        /\ MeAt(b, r).disabled = as[MeAt(b, r).id].disabled
    BY <1>8, <2>1 DEF MeAsked
  <2> QED BY <2>1, <2>2 DEF MeAlike
<1>9. MeAsked(c, ad \ {MeAt(b, p).id}, as, pf)
  BY <1>4, <1>6, <1>7, <1>8 DEF MeAsked
<1> QED BY <1>1, <1>2, <1>3, <1>9 DEF c

--------------------------------------------------------------------------------
(***************************************************************************)
(* The accelerators of the items of a bar, and a table that has them all   *)
(* and one entry more at most.                                             *)
(***************************************************************************)
MeAccs(b) ==
    {M!Accelerator(MeAt(b, p).key, MeAt(b, p).id) : p \in {q \in MeItems(b) : MeAt(b, q).key # NoKey}}

MeEntriesOfTables == [key : NewKeys, cmd : M!Ids]

MeOwn(accs, t, left) ==
    /\ \A a \in accs : \E k \in DOMAIN t \ {left} : t[k] = a
    /\ \A k \in DOMAIN t \ {left} : t[k] \in accs
    /\ \A k, l \in DOMAIN t \ {left} : t[k].cmd = t[l].cmd => k = l

MeTable(accs, t) == \E left \in 0 .. Len(t) : MeOwn(accs, t, left)

LEMMA MeFits ==
    /\ bar \in MeBars =>
          (M!TableFits <=> (system = "Windows" /\ ~starved => MeTable(MeAccs(bar), table)))
    /\ bar' \in MeBars =>
          (M!TableFits' <=> (system' = "Windows" /\ ~starved' => MeTable(MeAccs(bar'), table')))
<1>1. ASSUME bar \in MeBars
      PROVE  M!TableFits <=> (system = "Windows" /\ ~starved => MeTable(MeAccs(bar), table))
  <2>1. ASSUME NEW p
        PROVE  p \in M!Places /\ M!HasKey(p) <=> p \in MeItems(bar) /\ MeAt(bar, p).key # NoKey
    BY <1>1, MeNow, MeTypes DEF M!HasKey, M!IsItem, MeItems
  <2>2. ASSUME NEW left \in 0 .. Len(table)
        PROVE  MeOwn(MeAccs(bar), table, left) <=>
                 LET own == DOMAIN table \ {left}
                     of(k, p) == M!HasKey(p) /\ table[k] = M!Accelerator(M!At(p).key, M!At(p).id)
                 IN /\ \A p \in M!Places : M!HasKey(p) => \E k \in own : of(k, p)
                    /\ \A k \in own : \E p \in M!Places : of(k, p)
                    /\ \A k, l \in own : table[k].cmd = table[l].cmd => k = l
    <3> DEFINE own == DOMAIN table \ {left}
               of(k, p) == M!HasKey(p) /\ table[k] = M!Accelerator(M!At(p).key, M!At(p).id)
    <3>1. ASSUME NEW p, M!HasKey(p), p \in M!Places
          PROVE  M!Accelerator(M!At(p).key, M!At(p).id) \in MeAccs(bar)
      BY <2>1, <3>1, MeNow DEF MeAccs
    <3>2. ASSUME NEW a \in MeAccs(bar)
          PROVE  \E p \in M!Places : /\ M!HasKey(p)
                                      /\ a = M!Accelerator(M!At(p).key, M!At(p).id)
      BY <2>1, MeNow DEF MeAccs
    <3>3. (\A a \in MeAccs(bar) : \E k \in own : table[k] = a)
             <=> (\A p \in M!Places : M!HasKey(p) => \E k \in own : of(k, p))
      BY <3>1, <3>2
    <3>4. (\A k \in own : table[k] \in MeAccs(bar)) <=> (\A k \in own : \E p \in M!Places : of(k, p))
      BY <3>1, <3>2
    <3> QED BY <3>3, <3>4 DEF MeOwn
  <2> QED BY <2>2 DEF M!TableFits, MeTable
<1>2. ASSUME bar' \in MeBars
      PROVE  M!TableFits' <=> (system' = "Windows" /\ ~starved' => MeTable(MeAccs(bar'), table'))
  <2>1. ASSUME NEW p
        PROVE  p \in M!Places' /\ M!HasKey(p)' <=> p \in MeItems(bar') /\ MeAt(bar', p).key # NoKey
    BY <1>2, MeNow, MeTypes DEF M!HasKey, M!IsItem, MeItems
  <2>2. ASSUME NEW left \in 0 .. Len(table')
        PROVE  MeOwn(MeAccs(bar'), table', left) <=>
                 LET own == DOMAIN table' \ {left}
                     of(k, p) == M!HasKey(p)' /\ table'[k] = M!Accelerator(M!At(p)'.key, M!At(p)'.id)
                 IN /\ \A p \in M!Places' : M!HasKey(p)' => \E k \in own : of(k, p)
                    /\ \A k \in own : \E p \in M!Places' : of(k, p)
                    /\ \A k, l \in own : table'[k].cmd = table'[l].cmd => k = l
    <3> DEFINE own == DOMAIN table' \ {left}
               of(k, p) == M!HasKey(p)' /\ table'[k] = M!Accelerator(M!At(p)'.key, M!At(p)'.id)
    <3>1. ASSUME NEW p, M!HasKey(p)', p \in M!Places'
          PROVE  M!Accelerator(M!At(p)'.key, M!At(p)'.id) \in MeAccs(bar')
      BY <2>1, <3>1, MeNow DEF MeAccs
    <3>2. ASSUME NEW a \in MeAccs(bar')
          PROVE  \E p \in M!Places' : /\ M!HasKey(p)'
                                      /\ a = M!Accelerator(M!At(p)'.key, M!At(p)'.id)
      BY <2>1, MeNow DEF MeAccs
    <3>3. (\A a \in MeAccs(bar') : \E k \in own : table'[k] = a)
             <=> (\A p \in M!Places' : M!HasKey(p)' => \E k \in own : of(k, p))
      BY <3>1, <3>2
    <3>4. (\A k \in own : table'[k] \in MeAccs(bar')) <=> (\A k \in own : \E p \in M!Places' : of(k, p))
      BY <3>1, <3>2
    <3> QED BY <3>3, <3>4 DEF MeOwn
  <2> QED BY <2>2 DEF M!TableFits, MeTable
<1> QED BY <1>1, <1>2

LEMMA MeTableGrown ==
    ASSUME NEW accs, NEW t \in Seq(MeEntriesOfTables), NEW a \in MeEntriesOfTables,
           MeTable(accs, t), \A x \in accs : x.cmd # a.cmd
    PROVE  Append(t, a) \in Seq(MeEntriesOfTables) /\ MeTable(accs \cup {a}, Append(t, a))
<1>1. PICK left \in 0 .. Len(t) : MeOwn(accs, t, left)
  BY DEF MeTable
<1>2. /\ Append(t, a) \in Seq(MeEntriesOfTables) /\ Len(Append(t, a)) = Len(t) + 1
      /\ DOMAIN t = 1 .. Len(t) /\ DOMAIN Append(t, a) = 1 .. Len(t) + 1
      /\ Append(t, a)[Len(t) + 1] = a /\ \A k \in 1 .. Len(t) : Append(t, a)[k] = t[k]
  OBVIOUS
<1> DEFINE u == Append(t, a)
<1>3. Len(t) \in Nat /\ DOMAIN u \ {left} = (DOMAIN t \ {left}) \cup {Len(t) + 1}
  BY <1>2
<1> HIDE DEF u
<1>4. u[Len(t) + 1] = a /\ \A k \in DOMAIN t \ {left} : u[k] = t[k] /\ u[k].cmd # a.cmd
  BY <1>1, <1>2 DEF MeOwn, u
<1>5. MeOwn(accs \cup {a}, u, left)
  BY <1>1, <1>3, <1>4 DEF MeOwn
<1>6. left \in 0 .. Len(u)
  BY <1>2 DEF u
<1> QED BY <1>2, <1>5, <1>6 DEF MeTable, u

LEMMA MeLeast ==
    ASSUME NEW T, T \subseteq Nat, T # {}
    PROVE  /\ M!Min(T) \in T /\ \E k \in T : \A j \in T : k <= j
<1> DEFINE R == OpToRel(<, Nat)
<1>1. IsWellFoundedOn(R, Nat)
  BY NatLessThanWellFounded
<1>2. \A i, j \in Nat : i < j => <<i, j>> \in R
  BY DEF OpToRel
<1> HIDE DEF R
<1>3. PICK k \in T : \A j \in T : ~(<<j, k>> \in R)
  BY <1>1, WFMin
<1>4. ASSUME NEW j \in T PROVE k <= j
  <2>1. ~(j < k) /\ j \in Nat /\ k \in Nat
    BY <1>2, <1>3
  <2> QED BY <2>1
<1> QED BY <1>4 DEF M!Min

LEMMA MeTableDropped ==
    ASSUME NEW accs, NEW t \in Seq(MeEntriesOfTables), NEW id, MeTable(accs, t),
           \A x, y \in accs : x.cmd = y.cmd => x = y
    PROVE  LET r == M!WithoutAccelerator(t, id, FALSE).table
           IN r \in Seq(MeEntriesOfTables) /\ MeTable({x \in accs : x.cmd # id}, r)
<1> DEFINE r == M!WithoutAccelerator(t, id, FALSE).table
           E == M!EntriesOf(t, id)
           less == {x \in accs : x.cmd # id}
<1>1. PICK left \in 0 .. Len(t) : MeOwn(accs, t, left)
  BY DEF MeTable
<1>2. DOMAIN t = 1 .. Len(t) /\ Len(t) \in Nat /\ E = {k \in 1 .. Len(t) : t[k].cmd = id}
  BY DEF M!EntriesOf
<1>3. CASE E = {}
  <2>1. r = t
    BY <1>3 DEF M!WithoutAccelerator
  <2>2. less = accs
    BY <1>1, <1>2, <1>3 DEF MeOwn
  <2> QED BY <2>1, <2>2
<1>4. CASE E # {}
  <2> DEFINE i == M!Min(E)
             rest == M!RemoveAt(t, i)
  <2>1. i \in 1 .. Len(t) /\ t[i].cmd = id
    <3>1. E \subseteq Nat
      BY <1>2
    <3>2. i \in E
      BY <1>4, <3>1, MeLeast
    <3> QED BY <1>2, <3>2
  <2>2. /\ rest \in Seq(MeEntriesOfTables) /\ Len(rest) = Len(t) - 1
        /\ \A j \in 1 .. Len(t) - 1 : rest[j] = IF j < i THEN t[j] ELSE t[j + 1]
    BY <2>1, MeRemoveAt
  <2>3. r = IF rest # <<>> THEN rest ELSE t
    BY <1>4 DEF M!WithoutAccelerator, M!CanCreate
  <2> HIDE DEF i, rest, r, E
  <2>4. CASE rest = <<>>
    <3>0. Len(rest) = 0
      BY <2>4
    <3>1. Len(t) = 1 /\ i = 1
      <4>0. 0 = Len(t) - 1
        BY <2>2, <3>0
      <4>1. Len(t) = 1
        BY <4>0, LenProperties
      <4> QED BY <2>1, <4>1
    <3>2. less = {}
      <4> SUFFICES ASSUME NEW x \in accs PROVE x.cmd = id
        OBVIOUS
      <4>1. PICK k \in DOMAIN t \ {left} : t[k] = x
        BY <1>1 DEF MeOwn
      <4>2. k = i
        BY <1>2, <3>1, <4>1
      <4> QED BY <2>1, <4>1, <4>2
    <3>3. MeOwn(less, t, 1)
      BY <1>2, <3>1, <3>2 DEF MeOwn
    <3>4. r = t /\ MeTable(less, t)
      BY <2>3, <2>4, <3>1, <3>3 DEF MeTable
    <3> QED BY <3>4 DEF r
  <2>5. CASE rest # <<>>
    <3>1. PICK z \in 0 .. Len(t) :
             /\ z # i
             /\ \A k \in 1 .. Len(t) : k # i /\ k # z <=> k # left /\ t[k].cmd # id
      <4>1. CASE i # left
        <5>1. \A k \in 1 .. Len(t) : k # i /\ k # left <=> k # left /\ t[k].cmd # id
          BY <1>1, <1>2, <2>1, <4>1 DEF MeOwn
        <5> QED BY <1>2, <4>1, <5>1
      <4>2. CASE i = left /\ \E k \in 1 .. Len(t) : k # i /\ t[k].cmd = id
        <5>1. PICK z \in 1 .. Len(t) : z # i /\ t[z].cmd = id
          BY <4>2
        <5>2. \A k \in 1 .. Len(t) : k # i /\ k # z <=> k # left /\ t[k].cmd # id
          BY <1>1, <1>2, <4>2, <5>1 DEF MeOwn
        <5> QED BY <1>2, <5>1, <5>2
      <4>3. CASE i = left /\ ~\E k \in 1 .. Len(t) : k # i /\ t[k].cmd = id
        <5>1. \A k \in 1 .. Len(t) : k # i /\ k # 0 <=> k # left /\ t[k].cmd # id
          BY <1>2, <2>1, <4>3
        <5>2. 0 \in 0 .. Len(t) /\ 0 # i
          BY <1>2, <2>1
        <5> QED BY <5>1, <5>2
      <4> QED BY <4>1, <4>2, <4>3
    <3> DEFINE y == IF z = 0 THEN 0 ELSE IF z < i THEN z ELSE z - 1
               up(j) == IF j < i THEN j ELSE j + 1
    <3>2. y \in 0 .. Len(t) - 1
      BY <1>2, <2>1, <3>1
    <3>3. ASSUME NEW j \in (1 .. Len(t) - 1) \ {y}
          PROVE  /\ up(j) \in DOMAIN t \ {left} /\ t[up(j)].cmd # id /\ rest[j] = t[up(j)]
      <4>1. up(j) \in 1 .. Len(t) /\ up(j) # i /\ up(j) # z
        BY <1>2, <2>1, <3>1, <3>3
      <4>2. rest[j] = t[up(j)]
        BY <2>2, <3>3
      <4> QED BY <1>2, <3>1, <4>1, <4>2
    <3>4. ASSUME NEW k \in DOMAIN t \ {left}, t[k].cmd # id
          PROVE  \E j \in (1 .. Len(t) - 1) \ {y} : up(j) = k
      <4>1. k \in 1 .. Len(t) /\ k # i /\ k # z
        BY <1>2, <3>1, <3>4
      <4>2. CASE k < i
        <5>1. k \in 1 .. Len(t) - 1 /\ k # y /\ up(k) = k
          BY <1>2, <2>1, <3>1, <4>1, <4>2
        <5> QED BY <5>1
      <4>3. CASE ~(k < i)
        <5>1. k - 1 \in 1 .. Len(t) - 1 /\ k - 1 # y /\ up(k - 1) = k
          BY <1>2, <2>1, <3>1, <4>1, <4>3
        <5> QED BY <5>1
      <4> QED BY <4>2, <4>3
    <3>5. \A j, k \in 1 .. Len(t) - 1 : up(j) = up(k) => j = k
      BY <2>1
    <3>6. DOMAIN rest = 1 .. Len(t) - 1
      BY <2>2
    <3> HIDE DEF y, up
    <3>7. MeOwn(less, rest, y)
      <4>1. ASSUME NEW x \in less PROVE \E j \in DOMAIN rest \ {y} : rest[j] = x
        <5>1. PICK k \in DOMAIN t \ {left} : t[k] = x
          BY <1>1 DEF MeOwn
        <5> QED BY <3>3, <3>4, <3>6, <5>1
      <4>2. ASSUME NEW j \in DOMAIN rest \ {y} PROVE rest[j] \in less
        BY <1>1, <3>3, <3>6 DEF MeOwn
      <4>3. ASSUME NEW j \in DOMAIN rest \ {y}, NEW k \in DOMAIN rest \ {y}, rest[j].cmd = rest[k].cmd
            PROVE  j = k
        <5>1. up(j) = up(k)
          BY <1>1, <3>3, <3>6, <4>3 DEF MeOwn
        <5> QED BY <3>5, <3>6, <5>1
      <4> QED BY <4>1, <4>2, <4>3 DEF MeOwn
    <3>8. y \in 0 .. Len(rest)
      BY <2>2, <3>2
    <3>9. MeTable(less, rest)
      BY <3>7, <3>8 DEF MeTable
    <3> QED BY <2>2, <2>3, <2>5, <3>9 DEF r
  <2> QED BY <2>4, <2>5
<1> QED BY <1>3, <1>4

--------------------------------------------------------------------------------
(***************************************************************************)
(* WindowMenus: each action keeps the invariant.                           *)
(***************************************************************************)
LEMMA MeParts ==
    /\ M!InOrder =>
          /\ M!Typed /\ bar \in MeBars /\ table \in Seq(MeEntriesOfTables)
          /\ ~misread => MeAsked(bar, entriesAdded, entriesAsked, system)
          /\ system = "Windows" /\ ~starved => MeTable(MeAccs(bar), table)
    /\ /\ M!Typed'
       /\ ~misread' => MeAsked(bar', entriesAdded', entriesAsked', system')
       /\ system' = "Windows" /\ ~starved' => MeTable(MeAccs(bar'), table')
       => M!InOrder'
<1>1. M!Typed => bar \in MeBars /\ table \in Seq(MeEntriesOfTables)
  BY DEF M!Typed, MeBars, MeEntries, MeEntriesOfTables
<1>2. M!Typed' => bar' \in MeBars
  BY DEF M!Typed, MeBars, MeEntries
<1> QED BY <1>1, <1>2, MeMeans, MeFits DEF M!InOrder

\* The accelerators of a bar have the commands of its items.
LEMMA MeAccsOf ==
    ASSUME NEW b \in MeBars, NEW ad, NEW as, NEW pf, MeAsked(b, ad, as, pf)
    PROVE  /\ \A x, y \in MeAccs(b) : x.cmd = y.cmd => x = y
           /\ \A x \in MeAccs(b) : \E p \in MeItems(b) :
                 MeAt(b, p).id = x.cmd /\ MeAt(b, p).key = x.key /\ x.key # NoKey
           /\ \A p \in MeItems(b) : MeAt(b, p).key # NoKey =>
                 M!Accelerator(MeAt(b, p).key, MeAt(b, p).id) \in MeAccs(b)
<1>1. ASSUME NEW x \in MeAccs(b)
      PROVE  \E p \in MeItems(b) : /\ x = M!Accelerator(MeAt(b, p).key, MeAt(b, p).id)
                                   /\ MeAt(b, p).key # NoKey
  BY DEF MeAccs
<1>2. ASSUME NEW x \in MeAccs(b), NEW y \in MeAccs(b), x.cmd = y.cmd PROVE x = y
  <2>1. PICK p \in MeItems(b) : x = M!Accelerator(MeAt(b, p).key, MeAt(b, p).id)
    BY <1>1
  <2>2. PICK q \in MeItems(b) : y = M!Accelerator(MeAt(b, q).key, MeAt(b, q).id)
    BY <1>1
  <2>3. MeAt(b, p).id = MeAt(b, q).id
    BY <1>2, <2>1, <2>2 DEF M!Accelerator
  <2> QED BY <2>1, <2>2, <2>3 DEF MeAsked
<1>3. \A p \in MeItems(b) : MeAt(b, p).key # NoKey =>
         M!Accelerator(MeAt(b, p).key, MeAt(b, p).id) \in MeAccs(b)
  BY DEF MeAccs
<1>4. ASSUME NEW x \in MeAccs(b)
      PROVE  \E p \in MeItems(b) :
                MeAt(b, p).id = x.cmd /\ MeAt(b, p).key = x.key /\ x.key # NoKey
  BY <1>1 DEF M!Accelerator
<1> QED BY <1>2, <1>3, <1>4

LEMMA MeAccsKept ==
    ASSUME NEW b \in MeBars, NEW c \in MeBars, NEW p \in MePlaces(b), MePlaces(c) = MePlaces(b),
           MeAt(c, p).type = MeAt(b, p).type, MeAt(c, p).id = MeAt(b, p).id,
           MeAt(c, p).key = MeAt(b, p).key,
           \A q \in MePlaces(b) : q # p => MeAlike(MeAt(c, q), MeAt(b, q))
    PROVE  MeAccs(c) = MeAccs(b)
<1>1. \A q \in MePlaces(b) : /\ MeAt(c, q).type = MeAt(b, q).type /\ MeAt(c, q).id = MeAt(b, q).id
                             /\ MeAt(c, q).key = MeAt(b, q).key
  BY DEF MeAlike
<1>2. MeItems(c) = MeItems(b)
  BY <1>1 DEF MeItems
<1>3. \A q \in MeItems(b) : MeAt(c, q).id = MeAt(b, q).id /\ MeAt(c, q).key = MeAt(b, q).key
  BY <1>1 DEF MeItems
<1> QED BY <1>2, <1>3 DEF MeAccs

\* An entry that is changed keeps its type, command and key; the table stays.
LEMMA MeActionPut ==
    ASSUME M!InOrder, NEW p \in MePlaces(bar), NEW x \in MeEntries,
           x.sub = MeAt(bar, p).sub, x.type = MeAt(bar, p).type, x.id = MeAt(bar, p).id,
           x.key = MeAt(bar, p).key,
           bar' = MePut(bar, p, x),
           UNCHANGED <<system, table, entriesAdded, starved>>,
           entriesAsked' \in [M!Ids -> [checked : BOOLEAN, disabled : BOOLEAN]],
           misread' \in BOOLEAN, misread => misread', system = "Windows" => ~misread',
           ~misread' =>
               /\ p \in MeItems(bar)
               /\ \A id : id # x.id => entriesAsked'[id] = entriesAsked[id]
               /\ x.id \in entriesAdded =>
                     /\ x.checked = entriesAsked'[x.id].checked
                     /\ x.disabled = entriesAsked'[x.id].disabled
    PROVE  M!InOrder'
<1>1. /\ M!Typed /\ bar \in MeBars
      /\ ~misread => MeAsked(bar, entriesAdded, entriesAsked, system)
      /\ system = "Windows" /\ ~starved => MeTable(MeAccs(bar), table)
  BY MeParts
<1>2. /\ bar' \in MeBars /\ MePlaces(bar') = MePlaces(bar) /\ MeAt(bar', p) = x
      /\ \A q \in MePlaces(bar) : q # p => MeAlike(MeAt(bar', q), MeAt(bar, q))
  BY <1>1, MePutting
<1>3. MeAccs(bar') = MeAccs(bar)
  BY <1>1, <1>2, MeAccsKept
<1>4. ASSUME ~misread' PROVE MeAsked(bar', entriesAdded', entriesAsked', system')
  <2>1. MeAsked(bar, entriesAdded, entriesAsked, system)
    BY <1>1, <1>4
  <2>2. MeAsked(bar', entriesAdded, entriesAsked', system)
    BY <1>1, <1>2, <1>4, <2>1, MeAskedPut
  <2> QED BY <2>2
<1>5. M!Typed'
  BY <1>1, <1>2 DEF M!Typed, MeBars, MeEntries
<1> QED BY <1>1, <1>3, <1>4, <1>5, MeParts

LEMMA MeFound ==
    ASSUME M!InOrder, NEW id, NEW p \in M!PlacesOf(id)
    PROVE  /\ p \in MeItems(bar) /\ p \in MePlaces(bar) /\ M!At(p) = MeAt(bar, p)
           /\ M!At(p).id = id /\ M!At(p) \in M!Leaves
<1>1. bar \in MeBars
  BY MeParts
<1>2. p \in MeItems(bar) /\ MeAt(bar, p).id = id
  BY <1>1, MeMeans
<1>3. p \in MePlaces(bar)
  BY <1>2 DEF MeItems
<1> QED BY <1>1, <1>2, <1>3, MeTypes, MeNow

LEMMA MeUpdate ==
    ASSUME M!InOrder, NEW id \in M!Ids, NEW menu \in 0 .. 1, NEW key \in NewKeys,
           M!UpdateMenuItem(id, key, menu), UNCHANGED system
    PROVE  M!InOrder'
<1> DEFINE none == [checked |-> FALSE, disabled |-> FALSE]
<1>1. /\ UNCHANGED <<table, entriesAdded, starved, misread, result>>
      /\ \E p \in M!PlacesOf(id) : p[1] = menu + 1
      /\ system = "Windows" => /\ entriesAsked' = [entriesAsked EXCEPT ![id] = none]
                               /\ bar' = LET p == CHOOSE p \in M!PlacesOf(id) : p[1] = menu + 1
                                         IN M!Put(p, M!Modified(M!At(p), key))
      /\ system # "Windows" => bar' = bar /\ entriesAsked' = entriesAsked
  BY DEF M!UpdateMenuItem
<1>2. /\ M!Typed /\ bar \in MeBars
      /\ ~misread => MeAsked(bar, entriesAdded, entriesAsked, system)
      /\ system = "Windows" /\ ~starved => MeTable(MeAccs(bar), table)
  BY MeParts
<1>3. CASE system = "Windows"
  <2> DEFINE p == CHOOSE q \in M!PlacesOf(id) : q[1] = menu + 1
             x == M!Modified(M!At(p), key)
  <2>1. p \in M!PlacesOf(id) /\ bar' = M!Put(p, x)
    BY <1>1, <1>3
  <2> HIDE DEF p
  <2>2. /\ p \in MeItems(bar) /\ p \in MePlaces(bar) /\ M!At(p) = MeAt(bar, p)
        /\ M!At(p) \in M!Leaves /\ M!At(p).id = id
    BY <2>1, MeFound
  <2>3. /\ x \in M!Leaves /\ x.sub = M!At(p).sub /\ x.type = M!At(p).type /\ x.id = M!At(p).id
        /\ x.key = M!At(p).key /\ x.checked = FALSE /\ x.disabled = FALSE
    BY <2>2 DEF M!Leaves, M!Modified
  <2> HIDE DEF x
  <2>4. bar' = MePut(bar, p, x) /\ x \in MeEntries
    BY <2>1, <2>3 DEF M!Put, MePut, MeEntries
  <2>5. misread' = misread /\ misread \in BOOLEAN /\ (system = "Windows" => ~misread')
    BY <1>1, <1>2 DEF M!Typed
  <2>6. /\ entriesAsked' \in [M!Ids -> [checked : BOOLEAN, disabled : BOOLEAN]]
        /\ entriesAsked'[id].checked = FALSE /\ entriesAsked'[id].disabled = FALSE
        /\ \A i : i # id => entriesAsked'[i] = entriesAsked[i]
    <3>1. entriesAsked \in [M!Ids -> [checked : BOOLEAN, disabled : BOOLEAN]]
      BY <1>2 DEF M!Typed
    <3>2. none \in [checked : BOOLEAN, disabled : BOOLEAN] /\ none.checked = FALSE /\ none.disabled = FALSE
      OBVIOUS
    <3>3. entriesAsked' = [entriesAsked EXCEPT ![id] = none]
      BY <1>1, <1>3
    <3> HIDE DEF none
    <3> QED BY <3>1, <3>2, <3>3
  <2>7. /\ x.sub = MeAt(bar, p).sub /\ x.type = MeAt(bar, p).type /\ x.id = MeAt(bar, p).id
        /\ x.key = MeAt(bar, p).key /\ UNCHANGED <<system, table, entriesAdded, starved>>
    BY <1>1, <2>2, <2>3
  <2>8. ASSUME ~misread'
        PROVE  /\ p \in MeItems(bar) /\ \A i : i # x.id => entriesAsked'[i] = entriesAsked[i]
               /\ x.id \in entriesAdded => /\ x.checked = entriesAsked'[x.id].checked
                                          /\ x.disabled = entriesAsked'[x.id].disabled
    BY <2>2, <2>3, <2>6
  <2> QED BY <2>2, <2>4, <2>5, <2>6, <2>7, <2>8, MeActionPut
<1>4. CASE system # "Windows"
  <2>1. bar' = bar /\ entriesAsked' = entriesAsked
    BY <1>1, <1>4
  <2>2. M!Typed'
    BY <1>1, <1>2, <2>1 DEF M!Typed
  <2> QED BY <1>1, <1>2, <2>1, <2>2, MeParts
<1> QED BY <1>3, <1>4

\* What EnableMenuItem() and CheckMenuItem() may find.
LEMMA MeMayFind ==
    ASSUME M!InOrder, NEW id, NEW p \in M!Found(id)
    PROVE  /\ p \in MePlaces(bar) /\ M!At(p) = MeAt(bar, p) /\ M!At(p) \in MeEntries
           /\ system = "Windows" => p \in M!PlacesOf(id)
<1>1. bar \in MeBars
  BY MeParts
<1>2. p \in M!PlacesOf(id) \/ (p \in M!Places /\ system # "Windows")
  BY DEF M!Found, M!FindMenuItem
<1>3. M!PlacesOf(id) \subseteq M!Places
  BY DEF M!PlacesOf
<1> QED BY <1>1, <1>2, <1>3, MeNow, MeTyped

LEMMA MeOneIsFound ==
    ASSUME M!InOrder, ~misread, NEW id \in entriesAdded
    PROVE  M!Found(id) # {} /\ M!PlacesOf(id) # {}
BY DEF M!InOrder, M!ItemsAreAsAsked, M!Found, M!FindMenuItem

LEMMA MeEnable ==
    ASSUME M!InOrder, NEW id \in M!Ids, NEW enable \in BOOLEAN,
           M!EnableMenuItem(id, enable), UNCHANGED system
    PROVE  M!InOrder'
<1>1. /\ id \in entriesAdded /\ entriesAsked' = [entriesAsked EXCEPT ![id].disabled = ~enable]
      /\ UNCHANGED <<table, entriesAdded, starved, result>>
  BY DEF M!EnableMenuItem
<1>2. /\ M!Typed /\ bar \in MeBars
      /\ ~misread => MeAsked(bar, entriesAdded, entriesAsked, system)
      /\ system = "Windows" /\ ~starved => MeTable(MeAccs(bar), table)
  BY MeParts
<1>3. /\ entriesAsked \in [M!Ids -> [checked : BOOLEAN, disabled : BOOLEAN]]
      /\ entriesAsked' \in [M!Ids -> [checked : BOOLEAN, disabled : BOOLEAN]]
      /\ \A i : i # id => entriesAsked'[i] = entriesAsked[i]
      /\ entriesAsked'[id].checked = entriesAsked[id].checked
      /\ entriesAsked'[id].disabled = ~enable
  <2>1. entriesAsked \in [M!Ids -> [checked : BOOLEAN, disabled : BOOLEAN]]
    BY <1>2 DEF M!Typed
  <2>2. entriesAsked' \in [M!Ids -> [checked : BOOLEAN, disabled : BOOLEAN]]
    BY <1>1, <2>1
  <2>3. \A i : i # id => entriesAsked'[i] = entriesAsked[i]
    BY <1>1, <2>1
  <2> QED BY <1>1, <2>1, <2>2, <2>3
<1>4. CASE M!Found(id) = {}
  <2>1. bar' = bar /\ misread' = misread
    BY <1>4 DEF M!EnableMenuItem
  <2>2. misread
    BY <1>1, <1>4, MeOneIsFound
  <2>3. M!Typed'
    BY <1>1, <1>2, <1>3, <2>1 DEF M!Typed
  <2> QED BY <1>1, <1>2, <2>1, <2>2, <2>3, MeParts
<1>5. CASE M!Found(id) # {}
  <2>1. PICK p \in M!Found(id) :
           /\ bar' = M!Put(p, [M!At(p) EXCEPT !.disabled = ~enable])
           /\ misread' = (misread \/ p \notin M!PlacesOf(id))
    BY <1>5 DEF M!EnableMenuItem
  <2> DEFINE x == [M!At(p) EXCEPT !.disabled = ~enable]
  <2>2. /\ p \in MePlaces(bar) /\ M!At(p) = MeAt(bar, p) /\ M!At(p) \in MeEntries
        /\ system = "Windows" => p \in M!PlacesOf(id)
    BY MeMayFind
  <2>3. /\ x \in MeEntries /\ x.sub = M!At(p).sub /\ x.type = M!At(p).type /\ x.id = M!At(p).id
        /\ x.key = M!At(p).key /\ x.checked = M!At(p).checked /\ x.disabled = ~enable
    BY <2>2 DEF M!Leaves, M!SubMenus, MeEntries
  <2>4. bar' = MePut(bar, p, x)
    BY <2>1 DEF M!Put, MePut
  <2> HIDE DEF x
  <2>5. misread \in BOOLEAN /\ (system = "Windows" => ~misread)
    BY <1>2 DEF M!Typed
  <2>6. misread' \in BOOLEAN /\ (misread => misread') /\ (system = "Windows" => ~misread')
    BY <2>1, <2>2, <2>5
  <2>7. ASSUME ~misread'
        PROVE  /\ p \in MeItems(bar) /\ x.id = id
               /\ x.checked = entriesAsked'[x.id].checked
               /\ x.disabled = entriesAsked'[x.id].disabled
    <3>1. p \in M!PlacesOf(id) /\ ~misread
      BY <2>1, <2>7
    <3>2. p \in MeItems(bar) /\ M!At(p).id = id
      BY <3>1, MeFound
    <3>3. M!At(p).checked = entriesAsked[id].checked
      BY <1>1, <1>2, <2>2, <3>1, <3>2 DEF MeAsked
    <3> QED BY <1>3, <2>3, <3>2, <3>3
  <2> QED BY <1>1, <1>3, <2>2, <2>3, <2>4, <2>6, <2>7, MeActionPut
<1> QED BY <1>4, <1>5

\* What is asked of one command changes.
LEMMA MeAskedOf ==
    ASSUME NEW as \in [M!Ids -> [checked : BOOLEAN, disabled : BOOLEAN]], NEW id \in M!Ids,
           NEW tick \in BOOLEAN
    PROVE  LET now == [as EXCEPT ![id].checked = tick]
           IN /\ now \in [M!Ids -> [checked : BOOLEAN, disabled : BOOLEAN]]
              /\ \A i : i # id => now[i] = as[i]
              /\ now[id].checked = tick /\ now[id].disabled = as[id].disabled
<1> DEFINE now == [as EXCEPT ![id].checked = tick]
<1>1. now \in [M!Ids -> [checked : BOOLEAN, disabled : BOOLEAN]]
  OBVIOUS
<1>2. \A i : i # id => now[i] = as[i]
  OBVIOUS
<1>3. now[id].checked = tick /\ now[id].disabled = as[id].disabled
  OBVIOUS
<1> QED BY <1>1, <1>2, <1>3

LEMMA MeCheck ==
    ASSUME M!InOrder, NEW id \in M!Ids, NEW enable \in BOOLEAN,
           M!CheckMenuItem(id, enable), UNCHANGED system
    PROVE  M!InOrder'
<1>1. id \in entriesAdded /\ UNCHANGED <<table, entriesAdded, starved, result>>
  BY DEF M!CheckMenuItem
<1>2. /\ M!Typed /\ bar \in MeBars
      /\ ~misread => MeAsked(bar, entriesAdded, entriesAsked, system)
      /\ system = "Windows" /\ ~starved => MeTable(MeAccs(bar), table)
      /\ entriesAsked \in [M!Ids -> [checked : BOOLEAN, disabled : BOOLEAN]]
  BY MeParts DEF M!Typed
<1>3. CASE bar' = bar /\ misread' = misread /\ entriesAsked' = entriesAsked
  <2>1. M!Typed'
    BY <1>1, <1>2, <1>3 DEF M!Typed
  <2> QED BY <1>1, <1>2, <1>3, <2>1, MeParts
<1>4. CASE M!Found(id) = {}
  BY <1>3, <1>4 DEF M!CheckMenuItem
<1>5. CASE M!Found(id) # {}
  <2> DEFINE ticks(p) == system = "Windows" \/ M!At(p).type = "Check"
  <2>1. PICK p \in M!Found(id) :
           /\ bar' = IF ticks(p) THEN M!Put(p, [M!At(p) EXCEPT !.checked = enable]) ELSE bar
           /\ entriesAsked' = IF ticks(p) \/ p \notin M!PlacesOf(id)
                              THEN [entriesAsked EXCEPT ![id].checked = enable] ELSE entriesAsked
           /\ misread' = (misread \/ p \notin M!PlacesOf(id))
    BY <1>5 DEF M!CheckMenuItem
  <2>2. /\ p \in MePlaces(bar) /\ M!At(p) = MeAt(bar, p) /\ M!At(p) \in MeEntries
        /\ system = "Windows" => p \in M!PlacesOf(id)
    BY MeMayFind
  <2>3. misread \in BOOLEAN /\ (system = "Windows" => ~misread)
    BY <1>2 DEF M!Typed
  <2>4. misread' \in BOOLEAN /\ (misread => misread') /\ (system = "Windows" => ~misread')
    BY <2>1, <2>2, <2>3
  <2>5. ASSUME ~misread'
        PROVE  /\ p \in MeItems(bar) /\ M!At(p).id = id /\ p \in M!PlacesOf(id) /\ ~misread
               /\ M!At(p).checked = entriesAsked[id].checked
               /\ M!At(p).disabled = entriesAsked[id].disabled
    <3>1. p \in M!PlacesOf(id) /\ ~misread
      BY <2>1, <2>5
    <3>2. p \in MeItems(bar) /\ M!At(p).id = id
      BY <3>1, MeFound
    <3> QED BY <1>1, <1>2, <2>2, <3>1, <3>2 DEF MeAsked
  <2>6. CASE ticks(p)
    <3> DEFINE x == [M!At(p) EXCEPT !.checked = enable]
    <3>1. /\ x \in MeEntries /\ x.sub = M!At(p).sub /\ x.type = M!At(p).type /\ x.id = M!At(p).id
          /\ x.key = M!At(p).key /\ x.disabled = M!At(p).disabled /\ x.checked = enable
      BY <2>2 DEF M!Leaves, M!SubMenus, MeEntries
    <3>2. bar' = MePut(bar, p, x)
      BY <2>1, <2>6 DEF M!Put, MePut
    <3> HIDE DEF x
    <3>3. entriesAsked' = [entriesAsked EXCEPT ![id].checked = enable]
      BY <2>1, <2>6
    <3>4. /\ entriesAsked' \in [M!Ids -> [checked : BOOLEAN, disabled : BOOLEAN]]
          /\ \A i : i # id => entriesAsked'[i] = entriesAsked[i]
          /\ entriesAsked'[id].checked = enable
          /\ entriesAsked'[id].disabled = entriesAsked[id].disabled
      BY <1>2, <3>3, MeAskedOf
    <3>5. ASSUME ~misread'
          PROVE  /\ p \in MeItems(bar) /\ x.id = id
                 /\ x.checked = entriesAsked'[x.id].checked
                 /\ x.disabled = entriesAsked'[x.id].disabled
      BY <2>5, <3>1, <3>4, <3>5
    <3> QED BY <1>1, <2>2, <2>4, <3>1, <3>2, <3>4, <3>5, MeActionPut
  <2>7. CASE ~ticks(p)
    <3>1. bar' = bar
      BY <2>1, <2>7
    <3>2. entriesAsked' \in [M!Ids -> [checked : BOOLEAN, disabled : BOOLEAN]]
      BY <1>2, <2>1, MeAskedOf
    <3>3. ~misread' => entriesAsked' = entriesAsked /\ ~misread
      BY <2>1, <2>5, <2>7
    <3>4. M!Typed'
      BY <1>1, <1>2, <2>4, <3>1, <3>2 DEF M!Typed
    <3> QED BY <1>1, <1>2, <3>1, <3>3, <3>4, MeParts
  <2> QED BY <2>6, <2>7
<1> QED BY <1>4, <1>5

LEMMA MePick ==
    ASSUME M!InOrder, NEW p \in M!Places, M!PickItem(p), UNCHANGED system
    PROVE  M!InOrder'
<1>1. /\ M!At(p).type \in {"Item", "Check"}
      /\ bar' = M!Put(p, [M!At(p) EXCEPT !.checked = ~@])
      /\ entriesAsked' = [entriesAsked EXCEPT ![M!At(p).id].checked = ~M!At(p).checked]
      /\ UNCHANGED <<table, entriesAdded, starved, misread, result>>
  BY DEF M!PickItem, M!IsItem
<1>2. /\ M!Typed /\ bar \in MeBars
      /\ ~misread => MeAsked(bar, entriesAdded, entriesAsked, system)
      /\ entriesAsked \in [M!Ids -> [checked : BOOLEAN, disabled : BOOLEAN]]
  BY MeParts DEF M!Typed
<1>3. p \in MePlaces(bar) /\ M!At(p) = MeAt(bar, p)
  BY MeNow
<1>4. p \in MeItems(bar) /\ M!At(p) \in M!Leaves
  BY <1>1, <1>2, <1>3, MeTypes
<1> DEFINE x == [M!At(p) EXCEPT !.checked = ~@]
           id == M!At(p).id
           tick == ~M!At(p).checked
<1>5. id \in M!Ids /\ tick \in BOOLEAN
  BY <1>4 DEF M!Leaves
<1>6. /\ x \in MeEntries /\ x.sub = M!At(p).sub /\ x.type = M!At(p).type /\ x.id = id
      /\ x.key = M!At(p).key /\ x.disabled = M!At(p).disabled
  BY <1>4 DEF M!Leaves, MeEntries
<1>7. x.checked = tick
  BY <1>4 DEF M!Leaves
<1>8. bar' = MePut(bar, p, x)
  BY <1>1 DEF M!Put, MePut
<1>9. entriesAsked' = [entriesAsked EXCEPT ![id].checked = tick]
  BY <1>1
<1> HIDE DEF x, id, tick
<1>10. /\ entriesAsked' \in [M!Ids -> [checked : BOOLEAN, disabled : BOOLEAN]]
       /\ \A i : i # id => entriesAsked'[i] = entriesAsked[i]
       /\ entriesAsked'[id].checked = tick
       /\ entriesAsked'[id].disabled = entriesAsked[id].disabled
  BY <1>2, <1>5, <1>9, MeAskedOf
<1>11. misread' \in BOOLEAN /\ (misread => misread') /\ (system = "Windows" => ~misread')
  BY <1>1, <1>2 DEF M!Typed
<1>12. ASSUME ~misread', id \in entriesAdded PROVE M!At(p).disabled = entriesAsked[id].disabled
  BY <1>1, <1>2, <1>3, <1>4, <1>12 DEF MeAsked, id
<1>13. id = MeAt(bar, p).id
  BY <1>3 DEF id
<1>14. ASSUME ~misread'
       PROVE  /\ \A i : i # x.id => entriesAsked'[i] = entriesAsked[i]
              /\ x.id \in entriesAdded => /\ x.checked = entriesAsked'[x.id].checked
                                         /\ x.disabled = entriesAsked'[x.id].disabled
  BY <1>6, <1>7, <1>10, <1>12, <1>14
<1>15. /\ x.sub = MeAt(bar, p).sub /\ x.type = MeAt(bar, p).type /\ x.id = MeAt(bar, p).id
       /\ x.key = MeAt(bar, p).key /\ UNCHANGED <<system, table, entriesAdded, starved>>
  BY <1>1, <1>3, <1>6, <1>13
<1> QED BY <1>3, <1>4, <1>6, <1>8, <1>10, <1>11, <1>14, <1>15, MeActionPut

\* The accelerators of a bar that has one item more, or one less.
LEMMA MeAccsGrown ==
    ASSUME NEW b \in MeBars, NEW c \in MeBars, NEW n, n \notin MePlaces(b),
           MePlaces(c) = MePlaces(b) \cup {n}, MeAt(c, n).type # "SubMenu",
           \A q \in MePlaces(b) : MeAlike(MeAt(c, q), MeAt(b, q))
    PROVE  MeAccs(c) = MeAccs(b) \cup (IF MeAt(c, n).key = NoKey THEN {}
                                       ELSE {M!Accelerator(MeAt(c, n).key, MeAt(c, n).id)})
<1>1. MeItems(c) = MeItems(b) \cup {n}
  BY DEF MeItems, MeAlike
<1>2. \A q \in MeItems(b) : MeAt(c, q).id = MeAt(b, q).id /\ MeAt(c, q).key = MeAt(b, q).key
  BY DEF MeItems, MeAlike
<1> QED BY <1>1, <1>2 DEF MeAccs

LEMMA MeAccsDropped ==
    ASSUME NEW b \in MeBars, NEW p \in MeItems(b), NEW ad, NEW as, NEW pf, MeAsked(b, ad, as, pf)
    PROVE  MeAccs(MeDropped(b, p)) = {x \in MeAccs(b) : x.cmd # MeAt(b, p).id}
<1> DEFINE c == MeDropped(b, p)
<1>1. /\ \A q \in MeItems(c) : \E r \in MeItems(b) \ {p} : MeAlike(MeAt(c, q), MeAt(b, r))
      /\ \A r \in MeItems(b) \ {p} : \E q \in MeItems(c) : MeAlike(MeAt(c, q), MeAt(b, r))
  BY MeAskedDropped
<1> HIDE DEF c
<1>2. ASSUME NEW x \in MeAccs(c) PROVE x \in MeAccs(b) /\ x.cmd # MeAt(b, p).id
  <2>1. PICK q \in MeItems(c) : /\ x = M!Accelerator(MeAt(c, q).key, MeAt(c, q).id)
                                /\ MeAt(c, q).key # NoKey
    BY DEF MeAccs
  <2>2. PICK r \in MeItems(b) \ {p} : MeAlike(MeAt(c, q), MeAt(b, r))
    BY <1>1
  <2>3. x = M!Accelerator(MeAt(b, r).key, MeAt(b, r).id) /\ MeAt(b, r).key # NoKey
    BY <2>1, <2>2 DEF MeAlike
  <2>4. MeAt(b, r).id # MeAt(b, p).id
    BY DEF MeAsked
  <2> QED BY <2>3, <2>4 DEF MeAccs, M!Accelerator
<1>3. ASSUME NEW x \in MeAccs(b), x.cmd # MeAt(b, p).id PROVE x \in MeAccs(c)
  <2>1. PICK r \in MeItems(b) : /\ x = M!Accelerator(MeAt(b, r).key, MeAt(b, r).id)
                                /\ MeAt(b, r).key # NoKey
    BY DEF MeAccs
  <2>2. r # p
    BY <1>3, <2>1 DEF M!Accelerator
  <2>3. PICK q \in MeItems(c) : MeAlike(MeAt(c, q), MeAt(b, r))
    BY <1>1, <2>2
  <2>4. x = M!Accelerator(MeAt(c, q).key, MeAt(c, q).id) /\ MeAt(c, q).key # NoKey
    BY <2>1, <2>3 DEF MeAlike
  <2> QED BY <2>4 DEF MeAccs
<1>4. MeAccs(c) = {x \in MeAccs(b) : x.cmd # MeAt(b, p).id}
  BY <1>2, <1>3
<1> QED BY <1>4 DEF c

LEMMA MeAdd ==
    ASSUME M!InOrder, NEW id \in NewIds, NEW key \in NewKeys \cup {NoKey}, NEW menu \in 0 .. 2,
           NEW sub \in -1 .. 1, M!AddMenuItem(id, key, menu, sub), UNCHANGED system
    PROVE  M!InOrder'
<1> DEFINE cleared == [checked |-> FALSE, disabled |-> FALSE]
<1>1. /\ M!Typed /\ bar \in MeBars /\ table \in Seq(MeEntriesOfTables)
      /\ ~misread => MeAsked(bar, entriesAdded, entriesAsked, system)
      /\ system = "Windows" /\ ~starved => MeTable(MeAccs(bar), table)
      /\ entriesAsked \in [M!Ids -> [checked : BOOLEAN, disabled : BOOLEAN]]
  BY MeParts DEF M!Typed
<1>2. M!PlacesOf(id) = {} /\ UNCHANGED misread
  BY DEF M!AddMenuItem
<1>3. id \in M!Ids /\ id # 0 /\ entriesAdded \subseteq M!Ids \ {0}
  BY <1>1, MenuAssumption DEF M!Typed, M!Ids
<1>4. \A q \in MeItems(bar) : MeAt(bar, q).id # id
  BY <1>1, <1>2, MeMeans
<1>5. CASE UNCHANGED <<bar, table, starved, entriesAdded, entriesAsked>>
  <2>1. M!Typed'
    BY <1>1, <1>2, <1>5 DEF M!Typed
  <2> QED BY <1>1, <1>2, <1>5, <2>1, MeParts
<1>6. CASE M!HasPlace(menu, sub)
  <2> DEFINE x == M!Entry("Item", id, key)
             now == M!Appended(menu, sub, x)
             a == M!Accelerator(key, id)
  <2>1. PICK shortage \in Shortages :
           IF system = "Windows" /\ key # NoKey
           THEN /\ table' = M!WithAccelerator(id, key, shortage).table
                /\ starved' = (starved \/ shortage)
                /\ result' = M!WithAccelerator(id, key, shortage).result
                /\ bar' = IF M!WithAccelerator(id, key, shortage).result = "KErrNone" THEN now ELSE bar
           ELSE /\ bar' = now
                /\ result' = "KErrNone"
                /\ UNCHANGED <<table, starved>>
    BY <1>6 DEF M!AddMenuItem
  <2>2. /\ entriesAdded' = IF result' = "KErrNone" THEN entriesAdded \cup {id} ELSE entriesAdded
        /\ entriesAsked' = [entriesAsked EXCEPT ![id] = cleared]
    BY <1>6 DEF M!AddMenuItem
  <2>3. /\ entriesAsked' \in [M!Ids -> [checked : BOOLEAN, disabled : BOOLEAN]]
        /\ entriesAsked'[id].checked = FALSE /\ entriesAsked'[id].disabled = FALSE
        /\ \A i : i # id => entriesAsked'[i] = entriesAsked[i]
    BY <1>1, <1>3, <2>2
  <2>4. x \in M!Leaves /\ x.id = id /\ x.key = key /\ x.type = "Item"
    BY <1>3 DEF M!Entry, M!Leaves
  <2>5. ~x.checked /\ ~x.disabled
    BY DEF M!Entry
  <2>6. PICK m \in DOMAIN bar, e \in Nat :
           /\ e # 0 => e \in DOMAIN bar[m] /\ bar[m][e] \in M!SubMenus
           /\ now = MeGrown(bar, m, e, x)
    <3>1. menu + 1 \in DOMAIN bar
      BY <1>6 DEF M!HasPlace
    <3>2. CASE sub = -1
      <4>1. now = MeGrown(bar, menu + 1, 0, x)
        BY <3>2 DEF M!Appended, MeGrown
      <4> QED BY <3>1, <4>1
    <3>3. CASE sub # -1
      <4>1. sub + 1 \in DOMAIN bar[menu + 1] /\ bar[menu + 1][sub + 1].type = "SubMenu"
        BY <1>6, <3>3 DEF M!HasPlace
      <4>2. bar[menu + 1] \in Seq(MeEntries)
        BY <1>1, <3>1 DEF MeBars
      <4>3. bar[menu + 1][sub + 1] \in M!SubMenus
        BY <4>1, <4>2 DEF MeEntries, M!Leaves
      <4>4. now = MeGrown(bar, menu + 1, sub + 1, x) /\ sub + 1 \in Nat
        BY <3>3 DEF M!Appended, MeGrown
      <4> QED BY <3>1, <4>1, <4>3, <4>4
    <3> QED BY <3>2, <3>3
  <2>7. PICK n : /\ now \in MeBars
                 /\ n \notin MePlaces(bar) /\ MePlaces(now) = MePlaces(bar) \cup {n} /\ MeAt(now, n) = x
                 /\ \A q \in MePlaces(bar) : MeAlike(MeAt(now, q), MeAt(bar, q))
    BY <1>1, <2>4, <2>6, MeGrowing
  <2> HIDE DEF x, now, a, cleared
  <2>8. ASSUME ~misread, result' = "KErrNone", bar' = now
        PROVE  MeAsked(bar', entriesAdded', entriesAsked', system')
    <3>1. MeAsked(bar, entriesAdded, entriesAsked, system)
      BY <1>1, <2>8
    <3>2. MeAsked(now, entriesAdded \cup {MeAt(now, n).id}, entriesAsked', system)
      BY <1>1, <1>4, <2>3, <2>4, <2>5, <2>7, <3>1, MeAskedGrown
    <3> QED BY <2>2, <2>4, <2>7, <2>8, <3>2
  <2>9. MeAccs(now) = MeAccs(bar) \cup (IF key = NoKey THEN {} ELSE {a})
    BY <1>1, <2>4, <2>7, MeAccsGrown DEF a
  <2>10. CASE ~(system = "Windows" /\ key # NoKey)
    <3>1. bar' = now /\ result' = "KErrNone" /\ UNCHANGED <<table, starved>>
      BY <2>1, <2>10
    <3>2. M!Typed'
      BY <1>1, <1>2, <1>3, <2>2, <2>3, <2>7, <3>1 DEF M!Typed, MeBars, MeEntries
    <3>3. system = "Windows" => MeAccs(now) = MeAccs(bar)
      BY <2>9, <2>10
    <3> QED BY <1>1, <1>2, <2>8, <3>1, <3>2, <3>3, MeParts
  <2>11. CASE system = "Windows" /\ key # NoKey /\ ~shortage
    <3>1. a \in MeEntriesOfTables
      BY <1>3, <2>11 DEF a, M!Accelerator, MeEntriesOfTables
    <3>2. Append(table, a) # <<>>
      BY <1>1, <3>1
    <3>3. M!CanCreate(Append(table, a), shortage)
      BY <2>11, <3>2 DEF M!CanCreate
    <3>4. table' = Append(table, a) /\ result' = "KErrNone" /\ bar' = now /\ starved' = starved
      <4>1. starved' = (starved \/ shortage) /\ starved \in BOOLEAN
        BY <1>1, <2>1, <2>11 DEF M!Typed
      <4>2. M!WithAccelerator(id, key, shortage)
              = [table |-> Append(table, a), result |-> "KErrNone"]
        BY <3>3 DEF M!WithAccelerator, a
      <4>3. table' = Append(table, a) /\ result' = "KErrNone" /\ bar' = now
        BY <2>1, <2>11, <4>2
      <4> QED BY <2>11, <4>1, <4>3
    <3>5. Append(table, a) \in Seq(MeEntriesOfTables)
      BY <1>1, <3>1
    <3>6. M!Typed'
      BY <1>1, <1>2, <1>3, <2>2, <2>3, <2>7, <3>4, <3>5 DEF M!Typed, MeBars, MeEntries, MeEntriesOfTables
    <3>7. ~misread
      BY <1>1, <2>11 DEF M!Typed
    <3>8. \A y \in MeAccs(bar) : y.cmd # a.cmd
      <4>1. MeAsked(bar, entriesAdded, entriesAsked, system)
        BY <1>1, <3>7
      <4>2. a.cmd = id
        BY DEF a, M!Accelerator
      <4> QED BY <1>1, <1>4, <4>1, <4>2, MeAccsOf
    <3>9. ~starved => MeTable(MeAccs(now), table')
      BY <1>1, <2>9, <2>11, <3>1, <3>4, <3>8, MeTableGrown
    <3> QED BY <1>2, <2>8, <3>4, <3>6, <3>9, MeParts
  <2>12. CASE system = "Windows" /\ key # NoKey /\ shortage
    <3>1. M!WithAccelerator(id, key, shortage) = [table |-> <<>>, result |-> "KErrNoMemory"]
      BY <2>12 DEF M!WithAccelerator, M!CanCreate
    <3>2. table' = <<>> /\ result' = "KErrNoMemory" /\ bar' = bar /\ starved'
      <4>1. starved' = (starved \/ shortage)
        BY <2>1, <2>12
      <4>0. shortage
        BY <2>12
      <4>2. starved'
        BY <4>0, <4>1
      <4>3. /\ table' = M!WithAccelerator(id, key, shortage).table
            /\ result' = M!WithAccelerator(id, key, shortage).result
            /\ bar' = IF M!WithAccelerator(id, key, shortage).result = "KErrNone" THEN now ELSE bar
        BY <2>1, <2>12
      <4>4. /\ M!WithAccelerator(id, key, shortage).table = <<>>
            /\ M!WithAccelerator(id, key, shortage).result = "KErrNoMemory"
        BY <3>1
      <4> QED BY <4>2, <4>3, <4>4
    <3>3. M!Typed'
      <4>1. table' \in Seq([key : NewKeys, cmd : M!Ids])
        BY <3>2
      <4>2. entriesAdded' = entriesAdded
        BY <2>2, <3>2
      <4>3. starved' = (starved \/ shortage) /\ starved \in BOOLEAN /\ shortage \in BOOLEAN
        BY <1>1, <2>1, <2>12, MenuAssumption DEF M!Typed
      <4> QED BY <1>1, <1>2, <1>3, <2>3, <3>2, <4>1, <4>2, <4>3 DEF M!Typed
    <3>4. ~misread => MeAsked(bar, entriesAdded, entriesAsked', system)
      BY <1>1, <1>4, <2>3 DEF MeAsked
    <3>5. entriesAdded' = entriesAdded
      BY <2>2, <3>2
    <3> QED BY <1>1, <1>2, <3>2, <3>3, <3>4, <3>5, MeParts
  <2>13. shortage \in BOOLEAN
    BY MenuAssumption
  <2> QED BY <2>10, <2>11, <2>12, <2>13
<1>7. CASE ~M!HasPlace(menu, sub)
  BY <1>5, <1>7 DEF M!AddMenuItem
<1> QED BY <1>6, <1>7

\* With Qt the item's action, or one that is taken for it, goes.
LEMMA MeRemoveOnQt ==
    ASSUME M!InOrder, NEW id \in M!Ids, NEW menu \in 0 .. 1,
           \E p \in M!PlacesOf(id) : p[1] = menu + 1, system = "Qt",
           UNCHANGED <<system, entriesAsked, table, starved, result>>,
           entriesAdded' = entriesAdded \ {id},
           IF M!MaybeFirst(menu, id) = {} THEN bar' = bar /\ misread' = misread
           ELSE \E e \in M!MaybeFirst(menu, id) :
                   /\ bar' = M!Drop(<<menu + 1, e, 0>>)
                   /\ misread' = (misread \/ bar[menu + 1][e].type = "SubMenu")
    PROVE  M!InOrder'
<1>1. /\ M!Typed /\ bar \in MeBars
      /\ ~misread => MeAsked(bar, entriesAdded, entriesAsked, system)
  BY MeParts
<1>2. PICK p \in M!PlacesOf(id) : p[1] = menu + 1
  OBVIOUS
<1>3. p \in MeItems(bar) /\ p \in MePlaces(bar) /\ MeAt(bar, p).id = id
  BY <1>2, MeFound
<1>4. /\ menu + 1 \in DOMAIN bar /\ bar[menu + 1] \in Seq(MeEntries)
      /\ p = <<menu + 1, p[2], p[3]>> /\ p[2] \in DOMAIN bar[menu + 1]
  BY <1>1, <1>2, <1>3, MeIn, MeTyped DEF MeIs
<1>5. CASE M!MaybeFirst(menu, id) = {}
  <2>1. p[3] # 0
    <3> SUFFICES ASSUME p[3] = 0 PROVE FALSE
      OBVIOUS
    <3> DEFINE T == {e \in DOMAIN bar[menu + 1] :
                        bar[menu + 1][e].id = id /\ bar[menu + 1][e].type # "SubMenu"}
    <3>1. p[2] \in T
      BY <1>2, <1>3, <1>4 DEF MeAt, MeItems
    <3>2. T \subseteq Nat
      BY <1>4
    <3>3. PICK e \in T : \A j \in T : e <= j
      BY <3>1, <3>2, MeLeast
    <3>4. ASSUME NEW b \in 1 .. e - 1
          PROVE  bar[menu + 1][b].type = "SubMenu" \/ bar[menu + 1][b].id # id
      <4>1. b \in DOMAIN bar[menu + 1] /\ ~(e <= b)
        BY <1>4, <3>3
      <4> QED BY <3>3, <4>1
    <3>5. e \in M!MaybeFirst(menu, id)
      BY <3>3, <3>4 DEF M!MaybeFirst
    <3> QED BY <1>5, <3>5
  <2>2. bar' = bar /\ misread' = misread
    BY <1>5
  <2>3. ASSUME ~misread PROVE MeAsked(bar, entriesAdded \ {id}, entriesAsked, system)
    BY <1>1, <1>3, <2>1, <2>3 DEF MeAsked
  <2>4. M!Typed'
    BY <1>1, <2>2 DEF M!Typed
  <2> QED BY <2>2, <2>3, <2>4, MeParts
<1>6. CASE M!MaybeFirst(menu, id) # {}
  <2>1. PICK e \in M!MaybeFirst(menu, id) :
           /\ bar' = M!Drop(<<menu + 1, e, 0>>)
           /\ misread' = (misread \/ bar[menu + 1][e].type = "SubMenu")
    BY <1>6
  <2> DEFINE q == <<menu + 1, e, 0>>
  <2>2. /\ e \in DOMAIN bar[menu + 1]
        /\ bar[menu + 1][e].type = "SubMenu" \/ bar[menu + 1][e].id = id
    BY DEF M!MaybeFirst
  <2>3. q \in MePlaces(bar)
    <3>1. bar[menu + 1][e] \in MeEntries
      BY <1>4, <2>2
    <3>2. bar[menu + 1][e].sub \in Seq(M!Leaves) \/ bar[menu + 1][e].sub = <<>>
      BY <3>1 DEF MeEntries, M!Leaves, M!SubMenus
    <3>3. 0 \in 0 .. Len(bar[menu + 1][e].sub)
      BY <3>2
    <3> QED BY <1>1, <1>4, <2>2, <3>3, MeIn DEF MeIs
  <2>4. bar' = MeDropped(bar, q) /\ MeAt(bar, q) = bar[menu + 1][e]
    BY <2>1 DEF M!Drop, MeDropped, MeAt
  <2>5. bar' \in MeBars
    BY <1>1, <2>3, <2>4, MeDroppingEntry
  <2>6. ASSUME ~misread' PROVE MeAsked(bar', entriesAdded', entriesAsked', system')
    <3>1. ~misread /\ bar[menu + 1][e].type # "SubMenu" /\ bar[menu + 1][e].id = id
      BY <2>1, <2>2, <2>6
    <3>2. q \in MeItems(bar) /\ MeAt(bar, q).id = id
      BY <2>3, <2>4, <3>1 DEF MeItems
    <3>3. MeAsked(bar, entriesAdded, entriesAsked, system)
      BY <1>1, <3>1
    <3> QED BY <1>1, <2>4, <3>2, <3>3, MeAskedDropped
  <2>7. misread' \in BOOLEAN
    BY <1>1, <2>1 DEF M!Typed
  <2>8. M!Typed'
    BY <1>1, <2>5, <2>7 DEF M!Typed, MeBars, MeEntries
  <2> QED BY <2>6, <2>8, MeParts
<1> QED BY <1>5, <1>6

LEMMA MeRemoveOnWindows ==
    ASSUME M!InOrder, NEW id \in M!Ids, NEW p \in M!PlacesOf(id), NEW shortage \in Shortages,
           system = "Windows", UNCHANGED <<system, entriesAsked, misread>>,
           entriesAdded' = entriesAdded \ {id}, bar' = M!Drop(p),
           table' = M!WithoutAccelerator(table, id, shortage).table,
           starved' = (starved \/ shortage)
    PROVE  M!InOrder'
<1>1. /\ M!Typed /\ bar \in MeBars /\ table \in Seq(MeEntriesOfTables)
      /\ ~misread => MeAsked(bar, entriesAdded, entriesAsked, system)
      /\ ~starved => MeTable(MeAccs(bar), table)
  BY MeParts
<1>2. p \in MeItems(bar) /\ MeAt(bar, p).id = id
  BY MeFound
<1>3. ~misread /\ MeAsked(bar, entriesAdded, entriesAsked, system)
  BY <1>1 DEF M!Typed
<1>4. bar' = MeDropped(bar, p)
  <2>1. CASE p[3] = 0
    BY <2>1 DEF M!Drop, MeDropped
  <2>2. CASE p[3] # 0
    BY <2>2 DEF M!Drop, MeDropped
  <2> QED BY <2>1, <2>2
<1>5. bar' \in MeBars /\ MeAsked(bar', entriesAdded', entriesAsked', system')
  <2>1. /\ MeDropped(bar, p) \in MeBars
        /\ MeAsked(MeDropped(bar, p), entriesAdded \ {MeAt(bar, p).id}, entriesAsked, system)
    BY <1>1, <1>2, <1>3, MeAskedDropped
  <2> QED BY <1>2, <1>4, <2>1
<1>6. MeAccs(bar') = {x \in MeAccs(bar) : x.cmd # id}
  BY <1>1, <1>2, <1>3, <1>4, MeAccsDropped
<1>7. shortage \in BOOLEAN /\ starved \in BOOLEAN
  BY <1>1, MenuAssumption DEF M!Typed
<1>8. CASE shortage
  <2>1. table' = table
    BY <1>8 DEF M!WithoutAccelerator, M!CanCreate
  <2>2. starved'
    BY <1>8
  <2>3. starved' \in BOOLEAN
    BY <1>7
  <2>4. M!Typed'
    BY <1>1, <1>5, <2>1, <2>3 DEF M!Typed, MeBars, MeEntries
  <2> QED BY <1>5, <2>2, <2>4, MeParts
<1>9. CASE ~shortage
  <2>1. starved' = starved
    BY <1>7, <1>9
  <2>2. M!WithoutAccelerator(table, id, shortage) = M!WithoutAccelerator(table, id, FALSE)
    BY <1>7, <1>9
  <2>3. table' \in Seq(MeEntriesOfTables)
    <3>1. CASE M!EntriesOf(table, id) = {}
      BY <1>1, <2>2, <3>1 DEF M!WithoutAccelerator
    <3>2. CASE M!EntriesOf(table, id) # {}
      <4>1. M!Min(M!EntriesOf(table, id)) \in 1 .. Len(table)
        <5>1. M!EntriesOf(table, id) \subseteq 1 .. Len(table)
          BY <1>1 DEF M!EntriesOf
        <5>2. M!EntriesOf(table, id) \subseteq Nat
          BY <5>1
        <5> QED BY <3>2, <5>1, <5>2, MeLeast
      <4>2. M!RemoveAt(table, M!Min(M!EntriesOf(table, id))) \in Seq(MeEntriesOfTables)
        BY <1>1, <4>1, MeRemoveAt
      <4> QED BY <1>1, <4>2 DEF M!WithoutAccelerator
    <3> QED BY <3>1, <3>2
  <2>4. ASSUME ~starved PROVE MeTable(MeAccs(bar'), table')
    <3>1. \A x, y \in MeAccs(bar) : x.cmd = y.cmd => x = y
      BY <1>1, <1>3, MeAccsOf
    <3>2. table' = M!WithoutAccelerator(table, id, FALSE).table
      BY <2>2
    <3>3. MeTable({x \in MeAccs(bar) : x.cmd # id}, table')
      BY <1>1, <2>4, <3>1, <3>2, MeTableDropped
    <3> QED BY <1>6, <3>3
  <2>5. M!Typed'
    BY <1>1, <1>5, <2>1, <2>3 DEF M!Typed, MeBars, MeEntries, MeEntriesOfTables
  <2> QED BY <1>5, <2>1, <2>4, <2>5, MeParts
<1> QED BY <1>7, <1>8, <1>9

LEMMA MeRemove ==
    ASSUME M!InOrder, NEW id \in M!Ids, NEW menu \in 0 .. 1, M!RemoveMenuItem(id, menu),
           UNCHANGED system
    PROVE  M!InOrder'
<1>1. /\ \E p \in M!PlacesOf(id) : p[1] = menu + 1
      /\ entriesAdded' = entriesAdded \ {id} /\ UNCHANGED entriesAsked
  BY DEF M!RemoveMenuItem
<1>2. CASE system = "Windows"
  <2>1. /\ bar' = M!Drop(CHOOSE p \in M!PlacesOf(id) : p[1] = menu + 1) /\ UNCHANGED misread
        /\ \E shortage \in Shortages :
              /\ table' = M!WithoutAccelerator(table, id, shortage).table
              /\ starved' = (starved \/ shortage)
    BY <1>2 DEF M!RemoveMenuItem
  <2>2. PICK p \in M!PlacesOf(id) : bar' = M!Drop(p)
    BY <1>1, <2>1
  <2> QED BY <1>1, <1>2, <2>1, <2>2, MeRemoveOnWindows
<1>3. CASE system # "Windows"
  <2>1. /\ system = "Qt" /\ UNCHANGED <<table, starved, result>>
        /\ IF M!MaybeFirst(menu, id) = {} THEN bar' = bar /\ misread' = misread
           ELSE \E e \in M!MaybeFirst(menu, id) :
                   /\ bar' = M!Drop(<<menu + 1, e, 0>>)
                   /\ misread' = (misread \/ bar[menu + 1][e].type = "SubMenu")
    BY <1>3 DEF M!RemoveMenuItem
  <2> QED BY <1>1, <2>1, MeRemoveOnQt
<1> QED BY <1>2, <1>3

--------------------------------------------------------------------------------
(***************************************************************************)
(* WindowMenus: the menus a window has at first.                           *)
(***************************************************************************)
MeMade(d) ==
    CHOOSE f : f = [n \in 0 .. Len(d) |->
                      IF n = 0 THEN [bar |-> <<>>, inSub |-> FALSE] ELSE M!With(d[n], f[n - 1])]

MeKeyed(d) ==
    CHOOSE f : f = [n \in 0 .. Len(d) |->
                      IF n = 0 THEN <<>>
                      ELSE IF d[n].key = NoKey THEN f[n - 1]
                      ELSE Append(f[n - 1], M!Accelerator(d[n].key, d[n].id))]

LEMMA MeMadeBy ==
    ASSUME NEW d
    PROVE  /\ M!Created(d) = MeMade(d)[Len(d)].bar
           /\ M!AcceleratorsOf(d) = IF system = "Qt" THEN <<>> ELSE MeKeyed(d)[Len(d)]
<1>1. M!Created(d) = MeMade(d)[Len(d)].bar
  BY Zenon DEF M!Created, MeMade
<1>2. M!AcceleratorsOf(d) = IF system = "Qt" THEN <<>> ELSE MeKeyed(d)[Len(d)]
  BY Zenon DEF M!AcceleratorsOf, MeKeyed
<1> QED BY <1>1, <1>2

\* With five elements there is such a function.
LEMMA MeFiveMade ==
    ASSUME NEW d, Len(d) = 5
    PROVE  LET f == MeMade(d)
           IN /\ M!Created(d) = f[5].bar /\ f[0] = [bar |-> <<>>, inSub |-> FALSE]
              /\ f[1] = M!With(d[1], f[0]) /\ f[2] = M!With(d[2], f[1]) /\ f[3] = M!With(d[3], f[2])
              /\ f[4] = M!With(d[4], f[3]) /\ f[5] = M!With(d[5], f[4])
<1> DEFINE s0 == [bar |-> <<>>, inSub |-> FALSE]
           s1 == M!With(d[1], s0)
           s2 == M!With(d[2], s1)
           s3 == M!With(d[3], s2)
           s4 == M!With(d[4], s3)
           s5 == M!With(d[5], s4)
           Is(g) == g = [n \in 0 .. Len(d) |-> IF n = 0 THEN s0 ELSE M!With(d[n], g[n - 1])]
           r == [n \in 0 .. Len(d) |-> IF n = 0 THEN s0 ELSE IF n = 1 THEN s1 ELSE IF n = 2 THEN s2
                                       ELSE IF n = 3 THEN s3 ELSE IF n = 4 THEN s4 ELSE s5]
           f == MeMade(d)
<1>1. s1 = M!With(d[1], s0) /\ s2 = M!With(d[2], s1) /\ s3 = M!With(d[3], s2)
      /\ s4 = M!With(d[4], s3) /\ s5 = M!With(d[5], s4)
  OBVIOUS
<1>2. s0 = [bar |-> <<>>, inSub |-> FALSE]
  OBVIOUS
<1> HIDE DEF s0, s1, s2, s3, s4, s5
<1>3. Is(r)
  <2>1. ASSUME NEW n \in 0 .. Len(d)
        PROVE  r[n] = IF n = 0 THEN s0 ELSE M!With(d[n], r[n - 1])
    <3>1. n = 0 \/ n = 1 \/ n = 2 \/ n = 3 \/ n = 4 \/ n = 5
      OBVIOUS
    <3>2. r[0] = s0 /\ r[1] = s1 /\ r[2] = s2 /\ r[3] = s3 /\ r[4] = s4 /\ r[5] = s5
      OBVIOUS
    <3> HIDE DEF r
    <3> QED BY <1>1, <3>1, <3>2
  <2>2. r = [n \in 0 .. Len(d) |-> r[n]]
    OBVIOUS
  <2> HIDE DEF r
  <2> QED BY <2>1, <2>2
<1>4. f = CHOOSE g : Is(g)
  BY Zenon, <1>2 DEF MeMade
<1> HIDE DEF Is, f
<1>5. Is(f)
  BY <1>3, <1>4, Zenon
<1>6. f = [n \in 0 .. 5 |-> IF n = 0 THEN s0 ELSE M!With(d[n], f[n - 1])]
  BY <1>5 DEF Is
<1>7. /\ f[0] = s0 /\ f[1] = M!With(d[1], f[0]) /\ f[2] = M!With(d[2], f[1])
      /\ f[3] = M!With(d[3], f[2]) /\ f[4] = M!With(d[4], f[3]) /\ f[5] = M!With(d[5], f[4])
  BY <1>6
<1>8. M!Created(d) = f[5].bar
  BY MeMadeBy DEF f
<1> QED BY <1>2, <1>7, <1>8 DEF f

LEMMA MeFiveKeyed ==
    ASSUME NEW d, Len(d) = 5
    PROVE  LET f == MeKeyed(d)
               g(n, s) == IF d[n].key = NoKey THEN s
                          ELSE Append(s, M!Accelerator(d[n].key, d[n].id))
           IN /\ M!AcceleratorsOf(d) = IF system = "Qt" THEN <<>> ELSE f[5]
              /\ f[0] = <<>> /\ f[1] = g(1, f[0]) /\ f[2] = g(2, f[1]) /\ f[3] = g(3, f[2])
              /\ f[4] = g(4, f[3]) /\ f[5] = g(5, f[4])
<1> DEFINE g(n, s) == IF d[n].key = NoKey THEN s
                      ELSE Append(s, M!Accelerator(d[n].key, d[n].id))
           s1 == g(1, <<>>)
           s2 == g(2, s1)
           s3 == g(3, s2)
           s4 == g(4, s3)
           s5 == g(5, s4)
           Is(h) == h = [n \in 0 .. Len(d) |-> IF n = 0 THEN <<>> ELSE g(n, h[n - 1])]
           r == [n \in 0 .. Len(d) |-> IF n = 0 THEN <<>> ELSE IF n = 1 THEN s1 ELSE IF n = 2 THEN s2
                                       ELSE IF n = 3 THEN s3 ELSE IF n = 4 THEN s4 ELSE s5]
           f == MeKeyed(d)
<1>0. f = CHOOSE h : Is(h)
  BY Zenon DEF MeKeyed
<1>1. s1 = g(1, <<>>) /\ s2 = g(2, s1) /\ s3 = g(3, s2) /\ s4 = g(4, s3) /\ s5 = g(5, s4)
  OBVIOUS
<1> HIDE DEF s1, s2, s3, s4, s5
<1>3. Is(r)
  <2>1. ASSUME NEW n \in 0 .. Len(d)
        PROVE  r[n] = IF n = 0 THEN <<>> ELSE g(n, r[n - 1])
    <3>1. n = 0 \/ n = 1 \/ n = 2 \/ n = 3 \/ n = 4 \/ n = 5
      OBVIOUS
    <3>2. r[0] = <<>> /\ r[1] = s1 /\ r[2] = s2 /\ r[3] = s3 /\ r[4] = s4 /\ r[5] = s5
      OBVIOUS
    <3> HIDE DEF r, g
    <3> QED BY <1>1, <3>1, <3>2
  <2>2. r = [n \in 0 .. Len(d) |-> r[n]]
    OBVIOUS
  <2> HIDE DEF r, g
  <2> QED BY <2>1, <2>2
<1> HIDE DEF Is, f
<1>5. Is(f)
  BY <1>0, <1>3, Zenon
<1> HIDE DEF g
<1>6. f = [n \in 0 .. 5 |-> IF n = 0 THEN <<>> ELSE g(n, f[n - 1])]
  BY <1>5 DEF Is
<1>7. /\ f[0] = <<>> /\ f[1] = g(1, f[0]) /\ f[2] = g(2, f[1])
      /\ f[3] = g(3, f[2]) /\ f[4] = g(4, f[3]) /\ f[5] = g(5, f[4])
  BY <1>6
<1>8. M!AcceleratorsOf(d) = IF system = "Qt" THEN <<>> ELSE f[5]
  BY MeMadeBy DEF f
<1> QED BY <1>7, <1>8 DEF f, g

\* Short sequences.
LEMMA MeShort ==
    ASSUME NEW x, NEW y, NEW z
    PROVE  /\ Append(<<>>, x) = <<x>> /\ Append(<<x>>, y) = <<x, y>>
           /\ [<<x>> EXCEPT ![1] = y] = <<y>> /\ [<<x, y>> EXCEPT ![2] = z] = <<x, z>>
           /\ Len(<<>>) = 0 /\ Len(<<x>>) = 1 /\ Len(<<x, y>>) = 2
<1>1. Append(<<x>>, y) = <<x, y>>
  <2>1. <<x>> \in Seq({x, y}) /\ <<x, y>> \in Seq({x, y}) /\ y \in {x, y}
    OBVIOUS
  <2>2. Append(<<x>>, y) \in Seq({x, y}) /\ Len(Append(<<x>>, y)) = 2
        /\ Append(<<x>>, y)[1] = x /\ Append(<<x>>, y)[2] = y
    BY <2>1
  <2>3. Len(<<x, y>>) = 2 /\ <<x, y>>[1] = x /\ <<x, y>>[2] = y
    OBVIOUS
  <2>4. \A i \in 1 .. 2 : i = 1 \/ i = 2
    OBVIOUS
  <2> QED BY <2>1, <2>2, <2>3, <2>4, SeqEqual
<1>2. [<<x>> EXCEPT ![1] = y] = <<y>> /\ [<<x, y>> EXCEPT ![2] = z] = <<x, z>>
  OBVIOUS
<1>3. Append(<<>>, x) = <<x>> /\ Len(<<>>) = 0 /\ Len(<<x>>) = 1 /\ Len(<<x, y>>) = 2
  OBVIOUS
<1> QED BY <1>1, <1>2, <1>3

LEMMA MeBehindIn ==
    ASSUME NEW x, NEW y, NEW a
    PROVE  /\ M!Behind(<<<<>>>>, x) = <<<<x>>>> /\ M!Behind(<<<<x>>>>, y) = <<<<x, y>>>>
           /\ M!Behind(<<a, <<>>>>, x) = <<a, <<x>>>>
<1>1. M!Behind(<<<<>>>>, x) = <<<<x>>>>
  <2>1. M!Behind(<<<<>>>>, x) = [<<<<>>>> EXCEPT ![1] = Append(<<>>, x)]
    BY DEF M!Behind
  <2> QED BY <2>1, MeShort
<1>2. M!Behind(<<<<x>>>>, y) = <<<<x, y>>>>
  <2>1. M!Behind(<<<<x>>>>, y) = [<<<<x>>>> EXCEPT ![1] = Append(<<x>>, y)]
    BY DEF M!Behind
  <2>2. Append(<<x>>, y) = <<x, y>>
    BY MeShort
  <2> QED BY <2>1, <2>2
<1>3. M!Behind(<<a, <<>>>>, x) = <<a, <<x>>>>
  <2>1. M!Behind(<<a, <<>>>>, x) = [<<a, <<>>>> EXCEPT ![2] = Append(<<>>, x)]
    BY DEF M!Behind
  <2> QED BY <2>1, MeShort
<1> QED BY <1>1, <1>2, <1>3

\* The steps, by the type of the element, out of a submenu and in one.
MeOut(b) == [bar |-> b, inSub |-> FALSE]
MeInside(b) == [bar |-> b, inSub |-> TRUE]

LEMMA MeStepBy ==
    ASSUME NEW i, NEW b
    PROVE  /\ i.type = "Title" => M!With(i, MeOut(b)) = MeOut(Append(b, <<>>))
           /\ i.type = "SubMenu" => M!With(i, MeOut(b)) = MeInside(M!Behind(b, M!Made(i)))
           /\ i.type = "SubMenuEnd" => M!With(i, MeInside(b)) = MeOut(b)
           /\ i.type \in {"Item", "Check"} =>
                 /\ M!With(i, MeOut(b)) = MeOut(M!Behind(b, M!Made(i)))
                 /\ M!With(i, MeInside(b)) = MeInside(M!Within(b, M!Made(i)))
<1>0. /\ MeOut(b).bar = b /\ MeOut(b).inSub = FALSE /\ ~MeOut(b).inSub
      /\ MeInside(b).bar = b /\ MeInside(b).inSub = TRUE /\ MeInside(b).inSub
  BY DEF MeOut, MeInside
<1>1. ASSUME i.type = "Title" PROVE M!With(i, MeOut(b)) = MeOut(Append(b, <<>>))
  <2>1. M!With(i, MeOut(b)) = [bar |-> Append(MeOut(b).bar, <<>>), inSub |-> FALSE]
    BY <1>1, Zenon DEF M!With
  <2> QED BY <1>0, <2>1 DEF MeOut
<1>2. ASSUME i.type = "SubMenu" PROVE M!With(i, MeOut(b)) = MeInside(M!Behind(b, M!Made(i)))
  <2>1. M!With(i, MeOut(b)) = [bar |-> M!Behind(MeOut(b).bar, M!Made(i)), inSub |-> TRUE]
    BY <1>2 DEF M!With
  <2> QED BY <1>0, <2>1 DEF MeInside
<1>3. ASSUME i.type = "SubMenuEnd" PROVE M!With(i, MeInside(b)) = MeOut(b)
  <2>1. M!With(i, MeInside(b)) = [bar |-> MeInside(b).bar, inSub |-> FALSE]
    BY <1>3 DEF M!With
  <2> QED BY <1>0, <2>1 DEF MeOut
<1>4. ASSUME i.type \in {"Item", "Check"}
      PROVE  /\ M!With(i, MeOut(b)) = MeOut(M!Behind(b, M!Made(i)))
             /\ M!With(i, MeInside(b)) = MeInside(M!Within(b, M!Made(i)))
  <2>1. ASSUME NEW s
        PROVE  M!With(i, s) = [bar   |-> IF s.inSub THEN M!Within(s.bar, M!Made(i))
                                         ELSE M!Behind(s.bar, M!Made(i)),
                               inSub |-> s.inSub]
    BY <1>4 DEF M!With
  <2>2. M!With(i, MeOut(b)) = [bar |-> M!Behind(b, M!Made(i)), inSub |-> FALSE]
    BY <1>0, <2>1
  <2>3. M!With(i, MeInside(b)) = [bar |-> M!Within(b, M!Made(i)), inSub |-> TRUE]
    BY <1>0, <2>1
  <2> QED BY <2>2, <2>3 DEF MeOut, MeInside
<1> QED BY <1>1, <1>2, <1>3, <1>4

MeFirstItem == M!Entry("Item", 1, "a")
MeTickItem == M!Entry(IF system = "Windows" THEN "Item" ELSE "Check", 2, NoKey)
MeLastItem == M!Entry("Item", 3, "a")
MePlainItem == M!Entry("Item", 3, NoKey)
MeSubMenu == [M!Entry("SubMenu", 0, NoKey) EXCEPT !.sub = <<MeFirstItem>>]

MeTwoBar == <<<<MeFirstItem, MeTickItem>>, <<MeLastItem>>>>
MeSubBar == <<<<MeSubMenu, MePlainItem>>>>

LEMMA MeTwoMade ==
    ASSUME system \in {"Windows", "Qt"}
    PROVE  /\ M!Created(TwoMenus) = MeTwoBar
           /\ M!AcceleratorsOf(TwoMenus) =
                 IF system = "Qt" THEN <<>> ELSE <<M!Accelerator("a", 1), M!Accelerator("a", 3)>>
<1> DEFINE d == TwoMenus
           f == MeMade(d)
           h == MeKeyed(d)
<1>0. NoKey # "a"
  BY MenuAssumption
<1>1. /\ Len(d) = 5 /\ d[1] = Title /\ d[2] = MenuItem("Item", 1, "a", "None")
      /\ d[3] = MenuItem("Check", 2, NoKey, "None") /\ d[4] = Title
      /\ d[5] = MenuItem("Item", 3, "a", "Control")
  BY DEF TwoMenus
<1> HIDE DEF d
<1>2. /\ Title.type = "Title" /\ Title.key = NoKey
      /\ d[2].type = "Item" /\ d[2].id = 1 /\ d[2].key = "a"
      /\ d[3].type = "Check" /\ d[3].id = 2 /\ d[3].key = NoKey
      /\ d[5].type = "Item" /\ d[5].id = 3 /\ d[5].key = "a"
  BY <1>1 DEF Title, MenuItem
<1>3. /\ M!Created(d) = f[5].bar /\ f[0] = MeOut(<<>>)
      /\ f[1] = M!With(d[1], f[0]) /\ f[2] = M!With(d[2], f[1]) /\ f[3] = M!With(d[3], f[2])
      /\ f[4] = M!With(d[4], f[3]) /\ f[5] = M!With(d[5], f[4])
  BY <1>1, MeFiveMade DEF MeOut
<1>4. /\ M!AcceleratorsOf(d) = IF system = "Qt" THEN <<>> ELSE h[5]
      /\ h[0] = <<>> /\ h[1] = h[0] /\ h[2] = Append(h[1], M!Accelerator("a", 1)) /\ h[3] = h[2]
      /\ h[4] = h[3] /\ h[5] = Append(h[4], M!Accelerator("a", 3))
  BY <1>0, <1>1, <1>2, MeFiveKeyed
<1> HIDE DEF f, h
<1>20. M!Made(d[2]) = MeFirstItem /\ M!Made(d[3]) = MeTickItem /\ M!Made(d[5]) = MeLastItem
  BY <1>2 DEF M!Made, MeFirstItem, MeTickItem, MeLastItem
<1>5. f[1] = MeOut(<<<<>>>>)
  <2>0. d[1].type = "Title" /\ f[1] = M!With(d[1], MeOut(<<>>))
    BY <1>1, <1>2, <1>3
  <2>1. f[1] = MeOut(Append(<<>>, <<>>))
    BY <2>0, MeStepBy
  <2> QED BY <2>1, MeShort
<1>6. f[2] = MeOut(<<<<MeFirstItem>>>>)
  <2>0. d[2].type = "Item" /\ f[2] = M!With(d[2], f[1])
    BY <1>2, <1>3
  <2>1. f[2] = MeOut(M!Behind(<<<<>>>>, MeFirstItem))
    BY <1>5, <1>20, <2>0, MeStepBy
  <2> QED BY <2>1, MeBehindIn
<1>7. f[3] = MeOut(<<<<MeFirstItem, MeTickItem>>>>)
  <2>0. d[3].type = "Check" /\ f[3] = M!With(d[3], f[2])
    BY <1>2, <1>3
  <2>1. f[3] = MeOut(M!Behind(<<<<MeFirstItem>>>>, MeTickItem))
    BY <1>6, <1>20, <2>0, MeStepBy
  <2> QED BY <2>1, MeBehindIn
<1>8. f[4] = MeOut(<<<<MeFirstItem, MeTickItem>>, <<>>>>)
  <2>1. f[4] = MeOut(Append(<<<<MeFirstItem, MeTickItem>>>>, <<>>))
    BY <1>1, <1>2, <1>3, <1>7, MeStepBy
  <2> QED BY <2>1, MeShort
<1>9. f[5] = MeOut(<<<<MeFirstItem, MeTickItem>>, <<MeLastItem>>>>)
  <2>0. d[5].type = "Item" /\ f[5] = M!With(d[5], f[4])
    BY <1>2, <1>3
  <2>1. f[5] = MeOut(M!Behind(<<<<MeFirstItem, MeTickItem>>, <<>>>>, MeLastItem))
    BY <1>8, <1>20, <2>0, MeStepBy
  <2> QED BY <2>1, MeBehindIn
<1>10. h[5] = <<M!Accelerator("a", 1), M!Accelerator("a", 3)>>
  <2>1. h[4] = Append(<<>>, M!Accelerator("a", 1))
    BY <1>4
  <2>2. h[4] = <<M!Accelerator("a", 1)>>
    BY <2>1, MeShort
  <2>3. h[5] = Append(<<M!Accelerator("a", 1)>>, M!Accelerator("a", 3))
    BY <1>4, <2>2
  <2> QED BY <2>3, MeShort
<1>11. M!Created(d) = MeTwoBar
  <2>1. M!Created(d) = f[5].bar
    BY <1>3
  <2> QED BY <1>9, <2>1 DEF MeTwoBar, MeOut
<1>12. M!AcceleratorsOf(d) = IF system = "Qt" THEN <<>> ELSE <<M!Accelerator("a", 1), M!Accelerator("a", 3)>>
  BY <1>4, <1>10
<1> QED BY <1>11, <1>12 DEF d

LEMMA MeSubMade ==
    ASSUME system \in {"Windows", "Qt"}
    PROVE  /\ M!Created(WithSubMenu) = MeSubBar
           /\ M!AcceleratorsOf(WithSubMenu) =
                 IF system = "Qt" THEN <<>> ELSE <<M!Accelerator("a", 1)>>
<1> DEFINE d == WithSubMenu
           f == MeMade(d)
           h == MeKeyed(d)
<1>0. NoKey # "a"
  BY MenuAssumption
<1>1. /\ Len(d) = 5 /\ d[1] = Title /\ d[2] = MenuItem("SubMenu", 0, NoKey, "None")
      /\ d[3] = MenuItem("Item", 1, "a", "None") /\ d[4] = MenuItem("SubMenuEnd", 0, NoKey, "None")
      /\ d[5] = MenuItem("Item", 3, NoKey, "None")
  BY DEF WithSubMenu
<1> HIDE DEF d
<1>2. /\ Title.type = "Title" /\ Title.key = NoKey
      /\ d[2].type = "SubMenu" /\ d[2].id = 0 /\ d[2].key = NoKey
      /\ d[3].type = "Item" /\ d[3].id = 1 /\ d[3].key = "a"
      /\ d[4].type = "SubMenuEnd" /\ d[4].key = NoKey
      /\ d[5].type = "Item" /\ d[5].id = 3 /\ d[5].key = NoKey
  BY <1>1 DEF Title, MenuItem
<1>3. /\ M!Created(d) = f[5].bar /\ f[0] = MeOut(<<>>)
      /\ f[1] = M!With(d[1], f[0]) /\ f[2] = M!With(d[2], f[1]) /\ f[3] = M!With(d[3], f[2])
      /\ f[4] = M!With(d[4], f[3]) /\ f[5] = M!With(d[5], f[4])
  BY <1>1, MeFiveMade DEF MeOut
<1>4. /\ M!AcceleratorsOf(d) = IF system = "Qt" THEN <<>> ELSE h[5]
      /\ h[0] = <<>> /\ h[1] = h[0] /\ h[2] = h[1] /\ h[3] = Append(h[2], M!Accelerator("a", 1))
      /\ h[4] = h[3] /\ h[5] = h[4]
  BY <1>0, <1>1, <1>2, MeFiveKeyed
<1> HIDE DEF f, h
<1> DEFINE sub == M!Entry("SubMenu", 0, NoKey)
<1>20. M!Made(d[2]) = sub /\ M!Made(d[3]) = MeFirstItem /\ M!Made(d[5]) = MePlainItem
  BY <1>2 DEF M!Made, MeFirstItem, MePlainItem
<1>21. MeSubMenu = [sub EXCEPT !.sub = Append(sub.sub, MeFirstItem)]
  BY MeShort DEF MeSubMenu, M!Entry
<1> HIDE DEF sub
<1>5. f[1] = MeOut(<<<<>>>>)
  <2>0. d[1].type = "Title" /\ f[1] = M!With(d[1], MeOut(<<>>))
    BY <1>1, <1>2, <1>3
  <2>1. f[1] = MeOut(Append(<<>>, <<>>))
    BY <2>0, MeStepBy
  <2> QED BY <2>1, MeShort
<1>6. f[2] = MeInside(<<<<sub>>>>)
  <2>0. d[2].type = "SubMenu" /\ f[2] = M!With(d[2], f[1])
    BY <1>2, <1>3
  <2>1. f[2] = MeInside(M!Behind(<<<<>>>>, sub))
    BY <1>5, <1>20, <2>0, MeStepBy
  <2> QED BY <2>1, MeBehindIn
<1>7. f[3] = MeInside(<<<<MeSubMenu>>>>)
  <2>0. d[3].type = "Item" /\ f[3] = M!With(d[3], f[2])
    BY <1>2, <1>3
  <2>1. f[3] = MeInside(M!Within(<<<<sub>>>>, MeFirstItem))
    BY <1>6, <1>20, <2>0, MeStepBy
  <2>2. M!Within(<<<<sub>>>>, MeFirstItem) = [<<<<sub>>>> EXCEPT ![1][1].sub = Append(@, MeFirstItem)]
    BY DEF M!Within
  <2>3. [<<<<sub>>>> EXCEPT ![1][1].sub = Append(@, MeFirstItem)]
          = <<<<[sub EXCEPT !.sub = Append(@, MeFirstItem)]>>>>
    OBVIOUS
  <2> QED BY <1>21, <2>1, <2>2, <2>3
<1>8. f[4] = MeOut(<<<<MeSubMenu>>>>)
  <2>0. d[4].type = "SubMenuEnd" /\ f[4] = M!With(d[4], f[3])
    BY <1>2, <1>3
  <2> QED BY <1>7, <2>0, MeStepBy
<1>9. f[5] = MeOut(<<<<MeSubMenu, MePlainItem>>>>)
  <2>0. d[5].type = "Item" /\ f[5] = M!With(d[5], f[4])
    BY <1>2, <1>3
  <2>1. f[5] = MeOut(M!Behind(<<<<MeSubMenu>>>>, MePlainItem))
    BY <1>8, <1>20, <2>0, MeStepBy
  <2> QED BY <2>1, MeBehindIn
<1>10. h[5] = <<M!Accelerator("a", 1)>>
  <2>1. h[5] = Append(<<>>, M!Accelerator("a", 1))
    BY <1>4
  <2> QED BY <2>1, MeShort
<1>11. M!Created(d) = MeSubBar
  <2>1. M!Created(d) = f[5].bar
    BY <1>3
  <2> QED BY <1>9, <2>1 DEF MeSubBar, MeOut
<1>12. M!AcceleratorsOf(d) = IF system = "Qt" THEN <<>> ELSE <<M!Accelerator("a", 1)>>
  BY <1>4, <1>10
<1> QED BY <1>11, <1>12 DEF d

--------------------------------------------------------------------------------
\* The entries of the first menus, and the commands they have.
LEMMA MeFirstIds ==
    /\ {0, 1, 2, 3} \subseteq M!Ids
    /\ {TwoMenus[k].id : k \in DOMAIN TwoMenus} \ {0} = {1, 2, 3}
    /\ {WithSubMenu[k].id : k \in DOMAIN WithSubMenu} \ {0} = {1, 3}
<1>1. /\ DOMAIN TwoMenus = {1, 2, 3, 4, 5}
      /\ TwoMenus[1].id = 0 /\ TwoMenus[2].id = 1 /\ TwoMenus[3].id = 2
      /\ TwoMenus[4].id = 0 /\ TwoMenus[5].id = 3
  BY DEF TwoMenus, Title, MenuItem
<1>2. /\ DOMAIN WithSubMenu = {1, 2, 3, 4, 5}
      /\ WithSubMenu[1].id = 0 /\ WithSubMenu[2].id = 0 /\ WithSubMenu[3].id = 1
      /\ WithSubMenu[4].id = 0 /\ WithSubMenu[5].id = 3
  BY DEF WithSubMenu, Title, MenuItem
<1>3. {TwoMenus[k].id : k \in DOMAIN TwoMenus} = {0, 1, 2, 3}
  BY <1>1
<1>4. {WithSubMenu[k].id : k \in DOMAIN WithSubMenu} = {0, 1, 3}
  BY <1>2
<1>5. {TwoMenus[k].id : k \in DOMAIN TwoMenus} \subseteq M!Ids
  BY DEF M!Ids, Descriptions
<1> QED BY <1>3, <1>4, <1>5

LEMMA MeFirstEntries ==
    /\ {MeFirstItem, MeTickItem, MeLastItem, MePlainItem} \subseteq M!Leaves
    /\ MeSubMenu \in M!SubMenus
    /\ MeFirstItem.id = 1 /\ MeTickItem.id = 2 /\ MeLastItem.id = 3 /\ MePlainItem.id = 3
    /\ MeFirstItem.key = "a" /\ MeTickItem.key = NoKey /\ MeLastItem.key = "a"
    /\ MePlainItem.key = NoKey
    /\ \A x \in {MeFirstItem, MeTickItem, MeLastItem, MePlainItem} :
          x.checked = FALSE /\ x.disabled = FALSE
    /\ MeSubMenu.type = "SubMenu" /\ MeSubMenu.sub = <<MeFirstItem>>
<1>2. /\ "a" \in NewKeys \cup {NoKey} /\ NoKey \in NewKeys \cup {NoKey}
      /\ 0 \in M!Ids /\ 1 \in M!Ids /\ 2 \in M!Ids /\ 3 \in M!Ids
  BY MenuAssumption, MeFirstIds
<1>3. /\ MeFirstItem \in M!Leaves /\ MeFirstItem.id = 1 /\ MeFirstItem.key = "a"
      /\ MeFirstItem.checked = FALSE /\ MeFirstItem.disabled = FALSE
  <2>1. MeFirstItem = [type |-> "Item", id |-> 1, key |-> "a", shown |-> "a",
                    checked |-> FALSE, disabled |-> FALSE, sub |-> <<>>]
    BY DEF MeFirstItem, M!Entry
  <2>2. "Item" \in {"Item", "Check"}
    OBVIOUS
  <2> HIDE DEF MeFirstItem
  <2> QED BY <1>2, <2>1, <2>2 DEF M!Leaves
<1>4. /\ MeTickItem \in M!Leaves /\ MeTickItem.id = 2 /\ MeTickItem.key = NoKey
      /\ MeTickItem.checked = FALSE /\ MeTickItem.disabled = FALSE
  <2>1. MeTickItem = [type |-> (IF system = "Windows" THEN "Item" ELSE "Check"), id |-> 2, key |-> NoKey, shown |-> NoKey,
                   checked |-> FALSE, disabled |-> FALSE, sub |-> <<>>]
    BY DEF MeTickItem, M!Entry
  <2>2. (IF system = "Windows" THEN "Item" ELSE "Check") \in {"Item", "Check"}
    OBVIOUS
  <2> HIDE DEF MeTickItem
  <2> QED BY <1>2, <2>1, <2>2 DEF M!Leaves
<1>5. /\ MeLastItem \in M!Leaves /\ MeLastItem.id = 3 /\ MeLastItem.key = "a"
      /\ MeLastItem.checked = FALSE /\ MeLastItem.disabled = FALSE
  <2>1. MeLastItem = [type |-> "Item", id |-> 3, key |-> "a", shown |-> "a",
                   checked |-> FALSE, disabled |-> FALSE, sub |-> <<>>]
    BY DEF MeLastItem, M!Entry
  <2>2. "Item" \in {"Item", "Check"}
    OBVIOUS
  <2> HIDE DEF MeLastItem
  <2> QED BY <1>2, <2>1, <2>2 DEF M!Leaves
<1>6. /\ MePlainItem \in M!Leaves /\ MePlainItem.id = 3 /\ MePlainItem.key = NoKey
      /\ MePlainItem.checked = FALSE /\ MePlainItem.disabled = FALSE
  <2>1. MePlainItem = [type |-> "Item", id |-> 3, key |-> NoKey, shown |-> NoKey,
                    checked |-> FALSE, disabled |-> FALSE, sub |-> <<>>]
    BY DEF MePlainItem, M!Entry
  <2>2. "Item" \in {"Item", "Check"}
    OBVIOUS
  <2> HIDE DEF MePlainItem
  <2> QED BY <1>2, <2>1, <2>2 DEF M!Leaves
<1>7. MeSubMenu \in M!SubMenus /\ MeSubMenu.type = "SubMenu" /\ MeSubMenu.sub = <<MeFirstItem>>
  <2>1. <<MeFirstItem>> \in Seq(M!Leaves)
    BY <1>3
  <2>2. MeSubMenu = [type |-> "SubMenu", id |-> 0, key |-> NoKey, shown |-> NoKey,
                     checked |-> FALSE, disabled |-> FALSE, sub |-> <<MeFirstItem>>]
    <3> DEFINE x == M!Entry("SubMenu", 0, NoKey)
    <3>1. x = [type |-> "SubMenu", id |-> 0, key |-> NoKey, shown |-> NoKey,
               checked |-> FALSE, disabled |-> FALSE, sub |-> <<>>]
      BY DEF M!Entry
    <3>2. MeSubMenu = [x EXCEPT !.sub = <<MeFirstItem>>]
      BY DEF MeSubMenu
    <3> HIDE DEF x
    <3> QED BY <3>1, <3>2
  <2> HIDE DEF MeSubMenu
  <2> QED BY <1>2, <2>1, <2>2 DEF M!SubMenus
<1> QED BY <1>3, <1>4, <1>5, <1>6, <1>7

\* Places of the two.
LEMMA MeTwoPlaces ==
    /\ MeTwoBar \in MeBars
    /\ MeItems(MeTwoBar) = {<<1, 1, 0>>, <<1, 2, 0>>, <<2, 1, 0>>}
    /\ MeAt(MeTwoBar, <<1, 1, 0>>) = MeFirstItem /\ MeAt(MeTwoBar, <<1, 2, 0>>) = MeTickItem
    /\ MeAt(MeTwoBar, <<2, 1, 0>>) = MeLastItem
<1> DEFINE b == MeTwoBar
<1>1. /\ Len(b) = 2 /\ DOMAIN b = {1, 2} /\ DOMAIN b[1] = {1, 2} /\ DOMAIN b[2] = {1}
      /\ b[1][1] = MeFirstItem /\ b[1][2] = MeTickItem /\ b[2][1] = MeLastItem
  BY DEF MeTwoBar
<1>2. b \in MeBars
  <2>1. {MeFirstItem, MeTickItem, MeLastItem} \subseteq MeEntries
    BY MeFirstEntries DEF MeEntries
  <2>2. <<MeFirstItem, MeTickItem>> \in Seq(MeEntries) /\ <<MeLastItem>> \in Seq(MeEntries)
    BY <2>1
  <2> QED BY <2>2 DEF MeTwoBar, MeBars
<1>3. MeFirstItem.sub = <<>> /\ MeTickItem.sub = <<>> /\ MeLastItem.sub = <<>>
  BY MeFirstEntries DEF M!Leaves
<1>4. /\ MeAt(b, <<1, 1, 0>>) = MeFirstItem /\ MeAt(b, <<1, 2, 0>>) = MeTickItem
      /\ MeAt(b, <<2, 1, 0>>) = MeLastItem
  BY <1>1 DEF MeAt
<1> HIDE DEF b
<1>5. MePlaces(b) = {<<1, 1, 0>>, <<1, 2, 0>>, <<2, 1, 0>>}
  <2>1. Len(b[1][1].sub) = 0 /\ Len(b[1][2].sub) = 0 /\ Len(b[2][1].sub) = 0
    BY <1>1, <1>3
  <2>2. ASSUME NEW p \in MePlaces(b) PROVE p \in {<<1, 1, 0>>, <<1, 2, 0>>, <<2, 1, 0>>}
    <3>1. p = <<p[1], p[2], p[3]>> /\ MeIs(b, p[1], p[2], p[3])
      BY <1>2, MeIn
    <3>2. p[1] = 1 \/ p[1] = 2
      BY <1>1, <3>1 DEF MeIs
    <3>3. p[1] = 1 => p[2] = 1 \/ p[2] = 2
      BY <1>1, <3>1 DEF MeIs
    <3>4. p[1] = 2 => p[2] = 1
      BY <1>1, <3>1 DEF MeIs
    <3>5. p[3] = 0
      BY <2>1, <3>1, <3>2, <3>3, <3>4 DEF MeIs
    <3> QED BY <3>1, <3>2, <3>3, <3>4, <3>5
  <2>3. MeIs(b, 1, 1, 0) /\ MeIs(b, 1, 2, 0) /\ MeIs(b, 2, 1, 0)
    BY <1>1, <2>1 DEF MeIs
  <2>4. {<<1, 1, 0>>, <<1, 2, 0>>, <<2, 1, 0>>} \subseteq MePlaces(b)
    BY <1>2, <2>3, MeIn
  <2> QED BY <2>2, <2>4
<1>6. \A p \in MePlaces(b) : p \in MeItems(b)
  BY <1>2, <1>4, <1>5, MeFirstEntries, MeTypes
<1>7. MeItems(b) = MePlaces(b)
  BY <1>6 DEF MeItems
<1> QED BY <1>2, <1>4, <1>5, <1>7 DEF b

LEMMA MeSubPlaces ==
    /\ MeSubBar \in MeBars
    /\ MeItems(MeSubBar) = {<<1, 1, 1>>, <<1, 2, 0>>}
    /\ MeAt(MeSubBar, <<1, 1, 1>>) = MeFirstItem /\ MeAt(MeSubBar, <<1, 2, 0>>) = MePlainItem
<1> DEFINE b == MeSubBar
<1>1. /\ Len(b) = 1 /\ DOMAIN b = {1} /\ DOMAIN b[1] = {1, 2}
      /\ b[1][1] = MeSubMenu /\ b[1][2] = MePlainItem
  BY DEF MeSubBar
<1>2. b \in MeBars
  <2>1. {MeSubMenu, MePlainItem} \subseteq MeEntries
    BY MeFirstEntries DEF MeEntries
  <2>2. <<MeSubMenu, MePlainItem>> \in Seq(MeEntries)
    BY <2>1
  <2> QED BY <2>2 DEF MeSubBar, MeBars
<1>3. MePlainItem.sub = <<>> /\ Len(MeSubMenu.sub) = 1 /\ MeSubMenu.sub[1] = MeFirstItem
  BY MeFirstEntries DEF M!Leaves
<1>4. MeAt(b, <<1, 1, 1>>) = MeFirstItem /\ MeAt(b, <<1, 2, 0>>) = MePlainItem
      /\ MeAt(b, <<1, 1, 0>>) = MeSubMenu
  BY <1>1, <1>3 DEF MeAt
<1> HIDE DEF b
<1>5. MePlaces(b) = {<<1, 1, 0>>, <<1, 1, 1>>, <<1, 2, 0>>}
  <2>1. Len(b[1][1].sub) = 1 /\ Len(b[1][2].sub) = 0
    BY <1>1, <1>3
  <2>2. ASSUME NEW p \in MePlaces(b) PROVE p \in {<<1, 1, 0>>, <<1, 1, 1>>, <<1, 2, 0>>}
    <3>1. p = <<p[1], p[2], p[3]>> /\ MeIs(b, p[1], p[2], p[3])
      BY <1>2, MeIn
    <3>2. p[1] = 1
      BY <1>1, <3>1 DEF MeIs
    <3>3. p[2] = 1 \/ p[2] = 2
      BY <1>1, <3>1, <3>2 DEF MeIs
    <3>4. p[2] = 1 => p[3] = 0 \/ p[3] = 1
      <4>1. p[2] = 1 => p[3] \in 0 .. 1
        BY <2>1, <3>1, <3>2 DEF MeIs
      <4> QED BY <4>1
    <3>5. p[2] = 2 => p[3] = 0
      BY <2>1, <3>1, <3>2 DEF MeIs
    <3> QED BY <3>1, <3>2, <3>3, <3>4, <3>5
  <2>3. MeIs(b, 1, 1, 0) /\ MeIs(b, 1, 1, 1) /\ MeIs(b, 1, 2, 0)
    BY <1>1, <2>1 DEF MeIs
  <2>4. {<<1, 1, 0>>, <<1, 1, 1>>, <<1, 2, 0>>} \subseteq MePlaces(b)
    BY <1>2, <2>3, MeIn
  <2> QED BY <2>2, <2>4
<1>6. /\ <<1, 1, 1>> \in MeItems(b) /\ <<1, 2, 0>> \in MeItems(b)
      /\ <<1, 1, 0>> \notin MeItems(b)
  BY <1>2, <1>4, <1>5, MeFirstEntries, MeTypes DEF MeItems
<1>7. MeItems(b) = {<<1, 1, 1>>, <<1, 2, 0>>}
  <2>1. MeItems(b) \subseteq MePlaces(b)
    BY DEF MeItems
  <2> QED BY <1>5, <1>6, <2>1
<1> QED BY <1>2, <1>4, <1>7 DEF b

LEMMA MeFirst == ASSUME M!Init PROVE M!InOrder
<1>1. /\ system \in {"Windows", "Qt"} /\ starved = FALSE /\ misread = FALSE
      /\ entriesAsked = [i \in M!Ids |-> [checked |-> FALSE, disabled |-> FALSE]]
  BY DEF M!Init
<1>2. PICK d \in {TwoMenus, WithSubMenu} :
         /\ bar = M!Created(d) /\ table = M!AcceleratorsOf(d)
         /\ entriesAdded = {d[k].id : k \in DOMAIN d} \ {0}
  BY DEF M!Init, Descriptions
<1>3. /\ entriesAsked \in [M!Ids -> [checked : BOOLEAN, disabled : BOOLEAN]]
      /\ \A i \in M!Ids : entriesAsked[i].checked = FALSE /\ entriesAsked[i].disabled = FALSE
  BY <1>1
<1>4. /\ M!Accelerator("a", 1) \in MeEntriesOfTables /\ M!Accelerator("a", 3) \in MeEntriesOfTables
      /\ \A key, id : M!Accelerator(key, id).cmd = id
  BY MenuAssumption, MeFirstIds DEF M!Accelerator, MeEntriesOfTables
<1>5. /\ bar \in MeBars /\ table \in Seq(MeEntriesOfTables) /\ entriesAdded \subseteq M!Ids \ {0}
      /\ MeAsked(bar, entriesAdded, entriesAsked, system)
      /\ system = "Windows" => MeTable(MeAccs(bar), table)
  <2>1. CASE d = TwoMenus
    <3>1. /\ bar = MeTwoBar /\ entriesAdded = {1, 2, 3}
          /\ table = IF system = "Qt" THEN <<>>
                     ELSE <<M!Accelerator("a", 1), M!Accelerator("a", 3)>>
      BY <1>1, <1>2, <2>1, MeTwoMade, MeFirstIds
    <3>2. table \in Seq(MeEntriesOfTables)
      BY <1>4, <3>1
    <3>3. MeAsked(MeTwoBar, {1, 2, 3}, entriesAsked, system)
      <4>1. /\ \A id \in {1, 2, 3} : \E p \in MeItems(MeTwoBar) : MeAt(MeTwoBar, p).id = id
            /\ \A p \in MeItems(MeTwoBar) : MeAt(MeTwoBar, p).id \in {1, 2, 3}
        BY MeTwoPlaces, MeFirstEntries
      <4>2. \A p, q \in MeItems(MeTwoBar) : MeAt(MeTwoBar, p).id = MeAt(MeTwoBar, q).id => p = q
        BY MeTwoPlaces, MeFirstEntries
      <4>3. \A p \in MeItems(MeTwoBar) :
               MeAt(MeTwoBar, p).checked = FALSE /\ MeAt(MeTwoBar, p).disabled = FALSE
        BY MeTwoPlaces, MeFirstEntries
      <4>4. {1, 2, 3} \subseteq M!Ids
        BY MeFirstIds
      <4>5. \A p \in MeItems(MeTwoBar) :
               /\ MeAt(MeTwoBar, p).checked = entriesAsked[MeAt(MeTwoBar, p).id].checked
               /\ MeAt(MeTwoBar, p).disabled = entriesAsked[MeAt(MeTwoBar, p).id].disabled
        BY <1>3, <4>1, <4>3, <4>4
      <4> QED BY <4>1, <4>2, <4>5, Zenon DEF MeAsked
    <3>4. MeAccs(MeTwoBar) = {M!Accelerator("a", 1), M!Accelerator("a", 3)}
      <4>1. {q \in MeItems(MeTwoBar) : MeAt(MeTwoBar, q).key # NoKey} = {<<1, 1, 0>>, <<2, 1, 0>>}
        BY MeTwoPlaces, MeFirstEntries, MenuAssumption
      <4> QED BY <4>1, MeTwoPlaces, MeFirstEntries DEF MeAccs
    <3>5. ASSUME system = "Windows" PROVE MeTable(MeAccs(bar), table)
      <4>1. table = <<M!Accelerator("a", 1), M!Accelerator("a", 3)>>
        BY <3>1, <3>5
      <4>2. /\ DOMAIN table \ {0} = {1, 2} /\ Len(table) = 2
            /\ table[1] = M!Accelerator("a", 1) /\ table[2] = M!Accelerator("a", 3)
        BY <4>1
      <4>3. MeOwn(MeAccs(bar), table, 0)
        BY <1>4, <3>1, <3>4, <4>2 DEF MeOwn
      <4> QED BY <4>2, <4>3 DEF MeTable
    <3> QED BY <3>1, <3>2, <3>3, <3>5, MeTwoPlaces, MeFirstIds
  <2>2. CASE d = WithSubMenu
    <3>1. /\ bar = MeSubBar /\ entriesAdded = {1, 3}
          /\ table = IF system = "Qt" THEN <<>> ELSE <<M!Accelerator("a", 1)>>
      BY <1>1, <1>2, <2>2, MeSubMade, MeFirstIds
    <3>2. table \in Seq(MeEntriesOfTables)
      BY <1>4, <3>1
    <3>3. MeAsked(MeSubBar, {1, 3}, entriesAsked, system)
      <4>1. /\ \A id \in {1, 3} : \E p \in MeItems(MeSubBar) : MeAt(MeSubBar, p).id = id
            /\ \A p \in MeItems(MeSubBar) : MeAt(MeSubBar, p).id \in {1, 3}
        BY MeSubPlaces, MeFirstEntries
      <4>2. \A p, q \in MeItems(MeSubBar) : MeAt(MeSubBar, p).id = MeAt(MeSubBar, q).id => p = q
        BY MeSubPlaces, MeFirstEntries
      <4>3. \A p \in MeItems(MeSubBar) :
               MeAt(MeSubBar, p).checked = FALSE /\ MeAt(MeSubBar, p).disabled = FALSE
        BY MeSubPlaces, MeFirstEntries
      <4>4. {1, 3} \subseteq M!Ids
        BY MeFirstIds
      <4>5. \A p \in MeItems(MeSubBar) :
               /\ MeAt(MeSubBar, p).checked = entriesAsked[MeAt(MeSubBar, p).id].checked
               /\ MeAt(MeSubBar, p).disabled = entriesAsked[MeAt(MeSubBar, p).id].disabled
        BY <1>3, <4>1, <4>3, <4>4
      <4> QED BY <4>1, <4>2, <4>5, Zenon DEF MeAsked
    <3>4. MeAccs(MeSubBar) = {M!Accelerator("a", 1)}
      <4>1. {q \in MeItems(MeSubBar) : MeAt(MeSubBar, q).key # NoKey} = {<<1, 1, 1>>}
        BY MeSubPlaces, MeFirstEntries, MenuAssumption
      <4> QED BY <4>1, MeSubPlaces, MeFirstEntries DEF MeAccs
    <3>5. ASSUME system = "Windows" PROVE MeTable(MeAccs(bar), table)
      <4>1. table = <<M!Accelerator("a", 1)>>
        BY <3>1, <3>5
      <4>2. DOMAIN table \ {0} = {1} /\ Len(table) = 1 /\ table[1] = M!Accelerator("a", 1)
        BY <4>1
      <4>3. MeOwn(MeAccs(bar), table, 0)
        BY <3>1, <3>4, <4>2 DEF MeOwn
      <4> QED BY <4>2, <4>3 DEF MeTable
    <3> QED BY <3>1, <3>2, <3>3, <3>5, MeSubPlaces, MeFirstIds
  <2> QED BY <1>2, <2>1, <2>2
<1>6. M!Typed
  BY <1>1, <1>3, <1>5 DEF M!Typed, MeBars, MeEntries, MeEntriesOfTables
<1> QED BY <1>5, <1>6, MeMeans, MeFits DEF M!InOrder

--------------------------------------------------------------------------------
(***************************************************************************)
(* WindowMenus: the invariant holds on, and says what it is for.           *)
(***************************************************************************)
LEMMA MeSame == ASSUME M!InOrder, UNCHANGED ofMenus PROVE M!InOrder'
<1>1. /\ bar' = bar /\ system' = system /\ table' = table /\ entriesAsked' = entriesAsked
      /\ entriesAdded' = entriesAdded /\ starved' = starved /\ misread' = misread
  BY DEF ofMenus
<1>2. M!Typed'
  BY <1>1, MeParts DEF M!Typed
<1> QED BY <1>1, <1>2, MeParts

LEMMA MeInductive ==
    ASSUME M!InOrder, M!Next \/ UNCHANGED ofMenus
    PROVE  M!InOrder'
<1>1. CASE UNCHANGED ofMenus
  BY <1>1, MeSame
<1>2. CASE M!Next
  <2>0. UNCHANGED system
    BY <1>2 DEF M!Next
  <2>1. ASSUME NEW id \in NewIds, NEW key \in NewKeys \cup {NoKey}, NEW menu \in 0 .. 2,
               NEW sub \in -1 .. 1, M!AddMenuItem(id, key, menu, sub)
        PROVE  M!InOrder'
    BY <2>0, <2>1, MeAdd
  <2>2. ASSUME NEW id \in M!Ids, NEW menu \in 0 .. 1, M!RemoveMenuItem(id, menu)
        PROVE  M!InOrder'
    BY <2>0, <2>2, MeRemove
  <2>3. ASSUME NEW id \in M!Ids, NEW menu \in 0 .. 1, NEW key \in NewKeys,
               M!UpdateMenuItem(id, key, menu)
        PROVE  M!InOrder'
    BY <2>0, <2>3, MeUpdate
  <2>4. ASSUME NEW id \in M!Ids, NEW enable \in BOOLEAN,
               M!EnableMenuItem(id, enable) \/ M!CheckMenuItem(id, enable)
        PROVE  M!InOrder'
    BY <2>0, <2>4, MeEnable, MeCheck
  <2>5. ASSUME NEW p \in M!Places, M!PickItem(p) PROVE M!InOrder'
    BY <2>0, <2>5, MePick
  <2> QED BY <1>2, <2>1, <2>2, <2>3, <2>4, <2>5, Zenon DEF M!Next
<1> QED BY <1>1, <1>2

LEMMA MeProperty ==
    ASSUME M!InOrder
    PROVE  M!TypeOK /\ M!ItemsAreAsAsked /\ M!ShortcutsAreOfItems
<1>0. /\ M!Typed /\ bar \in MeBars /\ table \in Seq(MeEntriesOfTables)
      /\ ~misread => MeAsked(bar, entriesAdded, entriesAsked, system)
      /\ system = "Windows" /\ ~starved => MeTable(MeAccs(bar), table)
  BY MeParts
<1>1. M!TypeOK
  <2>1. ASSUME NEW p \in M!Places
        PROVE  /\ M!At(p).type \in {"Item", "Check", "Separator", "SubMenu"}
               /\ M!At(p).id \in M!Ids
               /\ {M!At(p).key, M!At(p).shown} \subseteq NewKeys \cup {NoKey}
    <3>1. M!At(p) \in M!Leaves \/ M!At(p) \in M!SubMenus
      BY <1>0, MeNow, MeTyped DEF MeEntries
    <3>2. ASSUME NEW x \in M!Leaves
          PROVE  /\ x.type \in {"Item", "Check"} /\ x.id \in M!Ids
                 /\ x.key \in NewKeys \cup {NoKey} /\ x.shown \in NewKeys \cup {NoKey}
      BY DEF M!Leaves
    <3>3. ASSUME NEW x \in M!SubMenus
          PROVE  /\ x.type = "SubMenu" /\ x.id \in M!Ids
                 /\ x.key \in NewKeys \cup {NoKey} /\ x.shown \in NewKeys \cup {NoKey}
      BY DEF M!SubMenus
    <3> QED BY <3>1, <3>2, <3>3
  <2>2. \A k \in DOMAIN table : table[k].cmd \in M!Ids
    <3>1. \A k \in DOMAIN table : table[k] \in MeEntriesOfTables
      BY <1>0
    <3>2. \A x \in MeEntriesOfTables : x.cmd \in M!Ids
      BY DEF MeEntriesOfTables
    <3> QED BY <3>1, <3>2
  <2> QED BY <1>0, <2>1, <2>2 DEF M!TypeOK, M!Typed
<1>2. ASSUME system = "Windows", ~starved
      PROVE  /\ \A p \in M!Places :
                   M!HasKey(p) /\ M!At(p).id \in entriesAdded =>
                      \E k \in DOMAIN table : table[k] = M!Accelerator(M!At(p).key, M!At(p).id)
             /\ Cardinality({k \in DOMAIN table : table[k].cmd \notin entriesAdded}) <= 1
  <2>1. PICK left \in 0 .. Len(table) : MeOwn(MeAccs(bar), table, left)
    BY <1>0, <1>2 DEF MeTable
  <2>2. MeAsked(bar, entriesAdded, entriesAsked, system)
    BY <1>0, <1>2 DEF M!Typed
  <2>3. ASSUME NEW p \in M!Places, M!HasKey(p)
        PROVE  \E k \in DOMAIN table : table[k] = M!Accelerator(M!At(p).key, M!At(p).id)
    <3>1. p \in MeItems(bar) /\ M!At(p) = MeAt(bar, p) /\ MeAt(bar, p).key # NoKey
      BY <1>0, <2>3, MeMeans, MeNow DEF M!HasKey
    <3>2. M!Accelerator(M!At(p).key, M!At(p).id) \in MeAccs(bar)
      BY <1>0, <2>2, <3>1, MeAccsOf
    <3> QED BY <2>1, <3>2 DEF MeOwn
  <2>4. ASSUME NEW k \in DOMAIN table \ {left} PROVE table[k].cmd \in entriesAdded
    <3>1. table[k] \in MeAccs(bar)
      BY <2>1 DEF MeOwn
    <3>2. PICK p \in MeItems(bar) : MeAt(bar, p).id = table[k].cmd
      BY <1>0, <2>2, <3>1, MeAccsOf
    <3> QED BY <1>2, <2>2, <3>2 DEF MeAsked
  <2> DEFINE Astray == {k \in DOMAIN table : table[k].cmd \notin entriesAdded}
  <2>5. Astray \subseteq {left}
    BY <2>4
  <2>6. Cardinality({left}) = 1 /\ IsFiniteSet({left})
    BY FS_Singleton
  <2>7. Cardinality(Astray) <= 1
    <3> HIDE DEF Astray
    <3> QED BY <2>5, <2>6, FS_Subset
  <2> QED BY <2>3, <2>7
<1>3. M!ShortcutsAreOfItems
  <2>1. \A S : M!Cardinality(S) = Cardinality(S)
    BY Zenon DEF M!Cardinality, Cardinality
  <2> QED BY <1>2, <2>1, SMT DEF M!ShortcutsAreOfItems
<1> QED BY <1>1, <1>3 DEF M!InOrder

--------------------------------------------------------------------------------
(***************************************************************************)
(* AmiMenus: counting the entries of a type between two positions, and     *)
(* the last one at or before a position.                                   *)
(***************************************************************************)
AmHave(s, t, a, b) == {k \in a .. b : s[k].type = t}

LEMMA AmCount ==
    ASSUME NEW s, NEW t, NEW a \in Int, NEW b \in Int
    PROVE  /\ A!Count(s, t, a, b) = Cardinality(AmHave(s, t, a, b))
           /\ IsFiniteSet(AmHave(s, t, a, b)) /\ A!Count(s, t, a, b) \in Nat
           /\ b < a => A!Count(s, t, a, b) = 0
           /\ a <= b + 1 => A!Count(s, t, a, b) <= b - a + 1
<1> DEFINE S == AmHave(s, t, a, b)
<1>1. A!Count(s, t, a, b) = A!Cardinality(S)
  BY DEF A!Count, AmHave
<1>2. A!Cardinality(S) = Cardinality(S)
  BY Zenon DEF A!Cardinality, Cardinality
<1>3. S \in SUBSET (a .. b)
  BY DEF AmHave
<1>4. IsFiniteSet(a .. b) /\ Cardinality(a .. b) = IF a > b THEN 0 ELSE b - a + 1
  BY FS_Interval
<1> HIDE DEF S
<1>5. IsFiniteSet(S) /\ Cardinality(S) <= Cardinality(a .. b)
  BY <1>3, <1>4, FS_Subset
<1>6. Cardinality(S) \in Nat
  BY <1>5, FS_CardinalityType
<1> QED BY <1>1, <1>2, <1>4, <1>5, <1>6 DEF S

LEMMA AmCountSame ==
    ASSUME NEW s, NEW g, NEW t, NEW a \in Int, NEW b \in Int,
           \A k \in a .. b : g[k].type = s[k].type
    PROVE  A!Count(g, t, a, b) = A!Count(s, t, a, b)
<1>1. AmHave(g, t, a, b) = AmHave(s, t, a, b)
  BY DEF AmHave
<1> QED BY <1>1, AmCount

LEMMA AmCountSum ==
    ASSUME NEW s, NEW t, NEW a \in Int, NEW b \in Int, NEW m \in Int, a <= m + 1, m <= b
    PROVE  A!Count(s, t, a, b) = A!Count(s, t, a, m) + A!Count(s, t, m + 1, b)
<1> DEFINE S == AmHave(s, t, a, m)
           T == AmHave(s, t, m + 1, b)
<1>1. AmHave(s, t, a, b) = S \cup T /\ S \cap T = {}
  BY DEF AmHave
<1>2. IsFiniteSet(S) /\ IsFiniteSet(T)
  BY AmCount
<1>3. A!Count(s, t, a, m) = Cardinality(S) /\ A!Count(s, t, m + 1, b) = Cardinality(T)
      /\ A!Count(s, t, a, m) \in Nat /\ A!Count(s, t, m + 1, b) \in Nat
  BY AmCount
<1> HIDE DEF S, T
<1>4. Cardinality(S \cup T) = Cardinality(S) + Cardinality(T) - Cardinality(S \cap T)
  BY <1>2, FS_Union
<1>5. Cardinality(S \cap T) = 0
  BY <1>1, FS_EmptySet
<1>6. A!Count(s, t, a, b) = Cardinality(S \cup T)
  BY <1>1, AmCount
<1> QED BY <1>3, <1>4, <1>5, <1>6

LEMMA AmCountOne ==
    ASSUME NEW s, NEW t, NEW a \in Int
    PROVE  A!Count(s, t, a, a) = IF s[a].type = t THEN 1 ELSE 0
<1>1. a .. a = {a}
  OBVIOUS
<1>2. AmHave(s, t, a, a) = IF s[a].type = t THEN {a} ELSE {}
  BY <1>1 DEF AmHave
<1> QED BY <1>2, AmCount, FS_EmptySet, FS_Singleton

LEMMA AmCountNone ==
    ASSUME NEW s, NEW t, NEW a \in Int, NEW b \in Int
    PROVE  A!Count(s, t, a, b) = 0 <=> \A k \in a .. b : s[k].type # t
<1>1. AmHave(s, t, a, b) = {} <=> \A k \in a .. b : s[k].type # t
  BY DEF AmHave
<1> QED BY <1>1, AmCount, FS_EmptySet

LEMMA AmCountAll ==
    ASSUME NEW s, NEW t, NEW a \in Int, NEW b \in Int, a <= b + 1,
           \A k \in a .. b : s[k].type = t
    PROVE  A!Count(s, t, a, b) = b - a + 1
<1>1. AmHave(s, t, a, b) = a .. b
  BY DEF AmHave
<1>2. Cardinality(a .. b) = IF a > b THEN 0 ELSE b - a + 1
  BY FS_Interval
<1> QED BY <1>1, <1>2, AmCount

LEMMA AmCountShift ==
    ASSUME NEW s, NEW g, NEW t, NEW a \in Int, NEW b \in Int,
           \A k \in a .. b : g[k + 1].type = s[k].type
    PROVE  A!Count(g, t, a + 1, b + 1) = A!Count(s, t, a, b)
<1> DEFINE S == AmHave(s, t, a, b)
           T == AmHave(g, t, a + 1, b + 1)
           f == [k \in S |-> k + 1]
<1>1. S \subseteq a .. b /\ T \subseteq a + 1 .. b + 1
  BY DEF AmHave
<1>2. \A k \in S : k \in Int /\ k + 1 \in T
  BY DEF AmHave
<1>3. ASSUME NEW j \in T PROVE j - 1 \in S /\ j = (j - 1) + 1
  <2>1. j \in a + 1 .. b + 1 /\ g[j].type = t
    BY DEF AmHave
  <2>2. j - 1 \in a .. b /\ j = (j - 1) + 1
    BY <2>1
  <2> QED BY <2>1, <2>2 DEF AmHave
<1>4. IsFiniteSet(S)
  BY AmCount
<1> HIDE DEF S, T
<1>5. f \in [S -> T] /\ (\A i, j \in S : f[i] = f[j] => i = j) /\ \A j \in T : \E i \in S : f[i] = j
  BY <1>2, <1>3
<1>6. f \in Bijection(S, T)
  BY <1>5 DEF Bijection, Injection, Surjection, IsInjective
<1>7. Cardinality(T) = Cardinality(S)
  BY <1>4, <1>6, FS_Bijection DEF ExistsBijection
<1> QED BY <1>7, AmCount DEF S, T

LEMMA AmGreatest ==
    ASSUME NEW S, NEW n \in Nat, S \subseteq 0 .. n, S # {}
    PROVE  A!Max(S) \in S /\ \A j \in S : j <= A!Max(S)
<1> DEFINE T == {n - k : k \in S}
<1>1. T \subseteq Nat /\ T # {}
  <2>1. \A k \in S : n - k \in Nat
    OBVIOUS
  <2> QED BY <2>1
<1>2. PICK k \in T : \A j \in T : k <= j
  BY <1>1, MeLeast
<1>3. n - k \in S /\ \A j \in S : j <= n - k
  <2>1. PICK i \in S : k = n - i
    BY <1>2
  <2>2. n - k = i
    BY <2>1
  <2>3. ASSUME NEW j \in S PROVE j <= i
    <3>1. n - i <= n - j
      BY <1>2, <2>1
    <3> QED BY <3>1
  <2> QED BY <2>2, <2>3
<1> HIDE DEF T
<1>4. \E m \in S : \A j \in S : m >= j
  BY <1>3
<1>5. A!Max(S) \in S /\ \A j \in S : A!Max(S) >= j
  BY <1>4, Zenon DEF A!Max
<1> QED BY <1>5

LEMMA AmLast ==
    ASSUME NEW s, NEW t, NEW k \in Nat
    PROVE  LET j == A!LastOf(s, t, k)
           IN /\ j \in 0 .. k /\ (j # 0 => s[j].type = t)
              /\ \A i \in j + 1 .. k : s[i].type # t
<1> DEFINE S == {j \in 1 .. k : s[j].type = t} \cup {0}
           j == A!LastOf(s, t, k)
<1>1. S \subseteq 0 .. k /\ S # {}
  OBVIOUS
<1>2. j = A!Max(S)
  BY DEF A!LastOf
<1>3. j \in S /\ \A i \in S : i <= j
  <2> HIDE DEF S, j
  <2> QED BY <1>1, <1>2, AmGreatest
<1> HIDE DEF j
<1>4. j \in 0 .. k /\ (j # 0 => s[j].type = t)
  BY <1>3
<1>5. ASSUME NEW i \in j + 1 .. k PROVE s[i].type # t
  <2>1. i \in 1 .. k /\ ~(i <= j)
    BY <1>4
  <2> QED BY <1>3, <2>1
<1> QED BY <1>4, <1>5 DEF j

LEMMA AmLastIs ==
    ASSUME NEW s, NEW t, NEW k \in Nat, NEW j \in 0 .. k, j # 0 => s[j].type = t,
           \A i \in j + 1 .. k : s[i].type # t
    PROVE  A!LastOf(s, t, k) = j
<1> DEFINE l == A!LastOf(s, t, k)
<1>1. /\ l \in 0 .. k /\ (l # 0 => s[l].type = t)
      /\ \A i \in l + 1 .. k : s[i].type # t
  BY AmLast
<1> HIDE DEF l
<1>2. ~(l < j)
  BY <1>1
<1>3. ~(j < l)
  BY <1>1
<1> QED BY <1>1, <1>2, <1>3 DEF l

--------------------------------------------------------------------------------
(***************************************************************************)
(* AmiMenus: the arrays.                                                   *)
(***************************************************************************)
LEMMA AmInsertAt ==
    ASSUME NEW S, NEW s \in Seq(S), NEW p \in 1 .. Len(s) + 1, NEW x \in S
    PROVE  LET g == A!InsertAt(s, p, x)
           IN /\ g \in Seq(S) /\ Len(g) = Len(s) + 1 /\ g[p] = x
              /\ \A k \in 1 .. p - 1 : g[k] = s[k]
              /\ \A k \in p .. Len(s) : g[k + 1] = s[k]
<1> DEFINE a == SubSeq(s, 1, p - 1)
           c == SubSeq(s, p, Len(s))
           e == <<x>>
           g == A!InsertAt(s, p, x)
<1>1. a \in Seq(S) /\ Len(a) = p - 1 /\ \A k \in 1 .. p - 1 : a[k] = s[k]
  OBVIOUS
<1>2. c \in Seq(S) /\ Len(c) = Len(s) - p + 1 /\ \A k \in 1 .. Len(s) - p + 1 : c[k] = s[p + k - 1]
  OBVIOUS
<1>3. e \in Seq(S) /\ Len(e) = 1 /\ e[1] = x
  OBVIOUS
<1>4. g = (a \o e) \o c
  BY DEF A!InsertAt
<1> HIDE DEF a, c, e, g
<1> DEFINE h == a \o e
<1>5. /\ h \in Seq(S) /\ Len(h) = p /\ h[p] = x
      /\ \A k \in 1 .. p - 1 : h[k] = s[k]
  <2>0. /\ h \in Seq(S) /\ Len(h) = Len(a) + Len(e)
        /\ \A k \in 1 .. Len(a) : h[k] = a[k]
        /\ \A k \in 1 .. Len(e) : h[Len(a) + k] = e[k]
    <3>1. a \in Seq(S) /\ e \in Seq(S)
      BY <1>1, <1>3
    <3>2. h \in Seq(S) /\ Len(h) = Len(a) + Len(e)
      BY <3>1, MeConcat
    <3>3. \A k \in 1 .. Len(a) : h[k] = a[k]
      BY <3>1, MeConcat
    <3>4. \A k \in 1 .. Len(e) : h[Len(a) + k] = e[k]
      BY <3>1, MeConcat
    <3> QED BY <3>2, <3>3, <3>4
  <2> HIDE DEF h
  <2>1. /\ h \in Seq(S) /\ Len(h) = p /\ \A k \in 1 .. p - 1 : h[k] = a[k]
        /\ \A k \in 1 .. 1 : h[p - 1 + k] = e[k]
    BY <1>1, <1>3, <2>0
  <2>2. h[p - 1 + 1] = e[1] /\ p - 1 + 1 = p
    BY <2>1
  <2> QED BY <1>1, <1>3, <2>1, <2>2
<1>6. g = h \o c
  BY <1>4
<1> HIDE DEF h
<1>7. /\ g \in Seq(S) /\ Len(g) = Len(s) + 1
      /\ \A k \in 1 .. p : g[k] = h[k]
      /\ \A k \in 1 .. Len(s) - p + 1 : g[p + k] = c[k]
  <2>1. Len(h) + Len(c) = Len(s) + 1
    BY <1>2, <1>5
  <2> QED BY <1>2, <1>5, <1>6, <2>1, MeConcat
<1>8. g[p] = x /\ \A k \in 1 .. p - 1 : g[k] = s[k]
  BY <1>5, <1>7
<1>9. ASSUME NEW k \in p .. Len(s) PROVE g[k + 1] = s[k]
  <2> DEFINE j == k + 1 - p
  <2>1. j \in 1 .. Len(s) - p + 1 /\ p + j = k + 1 /\ p + j - 1 = k
    OBVIOUS
  <2> HIDE DEF j
  <2>2. g[p + j] = c[j] /\ c[j] = s[p + j - 1]
    BY <1>2, <1>7, <2>1
  <2> QED BY <2>1, <2>2
<1> QED BY <1>7, <1>8, <1>9 DEF g

LEMMA AmRemoveAt ==
    ASSUME NEW S, NEW s \in Seq(S), NEW i \in 1 .. Len(s)
    PROVE  LET g == A!RemoveAt(s, i)
           IN /\ g \in Seq(S) /\ Len(g) = Len(s) - 1
              /\ \A k \in 1 .. i - 1 : g[k] = s[k]
              /\ \A k \in i .. Len(s) - 1 : g[k] = s[k + 1]
<1> DEFINE a == SubSeq(s, 1, i - 1)
           c == SubSeq(s, i + 1, Len(s))
           g == A!RemoveAt(s, i)
<1>1. a \in Seq(S) /\ Len(a) = i - 1 /\ \A j \in 1 .. i - 1 : a[j] = s[j]
  OBVIOUS
<1>2. c \in Seq(S) /\ Len(c) = Len(s) - i /\ \A j \in 1 .. Len(s) - i : c[j] = s[i + j]
  OBVIOUS
<1>3. g = a \o c
  BY DEF A!RemoveAt
<1> HIDE DEF a, c, g
<1>4. /\ g \in Seq(S) /\ Len(g) = Len(s) - 1
      /\ \A k \in 1 .. i - 1 : g[k] = a[k]
      /\ \A k \in 1 .. Len(s) - i : g[i - 1 + k] = c[k]
  <2>1. Len(a) + Len(c) = Len(s) - 1
    BY <1>1, <1>2
  <2> QED BY <1>1, <1>2, <1>3, <2>1, MeConcat
<1>5. ASSUME NEW k \in i .. Len(s) - 1 PROVE g[k] = s[k + 1]
  <2> DEFINE j == k - i + 1
  <2>1. j \in 1 .. Len(s) - i /\ i - 1 + j = k /\ i + j = k + 1
    OBVIOUS
  <2> HIDE DEF j
  <2>2. g[i - 1 + j] = c[j] /\ c[j] = s[i + j]
    BY <1>2, <1>4, <2>1
  <2> QED BY <2>1, <2>2
<1> QED BY <1>1, <1>4, <1>5 DEF g

LEMMA AmSmallest ==
    ASSUME NEW S, S \subseteq Nat, S # {}
    PROVE  A!Min(S) \in S /\ \A j \in S : A!Min(S) <= j
<1>1. PICK k \in S : \A j \in S : k <= j
  BY MeLeast
<1>2. A!Min(S) \in S /\ \A j \in S : A!Min(S) =< j
  BY <1>1, Zenon DEF A!Min
<1> QED BY <1>2

\* The native menus are the entries before the first NM_END.
LEMMA AmCreate ==
    ASSUME NEW S, NEW n \in Seq(S)
    PROVE  LET c == A!CreateMenus(n)
           IN /\ c \in Seq(S) /\ Len(c) <= Len(n)
              /\ \A k \in 1 .. Len(c) : c[k] = n[k] /\ n[k].type # "End"
              /\ Len(c) < Len(n) => n[Len(c) + 1].type = "End"
<1> DEFINE Ends == {k \in DOMAIN n : n[k].type = "End"}
           m == A!Min(Ends)
           c == A!CreateMenus(n)
<1>1. c = IF Ends = {} THEN n ELSE SubSeq(n, 1, m - 1)
  BY DEF A!CreateMenus
<1>2. CASE Ends = {}
  BY <1>1, <1>2
<1>3. CASE Ends # {}
  <2>1. m \in Ends /\ \A k \in Ends : m <= k
    <3>1. Ends \subseteq Nat
      OBVIOUS
    <3> HIDE DEF Ends
    <3> QED BY <1>3, <3>1, AmSmallest DEF m
  <2>2. m \in 1 .. Len(n) /\ n[m].type = "End"
    BY <2>1
  <2>3. \A k \in 1 .. m - 1 : n[k].type # "End"
    <3> HIDE DEF m
    <3>1. ASSUME NEW k \in 1 .. m - 1, n[k].type = "End" PROVE FALSE
      <4>1. k \in Ends
        BY <2>2, <3>1
      <4> QED BY <2>1, <2>2, <4>1
    <3> QED BY <3>1
  <2> HIDE DEF m, Ends
  <2>4. c = SubSeq(n, 1, m - 1)
    BY <1>1, <1>3
  <2> HIDE DEF c
  <2>5. c \in Seq(S) /\ Len(c) = m - 1 /\ \A k \in 1 .. m - 1 : c[k] = n[k]
    BY <2>2, <2>4
  <2> QED BY <2>2, <2>3, <2>5 DEF c
<1> QED BY <1>2, <1>3

LEMMA AmCreateAlike ==
    ASSUME NEW S, NEW T, NEW n \in Seq(S), NEW g \in Seq(T), A!Alike(n, g)
    PROVE  A!Alike(A!CreateMenus(n), A!CreateMenus(g))
<1> DEFINE c == A!CreateMenus(n)
           d == A!CreateMenus(g)
<1>1. /\ c \in Seq(S) /\ Len(c) <= Len(n)
      /\ \A k \in 1 .. Len(c) : c[k] = n[k] /\ n[k].type # "End"
      /\ Len(c) < Len(n) => n[Len(c) + 1].type = "End"
  BY AmCreate
<1>2. /\ d \in Seq(T) /\ Len(d) <= Len(g)
      /\ \A k \in 1 .. Len(d) : d[k] = g[k] /\ g[k].type # "End"
      /\ Len(d) < Len(g) => g[Len(d) + 1].type = "End"
  BY AmCreate
<1> HIDE DEF c, d
<1>3. Len(n) = Len(g) /\ \A k \in 1 .. Len(n) : n[k].type = g[k].type /\ n[k].id = g[k].id
  BY DEF A!Alike
<1>4. Len(c) \in Nat /\ Len(d) \in Nat /\ Len(n) \in Nat
  BY <1>1, <1>2
<1>5. ~(Len(c) < Len(d))
  <2> SUFFICES ASSUME Len(c) < Len(d) PROVE FALSE
    OBVIOUS
  <2>1. Len(c) + 1 \in 1 .. Len(d) /\ Len(c) + 1 \in 1 .. Len(n) /\ Len(c) < Len(n)
    BY <1>2, <1>3, <1>4
  <2> QED BY <1>1, <1>2, <1>3, <2>1
<1>6. ~(Len(d) < Len(c))
  <2> SUFFICES ASSUME Len(d) < Len(c) PROVE FALSE
    OBVIOUS
  <2>1. Len(d) + 1 \in 1 .. Len(c) /\ Len(d) + 1 \in 1 .. Len(n) /\ Len(d) < Len(g)
    BY <1>1, <1>3, <1>4
  <2> QED BY <1>1, <1>2, <1>3, <2>1
<1>7. Len(c) = Len(d)
  BY <1>4, <1>5, <1>6
<1>8. \A k \in 1 .. Len(c) : c[k].type = d[k].type /\ c[k].id = d[k].id
  BY <1>1, <1>2, <1>3, <1>4, <1>7
<1> QED BY <1>1, <1>7, <1>8 DEF A!Alike, c, d

--------------------------------------------------------------------------------
(***************************************************************************)
(* AmiMenus: what the number of an item is, in an array that begins with a *)
(* menu, ends once, and has no subitem without an item.                    *)
(***************************************************************************)
AmArray(s) ==
    /\ s \in Seq(A!Entries) /\ s # <<>> /\ s[1].type = "Title" /\ s[Len(s)].type = "End"
    /\ \A k \in DOMAIN s : s[k].type = "End" => k = Len(s)
    /\ \A k \in DOMAIN s : s[k].type = "Sub" => k > 1 /\ s[k - 1].type \in {"Item", "Sub"}

LEMMA AmLastSame ==
    ASSUME NEW s, NEW g, NEW t, NEW k \in Nat, \A j \in 1 .. k : g[j].type = s[j].type
    PROVE  A!LastOf(g, t, k) = A!LastOf(s, t, k)
<1> DEFINE l == A!LastOf(s, t, k)
<1>1. /\ l \in 0 .. k /\ (l # 0 => s[l].type = t)
      /\ \A i \in l + 1 .. k : s[i].type # t
  BY AmLast
<1> HIDE DEF l
<1>2. (l # 0 => g[l].type = t) /\ \A i \in l + 1 .. k : g[i].type # t
  BY <1>1
<1>3. A!LastOf(g, t, k) = l
  BY <1>1, <1>2, AmLastIs
<1> QED BY <1>3 DEF l

LEMMA AmNumberSame ==
    ASSUME NEW s, NEW g, NEW k \in Nat \ {0}, \A j \in 1 .. k : g[j].type = s[j].type
    PROVE  A!NumberOf(g, k) = A!NumberOf(s, k)
<1> DEFINE T == A!LastOf(s, "Title", k)
           i == A!LastOf(s, "Item", k)
<1>1. A!LastOf(g, "Title", k) = T /\ A!LastOf(g, "Item", k) = i
  BY AmLastSame
<1>2. T \in 0 .. k
  BY AmLast
<1> HIDE DEF T, i
<1>3. A!Count(g, "Title", 1, k) = A!Count(s, "Title", 1, k)
  BY AmCountSame
<1>4. A!Count(g, "Item", T + 1, k) = A!Count(s, "Item", T + 1, k)
  <2>1. \A j \in T + 1 .. k : g[j].type = s[j].type
    BY <1>2
  <2> QED BY <1>2, <2>1, AmCountSame
<1>5. g[k].type = s[k].type
  OBVIOUS
<1>6. A!NumberOf(g, k) = A!FULLMENUNUM(A!Count(g, "Title", 1, k) - 1, A!Count(g, "Item", T + 1, k) - 1,
                                      IF g[k].type = "Sub" THEN k - i - 1 ELSE 0)
  BY <1>1 DEF A!NumberOf
<1>7. A!NumberOf(s, k) = A!FULLMENUNUM(A!Count(s, "Title", 1, k) - 1, A!Count(s, "Item", T + 1, k) - 1,
                                      IF s[k].type = "Sub" THEN k - i - 1 ELSE 0)
  BY DEF A!NumberOf, T, i
<1> QED BY <1>3, <1>4, <1>5, <1>6, <1>7

\* A subitem is in a row of them behind its item, in the menu of the item.
LEMMA AmHead ==
    ASSUME NEW s, AmArray(s), NEW k \in DOMAIN s, s[k].type = "Sub"
    PROVE  LET i == A!LastOf(s, "Item", k)
           IN /\ i \in 1 .. k - 1 /\ s[i].type = "Item" /\ A!LastOf(s, "Title", k) < i
              /\ \A j \in i + 1 .. k : s[j].type = "Sub"
<1> DEFINE S == {j \in 1 .. k : s[j].type # "Sub"}
           m == A!Max(S)
<1>0. k \in 1 .. Len(s) /\ Len(s) \in Nat /\ s[1].type = "Title"
  BY DEF AmArray
<1>1. S \subseteq 0 .. k /\ S # {}
  <2>1. 1 \in S
    BY <1>0
  <2> QED BY <1>0, <2>1
<1>2. m \in S /\ \A j \in S : j <= m
  <2>1. k \in Nat
    BY <1>0
  <2> HIDE DEF S
  <2> QED BY <1>1, <2>1, AmGreatest
<1> HIDE DEF m
<1>3. m \in 1 .. k - 1 /\ s[m].type # "Sub" /\ \A j \in m + 1 .. k : s[j].type = "Sub"
  <2>1. m \in 1 .. k /\ s[m].type # "Sub"
    BY <1>2
  <2>2. ASSUME NEW j \in m + 1 .. k PROVE s[j].type = "Sub"
    <3>1. j \in 1 .. k /\ ~(j <= m)
      BY <2>1
    <3> QED BY <1>2, <3>1
  <2> QED BY <1>0, <2>1, <2>2
<1>4. s[m].type = "Item"
  <2>1. m + 1 \in DOMAIN s /\ s[m + 1].type = "Sub" /\ (m + 1) - 1 = m
    BY <1>0, <1>3
  <2>2. s[(m + 1) - 1].type \in {"Item", "Sub"}
    BY <2>1 DEF AmArray
  <2> QED BY <1>3, <2>1, <2>2
<1>5. A!LastOf(s, "Item", k) = m
  <2>1. k \in Nat /\ m \in 0 .. k /\ \A j \in m + 1 .. k : s[j].type # "Item"
    BY <1>0, <1>3
  <2> QED BY <1>4, <2>1, AmLastIs
<1>6. A!LastOf(s, "Title", k) < m
  <2> DEFINE l == A!LastOf(s, "Title", k)
  <2>1. l \in 0 .. k /\ (l # 0 => s[l].type = "Title")
    BY <1>0, AmLast
  <2> HIDE DEF l
  <2>2. ~(l > m) /\ l # m
    BY <1>3, <1>4, <2>1
  <2> QED BY <1>3, <2>1, <2>2 DEF l
<1> QED BY <1>3, <1>4, <1>5, <1>6

LEMMA AmParts ==
    ASSUME NEW s, NEW k \in Nat
    PROVE  /\ A!NumberOf(s, k).menu = A!Count(s, "Title", 1, k) - 1
           /\ A!NumberOf(s, k).item = A!Count(s, "Item", A!LastOf(s, "Title", k) + 1, k) - 1
           /\ s[k].type = "Sub" => A!NumberOf(s, k).sub = k - A!LastOf(s, "Item", k) - 1
BY DEF A!NumberOf, A!FULLMENUNUM

AmHasAddress(s, k) == s[k].type = "Sub" \/ (s[k].type = "Item" /\ ~A!HasSubs(s, k))

\* No two items have one number.
LEMMA AmNumbersDiffer ==
    ASSUME NEW s, AmArray(s), NEW k \in DOMAIN s, NEW l \in DOMAIN s, k < l,
           AmHasAddress(s, k), AmHasAddress(s, l)
    PROVE  A!NumberOf(s, k) # A!NumberOf(s, l)
<1> SUFFICES ASSUME A!NumberOf(s, k) = A!NumberOf(s, l) PROVE FALSE
  OBVIOUS
<1> DEFINE T == A!LastOf(s, "Title", k)
           U == A!LastOf(s, "Title", l)
           i == A!LastOf(s, "Item", l)
<1>0. k \in 1 .. Len(s) /\ l \in 1 .. Len(s) /\ Len(s) \in Nat /\ k \in Nat /\ l \in Nat
  BY DEF AmArray
<1>1. A!Count(s, "Title", 1, k) - 1 = A!Count(s, "Title", 1, l) - 1
      /\ A!Count(s, "Item", T + 1, k) - 1 = A!Count(s, "Item", U + 1, l) - 1
  BY <1>0, AmParts
<1>2. /\ T \in 0 .. k /\ (T # 0 => s[T].type = "Title")
      /\ \A j \in T + 1 .. k : s[j].type # "Title"
  BY <1>0, AmLast
<1> HIDE DEF T, U, i
<1>3. A!Count(s, "Title", k + 1, l) = 0
  <2>1. A!Count(s, "Title", 1, l) = A!Count(s, "Title", 1, k) + A!Count(s, "Title", k + 1, l)
    BY <1>0, AmCountSum
  <2>2. A!Count(s, "Title", 1, k) \in Nat /\ A!Count(s, "Title", k + 1, l) \in Nat
    BY <1>0, AmCount
  <2>3. A!Count(s, "Title", 1, l) \in Nat
    BY <1>0, AmCount
  <2> QED BY <1>1, <2>1, <2>2, <2>3
<1>4. \A j \in k + 1 .. l : s[j].type # "Title"
  BY <1>0, <1>3, AmCountNone
<1>5. U = T
  <2>1. T \in 0 .. l /\ \A j \in T + 1 .. l : s[j].type # "Title"
    BY <1>0, <1>2, <1>4
  <2> QED BY <1>0, <1>2, <2>1, AmLastIs DEF U
<1>6. A!Count(s, "Item", k + 1, l) = 0
  <2>1. A!Count(s, "Item", T + 1, l) = A!Count(s, "Item", T + 1, k) + A!Count(s, "Item", k + 1, l)
    BY <1>0, <1>2, AmCountSum
  <2>2. /\ A!Count(s, "Item", T + 1, k) \in Nat /\ A!Count(s, "Item", k + 1, l) \in Nat
        /\ A!Count(s, "Item", T + 1, l) \in Nat
    BY <1>0, <1>2, AmCount
  <2> QED BY <1>1, <1>5, <2>1, <2>2
<1>7. \A j \in k + 1 .. l : s[j].type # "Item"
  BY <1>0, <1>6, AmCountNone
<1>8. s[l].type = "Sub"
  BY <1>0, <1>7 DEF AmHasAddress
<1>9. i \in 1 .. l - 1 /\ s[i].type = "Item" /\ \A j \in i + 1 .. l : s[j].type = "Sub"
  BY <1>8, AmHead DEF i
<1>10. i <= k
  BY <1>0, <1>7, <1>9
<1>11. CASE s[k].type = "Sub"
  <2>1. A!LastOf(s, "Item", k) = i
    <3>1. i \in 0 .. k /\ \A j \in i + 1 .. k : s[j].type # "Item"
      BY <1>0, <1>9, <1>10
    <3> QED BY <1>0, <1>9, <3>1, AmLastIs
  <2>2. k - A!LastOf(s, "Item", k) - 1 = l - A!LastOf(s, "Item", l) - 1
    BY <1>0, <1>8, <1>11, AmParts
  <2> QED BY <1>0, <1>9, <2>1, <2>2 DEF i
<1>12. CASE s[k].type = "Item" /\ ~A!HasSubs(s, k)
  <2>1. k = i
    BY <1>0, <1>9, <1>10, <1>12
  <2>2. k < Len(s) /\ s[k + 1].type = "Sub"
    BY <1>0, <1>9, <2>1
  <2> QED BY <1>12, <2>2 DEF A!HasSubs
<1> QED BY <1>11, <1>12 DEF AmHasAddress

--------------------------------------------------------------------------------
(***************************************************************************)
(* AmiMenus: an item that is put behind the others of its menu, or a       *)
(* subitem behind those of its item, leaves the numbers as they are.       *)
(***************************************************************************)
\* g is s with x at p.
AmPutIn(s, g, p, x) ==
    /\ s \in Seq(A!Entries) /\ g \in Seq(A!Entries) /\ Len(g) = Len(s) + 1
    /\ p \in 2 .. Len(s) /\ g[p] = x
    /\ \A k \in 1 .. p - 1 : g[k] = s[k]
    /\ \A k \in p .. Len(s) : g[k + 1] = s[k]

AmBehind(s, p, x) ==
    \/ x.type = "Item" /\ s[p].type \in {"Title", "End"}
    \/ x.type = "Sub" /\ s[p].type # "Sub" /\ s[p - 1].type \in {"Item", "Sub"}

LEMMA AmPutCount ==
    ASSUME NEW s, NEW g, NEW p, NEW x, AmPutIn(s, g, p, x), NEW t,
           NEW a \in 1 .. p, NEW k \in p - 1 .. Len(s)
    PROVE  A!Count(g, t, a, k + 1) = A!Count(s, t, a, k) + (IF x.type = t THEN 1 ELSE 0)
<1>0. p \in Int /\ a \in Int /\ k \in Int /\ Len(s) \in Nat /\ a <= p /\ p <= k + 1 /\ k <= Len(s) /\ 1 <= a
  BY DEF AmPutIn
<1>1. A!Count(g, t, a, k + 1) = A!Count(g, t, a, p - 1) + A!Count(g, t, p, k + 1)
  <2>1. a <= (p - 1) + 1 /\ p - 1 <= k + 1 /\ (p - 1) + 1 = p
    BY <1>0
  <2> QED BY <1>0, <2>1, AmCountSum
<1>2. A!Count(g, t, p, k + 1) = A!Count(g, t, p, p) + A!Count(g, t, p + 1, k + 1)
  BY <1>0, AmCountSum
<1>3. A!Count(s, t, a, k) = A!Count(s, t, a, p - 1) + A!Count(s, t, p, k)
  <2>1. a <= (p - 1) + 1 /\ p - 1 <= k /\ (p - 1) + 1 = p
    BY <1>0
  <2> QED BY <1>0, <2>1, AmCountSum
<1>4. A!Count(g, t, a, p - 1) = A!Count(s, t, a, p - 1)
  <2>1. \A j \in a .. p - 1 : g[j].type = s[j].type
    BY <1>0 DEF AmPutIn
  <2> QED BY <1>0, <2>1, AmCountSame
<1>5. A!Count(g, t, p + 1, k + 1) = A!Count(s, t, p, k)
  <2>1. \A j \in p .. k : g[j + 1].type = s[j].type
    BY <1>0 DEF AmPutIn
  <2> QED BY <1>0, <2>1, AmCountShift
<1>6. A!Count(g, t, p, p) = IF x.type = t THEN 1 ELSE 0
  BY <1>0, AmCountOne DEF AmPutIn
<1>7. A!Count(g, t, a, p - 1) \in Nat /\ A!Count(s, t, p, k) \in Nat
  BY <1>0, AmCount
<1> QED BY <1>1, <1>2, <1>3, <1>4, <1>5, <1>6, <1>7

LEMMA AmPutLast ==
    ASSUME NEW s, NEW g, NEW p, NEW x, AmPutIn(s, g, p, x), NEW t, NEW k \in p .. Len(s)
    PROVE  LET l == A!LastOf(s, t, k)
           IN /\ l >= p => A!LastOf(g, t, k + 1) = l + 1
              /\ l < p /\ x.type # t => A!LastOf(g, t, k + 1) = l
<1> DEFINE l == A!LastOf(s, t, k)
<1>0. p \in Nat /\ p > 1 /\ k \in Nat /\ Len(s) \in Nat /\ p <= k /\ k <= Len(s)
  BY DEF AmPutIn
<1>1. /\ l \in 0 .. k /\ (l # 0 => s[l].type = t)
      /\ \A i \in l + 1 .. k : s[i].type # t
  BY <1>0, AmLast
<1> HIDE DEF l
<1>2. \A j \in p + 1 .. k + 1 : g[j] = s[j - 1]
  <2>1. ASSUME NEW j \in p + 1 .. k + 1 PROVE g[j] = s[j - 1]
    <3>1. j - 1 \in p .. Len(s) /\ (j - 1) + 1 = j
      BY <1>0
    <3> QED BY <3>1 DEF AmPutIn
  <2> QED BY <2>1
<1>3. ASSUME l >= p PROVE A!LastOf(g, t, k + 1) = l + 1
  <2>1. l + 1 \in 0 .. k + 1 /\ l + 1 \in p + 1 .. k + 1
    BY <1>0, <1>1, <1>3
  <2>2. g[l + 1].type = t
    <3>1. (l + 1) - 1 = l /\ l # 0
      BY <1>0, <1>1, <1>3
    <3> QED BY <1>1, <1>2, <2>1, <3>1
  <2>3. ASSUME NEW i \in (l + 1) + 1 .. k + 1 PROVE g[i].type # t
    <3>1. i \in p + 1 .. k + 1 /\ i - 1 \in l + 1 .. k
      BY <1>0, <1>1, <1>3
    <3> QED BY <1>1, <1>2, <3>1
  <2>4. k + 1 \in Nat
    BY <1>0
  <2> QED BY <2>1, <2>2, <2>3, <2>4, AmLastIs
<1>4. ASSUME l < p, x.type # t PROVE A!LastOf(g, t, k + 1) = l
  <2>1. l \in 0 .. k + 1 /\ k + 1 \in Nat
    BY <1>0, <1>1
  <2>2. l # 0 => g[l].type = t
    <3>1. l # 0 => l \in 1 .. p - 1
      BY <1>0, <1>1, <1>4
    <3> QED BY <1>1, <3>1 DEF AmPutIn
  <2>3. ASSUME NEW i \in l + 1 .. k + 1 PROVE g[i].type # t
    <3>1. CASE i < p
      <4>1. i \in 1 .. p - 1 /\ i \in l + 1 .. k
        BY <1>0, <1>1, <3>1
      <4> QED BY <1>1, <4>1 DEF AmPutIn
    <3>2. CASE i = p
      BY <1>4, <3>2 DEF AmPutIn
    <3>3. CASE i > p
      <4>1. i \in p + 1 .. k + 1 /\ i - 1 \in l + 1 .. k
        BY <1>0, <1>1, <1>4, <3>3
      <4> QED BY <1>1, <1>2, <4>1
    <3> QED BY <1>0, <1>1, <3>1, <3>2, <3>3
  <2> QED BY <2>1, <2>2, <2>3, AmLastIs
<1> QED BY <1>3, <1>4 DEF l

\* How many subitems there are in its menu, before an entry.
AmSubsBefore(s, k) == A!Count(s, "Sub", A!LastOf(s, "Title", k) + 1, k)

LEMMA AmNumbersStay ==
    ASSUME NEW s, NEW g, NEW p, NEW x, AmPutIn(s, g, p, x), AmArray(s), AmBehind(s, p, x),
           NEW k \in p .. Len(s), s[k].type \in {"Item", "Sub"}
    PROVE  /\ A!NumberOf(g, k + 1) = A!NumberOf(s, k)
           /\ AmSubsBefore(g, k + 1) = 0 => AmSubsBefore(s, k) = 0
<1> DEFINE T == A!LastOf(s, "Title", k)
           U == A!LastOf(g, "Title", k + 1)
           i == A!LastOf(s, "Item", k)
<1>0. /\ p \in Nat /\ p > 1 /\ k \in Nat /\ Len(s) \in Nat /\ p <= k /\ k <= Len(s)
      /\ k \in DOMAIN s /\ x.type \in {"Item", "Sub"} /\ k + 1 \in Nat
  BY DEF AmPutIn, AmBehind
<1>1. /\ T \in 0 .. k /\ (T # 0 => s[T].type = "Title")
      /\ \A j \in T + 1 .. k : s[j].type # "Title"
  BY <1>0, AmLast
<1>2. T < p => U = T
  BY <1>0, AmPutLast
<1>3. T >= p => U = T + 1
  BY <1>0, AmPutLast
<1>4. s[k].type = "Sub" => A!LastOf(g, "Item", k + 1) = i + 1
  <2> SUFFICES ASSUME s[k].type = "Sub" PROVE A!LastOf(g, "Item", k + 1) = i + 1
    OBVIOUS
  <2>1. i \in 1 .. k - 1 /\ T < i /\ \A j \in i + 1 .. k : s[j].type = "Sub"
    BY <1>0, AmHead
  <2> HIDE DEF i, T, U
  <2>2. ~(i < p)
    <3> SUFFICES ASSUME i < p PROVE FALSE
      OBVIOUS
    <3>1. s[p].type = "Sub"
      BY <1>0, <2>1
    <3> QED BY <3>1 DEF AmBehind
  <2> QED BY <1>0, <2>1, <2>2, AmPutLast DEF i
<1> HIDE DEF T, U, i
<1>5. T < p => x.type = "Sub"
  <2> SUFFICES ASSUME T < p, x.type # "Sub" PROVE FALSE
    OBVIOUS
  <2>1. s[p].type \in {"Title", "End"}
    BY DEF AmBehind
  <2>2. s[p].type # "Title"
    BY <1>0, <1>1
  <2>3. p \in DOMAIN s
    BY <1>0
  <2>4. p = Len(s)
    BY <2>1, <2>2, <2>3 DEF AmArray
  <2>5. k = p
    BY <1>0, <2>4
  <2> QED BY <2>1, <2>5
<1>6. A!Count(g, "Title", 1, k + 1) = A!Count(s, "Title", 1, k)
  <2>1. 1 \in 1 .. p /\ k \in p - 1 .. Len(s) /\ A!Count(s, "Title", 1, k) \in Nat
    BY <1>0, AmCount
  <2> QED BY <1>0, <2>1, AmPutCount
<1>7. A!Count(g, "Item", U + 1, k + 1) = A!Count(s, "Item", T + 1, k)
  <2>1. CASE T < p
    <3>1. T + 1 \in 1 .. p /\ k \in p - 1 .. Len(s) /\ A!Count(s, "Item", T + 1, k) \in Nat
      BY <1>0, <1>1, <2>1, AmCount
    <3> QED BY <1>2, <1>5, <2>1, <3>1, AmPutCount
  <2>2. CASE T >= p
    <3>1. \A j \in T + 1 .. k : g[j + 1].type = s[j].type
      BY <1>0, <1>1, <2>2 DEF AmPutIn
    <3>2. T + 1 \in Int /\ k \in Int
      BY <1>0, <1>1
    <3> QED BY <1>3, <2>2, <3>1, <3>2, AmCountShift
  <2> QED BY <1>0, <1>1, <2>1, <2>2
<1>8. AmSubsBefore(g, k + 1) = 0 => AmSubsBefore(s, k) = 0
  <2>1. CASE T < p
    <3>1. T + 1 \in 1 .. p /\ k \in p - 1 .. Len(s) /\ A!Count(s, "Sub", T + 1, k) \in Nat
      BY <1>0, <1>1, <2>1, AmCount
    <3>2. A!Count(g, "Sub", T + 1, k + 1) = A!Count(s, "Sub", T + 1, k) + 1
      BY <1>5, <2>1, <3>1, AmPutCount
    <3> QED BY <1>2, <2>1, <3>1, <3>2 DEF AmSubsBefore, T, U
  <2>2. CASE T >= p
    <3>1. \A j \in T + 1 .. k : g[j + 1].type = s[j].type
      BY <1>0, <1>1, <2>2 DEF AmPutIn
    <3>2. T + 1 \in Int /\ k \in Int
      BY <1>0, <1>1
    <3>3. A!Count(g, "Sub", U + 1, k + 1) = A!Count(s, "Sub", T + 1, k)
      BY <1>3, <2>2, <3>1, <3>2, AmCountShift
    <3> QED BY <3>3 DEF AmSubsBefore, T, U
  <2> QED BY <1>0, <1>1, <2>1, <2>2
<1>9. A!NumberOf(g, k + 1) = A!NumberOf(s, k)
  <2>1. g[k + 1].type = s[k].type
    BY <1>0 DEF AmPutIn
  <2>2. A!NumberOf(s, k) = A!FULLMENUNUM(A!Count(s, "Title", 1, k) - 1, A!Count(s, "Item", T + 1, k) - 1,
                                        IF s[k].type = "Sub" THEN k - i - 1 ELSE 0)
    BY DEF A!NumberOf, T, i
  <2>3. A!NumberOf(g, k + 1) =
          A!FULLMENUNUM(A!Count(g, "Title", 1, k + 1) - 1, A!Count(g, "Item", U + 1, k + 1) - 1,
             IF s[k].type = "Sub" THEN (k + 1) - A!LastOf(g, "Item", k + 1) - 1 ELSE 0)
    BY <2>1 DEF A!NumberOf, U
  <2>4. s[k].type = "Sub" => (k + 1) - A!LastOf(g, "Item", k + 1) - 1 = k - i - 1
    <3>1. i \in Int
      BY <1>0, AmLast DEF i
    <3> QED BY <1>0, <1>4, <3>1
  <2> QED BY <1>6, <1>7, <2>2, <2>3, <2>4
<1> QED BY <1>8, <1>9

\* The array is one as before.
LEMMA AmStaysArray ==
    ASSUME NEW s, NEW g, NEW p, NEW x, AmPutIn(s, g, p, x), AmArray(s), AmBehind(s, p, x)
    PROVE  /\ AmArray(g)
           /\ \A k \in 1 .. p - 1 : A!HasSubs(s, k) => A!HasSubs(g, k)
           /\ \A k \in p .. Len(s) : A!HasSubs(s, k) => A!HasSubs(g, k + 1)
<1>0. /\ p \in Nat /\ p > 1 /\ p <= Len(s) /\ Len(s) \in Nat /\ Len(g) = Len(s) + 1
      /\ s \in Seq(A!Entries) /\ g \in Seq(A!Entries) /\ x.type \in {"Item", "Sub"} /\ g[p] = x
  BY DEF AmPutIn, AmBehind
<1>1. \A k \in 1 .. p - 1 : g[k] = s[k]
  BY DEF AmPutIn
<1>2. \A k \in p + 1 .. Len(g) : g[k] = s[k - 1] /\ k - 1 \in p .. Len(s) /\ k - 1 \in DOMAIN s
  <2>1. ASSUME NEW k \in p + 1 .. Len(g)
        PROVE  g[k] = s[k - 1] /\ k - 1 \in p .. Len(s) /\ k - 1 \in DOMAIN s
    <3>1. k - 1 \in p .. Len(s) /\ (k - 1) + 1 = k /\ k - 1 \in DOMAIN s
      BY <1>0
    <3> QED BY <3>1 DEF AmPutIn
  <2> QED BY <2>1
<1>3. g[1].type = "Title" /\ g[Len(g)].type = "End" /\ g # <<>>
  <2>1. 1 \in 1 .. p - 1 /\ Len(g) \in p + 1 .. Len(g) /\ Len(g) - 1 = Len(s)
    BY <1>0
  <2> QED BY <1>0, <1>1, <1>2, <2>1 DEF AmArray
<1>4. ASSUME NEW k \in DOMAIN g, g[k].type = "End" PROVE k = Len(g)
  <2>1. k \in 1 .. Len(g)
    BY <1>0
  <2>2. CASE k < p
    <3>1. k \in 1 .. p - 1 /\ k \in DOMAIN s /\ k # Len(s)
      BY <1>0, <2>1, <2>2
    <3> QED BY <1>1, <1>4, <3>1 DEF AmArray
  <2>3. CASE k = p
    BY <1>0, <1>4, <2>3
  <2>4. CASE k > p
    <3>1. k \in p + 1 .. Len(g)
      BY <1>0, <2>1, <2>4
    <3>2. k - 1 = Len(s)
      BY <1>2, <1>4, <3>1 DEF AmArray
    <3> QED BY <1>0, <2>1, <3>2
  <2> QED BY <1>0, <2>1, <2>2, <2>3, <2>4
<1>5. ASSUME NEW k \in DOMAIN g, g[k].type = "Sub"
      PROVE  k > 1 /\ g[k - 1].type \in {"Item", "Sub"}
  <2>1. k \in 1 .. Len(g)
    BY <1>0
  <2>2. CASE k < p
    <3>1. k \in 1 .. p - 1 /\ k \in DOMAIN s
      BY <1>0, <2>1, <2>2
    <3>2. k > 1 /\ s[k - 1].type \in {"Item", "Sub"}
      BY <1>1, <1>5, <3>1 DEF AmArray
    <3>3. k - 1 \in 1 .. p - 1
      BY <1>0, <2>1, <2>2, <3>2
    <3> QED BY <1>1, <3>2, <3>3
  <2>3. CASE k = p
    <3>1. s[p - 1].type \in {"Item", "Sub"} /\ p - 1 \in 1 .. p - 1
      BY <1>0, <1>5, <2>3 DEF AmBehind
    <3> QED BY <1>0, <1>1, <2>3, <3>1
  <2>4. CASE k = p + 1
    BY <1>0, <2>1, <2>4
  <2>5. CASE k > p + 1
    <3>1. k \in p + 1 .. Len(g) /\ k - 1 \in p + 1 .. Len(g)
      BY <1>0, <2>1, <2>5
    <3>2. g[k] = s[k - 1] /\ g[k - 1] = s[(k - 1) - 1] /\ k - 1 \in DOMAIN s
      BY <1>2, <3>1
    <3> QED BY <1>0, <1>5, <2>5, <3>2 DEF AmArray
  <2> QED BY <1>0, <2>1, <2>2, <2>3, <2>4, <2>5
<1>6. ASSUME NEW k \in 1 .. p - 1, A!HasSubs(s, k) PROVE A!HasSubs(g, k)
  <2>1. k < Len(s) /\ s[k + 1].type = "Sub"
    BY <1>6 DEF A!HasSubs
  <2>2. CASE k + 1 < p
    <3>1. k + 1 \in 1 .. p - 1 /\ k < Len(g)
      BY <1>0, <2>1, <2>2
    <3> QED BY <1>1, <2>1, <3>1 DEF A!HasSubs
  <2>3. CASE k + 1 = p
    BY <2>1, <2>3 DEF AmBehind
  <2> QED BY <1>0, <2>2, <2>3
<1>7. ASSUME NEW k \in p .. Len(s), A!HasSubs(s, k) PROVE A!HasSubs(g, k + 1)
  <2>1. k < Len(s) /\ s[k + 1].type = "Sub"
    BY <1>7 DEF A!HasSubs
  <2>2. (k + 1) + 1 \in p + 1 .. Len(g) /\ ((k + 1) + 1) - 1 = k + 1 /\ k + 1 < Len(g)
    BY <1>0, <2>1
  <2> QED BY <1>2, <2>1, <2>2 DEF A!HasSubs
<1> QED BY <1>0, <1>3, <1>4, <1>5, <1>6, <1>7 DEF AmArray

--------------------------------------------------------------------------------
(***************************************************************************)
(* AmiMenus: where an item is put in, and the number it gets.              *)
(***************************************************************************)
AmNext(ordinal) ==
    IF A!FindMenu(ordinal + 1) # 0 THEN A!FindMenu(ordinal + 1) ELSE Len(newMenus)

LEMMA AmFindMenu ==
    ASSUME newMenus \in Seq(A!Entries), NEW ordinal \in Nat
    PROVE  LET m == A!FindMenu(ordinal)
           IN /\ m # 0 => /\ m \in 1 .. Len(newMenus) /\ newMenus[m].type = "Title"
                          /\ A!Count(newMenus, "Title", 1, m) = ordinal + 1
              /\ m = 0 => \A k \in 1 .. Len(newMenus) :
                             newMenus[k].type = "Title" => A!Count(newMenus, "Title", 1, k) # ordinal + 1
<1> DEFINE pos == {k \in DOMAIN newMenus : newMenus[k].type = "Title"
                                           /\ A!Count(newMenus, "Title", 1, k) = ordinal + 1}
<1>1. A!FindMenu(ordinal) = IF pos = {} THEN 0 ELSE CHOOSE k \in pos : TRUE
  BY DEF A!FindMenu
<1>2. DOMAIN newMenus = 1 .. Len(newMenus)
  OBVIOUS
<1>3. pos # {} => (CHOOSE k \in pos : TRUE) \in pos
  OBVIOUS
<1>4. 0 \notin pos
  BY <1>2
<1>5. A!FindMenu(ordinal) # 0 => A!FindMenu(ordinal) \in pos
  BY <1>1, <1>3
<1>6. A!FindMenu(ordinal) = 0 => pos = {}
  BY <1>1, <1>3, <1>4
<1> QED BY <1>2, <1>5, <1>6

LEMMA AmNextMenu ==
    ASSUME newMenus \in Seq(A!Entries), A!Paired, NEW ordinal \in Nat, A!FindMenu(ordinal) # 0
    PROVE  LET m == A!FindMenu(ordinal)
               next == AmNext(ordinal)
           IN /\ m \in 1 .. Len(newMenus) - 1 /\ newMenus[m].type = "Title"
              /\ A!Count(newMenus, "Title", 1, m) = ordinal + 1
              /\ next \in m + 1 .. Len(newMenus)
              /\ newMenus[next].type = "Title" \/ next = Len(newMenus)
              /\ \A j \in m + 1 .. next - 1 : newMenus[j].type # "Title"
<1> DEFINE m == A!FindMenu(ordinal)
           n == newMenus
           q == A!FindMenu(ordinal + 1)
           N == Len(newMenus)
<1>0. N \in Nat /\ n[N].type = "End" /\ ordinal + 1 \in Nat
  BY DEF A!Paired
<1>1. m \in 1 .. N /\ n[m].type = "Title" /\ A!Count(n, "Title", 1, m) = ordinal + 1
  BY AmFindMenu
<1>2. /\ q # 0 => /\ q \in 1 .. N /\ n[q].type = "Title"
                  /\ A!Count(n, "Title", 1, q) = (ordinal + 1) + 1
      /\ q = 0 => \A k \in 1 .. N : n[k].type = "Title" => A!Count(n, "Title", 1, k) # (ordinal + 1) + 1
  BY <1>0, AmFindMenu
<1>3. AmNext(ordinal) = IF q # 0 THEN q ELSE N
  BY DEF AmNext
<1> HIDE DEF m, n, q, N
<1>4. m # N /\ m \in 1 .. N - 1
  BY <1>0, <1>1
<1>5. CASE q # 0
  <2>1. m < q
    <3> SUFFICES ASSUME q <= m PROVE FALSE
      BY <1>1, <1>2, <1>5
    <3>1. A!Count(n, "Title", 1, m) = A!Count(n, "Title", 1, q) + A!Count(n, "Title", q + 1, m)
      <4>1. 1 \in Int /\ m \in Int /\ q \in Int /\ 1 <= q + 1 /\ q <= m
        BY <1>1, <1>2, <1>5
      <4> QED BY <4>1, AmCountSum
    <3>2. A!Count(n, "Title", q + 1, m) \in Nat
      BY <1>1, <1>2, <1>5, AmCount
    <3> QED BY <1>1, <1>2, <1>5, <3>1, <3>2
  <2>2. A!Count(n, "Title", m + 1, q - 1) = 0
    <3>1. A!Count(n, "Title", 1, q) = A!Count(n, "Title", 1, m) + A!Count(n, "Title", m + 1, q)
      <4>1. 1 \in Int /\ m \in Int /\ q \in Int /\ 1 <= m + 1 /\ m <= q
        BY <1>1, <1>2, <1>5, <2>1
      <4> QED BY <4>1, AmCountSum
    <3>2. A!Count(n, "Title", m + 1, q) = A!Count(n, "Title", m + 1, q - 1) + A!Count(n, "Title", q, q)
      <4>1. m + 1 \in Int /\ q - 1 \in Int /\ q \in Int /\ m + 1 <= (q - 1) + 1 /\ q - 1 <= q
            /\ (q - 1) + 1 = q
        BY <1>1, <1>2, <1>5, <2>1
      <4> QED BY <4>1, AmCountSum
    <3>3. A!Count(n, "Title", q, q) = 1
      BY <1>2, <1>5, AmCountOne
    <3>4. A!Count(n, "Title", m + 1, q - 1) \in Nat
      BY <1>1, <1>2, <1>5, AmCount
    <3> QED BY <1>0, <1>1, <1>2, <1>5, <3>1, <3>2, <3>3, <3>4
  <2>3. \A j \in m + 1 .. q - 1 : n[j].type # "Title"
    <3>1. m + 1 \in Int /\ q - 1 \in Int
      BY <1>1, <1>2, <1>5
    <3> QED BY <2>2, <3>1, AmCountNone
  <2>4. q \in m + 1 .. N
    BY <1>1, <1>2, <1>5, <2>1
  <2> QED BY <1>1, <1>2, <1>3, <1>4, <1>5, <2>3, <2>4 DEF m, n, q, N
<1>6. CASE q = 0
  <2>1. ASSUME NEW j \in m + 1 .. N - 1, n[j].type = "Title" PROVE FALSE
    <3> DEFINE T == {k \in m + 1 .. N - 1 : n[k].type = "Title"}
    <3>1. T \subseteq Nat /\ T # {}
      BY <1>1, <2>1
    <3>2. PICK t \in T : \A k \in T : t <= k
      <4> HIDE DEF T
      <4> QED BY <3>1, MeLeast
    <3>3. t \in m + 1 .. N - 1 /\ n[t].type = "Title" /\ \A k \in m + 1 .. t - 1 : n[k].type # "Title"
      <4>1. t \in m + 1 .. N - 1 /\ n[t].type = "Title"
        BY <3>2
      <4>2. ASSUME NEW k \in m + 1 .. t - 1, n[k].type = "Title" PROVE FALSE
        <5>1. k \in T /\ k < t
          BY <1>0, <1>1, <4>1, <4>2
        <5> QED BY <3>2, <4>1, <4>2, <5>1
      <4> QED BY <4>1, <4>2
    <3> HIDE DEF T
    <3>4. A!Count(n, "Title", 1, t) = A!Count(n, "Title", 1, m) + A!Count(n, "Title", m + 1, t)
      <4>1. 1 \in Int /\ m \in Int /\ t \in Int /\ 1 <= m + 1 /\ m <= t
        BY <1>1, <3>3
      <4> QED BY <4>1, AmCountSum
    <3>5. A!Count(n, "Title", m + 1, t) = A!Count(n, "Title", m + 1, t - 1) + A!Count(n, "Title", t, t)
      <4>1. m + 1 \in Int /\ t - 1 \in Int /\ t \in Int /\ m + 1 <= (t - 1) + 1 /\ t - 1 <= t
            /\ (t - 1) + 1 = t
        BY <1>1, <3>3
      <4> QED BY <4>1, AmCountSum
    <3>6. A!Count(n, "Title", t, t) = 1
      BY <3>3, AmCountOne
    <3>7. A!Count(n, "Title", m + 1, t - 1) = 0
      <4>1. m + 1 \in Int /\ t - 1 \in Int
        BY <1>1, <3>3
      <4> QED BY <3>3, <4>1, AmCountNone
    <3>8. A!Count(n, "Title", 1, t) = (ordinal + 1) + 1
      BY <1>0, <1>1, <3>4, <3>5, <3>6, <3>7
    <3>9. t \in 1 .. N
      BY <1>0, <1>1, <3>3
    <3> QED BY <1>2, <1>6, <3>3, <3>8, <3>9
  <2>2. N \in m + 1 .. N
    BY <1>0, <1>4
  <2> QED BY <1>1, <1>3, <1>4, <1>6, <2>1, <2>2 DEF m, n, q, N
<1> QED BY <1>5, <1>6

LEMMA AmCountBoth ==
    ASSUME NEW s, NEW a \in Int, NEW b \in Int, a <= b + 1,
           \A k \in a .. b : s[k].type \in {"Item", "Sub"}
    PROVE  A!Count(s, "Item", a, b) + A!Count(s, "Sub", a, b) = b - a + 1
<1> DEFINE Is == AmHave(s, "Item", a, b)
           Ss == AmHave(s, "Sub", a, b)
<1>1. Is = (a .. b) \ Ss /\ (a .. b) \cap Ss = Ss
  BY DEF AmHave
<1>2. IsFiniteSet(a .. b) /\ Cardinality(a .. b) = IF a > b THEN 0 ELSE b - a + 1
  BY FS_Interval
<1>3. A!Count(s, "Item", a, b) = Cardinality(Is) /\ A!Count(s, "Sub", a, b) = Cardinality(Ss)
      /\ Cardinality(Ss) \in Nat
  BY AmCount
<1> HIDE DEF Is, Ss
<1>4. Cardinality((a .. b) \ Ss) = Cardinality(a .. b) - Cardinality((a .. b) \cap Ss)
  BY <1>2, FS_Difference
<1>5. Cardinality(Is) = Cardinality(a .. b) - Cardinality(Ss)
  BY <1>1, <1>4
<1> QED BY <1>2, <1>3, <1>5

\* Entries that are no subitems have different ordinals.
AmOrdinal(s, menu, k) == k - menu - A!Count(s, "Sub", menu + 1, k)

LEMMA AmOrdinals ==
    ASSUME NEW s, NEW menu \in Nat, NEW a \in Nat, NEW b \in Nat, menu < a, a < b,
           s[b].type # "Sub"
    PROVE  AmOrdinal(s, menu, a) < AmOrdinal(s, menu, b)
<1>1. A!Count(s, "Sub", menu + 1, b) = A!Count(s, "Sub", menu + 1, a) + A!Count(s, "Sub", a + 1, b)
  <2>1. menu + 1 \in Int /\ a \in Int /\ b \in Int /\ menu + 1 <= a + 1 /\ a <= b
    OBVIOUS
  <2> QED BY <2>1, AmCountSum
<1>2. A!Count(s, "Sub", a + 1, b) = A!Count(s, "Sub", a + 1, b - 1) + A!Count(s, "Sub", b, b)
  <2>1. a + 1 \in Int /\ b - 1 \in Int /\ b \in Int /\ a + 1 <= (b - 1) + 1 /\ b - 1 <= b
        /\ (b - 1) + 1 = b
    OBVIOUS
  <2> QED BY <2>1, AmCountSum
<1>3. A!Count(s, "Sub", b, b) = 0
  BY AmCountOne
<1>4. A!Count(s, "Sub", a + 1, b - 1) <= (b - 1) - (a + 1) + 1
  <2>1. a + 1 \in Int /\ b - 1 \in Int /\ a + 1 <= (b - 1) + 1
    OBVIOUS
  <2> QED BY <2>1, AmCount
<1>5. A!Count(s, "Sub", menu + 1, a) \in Nat /\ A!Count(s, "Sub", a + 1, b - 1) \in Nat
  BY AmCount
<1> QED BY <1>1, <1>2, <1>3, <1>4, <1>5 DEF AmOrdinal

\* Where a subitem goes: behind those of the item with the ordinal.
LEMMA AmSubPlace ==
    ASSUME newMenus \in Seq(A!Entries), A!Paired, NEW ordinal \in Nat, A!FindMenu(ordinal) # 0,
           NEW sub \in A!SubOrdinals(ordinal)
    PROVE  /\ sub \in Nat
           /\ \E item \in Nat, pos \in Nat :
                LET m == A!FindMenu(ordinal)
                IN /\ A!Insertion(ordinal, sub) =
                        [at |-> pos, num |-> A!FULLMENUNUM(ordinal, sub, pos - item - 1)]
                   /\ m < item /\ item < pos /\ pos <= AmNext(ordinal)
                   /\ newMenus[item].type = "Item" /\ newMenus[pos].type # "Sub"
                   /\ \A j \in m + 1 .. item : newMenus[j].type \in {"Item", "Sub"}
                   /\ \A j \in item + 1 .. pos - 1 : newMenus[j].type = "Sub"
                   /\ A!Count(newMenus, "Item", m + 1, item) = sub + 1
<1> DEFINE m == A!FindMenu(ordinal)
           n == newMenus
           next == AmNext(ordinal)
           N == Len(newMenus)
           found(k) == n[k].type # "Sub" /\ k - m - A!Count(n, "Sub", m + 1, k) = sub + 1
           item == CHOOSE k \in m + 1 .. next : found(k)
           last(k) == /\ \A j \in item + 1 .. k - 1 : n[j].type = "Sub"
                      /\ k = next \/ n[k].type # "Sub"
           end == CHOOSE k \in item + 1 .. next : last(k)
<1>1. /\ m \in 1 .. N - 1 /\ n[m].type = "Title" /\ next \in m + 1 .. N
      /\ n[next].type = "Title" \/ next = N
      /\ \A j \in m + 1 .. next - 1 : n[j].type # "Title"
  BY AmNextMenu
<1>2. N \in Nat /\ n[N].type = "End"
  BY DEF A!Paired
<1>3. sub # -1 => A!Insertion(ordinal, sub) = [at |-> end, num |-> A!FULLMENUNUM(ordinal, sub, end - item - 1)]
  BY Zenon DEF A!Insertion, AmNext
<1>4. PICK j \in m + 1 .. N : /\ n[j].type = "Item" /\ sub = A!Count(n, "Item", m + 1, j) - 1
                              /\ \A i \in m + 1 .. j : n[i].type \in {"Item", "Sub"}
  BY DEF A!SubOrdinals
<1> HIDE DEF m, n, next, N
<1>5. j \in m + 1 .. next - 1
  <2> SUFFICES ASSUME j >= next PROVE FALSE
    BY <1>1, <1>4
  <2>1. next \in m + 1 .. j /\ n[next].type \in {"Item", "Sub"}
    BY <1>1, <1>4
  <2> QED BY <1>1, <1>2, <2>1
<1>6. A!Count(n, "Item", m + 1, j) + A!Count(n, "Sub", m + 1, j) = j - (m + 1) + 1
  <2>1. m + 1 \in Int /\ j \in Int /\ m + 1 <= j + 1
    BY <1>1, <1>4
  <2> QED BY <1>4, <2>1, AmCountBoth
<1>7. A!Count(n, "Item", m + 1, j) \in Nat /\ A!Count(n, "Sub", m + 1, j) \in Nat
  BY <1>1, <1>4, AmCount
<1>8. sub \in Nat
  <2>1. A!Count(n, "Item", m + 1, j) # 0
    <3>1. m + 1 \in Int /\ j \in Int /\ j \in m + 1 .. j
      BY <1>1, <1>4
    <3> QED BY <1>4, <3>1, AmCountNone
  <2> QED BY <1>4, <1>7, <2>1
<1>9. found(j) /\ j \in m + 1 .. next
  <2>1. j - m - A!Count(n, "Sub", m + 1, j) = sub + 1
    BY <1>1, <1>4, <1>6, <1>7
  <2> QED BY <1>1, <1>4, <1>5, <2>1
<1>10. item \in m + 1 .. next /\ found(item)
  <2> HIDE DEF found
  <2> QED BY <1>9
<1> HIDE DEF item
<1>11. item = j
  <2>1. AmOrdinal(n, m, item) = sub + 1 /\ AmOrdinal(n, m, j) = sub + 1
    BY <1>9, <1>10 DEF AmOrdinal
  <2>2. m \in Nat /\ item \in Nat /\ j \in Nat /\ m < item /\ m < j
    BY <1>1, <1>4, <1>10
  <2>3. n[item].type # "Sub" /\ n[j].type # "Sub"
    BY <1>9, <1>10
  <2>4. ~(item < j)
    <3> SUFFICES ASSUME item < j PROVE FALSE
      OBVIOUS
    <3>1. AmOrdinal(n, m, item) < AmOrdinal(n, m, j)
      BY <2>2, <2>3, AmOrdinals
    <3> QED BY <1>8, <2>1, <3>1
  <2>5. ~(j < item)
    <3> SUFFICES ASSUME j < item PROVE FALSE
      OBVIOUS
    <3>1. AmOrdinal(n, m, j) < AmOrdinal(n, m, item)
      BY <2>2, <2>3, AmOrdinals
    <3> QED BY <1>8, <2>1, <3>1
  <2> QED BY <2>2, <2>4, <2>5
<1>12. end \in item + 1 .. next /\ last(end)
  <2> DEFINE T == {k \in item + 1 .. next : k = next \/ n[k].type # "Sub"}
  <2>1. next \in T /\ T \subseteq Nat
    BY <1>1, <1>5, <1>11
  <2>2. PICK t \in T : \A k \in T : t <= k
    <3> HIDE DEF T
    <3> QED BY <2>1, MeLeast
  <2>3. t \in item + 1 .. next /\ (t = next \/ n[t].type # "Sub")
    BY <2>2
  <2>4. ASSUME NEW k \in item + 1 .. t - 1 PROVE n[k].type = "Sub"
    <3>1. k \in item + 1 .. next /\ k < t
      BY <1>1, <1>5, <1>11, <2>3, <2>4
    <3>2. k \notin T
      BY <1>1, <1>5, <1>11, <2>2, <2>3, <3>1
    <3> QED BY <3>1, <3>2
  <2>5. last(t)
    BY <2>3, <2>4
  <2> HIDE DEF last
  <2> QED BY <2>3, <2>5
<1> HIDE DEF end
<1>13. n[end].type # "Sub"
  BY <1>1, <1>2, <1>12
<1>14. end \in Nat /\ item \in Nat /\ m < item /\ item < end /\ end <= next
  BY <1>1, <1>5, <1>11, <1>12
<1>15. n[item].type = "Item" /\ A!Count(n, "Item", m + 1, item) = sub + 1
       /\ \A i \in m + 1 .. item : n[i].type \in {"Item", "Sub"}
  BY <1>4, <1>7, <1>11
<1>16. A!Insertion(ordinal, sub) = [at |-> end, num |-> A!FULLMENUNUM(ordinal, sub, end - item - 1)]
  BY <1>3, <1>8
<1>17. \A i \in item + 1 .. end - 1 : n[i].type = "Sub"
  BY <1>12
<1> QED BY <1>8, <1>13, <1>14, <1>15, <1>16, <1>17 DEF m, n, next

\* An item goes behind those of its menu, a subitem behind those of its item.
LEMMA AmPlace ==
    ASSUME newMenus \in Seq(A!Entries), A!Paired, NEW ordinal \in Nat, A!FindMenu(ordinal) # 0,
           NEW sub \in {-1} \cup A!SubOrdinals(ordinal),
           NEW x, x.type = IF sub = -1 THEN "Item" ELSE "Sub"
    PROVE  LET w == A!Insertion(ordinal, sub)
           IN /\ w.at \in 2 .. Len(newMenus) /\ w.num \in [menu : Int, item : Int, sub : Int]
              /\ AmBehind(newMenus, w.at, x)
<1> DEFINE m == A!FindMenu(ordinal)
           n == newMenus
           next == AmNext(ordinal)
           w == A!Insertion(ordinal, sub)
<1>1. /\ m \in 1 .. Len(n) - 1 /\ next \in m + 1 .. Len(n)
      /\ n[next].type = "Title" \/ next = Len(n)
  BY AmNextMenu
<1>2. n[Len(n)].type = "End" /\ Len(n) \in Nat
  BY DEF A!Paired
<1>3. CASE sub = -1
  <2>1. w = [at |-> next, num |-> A!FULLMENUNUM(ordinal, next - m - 1, 0)]
    BY <1>3, Zenon DEF A!Insertion, AmNext
  <2> HIDE DEF w, next, m
  <2>2. w.at = next /\ w.num = [menu |-> ordinal, item |-> next - m - 1, sub |-> 0]
    BY <2>1 DEF A!FULLMENUNUM
  <2>3. next - m - 1 \in Int /\ next \in 2 .. Len(n)
    BY <1>1, <1>2
  <2>4. n[next].type \in {"Title", "End"}
    BY <1>1, <1>2
  <2>5. w.num \in [menu : Int, item : Int, sub : Int]
    BY <2>2, <2>3
  <2> QED BY <1>3, <2>2, <2>3, <2>4, <2>5 DEF AmBehind, w
<1>4. CASE sub \in A!SubOrdinals(ordinal)
  <2>1. sub \in Nat
    BY <1>4, AmSubPlace
  <2>0. \E item \in Nat, pos \in Nat :
                LET mm == A!FindMenu(ordinal)
                IN /\ A!Insertion(ordinal, sub) =
                        [at |-> pos, num |-> A!FULLMENUNUM(ordinal, sub, pos - item - 1)]
                   /\ mm < item /\ item < pos /\ pos <= AmNext(ordinal)
                   /\ newMenus[item].type = "Item" /\ newMenus[pos].type # "Sub"
                   /\ \A j \in mm + 1 .. item : newMenus[j].type \in {"Item", "Sub"}
                   /\ \A j \in item + 1 .. pos - 1 : newMenus[j].type = "Sub"
                   /\ A!Count(newMenus, "Item", mm + 1, item) = sub + 1
    BY <1>4, AmSubPlace
  <2>2. PICK item \in Nat, pos \in Nat :
                /\ w = [at |-> pos, num |-> A!FULLMENUNUM(ordinal, sub, pos - item - 1)]
                /\ m < item /\ item < pos /\ pos <= next
                /\ n[item].type = "Item" /\ n[pos].type # "Sub"
                /\ \A j \in item + 1 .. pos - 1 : n[j].type = "Sub"
    BY <2>0, Zenon
  <2> HIDE DEF w, next, m
  <2>3. w.at = pos /\ w.num = [menu |-> ordinal, item |-> sub, sub |-> pos - item - 1]
    BY <2>2 DEF A!FULLMENUNUM
  <2>4. pos - item - 1 \in Int /\ pos \in 2 .. Len(n)
    <3>1. m \in Nat /\ m >= 1 /\ next \in Nat /\ next <= Len(n)
      BY <1>1, <1>2
    <3>2. m < item /\ item < pos /\ pos <= next /\ item \in Nat /\ pos \in Nat
      BY <2>2
    <3> HIDE DEF n
    <3> QED BY <1>2, <3>1, <3>2
  <2>5. n[pos - 1].type \in {"Item", "Sub"}
    <3>0. item < pos /\ item \in Nat /\ pos \in Nat
      BY <2>2
    <3>1. pos - 1 = item \/ pos - 1 \in item + 1 .. pos - 1
      BY <3>0
    <3> QED BY <2>2, <3>1
  <2>6. x.type = "Sub"
    BY <2>1
  <2>7. w.num \in [menu : Int, item : Int, sub : Int]
    BY <2>1, <2>3, <2>4
  <2> QED BY <2>2, <2>3, <2>4, <2>5, <2>6, <2>7 DEF AmBehind, w
<1> QED BY <1>3, <1>4

\* It gets the number it has on the screen, unless there is a submenu before it.
LEMMA AmNewNumber ==
    ASSUME A!Paired, AmArray(newMenus), NEW ordinal \in Nat, A!FindMenu(ordinal) # 0,
           NEW sub \in {-1} \cup A!SubOrdinals(ordinal),
           NEW x, x.type = IF sub = -1 THEN "Item" ELSE "Sub",
           NEW p, p = A!Insertion(ordinal, sub).at, NEW g, AmPutIn(newMenus, g, p, x),
           x.type = "Sub" \/ AmSubsBefore(g, p) = 0
    PROVE  A!NumberOf(g, p) = A!Insertion(ordinal, sub).num
<1> DEFINE m == A!FindMenu(ordinal)
           n == newMenus
           next == AmNext(ordinal)
           w == A!Insertion(ordinal, sub)
<1>0. n \in Seq(A!Entries) /\ \A k \in DOMAIN n : n[k].type = "End" => k = Len(n)
  BY DEF AmArray
<1>1. /\ m \in 1 .. Len(n) - 1 /\ n[m].type = "Title" /\ next \in m + 1 .. Len(n)
      /\ A!Count(n, "Title", 1, m) = ordinal + 1
      /\ \A j \in m + 1 .. next - 1 : n[j].type # "Title"
  BY <1>0, AmNextMenu
<1>2. Len(n) \in Nat /\ p \in 2 .. Len(n) /\ g[p] = x /\ \A k \in 1 .. p - 1 : g[k] = n[k]
  BY DEF AmPutIn
<1>3. p = next \/ x.type = "Sub"
  <2>1. sub = -1 => w = [at |-> next, num |-> A!FULLMENUNUM(ordinal, next - m - 1, 0)]
    BY Zenon DEF A!Insertion, AmNext
  <2> HIDE DEF next, m
  <2> QED BY <2>1
<1>4. m < p /\ p <= next
  <2>1. CASE sub = -1
    <3>1. w = [at |-> next, num |-> A!FULLMENUNUM(ordinal, next - m - 1, 0)]
      BY <2>1, Zenon DEF A!Insertion, AmNext
    <3> HIDE DEF next, m
    <3> QED BY <1>1, <3>1
  <2>2. CASE sub \in A!SubOrdinals(ordinal)
    <3>1. PICK item \in Nat, pos \in Nat :
                /\ w = [at |-> pos, num |-> A!FULLMENUNUM(ordinal, sub, pos - item - 1)]
                /\ m < item /\ item < pos /\ pos <= next
      BY <1>0, <2>2, AmSubPlace
    <3> HIDE DEF next, m, w
    <3>2. w.at = pos
      BY <3>1
    <3> QED BY <1>1, <3>1, <3>2 DEF w
  <2> QED BY <2>1, <2>2
<1>5. A!LastOf(g, "Title", p) = m
  <2> HIDE DEF m, next, w
  <2>1. m \in 0 .. p /\ p \in Nat /\ m \in 1 .. p - 1
    BY <1>1, <1>2, <1>4
  <2>2. m # 0 => g[m].type = "Title"
    BY <1>1, <1>2, <2>1
  <2>3. ASSUME NEW j \in m + 1 .. p PROVE g[j].type # "Title"
    <3>1. CASE j = p
      BY <1>2, <3>1
    <3>2. CASE j < p
      <4>1. j \in 1 .. p - 1 /\ j \in m + 1 .. next - 1
        BY <1>1, <1>2, <1>4, <3>2
      <4> QED BY <1>1, <1>2, <4>1
    <3> QED BY <1>1, <1>2, <3>1, <3>2
  <2> QED BY <2>1, <2>2, <2>3, AmLastIs
<1>6. A!Count(g, "Title", 1, p) = ordinal + 1
  <2> HIDE DEF m, next, w
  <2>1. A!Count(g, "Title", 1, p) = A!Count(g, "Title", 1, m) + A!Count(g, "Title", m + 1, p)
    <3>1. 1 \in Int /\ m \in Int /\ p \in Int /\ 1 <= m + 1 /\ m <= p
      BY <1>1, <1>2, <1>4
    <3> QED BY <3>1, AmCountSum
  <2>2. A!Count(g, "Title", 1, m) = A!Count(n, "Title", 1, m)
    <3>1. \A j \in 1 .. m : g[j].type = n[j].type
      BY <1>1, <1>2, <1>4
    <3>2. 1 \in Int /\ m \in Int
      BY <1>1
    <3> QED BY <3>1, <3>2, AmCountSame
  <2>3. A!Count(g, "Title", m + 1, p) = 0
    <3>1. m + 1 \in Int /\ p \in Int /\ p \in Nat
      BY <1>1, <1>2
    <3>2. \A j \in m + 1 .. p : g[j].type # "Title"
      BY <1>5, <3>1, AmLast
    <3> QED BY <3>1, <3>2, AmCountNone
  <2> QED BY <1>1, <2>1, <2>2, <2>3
<1>7. CASE sub = -1
  <2>1. w = [at |-> next, num |-> A!FULLMENUNUM(ordinal, next - m - 1, 0)]
    BY <1>7, Zenon DEF A!Insertion, AmNext
  <2>2. x.type = "Item"
    BY <1>7
  <2>3. A!Count(g, "Sub", m + 1, p) = 0
    BY <1>5, <2>2 DEF AmSubsBefore
  <2> HIDE DEF m, next, w
  <2>4. p = next /\ w.num = A!FULLMENUNUM(ordinal, p - m - 1, 0)
    BY <2>1 DEF w
  <2>5. ASSUME NEW j \in m + 1 .. p PROVE g[j].type \in {"Item", "Sub"}
    <3>1. CASE j = p
      BY <1>2, <2>2, <3>1
    <3>2. CASE j < p
      <4>1. j \in 1 .. p - 1 /\ j \in m + 1 .. next - 1 /\ j \in DOMAIN n /\ j # Len(n)
        BY <1>0, <1>1, <1>2, <1>4, <3>2
      <4>2. n[j].type # "Title" /\ n[j].type # "End" /\ g[j] = n[j]
        BY <1>0, <1>1, <1>2, <4>1
      <4>3. n[j] \in A!Entries
        BY <1>0, <4>1
      <4> QED BY <4>2, <4>3 DEF A!Entries
    <3> QED BY <1>1, <1>2, <3>1, <3>2
  <2>6. A!Count(g, "Item", m + 1, p) + A!Count(g, "Sub", m + 1, p) = p - (m + 1) + 1
    <3>1. m + 1 \in Int /\ p \in Int /\ m + 1 <= p + 1
      BY <1>1, <1>2, <1>4
    <3> QED BY <2>5, <3>1, AmCountBoth
  <2>7. A!Count(g, "Item", m + 1, p) = p - m
    <3>1. A!Count(g, "Item", m + 1, p) \in Nat
      BY <1>1, <1>2, AmCount
    <3> QED BY <1>1, <1>2, <2>3, <2>6, <3>1
  <2>8. A!NumberOf(g, p) = A!FULLMENUNUM((ordinal + 1) - 1, (p - m) - 1, 0)
    BY <1>2, <1>5, <1>6, <2>2, <2>7 DEF A!NumberOf
  <2>9. (ordinal + 1) - 1 = ordinal /\ (p - m) - 1 = p - m - 1
    BY <1>1, <1>2
  <2> QED BY <2>4, <2>8, <2>9 DEF w
<1>8. CASE sub \in A!SubOrdinals(ordinal)
  <2>1. sub \in Nat
    BY <1>0, <1>8, AmSubPlace
  <2>2. PICK item \in Nat, pos \in Nat :
                /\ w = [at |-> pos, num |-> A!FULLMENUNUM(ordinal, sub, pos - item - 1)]
                /\ m < item /\ item < pos /\ n[item].type = "Item"
                /\ \A j \in item + 1 .. pos - 1 : n[j].type = "Sub"
                /\ A!Count(n, "Item", m + 1, item) = sub + 1
    BY <1>0, <1>8, AmSubPlace
  <2>3. x.type = "Sub"
    BY <2>1
  <2> HIDE DEF m, next, w
  <2>4. p = pos /\ w.num = A!FULLMENUNUM(ordinal, sub, p - item - 1)
    BY <2>2 DEF w
  <2>5. ASSUME NEW j \in item + 1 .. p PROVE g[j].type # "Item"
    <3>1. CASE j = p
      BY <1>2, <2>3, <3>1
    <3>2. CASE j < p
      <4>1. j \in 1 .. p - 1 /\ j \in item + 1 .. pos - 1
        BY <1>2, <2>2, <2>4, <3>2
      <4> QED BY <1>2, <2>2, <4>1
    <3> QED BY <1>2, <2>2, <3>1, <3>2
  <2>6. item \in 1 .. p - 1 /\ g[item].type = "Item"
    <3>1. item \in 1 .. p - 1
      BY <1>1, <1>2, <2>2, <2>4
    <3> QED BY <1>2, <2>2, <3>1
  <2>7. A!LastOf(g, "Item", p) = item
    <3>1. p \in Nat /\ item \in 0 .. p
      BY <1>2, <2>6
    <3> QED BY <2>5, <2>6, <3>1, AmLastIs
  <2>8. A!Count(g, "Item", m + 1, p) = A!Count(g, "Item", m + 1, item) + A!Count(g, "Item", item + 1, p)
    <3>1. m + 1 \in Int /\ item \in Int /\ p \in Int /\ m + 1 <= item + 1 /\ item <= p
      <4>1. m \in Int /\ m < item /\ p \in Int
        BY <1>1, <1>2, <2>2
      <4> QED BY <2>6, <4>1
    <3> QED BY <3>1, AmCountSum
  <2>9. A!Count(g, "Item", m + 1, item) = A!Count(n, "Item", m + 1, item)
    <3>1. \A j \in m + 1 .. item : g[j].type = n[j].type
      BY <1>1, <1>2, <2>6
    <3>2. m + 1 \in Int /\ item \in Int
      BY <1>1
    <3> QED BY <3>1, <3>2, AmCountSame
  <2>10. A!Count(g, "Item", item + 1, p) = 0
    <3>1. item + 1 \in Int /\ p \in Int
      BY <1>2
    <3> QED BY <2>5, <3>1, AmCountNone
  <2>11. A!Count(g, "Item", m + 1, p) = sub + 1
    BY <2>1, <2>2, <2>8, <2>9, <2>10
  <2>12. A!NumberOf(g, p) = A!FULLMENUNUM((ordinal + 1) - 1, (sub + 1) - 1, p - item - 1)
    BY <1>2, <1>5, <1>6, <2>3, <2>7, <2>11 DEF A!NumberOf
  <2>13. (ordinal + 1) - 1 = ordinal /\ (sub + 1) - 1 = sub
    BY <2>1
  <2> QED BY <2>4, <2>12, <2>13 DEF w
<1> QED BY <1>7, <1>8

--------------------------------------------------------------------------------
(***************************************************************************)
(* AmiMenus: the parts of the invariant, for any arrays.                   *)
(***************************************************************************)
AmPairs(n, mp, add) ==
    /\ Len(n) = Len(mp) /\ n # <<>>
    /\ \A k \in DOMAIN n : mp[k].id = n[k].id
    /\ \A id \in add : \E k \in DOMAIN n : n[k].id = id
    /\ \A k \in DOMAIN n : n[k].id \in add \cup {0}
    /\ \A k, l \in DOMAIN n : n[k].id = n[l].id /\ n[k].id # 0 => k = l
    /\ n[Len(n)].type = "End"
    /\ \A k \in DOMAIN n : n[k].type = "End" => n[k].id = 0

AmWhole(n) ==
    \A k \in DOMAIN n : /\ n[k].type = "End" => k = Len(n)
                        /\ n[k].type \in {"Item", "Sub"} => n[k].id # 0

AmRows(n) ==
    /\ n[1].type = "Title"
    /\ \A k \in DOMAIN n : n[k].type = "Sub" => k > 1 /\ n[k - 1].type \in {"Item", "Sub"}

AmAddressed(n, mp, k) ==
    /\ n[k].type \in {"Item", "Sub"}
    /\ n[k].type = "Sub" \/ AmSubsBefore(n, k) = 0
    /\ ~A!HasSubs(n, k)
    /\ mp[k].num # A!NotFound
    /\ \A j \in DOMAIN mp \ {k} : mp[j].num # mp[k].num

AmSame(e, i, m) == e.checked = i.checked /\ (m \/ e = i)

AmKeeps(n, mp, v, ask, m) ==
    \A k \in DOMAIN n : AmAddressed(n, mp, k) =>
        /\ mp[k].num = A!NumberOf(n, k)
        /\ AmSame(n[k], v[k], m)
        /\ n[k].checked = ask[n[k].id].checked
        /\ n[k].disabled = ask[n[k].id].disabled

LEMMA AmMeans ==
    /\ A!Paired <=> AmPairs(newMenus, mappings, added)
    /\ A!Regular <=> /\ ~A!HasSubMenus => AmWhole(newMenus)
                     /\ ~A!HasSubMenus /\ ~displaced => AmRows(newMenus)
    /\ A!Kept <=> (~A!HasSubMenus /\ ~displaced => AmKeeps(newMenus, mappings, native, itemsAsked, missed))
<1>1. A!Paired <=> AmPairs(newMenus, mappings, added)
  BY DEF A!Paired, AmPairs
<1>2. A!Regular <=> /\ ~A!HasSubMenus => AmWhole(newMenus)
                    /\ ~A!HasSubMenus /\ ~displaced => AmRows(newMenus)
  BY DEF A!Regular, AmWhole, AmRows
<1>3. \A k : A!Addressed(k) <=> ~A!HasSubMenus /\ ~displaced /\ AmAddressed(newMenus, mappings, k)
  BY DEF A!Addressed, A!Numbered, AmAddressed, AmSubsBefore
<1>4. A!Kept <=> (~A!HasSubMenus /\ ~displaced => AmKeeps(newMenus, mappings, native, itemsAsked, missed))
  BY <1>3 DEF A!Kept, A!Agree, AmKeeps, AmSame
<1> QED BY <1>1, <1>2, <1>4

LEMMA AmMeansArray ==
    ASSUME NEW n \in Seq(A!Entries), NEW mp, NEW add, AmPairs(n, mp, add), AmWhole(n), AmRows(n)
    PROVE  AmArray(n)
BY DEF AmPairs, AmWhole, AmRows, AmArray

LEMMA AmCreateWhole ==
    ASSUME NEW n \in Seq(A!Entries), n # <<>>, n[Len(n)].type = "End",
           \A k \in DOMAIN n : n[k].type = "End" => k = Len(n)
    PROVE  LET c == A!CreateMenus(n)
           IN Len(c) = Len(n) - 1 /\ \A k \in 1 .. Len(n) - 1 : c[k] = n[k]
<1> DEFINE c == A!CreateMenus(n)
<1>0. n \in Seq(A!Entries) /\ n # <<>> /\ n[Len(n)].type = "End"
      /\ \A k \in DOMAIN n : n[k].type = "End" => k = Len(n)
  OBVIOUS
<1>1. /\ c \in Seq(A!Entries) /\ Len(c) <= Len(n)
      /\ \A k \in 1 .. Len(c) : c[k] = n[k] /\ n[k].type # "End"
      /\ Len(c) < Len(n) => n[Len(c) + 1].type = "End"
  BY <1>0, AmCreate
<1> HIDE DEF c
<1>2. Len(c) \in Nat /\ Len(n) \in Nat /\ Len(n) > 0
  BY <1>0, <1>1
<1>3. Len(c) # Len(n)
  <2> SUFFICES ASSUME Len(c) = Len(n) PROVE FALSE
    OBVIOUS
  <2>1. Len(n) \in 1 .. Len(c)
    BY <1>2
  <2> QED BY <1>0, <1>1, <2>1
<1>4. Len(c) + 1 = Len(n)
  <2>1. Len(c) + 1 \in DOMAIN n
    BY <1>0, <1>1, <1>2, <1>3
  <2> QED BY <1>0, <1>1, <1>2, <1>3, <2>1
<1>5. Len(c) = Len(n) - 1
  BY <1>2, <1>4
<1> QED BY <1>1, <1>5 DEF c

LEMMA AmCreateArray ==
    ASSUME NEW n, AmArray(n)
    PROVE  LET c == A!CreateMenus(n)
           IN Len(c) = Len(n) - 1 /\ \A k \in 1 .. Len(n) - 1 : c[k] = n[k]
<1>1. /\ n \in Seq(A!Entries) /\ n # <<>> /\ n[Len(n)].type = "End"
      /\ \A k \in DOMAIN n : n[k].type = "End" => k = Len(n)
  BY DEF AmArray
<1> QED BY <1>1, AmCreateWhole

\* What was addressed after an item has been put in, was so before.
LEMMA AmWasAddressed ==
    ASSUME NEW s, NEW g, NEW p, NEW x, AmPutIn(s, g, p, x), AmArray(s), AmBehind(s, p, x),
           NEW mp, NEW h, Len(mp) = Len(s), Len(h) = Len(g), mp \in Seq(A!Mappings), h \in Seq(A!Mappings),
           \A k \in 1 .. p - 1 : h[k] = mp[k], \A k \in p .. Len(mp) : h[k + 1] = mp[k]
    PROVE  /\ \A k \in 1 .. p - 1 : AmAddressed(g, h, k) =>
                 AmAddressed(s, mp, k) /\ A!NumberOf(g, k) = A!NumberOf(s, k)
           /\ \A k \in p .. Len(s) : AmAddressed(g, h, k + 1) =>
                 AmAddressed(s, mp, k) /\ A!NumberOf(g, k + 1) = A!NumberOf(s, k)
<1>0. /\ p \in Nat /\ p > 1 /\ p <= Len(s) /\ Len(s) \in Nat /\ Len(g) = Len(s) + 1
      /\ DOMAIN mp = 1 .. Len(s) /\ DOMAIN h = 1 .. Len(s) + 1
  BY DEF AmPutIn
<1>1. /\ \A k \in 1 .. p - 1 : g[k] = s[k]
      /\ \A k \in p .. Len(s) : g[k + 1] = s[k]
  BY DEF AmPutIn
<1>2. /\ \A k \in 1 .. p - 1 : A!HasSubs(s, k) => A!HasSubs(g, k)
      /\ \A k \in p .. Len(s) : A!HasSubs(s, k) => A!HasSubs(g, k + 1)
  BY AmStaysArray
<1>3. ASSUME NEW k \in 1 .. p - 1, AmAddressed(g, h, k)
      PROVE  AmAddressed(s, mp, k) /\ A!NumberOf(g, k) = A!NumberOf(s, k)
  <2>0. k \in Nat /\ k < p /\ k > 0
    BY <1>0
  <2>1. \A j \in 1 .. k : g[j].type = s[j].type
    BY <1>0, <1>1, <2>0
  <2>2. A!NumberOf(g, k) = A!NumberOf(s, k)
    <3>1. k \in Nat \ {0}
      BY <2>0
    <3> QED BY <2>1, <3>1, AmNumberSame
  <2>3. AmSubsBefore(g, k) = AmSubsBefore(s, k)
    <3> DEFINE T == A!LastOf(s, "Title", k)
    <3>1. A!LastOf(g, "Title", k) = T
      BY <2>0, <2>1, AmLastSame
    <3>2. T \in 0 .. k
      BY <2>0, AmLast
    <3> HIDE DEF T
    <3>3. A!Count(g, "Sub", T + 1, k) = A!Count(s, "Sub", T + 1, k)
      <4>1. \A j \in T + 1 .. k : g[j].type = s[j].type
        BY <2>0, <2>1, <3>2
      <4>2. T + 1 \in Int /\ k \in Int
        BY <2>0, <3>2
      <4> QED BY <4>1, <4>2, AmCountSame
    <3> QED BY <3>1, <3>3 DEF AmSubsBefore, T
  <2>4. ASSUME NEW j \in DOMAIN mp \ {k} PROVE mp[j].num # mp[k].num
    <3>1. CASE j < p
      <4>1. j \in 1 .. p - 1 /\ j \in DOMAIN h \ {k}
        BY <1>0, <3>1
      <4> QED BY <1>3, <4>1 DEF AmAddressed
    <3>2. CASE j >= p
      <4>1. j \in p .. Len(mp) /\ j + 1 \in DOMAIN h \ {k}
        BY <1>0, <2>0, <3>2
      <4> QED BY <1>3, <4>1 DEF AmAddressed
    <3> QED BY <1>0, <3>1, <3>2
  <2>5. g[k] = s[k] /\ h[k] = mp[k]
    BY <1>1
  <2> QED BY <1>2, <1>3, <2>2, <2>3, <2>4, <2>5 DEF AmAddressed
<1>4. ASSUME NEW k \in p .. Len(s), AmAddressed(g, h, k + 1)
      PROVE  AmAddressed(s, mp, k) /\ A!NumberOf(g, k + 1) = A!NumberOf(s, k)
  <2>0. k \in Nat /\ k >= p /\ k <= Len(s)
    BY <1>0
  <2>1. g[k + 1] = s[k] /\ h[k + 1] = mp[k]
    BY <1>1
  <2>2. s[k].type \in {"Item", "Sub"}
    BY <1>4, <2>1 DEF AmAddressed
  <2>3. /\ A!NumberOf(g, k + 1) = A!NumberOf(s, k)
        /\ AmSubsBefore(g, k + 1) = 0 => AmSubsBefore(s, k) = 0
    BY <2>2, AmNumbersStay
  <2>4. ASSUME NEW j \in DOMAIN mp \ {k} PROVE mp[j].num # mp[k].num
    <3>1. CASE j < p
      <4>1. j \in 1 .. p - 1 /\ j \in DOMAIN h \ {k + 1}
        BY <1>0, <2>0, <3>1
      <4> QED BY <1>4, <2>1, <4>1 DEF AmAddressed
    <3>2. CASE j >= p
      <4>1. j \in p .. Len(mp) /\ j + 1 \in DOMAIN h \ {k + 1}
        BY <1>0, <2>0, <3>2
      <4> QED BY <1>4, <2>1, <4>1 DEF AmAddressed
    <3> QED BY <1>0, <3>1, <3>2
  <2> QED BY <1>2, <1>4, <2>1, <2>3, <2>4 DEF AmAddressed
<1> QED BY <1>3, <1>4

\* The arrays s and mp with x, and a mapping of the right number, at p.
AmBoth(s, g, p, x, mp, h) ==
    /\ AmPutIn(s, g, p, x) /\ AmArray(s) /\ AmBehind(s, p, x)
    /\ Len(mp) = Len(s) /\ Len(h) = Len(g) /\ mp \in Seq(A!Mappings) /\ h \in Seq(A!Mappings)
    /\ \A k \in 1 .. p - 1 : h[k] = mp[k]
    /\ \A k \in p .. Len(mp) : h[k + 1] = mp[k]
    /\ x.type = "Sub" \/ AmSubsBefore(g, p) = 0 => A!NumberOf(g, p) = h[p].num

\* next, which is told for x what x has and for the entries of s what ask is.
AmToldAlso(s, x, ask, next) ==
    /\ \A k \in DOMAIN s : next[s[k].id] = ask[s[k].id]
    /\ next[x.id].checked = x.checked /\ next[x.id].disabled = x.disabled

LEMMA AmKeepsGrown ==
    ASSUME NEW s, NEW g, NEW p, NEW x, NEW mp, NEW h, AmBoth(s, g, p, x, mp, h),
           NEW v, NEW ask, NEW m, AmKeeps(s, mp, v, ask, m),
           NEW next, AmToldAlso(s, x, ask, next)
    PROVE  AmKeeps(g, h, A!CreateMenus(g), next, FALSE)
<1>t. /\ \A k \in DOMAIN s : next[s[k].id] = ask[s[k].id]
      /\ next[x.id].checked = x.checked /\ next[x.id].disabled = x.disabled
  BY DEF AmToldAlso
<1>a. /\ AmPutIn(s, g, p, x) /\ AmArray(s) /\ AmBehind(s, p, x)
      /\ Len(mp) = Len(s) /\ Len(h) = Len(g) /\ mp \in Seq(A!Mappings) /\ h \in Seq(A!Mappings)
      /\ \A k \in 1 .. p - 1 : h[k] = mp[k]
      /\ \A k \in p .. Len(mp) : h[k + 1] = mp[k]
      /\ x.type = "Sub" \/ AmSubsBefore(g, p) = 0 => A!NumberOf(g, p) = h[p].num
  BY DEF AmBoth
<1>b. /\ \A k \in 1 .. p - 1 : AmAddressed(g, h, k) =>
             AmAddressed(s, mp, k) /\ A!NumberOf(g, k) = A!NumberOf(s, k)
      /\ \A k \in p .. Len(s) : AmAddressed(g, h, k + 1) =>
             AmAddressed(s, mp, k) /\ A!NumberOf(g, k + 1) = A!NumberOf(s, k)
  <2>1. AmPutIn(s, g, p, x)
    BY <1>a
  <2>2. AmArray(s)
    BY <1>a
  <2>3. AmBehind(s, p, x)
    BY <1>a
  <2>4. Len(mp) = Len(s)
    BY <1>a
  <2>5. Len(h) = Len(g)
    BY <1>a
  <2>6. mp \in Seq(A!Mappings)
    BY <1>a
  <2>7. h \in Seq(A!Mappings)
    BY <1>a
  <2>8. \A k \in 1 .. p - 1 : h[k] = mp[k]
    BY <1>a
  <2>9. \A k \in p .. Len(mp) : h[k + 1] = mp[k]
    BY <1>a
  <2> QED BY <2>1, <2>2, <2>3, <2>4, <2>5, <2>6, <2>7, <2>8, <2>9, AmWasAddressed
<1> DEFINE c == A!CreateMenus(g)
<1>0. /\ p \in Nat /\ p > 1 /\ p <= Len(s) /\ Len(s) \in Nat /\ Len(g) = Len(s) + 1
      /\ DOMAIN g = 1 .. Len(s) + 1 /\ g[p] = x /\ DOMAIN s = 1 .. Len(s)
  BY <1>a DEF AmPutIn
<1>1. /\ \A k \in 1 .. p - 1 : g[k] = s[k]
      /\ \A k \in p .. Len(s) : g[k + 1] = s[k]
  BY <1>a DEF AmPutIn
<1>2. \A k \in 1 .. Len(s) : c[k] = g[k]
  <2>1. AmArray(g)
    BY <1>a, AmStaysArray
  <2>2. \A k \in 1 .. Len(g) - 1 : c[k] = g[k]
    BY <1>a, <2>1, AmCreateArray
  <2>3. Len(g) - 1 = Len(s)
    BY <1>a, <1>0
  <2> QED BY <1>a, <2>2, <2>3
<1>3. g[Len(g)].type = "End"
  BY <1>a, AmStaysArray DEF AmArray
<1> HIDE DEF c
<1>4. ASSUME NEW k \in DOMAIN g, AmAddressed(g, h, k)
      PROVE  /\ h[k].num = A!NumberOf(g, k) /\ g[k] = c[k]
             /\ g[k].checked = next[g[k].id].checked /\ g[k].disabled = next[g[k].id].disabled
  <2>0. k \in Nat /\ k >= 1 /\ k <= Len(s)
    <3>1. k # Len(g)
      BY <1>a, <1>3, <1>4 DEF AmAddressed
    <3> QED BY <1>a, <1>0, <3>1
  <2>1. g[k] = c[k]
    BY <1>a, <1>2, <2>0
  <2>2. CASE k < p
    <3>1. k \in 1 .. p - 1 /\ k \in DOMAIN s
      BY <1>a, <1>0, <2>0, <2>2
    <3>2. AmAddressed(s, mp, k) /\ A!NumberOf(g, k) = A!NumberOf(s, k)
      BY <1>4, <1>b, <3>1
    <3>3. g[k] = s[k] /\ h[k] = mp[k]
      BY <1>a, <1>1, <3>1
    <3> QED BY <1>a, <1>t, <2>1, <3>1, <3>2, <3>3 DEF AmKeeps
  <2>3. CASE k = p
    <3>1. x.type = "Sub" \/ AmSubsBefore(g, p) = 0
      BY <1>a, <1>0, <1>4, <2>3 DEF AmAddressed
    <3> QED BY <1>a, <1>0, <1>t, <2>1, <2>3, <3>1
  <2>4. CASE k > p
    <3>1. k - 1 \in p .. Len(s) /\ k - 1 \in DOMAIN s /\ (k - 1) + 1 = k
      BY <1>a, <1>0, <2>0, <2>4
    <3>2. AmAddressed(s, mp, k - 1) /\ A!NumberOf(g, (k - 1) + 1) = A!NumberOf(s, k - 1)
      <4>1. AmAddressed(g, h, (k - 1) + 1)
        BY <1>a, <1>4, <3>1
      <4> QED BY <1>b, <3>1, <4>1
    <3>3. g[k] = s[k - 1] /\ h[k] = mp[k - 1]
      BY <1>a, <1>1, <3>1
    <3> QED BY <1>a, <1>t, <2>1, <3>1, <3>2, <3>3 DEF AmKeeps
  <2> QED BY <1>a, <1>0, <2>0, <2>2, <2>3, <2>4
<1> QED BY <1>a, <1>4 DEF AmKeeps, AmSame, c

\* s with x at p, whatever they are.
AmGrown(s, g, p, x) ==
    /\ Len(s) \in Nat /\ Len(g) = Len(s) + 1 /\ p \in 1 .. Len(s) /\ g[p] = x
    /\ DOMAIN s = 1 .. Len(s) /\ DOMAIN g = 1 .. Len(g)
    /\ \A k \in 1 .. p - 1 : g[k] = s[k]
    /\ \A k \in p .. Len(s) : g[k + 1] = s[k]

LEMMA AmOldOrNew ==
    ASSUME NEW s, NEW g, NEW p, NEW x, AmGrown(s, g, p, x), NEW k \in DOMAIN g
    PROVE  /\ k \in Nat
           /\ \/ k < p /\ k \in DOMAIN s /\ g[k] = s[k]
              \/ k = p /\ g[k] = x
              \/ k > p /\ k - 1 \in DOMAIN s /\ g[k] = s[k - 1] /\ k - 1 >= p
<1>1. k \in Nat /\ k >= 1 /\ k <= Len(s) + 1 /\ p \in Nat /\ p >= 1 /\ p <= Len(s) /\ Len(s) \in Nat
  BY DEF AmGrown
<1>2. CASE k < p
  <2>1. k \in 1 .. p - 1 /\ k \in 1 .. Len(s)
    BY <1>1, <1>2
  <2> QED BY <1>1, <1>2, <2>1 DEF AmGrown
<1>3. CASE k = p
  BY <1>1, <1>3 DEF AmGrown
<1>4. CASE k > p
  <2>1. k - 1 \in p .. Len(s) /\ k - 1 \in 1 .. Len(s) /\ (k - 1) + 1 = k /\ k - 1 >= p
    BY <1>1, <1>4
  <2>2. g[(k - 1) + 1] = s[k - 1]
    BY <2>1 DEF AmGrown
  <2> QED BY <1>1, <1>4, <2>1, <2>2 DEF AmGrown
<1> QED BY <1>1, <1>2, <1>3, <1>4

LEMMA AmOldStays ==
    ASSUME NEW s, NEW g, NEW p, NEW x, AmGrown(s, g, p, x), NEW k \in DOMAIN s
    PROVE  \E l \in DOMAIN g : g[l] = s[k]
<1>1. k \in Nat /\ k >= 1 /\ k <= Len(s) /\ p \in Nat /\ Len(s) \in Nat /\ DOMAIN g = 1 .. Len(s) + 1
  BY DEF AmGrown
<1>2. CASE k < p
  <2>1. k \in 1 .. p - 1 /\ k \in DOMAIN g
    BY <1>1, <1>2
  <2> QED BY <2>1 DEF AmGrown
<1>3. CASE k >= p
  <2>1. k \in p .. Len(s) /\ k + 1 \in DOMAIN g
    BY <1>1, <1>3
  <2> QED BY <2>1 DEF AmGrown
<1> QED BY <1>1, <1>2, <1>3

LEMMA AmPairsGrown ==
    ASSUME NEW s, NEW g, NEW p, NEW x, AmGrown(s, g, p, x),
           NEW mp, NEW h, NEW y, AmGrown(mp, h, p, y), NEW add, AmPairs(s, mp, add),
           y.id = x.id, x.id # 0, x.id \notin add, x.type # "End"
    PROVE  AmPairs(g, h, add \cup {x.id})
<1>0. /\ Len(s) \in Nat /\ Len(g) = Len(s) + 1 /\ DOMAIN g = 1 .. Len(g) /\ DOMAIN s = 1 .. Len(s)
      /\ p \in DOMAIN g /\ g[p] = x /\ p \in Nat /\ p <= Len(s) /\ DOMAIN h = DOMAIN g
      /\ Len(h) = Len(g) /\ Len(mp) = Len(s) /\ DOMAIN mp = DOMAIN s
  BY DEF AmGrown, AmPairs
<1>1. g # <<>>
  BY <1>0
<1>2. ASSUME NEW k \in DOMAIN g PROVE h[k].id = g[k].id
  <2>1. k \in DOMAIN h
    BY <1>0
  <2>2. /\ k \in Nat
        /\ \/ k < p /\ k \in DOMAIN s /\ g[k] = s[k]
           \/ k = p /\ g[k] = x
           \/ k > p /\ k - 1 \in DOMAIN s /\ g[k] = s[k - 1]
    BY AmOldOrNew
  <2>3. \/ k < p /\ h[k] = mp[k]
        \/ k = p /\ h[k] = y
        \/ k > p /\ h[k] = mp[k - 1]
    BY <2>1, AmOldOrNew
  <2> QED BY <1>0, <2>2, <2>3 DEF AmPairs
<1>3. ASSUME NEW id \in add \cup {x.id} PROVE \E k \in DOMAIN g : g[k].id = id
  <2>1. CASE id = x.id
    BY <1>0, <2>1
  <2>2. CASE id \in add
    <3>1. PICK k \in DOMAIN s : s[k].id = id
      BY <2>2 DEF AmPairs
    <3> QED BY <3>1, AmOldStays
  <2> QED BY <2>1, <2>2
<1>4. ASSUME NEW k \in DOMAIN g
      PROVE  /\ g[k].id \in (add \cup {x.id}) \cup {0}
             /\ k # p => g[k].id # x.id
             /\ g[k].type = "End" => g[k].id = 0
  <2>1. \/ k < p /\ k \in DOMAIN s /\ g[k] = s[k]
        \/ k = p /\ g[k] = x
        \/ k > p /\ k - 1 \in DOMAIN s /\ g[k] = s[k - 1]
    BY AmOldOrNew
  <2> QED BY <2>1 DEF AmPairs
<1>5. ASSUME NEW k \in DOMAIN g, NEW l \in DOMAIN g, g[k].id = g[l].id, g[k].id # 0 PROVE k = l
  <2>1. CASE k = p \/ l = p
    BY <1>0, <1>4, <1>5, <2>1
  <2>2. CASE k # p /\ l # p
    <3>1. /\ k \in Nat
          /\ \/ k < p /\ k \in DOMAIN s /\ g[k] = s[k]
             \/ k > p /\ k - 1 \in DOMAIN s /\ g[k] = s[k - 1] /\ k - 1 >= p
      BY <2>2, AmOldOrNew
    <3>2. /\ l \in Nat
          /\ \/ l < p /\ l \in DOMAIN s /\ g[l] = s[l]
             \/ l > p /\ l - 1 \in DOMAIN s /\ g[l] = s[l - 1] /\ l - 1 >= p
      BY <2>2, AmOldOrNew
    <3>0. p \in Nat
      BY <1>0
    <3>3. \A i, j \in DOMAIN s : s[i].id = s[j].id /\ s[i].id # 0 => i = j
      BY DEF AmPairs
    <3>4. CASE k < p /\ l < p
      <4>1. /\ k \in DOMAIN s /\ g[k] = s[k]
            /\ l \in DOMAIN s /\ g[l] = s[l]
        BY <3>0, <3>1, <3>2, <3>4
      <4> QED BY <1>5, <3>3, <4>1
    <3>5. CASE k > p /\ l > p
      <4>0. /\ k - 1 \in DOMAIN s /\ g[k] = s[k - 1]
            /\ l - 1 \in DOMAIN s /\ g[l] = s[l - 1]
        BY <3>0, <3>1, <3>2, <3>5
      <4>1. k - 1 = l - 1
        BY <1>5, <3>3, <4>0
      <4> QED BY <3>1, <3>2, <4>1
    <3>6. CASE k < p /\ l > p
      <4>0. /\ k \in DOMAIN s /\ g[k] = s[k]
            /\ l - 1 \in DOMAIN s /\ g[l] = s[l - 1]
        BY <3>0, <3>1, <3>2, <3>6
      <4>1. k = l - 1
        BY <1>5, <3>3, <4>0
      <4> QED BY <1>0, <3>1, <3>2, <3>6, <4>1
    <3>7. CASE k > p /\ l < p
      <4>0. /\ k - 1 \in DOMAIN s /\ g[k] = s[k - 1]
            /\ l \in DOMAIN s /\ g[l] = s[l]
        BY <3>0, <3>1, <3>2, <3>7
      <4>1. k - 1 = l
        BY <1>5, <3>3, <4>0
      <4> QED BY <1>0, <3>1, <3>2, <3>7, <4>1
    <3> QED BY <3>1, <3>2, <3>4, <3>5, <3>6, <3>7
  <2> QED BY <2>1, <2>2
<1>6. g[Len(g)].type = "End"
  <2>1. Len(s) \in p .. Len(s) /\ s[Len(s)].type = "End"
    BY <1>0 DEF AmPairs
  <2>2. g[Len(s) + 1] = s[Len(s)]
    BY <2>1 DEF AmGrown
  <2> QED BY <1>0, <2>1, <2>2
<1> QED BY <1>0, <1>1, <1>2, <1>3, <1>4, <1>5, <1>6 DEF AmPairs

LEMMA AmWholeGrown ==
    ASSUME NEW s, NEW g, NEW p, NEW x, AmGrown(s, g, p, x), AmWhole(s), x.id # 0, x.type # "End"
    PROVE  AmWhole(g)
<1>0. Len(s) \in Nat /\ Len(g) = Len(s) + 1 /\ p \in Nat /\ p <= Len(s)
  BY DEF AmGrown
<1>1. ASSUME NEW k \in DOMAIN g
      PROVE  /\ g[k].type = "End" => k = Len(g)
             /\ g[k].type \in {"Item", "Sub"} => g[k].id # 0
  <2>1. /\ k \in Nat
        /\ \/ k < p /\ k \in DOMAIN s /\ g[k] = s[k]
           \/ k = p /\ g[k] = x
           \/ k > p /\ k - 1 \in DOMAIN s /\ g[k] = s[k - 1]
    BY AmOldOrNew
  <2>2. CASE k < p
    BY <1>0, <2>1, <2>2 DEF AmWhole
  <2>3. CASE k = p
    BY <2>1, <2>3
  <2>4. CASE k > p
    <3>1. k - 1 \in DOMAIN s /\ g[k] = s[k - 1]
      BY <1>0, <2>1, <2>4
    <3>2. /\ s[k - 1].type = "End" => k - 1 = Len(s)
          /\ s[k - 1].type \in {"Item", "Sub"} => s[k - 1].id # 0
      BY <3>1 DEF AmWhole
    <3> QED BY <1>0, <2>1, <3>1, <3>2
  <2> QED BY <1>0, <2>1, <2>2, <2>3, <2>4
<1> QED BY <1>1 DEF AmWhole

LEMMA AmFind ==
    ASSUME newMenus \in Seq(A!Entries), mappings \in Seq(A!Mappings), A!Paired, NEW id
    PROVE  /\ A!FindItem(id) # 0 => A!FindItem(id) \in DOMAIN newMenus /\ newMenus[A!FindItem(id)].id = id
           /\ A!FindItem(id) \in Nat
           /\ \A k \in DOMAIN newMenus : newMenus[k].id = id /\ id # 0 => A!FindItem(id) = k
<1> DEFINE T == {k \in DOMAIN mappings : mappings[k].id = id}
<1>1. A!FindItem(id) = IF T = {} THEN 0 ELSE A!Min(T)
  BY DEF A!FindItem
<1>2. DOMAIN mappings = DOMAIN newMenus /\ DOMAIN mappings \subseteq Nat \ {0}
  BY DEF A!Paired
<1>3. \A k \in DOMAIN newMenus : mappings[k].id = newMenus[k].id
  BY DEF A!Paired
<1>4. T # {} => A!Min(T) \in T
  <2>1. T \subseteq Nat
    BY <1>2
  <2> HIDE DEF T
  <2> QED BY <2>1, AmSmallest
<1>5. A!FindItem(id) # 0 => A!FindItem(id) \in T
  <2> HIDE DEF T
  <2> QED BY <1>1, <1>4
<1>6. ASSUME NEW k \in DOMAIN newMenus, newMenus[k].id = id, id # 0 PROVE A!FindItem(id) = k
  <2>1. k \in T
    BY <1>2, <1>3, <1>6
  <2>2. A!FindItem(id) \in T
    <3> HIDE DEF T
    <3> QED BY <1>1, <1>4, <2>1
  <2>3. A!FindItem(id) \in DOMAIN newMenus /\ newMenus[A!FindItem(id)].id = id
    BY <1>2, <1>3, <2>2
  <2> QED BY <1>6, <2>3 DEF A!Paired
<1>7. A!FindItem(id) \in Nat
  <2>1. T \subseteq Nat
    BY <1>2
  <2> HIDE DEF T
  <2>2. CASE A!FindItem(id) = 0
    BY <2>2
  <2>3. CASE A!FindItem(id) # 0
    BY <1>5, <2>1, <2>3
  <2> QED BY <2>2, <2>3
<1> QED BY <1>2, <1>3, <1>5, <1>6, <1>7

\* On the screen the items have the numbers they have in the array.
LEMMA AmDenoted ==
    ASSUME NEW n, AmArray(n), NEW v \in Seq(A!Entries), A!Alike(v, A!CreateMenus(n))
    PROVE  /\ Len(v) = Len(n) - 1
           /\ \A k \in DOMAIN v : /\ v[k].type = n[k].type /\ v[k].id = n[k].id
                                  /\ A!NumberOf(v, k) = A!NumberOf(n, k)
           /\ \A k \in DOMAIN n : AmHasAddress(n, k) =>
                 k \in DOMAIN v /\ A!ItemAddress(v, A!NumberOf(n, k)) = {k}
<1> DEFINE c == A!CreateMenus(n)
<1>0. n \in Seq(A!Entries) /\ n # <<>> /\ n[Len(n)].type = "End" /\ Len(n) \in Nat /\ Len(n) > 0
  BY DEF AmArray
<1>1. Len(c) = Len(n) - 1 /\ \A k \in 1 .. Len(n) - 1 : c[k] = n[k]
  BY AmCreateArray
<1> HIDE DEF c
<1>2. Len(v) = Len(n) - 1 /\ \A k \in DOMAIN v : v[k].type = c[k].type /\ v[k].id = c[k].id
  BY <1>1 DEF A!Alike, c
<1>3. DOMAIN v = 1 .. Len(n) - 1 /\ DOMAIN n = 1 .. Len(n)
  BY <1>0, <1>2
<1>4. \A k \in 1 .. Len(n) - 1 : v[k].type = n[k].type /\ v[k].id = n[k].id
  BY <1>1, <1>2, <1>3
<1>5. ASSUME NEW k \in DOMAIN v PROVE A!NumberOf(v, k) = A!NumberOf(n, k)
  <2>1. k \in Nat \ {0} /\ \A j \in 1 .. k : v[j].type = n[j].type
    BY <1>0, <1>3, <1>4
  <2> QED BY <2>1, AmNumberSame
<1>6. ASSUME NEW k \in DOMAIN v PROVE AmHasAddress(v, k) <=> AmHasAddress(n, k)
  <2>1. v[k].type = n[k].type /\ k \in Nat
    BY <1>3, <1>4
  <2>2. A!HasSubs(v, k) <=> A!HasSubs(n, k)
    <3>1. CASE k < Len(n) - 1
      <4>1. k + 1 \in 1 .. Len(n) - 1 /\ k < Len(n) /\ k < Len(v)
        BY <1>0, <1>2, <2>1, <3>1
      <4> QED BY <1>4, <4>1 DEF A!HasSubs
    <3>2. CASE k = Len(n) - 1
      <4>1. ~(k < Len(v)) /\ k + 1 = Len(n)
        BY <1>0, <1>2, <3>2
      <4> QED BY <1>0, <4>1 DEF A!HasSubs
    <3> QED BY <1>0, <1>3, <3>1, <3>2
  <2> QED BY <2>1, <2>2 DEF AmHasAddress
<1>7. ASSUME NEW k \in DOMAIN n, AmHasAddress(n, k)
      PROVE  k \in DOMAIN v /\ A!ItemAddress(v, A!NumberOf(n, k)) = {k}
  <2>1. k # Len(n) /\ k \in DOMAIN v
    <3>1. n[k].type # "End"
      BY <1>7 DEF AmHasAddress
    <3> QED BY <1>0, <1>3, <3>1
  <2>2. A!ItemAddress(v, A!NumberOf(n, k)) =
           {j \in DOMAIN v : AmHasAddress(v, j) /\ A!NumberOf(v, j) = A!NumberOf(n, k)}
    BY DEF A!ItemAddress, AmHasAddress
  <2>3. ASSUME NEW j \in DOMAIN v, AmHasAddress(v, j), A!NumberOf(v, j) = A!NumberOf(n, k)
        PROVE  j = k
    <3>1. j \in DOMAIN n /\ AmHasAddress(n, j) /\ A!NumberOf(n, j) = A!NumberOf(n, k)
      BY <1>0, <1>3, <1>5, <1>6, <2>3
    <3>2. ~(j < k)
      BY <1>7, <3>1, AmNumbersDiffer
    <3>3. ~(k < j)
      BY <1>7, <3>1, AmNumbersDiffer
    <3> QED BY <1>3, <3>1, <3>2, <3>3
  <2>4. AmHasAddress(v, k) /\ A!NumberOf(v, k) = A!NumberOf(n, k)
    BY <1>5, <1>6, <1>7, <2>1
  <2> QED BY <2>1, <2>2, <2>3, <2>4
<1> QED BY <1>2, <1>3, <1>4, <1>5, <1>7

\* An array with the same entries, but for their state.
LEMMA AmAlike ==
    ASSUME NEW n \in Seq(A!Entries), NEW g \in Seq(A!Entries), A!Alike(n, g), NEW mp, NEW add
    PROVE  /\ AmPairs(n, mp, add) => AmPairs(g, mp, add)
           /\ AmWhole(n) => AmWhole(g)
           /\ n # <<>> /\ AmRows(n) => AmRows(g)
           /\ \A k \in DOMAIN n : /\ A!NumberOf(g, k) = A!NumberOf(n, k)
                                  /\ AmAddressed(g, mp, k) => AmAddressed(n, mp, k)
<1>0. Len(g) = Len(n) /\ Len(n) \in Nat /\ DOMAIN n = 1 .. Len(n) /\ DOMAIN g = 1 .. Len(n)
  BY DEF A!Alike
<1>1. \A k \in DOMAIN n : g[k].type = n[k].type /\ g[k].id = n[k].id
  BY DEF A!Alike
<1>2. AmPairs(n, mp, add) => AmPairs(g, mp, add)
  <2> SUFFICES ASSUME AmPairs(n, mp, add) PROVE AmPairs(g, mp, add)
    OBVIOUS
  <2>1. Len(g) = Len(mp) /\ g # <<>> /\ n # <<>> /\ Len(n) > 0
    BY <1>0 DEF AmPairs
  <2>2. /\ \A k \in DOMAIN g : mp[k].id = g[k].id
        /\ \A k \in DOMAIN g : g[k].id \in add \cup {0}
        /\ \A k \in DOMAIN g : g[k].type = "End" => g[k].id = 0
    BY <1>0, <1>1 DEF AmPairs
  <2>3. \A id \in add : \E k \in DOMAIN g : g[k].id = id
    BY <1>0, <1>1 DEF AmPairs
  <2>4. \A k, l \in DOMAIN g : g[k].id = g[l].id /\ g[k].id # 0 => k = l
    BY <1>0, <1>1 DEF AmPairs
  <2>5. g[Len(g)].type = "End"
    <3>1. Len(n) \in DOMAIN n
      BY <1>0, <2>1
    <3> QED BY <1>0, <1>1, <3>1 DEF AmPairs
  <2> QED BY <2>1, <2>2, <2>3, <2>4, <2>5 DEF AmPairs
<1>3. AmWhole(n) => AmWhole(g)
  BY <1>0, <1>1 DEF AmWhole
<1>4. n # <<>> /\ AmRows(n) => AmRows(g)
  <2> SUFFICES ASSUME n # <<>>, AmRows(n) PROVE AmRows(g)
    OBVIOUS
  <2>1. 1 \in DOMAIN n
    BY <1>0
  <2>2. g[1].type = "Title"
    BY <1>1, <2>1 DEF AmRows
  <2>3. ASSUME NEW k \in DOMAIN g, g[k].type = "Sub" PROVE k > 1 /\ g[k - 1].type \in {"Item", "Sub"}
    <3>1. k > 1 /\ n[k - 1].type \in {"Item", "Sub"}
      BY <1>0, <1>1, <2>3 DEF AmRows
    <3>2. k - 1 \in DOMAIN n
      BY <1>0, <3>1
    <3> QED BY <1>1, <3>1, <3>2
  <2> QED BY <2>2, <2>3 DEF AmRows
<1>5. ASSUME NEW k \in DOMAIN n
      PROVE  /\ A!NumberOf(g, k) = A!NumberOf(n, k)
             /\ AmAddressed(g, mp, k) => AmAddressed(n, mp, k)
  <2>1. k \in Nat \ {0} /\ k \in Nat /\ \A j \in 1 .. k : g[j].type = n[j].type
    BY <1>0, <1>1
  <2>2. A!NumberOf(g, k) = A!NumberOf(n, k)
    BY <2>1, AmNumberSame
  <2>3. AmSubsBefore(g, k) = AmSubsBefore(n, k)
    <3> DEFINE T == A!LastOf(n, "Title", k)
    <3>1. A!LastOf(g, "Title", k) = T
      BY <2>1, AmLastSame
    <3>2. T \in 0 .. k
      BY <2>1, AmLast
    <3> HIDE DEF T
    <3>3. A!Count(g, "Sub", T + 1, k) = A!Count(n, "Sub", T + 1, k)
      <4>1. \A j \in T + 1 .. k : g[j].type = n[j].type
        BY <2>1, <3>2
      <4>2. T + 1 \in Int /\ k \in Int
        BY <2>1, <3>2
      <4> QED BY <4>1, <4>2, AmCountSame
    <3> QED BY <3>1, <3>3 DEF AmSubsBefore, T
  <2>4. A!HasSubs(n, k) => A!HasSubs(g, k)
    <3> SUFFICES ASSUME A!HasSubs(n, k) PROVE A!HasSubs(g, k)
      OBVIOUS
    <3>1. k < Len(n) /\ n[k + 1].type = "Sub"
      BY DEF A!HasSubs
    <3>2. k + 1 \in DOMAIN n
      BY <1>0, <2>1, <3>1
    <3> QED BY <1>0, <1>1, <3>1, <3>2 DEF A!HasSubs
  <2>5. g[k].type = n[k].type
    BY <1>1
  <2> QED BY <2>2, <2>3, <2>4, <2>5 DEF AmAddressed
<1> QED BY <1>2, <1>3, <1>4, <1>5

--------------------------------------------------------------------------------
(***************************************************************************)
(* AmiMenus: the operations.                                               *)
(***************************************************************************)
AmGood(n, mp, v, ask, add, moved, old, m) ==
    /\ AmPairs(n, mp, add)
    /\ ~A!HasSubMenus => AmWhole(n)
    /\ ~A!HasSubMenus /\ ~moved => AmRows(n)
    /\ ~old \/ ~moved => A!Alike(v, A!CreateMenus(n))
    /\ ~A!HasSubMenus /\ ~moved => AmKeeps(n, mp, v, ask, m)

LEMMA AmMeansGood ==
    A!InOrder <=> /\ A!Typed
                  /\ AmGood(newMenus, mappings, native, itemsAsked, added, displaced, failed, missed)
<1>1. A!Shown <=> (~failed \/ ~displaced => A!Alike(native, A!CreateMenus(newMenus)))
  BY DEF A!Shown
<1> QED BY <1>1, AmMeans DEF A!InOrder, AmGood

LEMMA AmThen ==
    ASSUME items' = items, A!Typed',
           AmGood(newMenus', mappings', native', itemsAsked', added', displaced', failed', missed')
    PROVE  A!InOrder'
<1>0. A!HasSubMenus' <=> A!HasSubMenus
  BY DEF A!HasSubMenus
<1>1. A!Paired'
  BY DEF A!Paired, AmPairs, AmGood
<1>2. A!Regular'
  BY <1>0 DEF A!Regular, AmWhole, AmRows, AmGood
<1>3. A!Shown'
  BY DEF A!Shown, AmGood
<1>4. A!Kept'
  <2>1. \A k : A!Addressed(k)' <=> ~A!HasSubMenus /\ ~displaced' /\ AmAddressed(newMenus', mappings', k)
    BY <1>0 DEF A!Addressed, A!Numbered, AmAddressed, AmSubsBefore
  <2> QED BY <2>1 DEF A!Kept, A!Agree, AmKeeps, AmSame, AmGood
<1> QED BY <1>1, <1>2, <1>3, <1>4 DEF A!InOrder

LEMMA AmRefl ==
    ASSUME NEW a PROVE A!Alike(a, a)
BY DEF A!Alike

\* What the parts say when there are no submenus at first.
LEMMA AmNowArray ==
    ASSUME A!InOrder, ~A!HasSubMenus, ~displaced
    PROVE  /\ AmArray(newMenus) /\ A!Alike(native, A!CreateMenus(newMenus))
           /\ AmKeeps(newMenus, mappings, native, itemsAsked, missed)
<1>1. newMenus \in Seq(A!Entries)
  BY DEF A!InOrder, A!Typed
<1>2. AmPairs(newMenus, mappings, added) /\ AmWhole(newMenus) /\ AmRows(newMenus)
  BY AmMeansGood DEF AmGood
<1>3. AmArray(newMenus)
  BY <1>1, <1>2, AmMeansArray
<1> QED BY <1>3, AmMeansGood DEF AmGood

LEMMA AmAddItem ==
    ASSUME A!InOrder, NEW type \in {"Item", "Separator"}, NEW id \in NewIds, NEW ordinal \in 0 .. 1,
           NEW sub \in {-1} \cup A!SubOrdinals(ordinal), A!AddItem(type, id, ordinal, sub)
    PROVE  A!InOrder'
<1> DEFINE w == A!Insertion(ordinal, sub)
           x == A!Entry(A!NewMenuType(type, sub # -1), id)
           y == [id |-> id, num |-> w.num]
           g == A!InsertAt(newMenus, w.at, x)
           h == A!InsertAt(mappings, w.at, y)
           none == [checked |-> FALSE, disabled |-> FALSE]
<1>0. /\ newMenus \in Seq(A!Entries) /\ mappings \in Seq(A!Mappings) /\ native \in Seq(A!Entries)
      /\ items \in Descriptions /\ added \subseteq A!Ids \ {0} /\ displaced \in BOOLEAN /\ failed \in BOOLEAN
      /\ attached \in BOOLEAN /\ missed \in BOOLEAN
      /\ itemsAsked \in [A!Ids -> [checked : BOOLEAN, disabled : BOOLEAN]]
      /\ \A k \in DOMAIN native : native[k].type # "End"
  BY DEF A!InOrder, A!Typed
<1>1. /\ A!Paired /\ AmGood(newMenus, mappings, native, itemsAsked, added, displaced, failed, missed)
  BY AmMeansGood DEF A!InOrder
<1>2. /\ id \notin added /\ A!FindMenu(ordinal) # 0 /\ items' = items /\ failed' = failed
      /\ displaced' = (displaced \/ (type = "Separator" /\ sub # -1))
  BY DEF A!AddItem
<1>3. \/ /\ newMenus' = g /\ mappings' = h /\ native' = A!CreateMenus(g)
         /\ added' = added \cup {id} /\ itemsAsked' = [itemsAsked EXCEPT ![id] = none]
         /\ missed' = FALSE
      \/ UNCHANGED <<newMenus, mappings, native, added, itemsAsked, missed>>
  BY DEF A!AddItem
<1>3a. attached' \in BOOLEAN /\ missed' \in BOOLEAN
  BY <1>0 DEF A!AddItem
<1>4. id \in A!Ids /\ id # 0
  BY MenuAssumption DEF A!Ids
<1>5a. PICK t \in {"Item", "Sub"} :
          /\ x = [type |-> t, id |-> id, checked |-> FALSE, disabled |-> FALSE]
          /\ displaced' = FALSE => t = IF sub = -1 THEN "Item" ELSE "Sub"
  BY <1>0, <1>2 DEF A!Entry, A!NewMenuType
<1>6. y.id = id /\ y.num = w.num
  OBVIOUS
<1> HIDE DEF x, y, g, h, w
<1>5. x.type \in {"Item", "Sub"} /\ (displaced' = FALSE => x.type = IF sub = -1 THEN "Item" ELSE "Sub")
  BY <1>5a
<1>7. w.at \in 2 .. Len(newMenus) /\ w.num \in [menu : Int, item : Int, sub : Int]
      /\ (displaced' = FALSE => AmBehind(newMenus, w.at, x))
  <2>1. ordinal \in Nat
    OBVIOUS
  <2>2. PICK z : z = [type |-> IF sub = -1 THEN "Item" ELSE "Sub"]
    OBVIOUS
  <2>3. z.type = IF sub = -1 THEN "Item" ELSE "Sub"
    BY <2>2
  <2>4. w.at \in 2 .. Len(newMenus) /\ w.num \in [menu : Int, item : Int, sub : Int]
    BY <1>0, <1>1, <1>2, <2>1, <2>3, AmPlace DEF w
  <2>5. ASSUME displaced' = FALSE PROVE AmBehind(newMenus, w.at, x)
    BY <1>0, <1>1, <1>2, <1>5, <2>1, <2>5, AmPlace DEF w
  <2> QED BY <2>4, <2>5
<1>8. x \in A!Entries /\ x.id = id /\ x.checked = FALSE /\ x.disabled = FALSE
  BY <1>4, <1>5a DEF A!Entries
<1>9. y \in A!Mappings
  BY <1>4, <1>7 DEF y, A!Mappings
<1>10. Len(newMenus) = Len(mappings) /\ Len(newMenus) \in Nat /\ w.at \in 1 .. Len(newMenus) + 1
       /\ w.at \in 1 .. Len(mappings) + 1 /\ w.at \in 1 .. Len(newMenus)
       /\ DOMAIN newMenus = 1 .. Len(newMenus) /\ DOMAIN mappings = 1 .. Len(mappings)
  BY <1>0, <1>1, <1>7 DEF A!Paired
<1>11. /\ g \in Seq(A!Entries) /\ Len(g) = Len(newMenus) + 1 /\ g[w.at] = x
       /\ \A k \in 1 .. w.at - 1 : g[k] = newMenus[k]
       /\ \A k \in w.at .. Len(newMenus) : g[k + 1] = newMenus[k]
  <2> DEFINE p == w.at
  <2>1. newMenus \in Seq(A!Entries) /\ p \in 1 .. Len(newMenus) + 1
    BY <1>0, <1>10
  <2> HIDE DEF p
  <2>2. LET r == A!InsertAt(newMenus, p, x)
        IN /\ r \in Seq(A!Entries) /\ Len(r) = Len(newMenus) + 1 /\ r[p] = x
           /\ \A k \in 1 .. p - 1 : r[k] = newMenus[k]
           /\ \A k \in p .. Len(newMenus) : r[k + 1] = newMenus[k]
    BY <2>1, <1>8, AmInsertAt
  <2> QED BY <2>2 DEF g, p
<1>12. /\ h \in Seq(A!Mappings) /\ Len(h) = Len(mappings) + 1 /\ h[w.at] = y
       /\ \A k \in 1 .. w.at - 1 : h[k] = mappings[k]
       /\ \A k \in w.at .. Len(mappings) : h[k + 1] = mappings[k]
  <2> DEFINE p == w.at
  <2>1. mappings \in Seq(A!Mappings) /\ p \in 1 .. Len(mappings) + 1
    BY <1>0, <1>10
  <2> HIDE DEF p
  <2>2. LET r == A!InsertAt(mappings, p, y)
        IN /\ r \in Seq(A!Mappings) /\ Len(r) = Len(mappings) + 1 /\ r[p] = y
           /\ \A k \in 1 .. p - 1 : r[k] = mappings[k]
           /\ \A k \in p .. Len(mappings) : r[k + 1] = mappings[k]
    BY <2>1, <1>9, AmInsertAt
  <2> QED BY <2>2 DEF h, p
<1>13. AmGrown(newMenus, g, w.at, x)
  <2>1. DOMAIN g = 1 .. Len(g)
    BY <1>11
  <2> QED BY <1>10, <1>11, <2>1 DEF AmGrown
<1>14. AmGrown(mappings, h, w.at, y)
  <2>1. DOMAIN h = 1 .. Len(h) /\ w.at \in 1 .. Len(mappings) /\ Len(mappings) \in Nat
    BY <1>10, <1>12
  <2> QED BY <1>10, <1>12, <2>1 DEF AmGrown
<1>15. CASE UNCHANGED <<newMenus, mappings, native, added, itemsAsked, missed>>
  <2>1. displaced' \in BOOLEAN /\ (~displaced' => ~displaced)
    BY <1>0, <1>2
  <2>2. A!Typed'
    BY <1>0, <1>2, <1>3a, <1>15, <2>1 DEF A!Typed
  <2>3. AmGood(newMenus, mappings, native, itemsAsked, added, displaced', failed, missed)
    BY <1>1, <2>1 DEF AmGood
  <2> QED BY <1>2, <1>15, <2>2, <2>3, AmThen
<1>16. CASE /\ newMenus' = g /\ mappings' = h /\ native' = A!CreateMenus(g)
            /\ added' = added \cup {id} /\ itemsAsked' = [itemsAsked EXCEPT ![id] = none]
            /\ missed' = FALSE
  <2>0. displaced' \in BOOLEAN /\ (~displaced' => ~displaced)
    BY <1>0, <1>2
  <2> DEFINE c == A!CreateMenus(g)
             next == [itemsAsked EXCEPT ![id] = none]
  <2>1. c \in Seq(A!Entries) /\ \A k \in DOMAIN c : c[k].type # "End"
    <3>1. c \in Seq(A!Entries) /\ \A k \in 1 .. Len(c) : c[k] = g[k] /\ g[k].type # "End"
      BY <1>11, AmCreate
    <3> HIDE DEF c
    <3> QED BY <3>1
  <2>2. next \in [A!Ids -> [checked : BOOLEAN, disabled : BOOLEAN]]
        /\ next[id] = none /\ \A i \in A!Ids \ {id} : next[i] = itemsAsked[i]
    BY <1>0, <1>4
  <2>3. none.checked = FALSE /\ none.disabled = FALSE
    OBVIOUS
  <2> HIDE DEF c, next, none
  <2>4. A!Typed'
    <3>1. added' \subseteq A!Ids \ {0}
      BY <1>0, <1>4, <1>16
    <3> QED BY <1>0, <1>2, <1>3a, <1>11, <1>12, <1>16, <2>0, <2>1, <2>2, <3>1 DEF A!Typed, c, next
  <2>5. AmPairs(g, h, added \cup {id})
    <3>1. y.id = x.id /\ x.id # 0 /\ x.id \notin added /\ x.type # "End"
      BY <1>2, <1>4, <1>5, <1>6, <1>8
    <3>2. AmPairs(newMenus, mappings, added)
      BY <1>1 DEF AmGood
    <3>3. AmPairs(g, h, added \cup {x.id})
      BY <1>13, <1>14, <3>1, <3>2, AmPairsGrown
    <3> QED BY <1>8, <3>3
  <2>6. ~A!HasSubMenus => AmWhole(g)
    <3>1. x.id # 0 /\ x.type # "End"
      BY <1>4, <1>5, <1>8
    <3> QED BY <1>1, <1>13, <3>1, AmWholeGrown DEF AmGood
  <2>7. ASSUME ~A!HasSubMenus, ~displaced' PROVE AmRows(g) /\ AmKeeps(g, h, c, next, FALSE)
    <3>1. AmArray(newMenus) /\ AmKeeps(newMenus, mappings, native, itemsAsked, missed)
      BY <2>0, <2>7, AmNowArray
    <3>2. AmPutIn(newMenus, g, w.at, x)
      BY <1>0, <1>7, <1>11 DEF AmPutIn
    <3>3. AmBehind(newMenus, w.at, x) /\ x.type = IF sub = -1 THEN "Item" ELSE "Sub"
      BY <1>5, <1>7, <2>0, <2>7
    <3>4. AmRows(g)
      BY <3>1, <3>2, <3>3, AmStaysArray DEF AmArray, AmRows
    <3>5. x.type = "Sub" \/ AmSubsBefore(g, w.at) = 0 => A!NumberOf(g, w.at) = h[w.at].num
      <4> SUFFICES ASSUME x.type = "Sub" \/ AmSubsBefore(g, w.at) = 0
                   PROVE  A!NumberOf(g, w.at) = h[w.at].num
        OBVIOUS
      <4>1. ordinal \in Nat
        OBVIOUS
      <4>2. A!NumberOf(g, w.at) = A!Insertion(ordinal, sub).num
        BY <1>1, <1>2, <3>1, <3>2, <3>3, <4>1, AmNewNumber DEF w
      <4> QED BY <1>6, <1>12, <4>2 DEF w
    <3>6. \A k \in DOMAIN newMenus : next[newMenus[k].id] = itemsAsked[newMenus[k].id]
      <4>1. ASSUME NEW k \in DOMAIN newMenus PROVE next[newMenus[k].id] = itemsAsked[newMenus[k].id]
        <5>1. newMenus[k].id \in added \cup {0}
          BY <1>1 DEF A!Paired
        <5>2. CASE newMenus[k].id # 0
          BY <1>0, <1>2, <2>2, <5>1, <5>2
        <5>3. CASE newMenus[k].id = 0
          BY <1>4, <5>3 DEF next
        <5> QED BY <5>2, <5>3
      <4> QED BY <4>1
    <3>7. next[x.id].checked = x.checked /\ next[x.id].disabled = x.disabled
      BY <1>8, <2>2, <2>3
    <3>8. AmKeeps(g, h, c, next, FALSE)
      <4>1. Len(mappings) = Len(newMenus) /\ Len(h) = Len(g)
        BY <1>10, <1>11, <1>12
      <4> DEFINE p == w.at
      <4>2. AmPutIn(newMenus, g, p, x) /\ AmBehind(newMenus, p, x)
        BY <3>2, <3>3
      <4>3. /\ mappings \in Seq(A!Mappings) /\ h \in Seq(A!Mappings)
            /\ \A k \in 1 .. p - 1 : h[k] = mappings[k]
            /\ \A k \in p .. Len(mappings) : h[k + 1] = mappings[k]
        BY <1>0, <1>12
      <4>4. x.type = "Sub" \/ AmSubsBefore(g, p) = 0 => A!NumberOf(g, p) = h[p].num
        BY <3>5
      <4> HIDE DEF p
      <4>5. AmBoth(newMenus, g, p, x, mappings, h)
        BY <3>1, <4>1, <4>2, <4>3, <4>4 DEF AmBoth
      <4> HIDE DEF c, g, h, x, next
      <4>6. AmKeeps(newMenus, mappings, native, itemsAsked, missed)
        BY <3>1
      <4>7. AmToldAlso(newMenus, x, itemsAsked, next)
        BY <3>6, <3>7 DEF AmToldAlso
      <4>8. AmKeeps(g, h, A!CreateMenus(g), next, FALSE)
        BY <4>5, <4>6, <4>7, AmKeepsGrown
      <4> QED BY <4>8 DEF c
    <3> QED BY <3>4, <3>8
  <2>8. AmGood(g, h, c, next, added \cup {id}, displaced', failed', FALSE)
    <3>1. A!Alike(c, A!CreateMenus(g))
      BY AmRefl DEF c
    <3> QED BY <2>5, <2>6, <2>7, <3>1 DEF AmGood
  <2> QED BY <1>2, <1>16, <2>4, <2>8, AmThen DEF c, next
<1> QED BY <1>3, <1>15, <1>16

\* s without what it has at p, which is not its end.
AmShrunk(s, g, p) ==
    /\ Len(s) \in Nat /\ Len(g) = Len(s) - 1 /\ p \in 1 .. Len(s) - 1
    /\ DOMAIN s = 1 .. Len(s) /\ DOMAIN g = 1 .. Len(g)
    /\ \A k \in 1 .. p - 1 : g[k] = s[k]
    /\ \A k \in p .. Len(s) - 1 : g[k] = s[k + 1]

LEMMA AmIsOld ==
    ASSUME NEW s, NEW g, NEW p, AmShrunk(s, g, p), NEW k \in DOMAIN g
    PROVE  /\ k \in Nat /\ p \in Nat
           /\ \/ k < p /\ k \in DOMAIN s /\ g[k] = s[k]
              \/ k >= p /\ k + 1 \in DOMAIN s /\ g[k] = s[k + 1]
<1>1. k \in Nat /\ k >= 1 /\ k <= Len(s) - 1 /\ p \in Nat /\ p >= 1 /\ p <= Len(s) - 1 /\ Len(s) \in Nat
  BY DEF AmShrunk
<1>2. CASE k < p
  <2>1. k \in 1 .. p - 1 /\ k \in 1 .. Len(s)
    BY <1>1, <1>2
  <2> QED BY <1>1, <1>2, <2>1 DEF AmShrunk
<1>3. CASE k >= p
  <2>1. k \in p .. Len(s) - 1 /\ k + 1 \in 1 .. Len(s)
    BY <1>1, <1>3
  <2> QED BY <1>1, <1>3, <2>1 DEF AmShrunk
<1> QED BY <1>1, <1>2, <1>3

LEMMA AmOthersStay ==
    ASSUME NEW s, NEW g, NEW p, AmShrunk(s, g, p), NEW k \in DOMAIN s, k # p
    PROVE  \E l \in DOMAIN g : g[l] = s[k]
<1>1. k \in Nat /\ k >= 1 /\ k <= Len(s) /\ p \in Nat /\ Len(s) \in Nat /\ DOMAIN g = 1 .. Len(s) - 1
      /\ p <= Len(s) - 1 /\ p >= 1
  BY DEF AmShrunk
<1>2. CASE k < p
  <2>1. k \in 1 .. p - 1 /\ k \in DOMAIN g
    BY <1>1, <1>2
  <2> QED BY <2>1 DEF AmShrunk
<1>3. CASE k > p
  <2>0. k - 1 \in Nat /\ k - 1 >= p /\ k - 1 <= Len(s) - 1 /\ p >= 1
    BY <1>1, <1>3
  <2>1. k - 1 \in p .. Len(s) - 1 /\ k - 1 \in DOMAIN g /\ (k - 1) + 1 = k
    BY <1>1, <2>0
  <2>2. g[k - 1] = s[(k - 1) + 1]
    BY <2>1 DEF AmShrunk
  <2> QED BY <2>1, <2>2
<1> QED BY <1>1, <1>2, <1>3

LEMMA AmPairsShrunk ==
    ASSUME NEW s, NEW g, NEW p, AmShrunk(s, g, p), NEW mp, NEW h, AmShrunk(mp, h, p),
           NEW add, AmPairs(s, mp, add), s[p].id # 0
    PROVE  AmPairs(g, h, add \ {s[p].id})
<1>0. /\ Len(s) \in Nat /\ Len(g) = Len(s) - 1 /\ DOMAIN g = 1 .. Len(g) /\ DOMAIN s = 1 .. Len(s)
      /\ p \in DOMAIN s /\ p \in Nat /\ p <= Len(s) - 1 /\ p >= 1 /\ DOMAIN h = DOMAIN g
      /\ Len(h) = Len(g) /\ Len(mp) = Len(s) /\ DOMAIN mp = DOMAIN s
  BY DEF AmShrunk, AmPairs
<1>1. g # <<>>
  BY <1>0
<1>2. ASSUME NEW k \in DOMAIN g
      PROVE  \E l \in DOMAIN s \ {p} : /\ g[k] = s[l] /\ h[k] = mp[l]
                                       /\ l = IF k < p THEN k ELSE k + 1
  <2>1. k \in DOMAIN h
    BY <1>0
  <2>2. /\ k \in Nat
        /\ \/ k < p /\ k \in DOMAIN s /\ g[k] = s[k]
           \/ k >= p /\ k + 1 \in DOMAIN s /\ g[k] = s[k + 1]
    BY AmIsOld
  <2>3. \/ k < p /\ h[k] = mp[k]
        \/ k >= p /\ h[k] = mp[k + 1]
    BY <2>1, AmIsOld
  <2>4. CASE k < p
    BY <1>0, <2>2, <2>3, <2>4
  <2>5. CASE k >= p
    <3>1. k + 1 \in DOMAIN s \ {p} /\ g[k] = s[k + 1] /\ h[k] = mp[k + 1] /\ ~(k < p)
      BY <1>0, <2>2, <2>3, <2>5
    <3> QED BY <3>1
  <2> QED BY <1>0, <2>2, <2>4, <2>5
<1>3. ASSUME NEW id \in add \ {s[p].id} PROVE \E k \in DOMAIN g : g[k].id = id
  <2>1. PICK k \in DOMAIN s : s[k].id = id
    BY DEF AmPairs
  <2>2. k # p
    BY <2>1
  <2> QED BY <2>1, <2>2, AmOthersStay
<1>4. ASSUME NEW k \in DOMAIN g
      PROVE  /\ h[k].id = g[k].id /\ g[k].id \in (add \ {s[p].id}) \cup {0}
             /\ g[k].type = "End" => g[k].id = 0
  <2>1. PICK l \in DOMAIN s \ {p} : g[k] = s[l] /\ h[k] = mp[l]
    BY <1>2
  <2>2. s[l].id # s[p].id
    BY <1>0, <2>1 DEF AmPairs
  <2>3. mp[l].id = s[l].id /\ s[l].id \in add \cup {0} /\ (s[l].type = "End" => s[l].id = 0)
    BY DEF AmPairs
  <2> QED BY <2>1, <2>2, <2>3
<1>5. ASSUME NEW k \in DOMAIN g, NEW l \in DOMAIN g, g[k].id = g[l].id, g[k].id # 0 PROVE k = l
  <2>1. PICK i \in DOMAIN s \ {p} : g[k] = s[i] /\ i = IF k < p THEN k ELSE k + 1
    BY <1>2
  <2>2. PICK j \in DOMAIN s \ {p} : g[l] = s[j] /\ j = IF l < p THEN l ELSE l + 1
    BY <1>2
  <2>3. i = j
    BY <1>5, <2>1, <2>2 DEF AmPairs
  <2> QED BY <1>0, <2>1, <2>2, <2>3
<1>6. g[Len(g)].type = "End"
  <2>1. Len(g) \in p .. Len(s) - 1 /\ Len(g) + 1 = Len(s)
    BY <1>0
  <2>2. g[Len(g)] = s[Len(g) + 1]
    BY <2>1 DEF AmShrunk
  <2> QED BY <2>1, <2>2 DEF AmPairs
<1> QED BY <1>0, <1>1, <1>3, <1>4, <1>5, <1>6 DEF AmPairs

LEMMA AmWholeShrunk ==
    ASSUME NEW s, NEW g, NEW p, AmShrunk(s, g, p), AmWhole(s)
    PROVE  AmWhole(g)
<1>0. Len(s) \in Nat /\ Len(g) = Len(s) - 1 /\ p \in Nat /\ p <= Len(s) - 1
  BY DEF AmShrunk
<1>1. ASSUME NEW k \in DOMAIN g
      PROVE  /\ g[k].type = "End" => k = Len(g)
             /\ g[k].type \in {"Item", "Sub"} => g[k].id # 0
  <2>1. /\ k \in Nat
        /\ \/ k < p /\ k \in DOMAIN s /\ g[k] = s[k]
           \/ k >= p /\ k + 1 \in DOMAIN s /\ g[k] = s[k + 1]
    BY AmIsOld
  <2>2. CASE k < p
    BY <1>0, <2>1, <2>2 DEF AmWhole
  <2>3. CASE k >= p
    <3>1. k + 1 \in DOMAIN s /\ g[k] = s[k + 1]
      BY <1>0, <2>1, <2>3
    <3>2. /\ s[k + 1].type = "End" => k + 1 = Len(s)
          /\ s[k + 1].type \in {"Item", "Sub"} => s[k + 1].id # 0
      BY <3>1 DEF AmWhole
    <3> QED BY <1>0, <2>1, <3>1, <3>2
  <2> QED BY <1>0, <2>1, <2>2, <2>3
<1> QED BY <1>1 DEF AmWhole

LEMMA AmRemoveItem ==
    ASSUME A!InOrder, NEW id, A!RemoveItem(id)
    PROVE  A!InOrder'
<1> DEFINE p == A!FindItem(id)
           g == A!RemoveAt(newMenus, p)
           h == A!RemoveAt(mappings, p)
<1>0. /\ newMenus \in Seq(A!Entries) /\ mappings \in Seq(A!Mappings) /\ native \in Seq(A!Entries)
      /\ items \in Descriptions /\ added \subseteq A!Ids \ {0}
      /\ itemsAsked \in [A!Ids -> [checked : BOOLEAN, disabled : BOOLEAN]]
      /\ \A k \in DOMAIN native : native[k].type # "End"
  BY DEF A!InOrder, A!Typed
<1>1. A!Paired /\ AmPairs(newMenus, mappings, added) /\ (~A!HasSubMenus => AmWhole(newMenus))
  BY AmMeansGood DEF AmGood, A!InOrder
<1>2. /\ id \in added /\ p # 0 /\ newMenus' = g /\ mappings' = h /\ added' = added \ {id}
      /\ displaced' = TRUE /\ items' = items /\ itemsAsked' = itemsAsked
  BY DEF A!RemoveItem
<1>3. \/ native' = A!CreateMenus(g) /\ failed' = FALSE
      \/ native' = native /\ failed' = TRUE
  BY <1>2 DEF A!RemoveItem, A!Rebuild
<1>3a. attached' \in BOOLEAN /\ missed' \in BOOLEAN
  BY DEF A!RemoveItem, A!Rebuild, A!InOrder, A!Typed
<1>4. p \in DOMAIN newMenus /\ newMenus[p].id = id
  BY <1>0, <1>1, <1>2, AmFind
<1> HIDE DEF p, g, h
<1>5. id # 0 /\ p # Len(newMenus)
  <2>1. id # 0
    BY <1>0, <1>2
  <2> QED BY <1>1, <1>4, <2>1 DEF AmPairs
<1>6. Len(mappings) = Len(newMenus) /\ Len(newMenus) \in Nat /\ p \in 1 .. Len(newMenus)
      /\ p \in 1 .. Len(newMenus) - 1
      /\ DOMAIN newMenus = 1 .. Len(newMenus) /\ DOMAIN mappings = 1 .. Len(mappings)
  BY <1>0, <1>1, <1>4, <1>5 DEF AmPairs
<1>7. /\ g \in Seq(A!Entries) /\ Len(g) = Len(newMenus) - 1
      /\ \A k \in 1 .. p - 1 : g[k] = newMenus[k]
      /\ \A k \in p .. Len(newMenus) - 1 : g[k] = newMenus[k + 1]
  <2>1. newMenus \in Seq(A!Entries) /\ p \in 1 .. Len(newMenus)
    BY <1>0, <1>6
  <2>2. LET r == A!RemoveAt(newMenus, p)
        IN /\ r \in Seq(A!Entries) /\ Len(r) = Len(newMenus) - 1
           /\ \A k \in 1 .. p - 1 : r[k] = newMenus[k]
           /\ \A k \in p .. Len(newMenus) - 1 : r[k] = newMenus[k + 1]
    BY <2>1, AmRemoveAt
  <2> QED BY <2>2 DEF g
<1>8. /\ h \in Seq(A!Mappings) /\ Len(h) = Len(mappings) - 1
      /\ \A k \in 1 .. p - 1 : h[k] = mappings[k]
      /\ \A k \in p .. Len(mappings) - 1 : h[k] = mappings[k + 1]
  <2>1. mappings \in Seq(A!Mappings) /\ p \in 1 .. Len(mappings)
    BY <1>0, <1>6
  <2>2. LET r == A!RemoveAt(mappings, p)
        IN /\ r \in Seq(A!Mappings) /\ Len(r) = Len(mappings) - 1
           /\ \A k \in 1 .. p - 1 : r[k] = mappings[k]
           /\ \A k \in p .. Len(mappings) - 1 : r[k] = mappings[k + 1]
    BY <2>1, AmRemoveAt
  <2> QED BY <2>2 DEF h
<1>9. AmShrunk(newMenus, g, p) /\ AmShrunk(mappings, h, p)
  <2>1. DOMAIN g = 1 .. Len(g) /\ DOMAIN h = 1 .. Len(h) /\ Len(mappings) \in Nat
    BY <1>6, <1>7, <1>8
  <2> QED BY <1>6, <1>7, <1>8, <2>1 DEF AmShrunk
<1>10. AmPairs(g, h, added \ {id})
  <2>1. newMenus[p].id # 0
    BY <1>4, <1>5
  <2> QED BY <1>1, <1>4, <1>9, <2>1, AmPairsShrunk
<1>11. ~A!HasSubMenus => AmWhole(g)
  BY <1>1, <1>9, AmWholeShrunk
<1>12. native' \in Seq(A!Entries) /\ \A k \in DOMAIN native' : native'[k].type # "End"
  <2> DEFINE c == A!CreateMenus(g)
  <2>1. c \in Seq(A!Entries) /\ \A k \in 1 .. Len(c) : c[k] = g[k] /\ g[k].type # "End"
    BY <1>7, AmCreate
  <2> HIDE DEF c
  <2>2. \A k \in DOMAIN c : c[k].type # "End"
    BY <2>1
  <2> QED BY <1>0, <1>3, <2>1, <2>2 DEF c
<1>13. A!Typed'
  <2>1. failed' \in BOOLEAN /\ added' \subseteq A!Ids \ {0} /\ displaced' \in BOOLEAN
    BY <1>0, <1>2, <1>3
  <2> QED BY <1>0, <1>2, <1>3a, <1>7, <1>8, <1>12, <2>1 DEF A!Typed
<1>14. ~failed' \/ ~displaced' => A!Alike(native', A!CreateMenus(g))
  <2>1. A!Alike(A!CreateMenus(g), A!CreateMenus(g))
    BY AmRefl
  <2> QED BY <1>2, <1>3, <2>1
<1>15. AmGood(newMenus', mappings', native', itemsAsked', added', displaced', failed', missed')
  BY <1>2, <1>10, <1>11, <1>14 DEF AmGood
<1> QED BY <1>2, <1>13, <1>15, AmThen

LEMMA AmUpdateItem ==
    ASSUME A!InOrder, NEW id, A!UpdateItem(id)
    PROVE  A!InOrder'
<1>0. /\ newMenus \in Seq(A!Entries) /\ mappings \in Seq(A!Mappings) /\ native \in Seq(A!Entries)
      /\ items \in Descriptions /\ added \subseteq A!Ids \ {0} /\ displaced \in BOOLEAN
      /\ itemsAsked \in [A!Ids -> [checked : BOOLEAN, disabled : BOOLEAN]]
      /\ \A k \in DOMAIN native : native[k].type # "End"
  BY DEF A!InOrder, A!Typed
<1>1. AmGood(newMenus, mappings, native, itemsAsked, added, displaced, failed, missed)
  BY AmMeansGood
<1>2. /\ newMenus' = newMenus /\ mappings' = mappings /\ added' = added
      /\ displaced' = displaced /\ items' = items /\ itemsAsked' = itemsAsked
  BY DEF A!UpdateItem
<1> DEFINE c == A!CreateMenus(newMenus)
<1>3. \/ native' = c /\ failed' = FALSE /\ missed' = FALSE
      \/ native' = native /\ failed' = TRUE /\ missed' = missed
  BY <1>2 DEF A!UpdateItem, A!Rebuild
<1>3a. attached' \in BOOLEAN /\ missed' \in BOOLEAN
  BY DEF A!UpdateItem, A!Rebuild, A!InOrder, A!Typed
<1>4. c \in Seq(A!Entries) /\ \A k \in DOMAIN c : c[k].type # "End"
  <2>1. c \in Seq(A!Entries) /\ \A k \in 1 .. Len(c) : c[k] = newMenus[k] /\ newMenus[k].type # "End"
    BY <1>0, AmCreate
  <2> HIDE DEF c
  <2> QED BY <2>1
<1>5. ASSUME ~A!HasSubMenus, ~displaced PROVE AmKeeps(newMenus, mappings, c, itemsAsked, FALSE)
  <2>1. AmArray(newMenus) /\ AmKeeps(newMenus, mappings, native, itemsAsked, missed)
    BY <1>5, AmNowArray
  <2>2. \A k \in 1 .. Len(newMenus) - 1 : c[k] = newMenus[k]
    BY <2>1, AmCreateArray
  <2> HIDE DEF c
  <2>3. ASSUME NEW k \in DOMAIN newMenus, AmAddressed(newMenus, mappings, k) PROVE newMenus[k] = c[k]
    <3>1. newMenus[k].type # "End" /\ newMenus[Len(newMenus)].type = "End"
      BY <2>1, <2>3 DEF AmAddressed, AmArray
    <3>2. k \in 1 .. Len(newMenus) - 1
      BY <1>0, <3>1
    <3> QED BY <2>2, <3>2
  <2> QED BY <2>1, <2>3 DEF AmKeeps, AmSame
<1>6. A!Alike(c, A!CreateMenus(newMenus))
  BY AmRefl
<1> HIDE DEF c
<1>7. A!Typed'
  BY <1>0, <1>2, <1>3, <1>3a, <1>4 DEF A!Typed
<1>8. AmGood(newMenus, mappings, native', itemsAsked, added, displaced, failed', missed')
  BY <1>1, <1>3, <1>5, <1>6 DEF AmGood
<1> QED BY <1>2, <1>7, <1>8, AmThen

AmChecked(e, b) == [e EXCEPT !.checked = b]
AmDisabled(e, b) == [e EXCEPT !.disabled = b]

LEMMA AmEntrySet ==
    ASSUME NEW e \in A!Entries, NEW b \in BOOLEAN
    PROVE  /\ AmChecked(e, b) \in A!Entries /\ AmDisabled(e, b) \in A!Entries
           /\ AmChecked(e, b).type = e.type /\ AmDisabled(e, b).type = e.type
           /\ AmChecked(e, b).id = e.id /\ AmDisabled(e, b).id = e.id
           /\ AmChecked(e, b).checked = b /\ AmDisabled(e, b).checked = e.checked
           /\ AmChecked(e, b).disabled = e.disabled /\ AmDisabled(e, b).disabled = b
BY DEF A!Entries, AmChecked, AmDisabled

LEMMA AmMapped ==
    ASSUME NEW v \in Seq(A!Entries), NEW w, w = [k \in DOMAIN v |-> w[k]],
           \A k \in DOMAIN v : w[k] \in A!Entries /\ w[k].type = v[k].type /\ w[k].id = v[k].id
    PROVE  w \in Seq(A!Entries) /\ DOMAIN w = DOMAIN v /\ A!Alike(v, w)
<1>1. DOMAIN v = 1 .. Len(v) /\ Len(v) \in Nat
  OBVIOUS
<1>2. w \in [1 .. Len(v) -> A!Entries]
  BY <1>1
<1>3. w \in Seq(A!Entries) /\ Len(w) = Len(v)
  BY <1>1, <1>2
<1> QED BY <1>1, <1>3 DEF A!Alike

\* Entries and items whose types and commands stay.
LEMMA AmSet ==
    ASSUME A!InOrder,
           UNCHANGED <<items, mappings, added, displaced, failed>>,
           newMenus' \in Seq(A!Entries), A!Alike(newMenus, newMenus'),
           native' \in Seq(A!Entries), A!Alike(native, native'),
           itemsAsked' \in [A!Ids -> [checked : BOOLEAN, disabled : BOOLEAN]],
           attached' \in BOOLEAN, missed' \in BOOLEAN,
           ~A!HasSubMenus /\ ~displaced =>
               AmKeeps(newMenus', mappings, native', itemsAsked', missed')
    PROVE  A!InOrder'
<1>0. /\ newMenus \in Seq(A!Entries) /\ mappings \in Seq(A!Mappings) /\ native \in Seq(A!Entries)
      /\ items \in Descriptions /\ added \subseteq A!Ids \ {0} /\ displaced \in BOOLEAN
      /\ failed \in BOOLEAN /\ \A k \in DOMAIN native : native[k].type # "End"
  BY DEF A!InOrder, A!Typed
<1>1. AmGood(newMenus, mappings, native, itemsAsked, added, displaced, failed, missed)
  BY AmMeansGood
<1>2. AmPairs(newMenus, mappings, added) /\ newMenus # <<>>
  BY <1>1 DEF AmGood, AmPairs
<1>3. /\ AmPairs(newMenus', mappings, added)
      /\ AmWhole(newMenus) => AmWhole(newMenus')
      /\ AmRows(newMenus) => AmRows(newMenus')
  BY <1>0, <1>2, AmAlike
<1>4. ASSUME ~failed \/ ~displaced PROVE A!Alike(native', A!CreateMenus(newMenus'))
  <2> DEFINE a == native
             b == native'
             c == A!CreateMenus(newMenus)
             d == A!CreateMenus(newMenus')
  <2>1. A!Alike(a, c)
    BY <1>1, <1>4 DEF AmGood
  <2>2. A!Alike(c, d)
    BY <1>0, AmCreateAlike
  <2>3. A!Alike(a, b)
    OBVIOUS
  <2>4. a \in Seq(A!Entries) /\ b \in Seq(A!Entries) /\ c \in Seq(A!Entries)
    BY <1>0, AmCreate
  <2> HIDE DEF a, b, c, d
  <2>5. /\ Len(a) = Len(c) /\ \A k \in DOMAIN a : a[k].type = c[k].type /\ a[k].id = c[k].id
        /\ Len(c) = Len(d) /\ \A k \in DOMAIN c : c[k].type = d[k].type /\ c[k].id = d[k].id
        /\ Len(a) = Len(b) /\ \A k \in DOMAIN a : a[k].type = b[k].type /\ a[k].id = b[k].id
    BY <2>1, <2>2, <2>3, Zenon DEF A!Alike
  <2>6. DOMAIN a = DOMAIN b /\ DOMAIN a = DOMAIN c
    BY <2>4, <2>5
  <2>7. A!Alike(b, d)
    BY <2>5, <2>6, Zenon DEF A!Alike
  <2> QED BY <2>7 DEF b, d
<1>5. \A k \in DOMAIN native' : native'[k].type # "End"
  BY <1>0 DEF A!Alike
<1>6. A!Typed'
  BY <1>0, <1>5 DEF A!Typed
<1>7. AmGood(newMenus', mappings', native', itemsAsked', added', displaced', failed', missed')
  BY <1>1, <1>3, <1>4 DEF AmGood
<1> QED BY <1>6, <1>7, AmThen

\* Only one entry, and items its number denotes or that are its own, change.
AmMoves(n, mp, v, ask, m, i, g, w, next, o) ==
    /\ AmArray(n) /\ v \in Seq(A!Entries) /\ A!Alike(v, A!CreateMenus(n))
    /\ mp \in Seq(A!Mappings) /\ Len(mp) = Len(n) /\ AmKeeps(n, mp, v, ask, m) /\ (m => o)
    /\ i \in DOMAIN n /\ g \in Seq(A!Entries) /\ A!Alike(n, g)
    /\ \A k \in DOMAIN n \ {i} : g[k] = n[k]
    /\ \A k \in DOMAIN v \ {i} : k \notin A!ItemAddress(v, mp[i].num) => w[k] = v[k]
    /\ \A k \in DOMAIN n \ {i} : next[n[k].id] = ask[n[k].id]
    /\ AmAddressed(n, mp, i) => /\ AmSame(g[i], w[i], o) /\ g[i].checked = next[n[i].id].checked
                                /\ g[i].disabled = next[n[i].id].disabled

LEMMA AmKeepsSet ==
    ASSUME NEW n, NEW mp, NEW v, NEW ask, NEW m, NEW i, NEW g, NEW w, NEW next, NEW o,
           AmMoves(n, mp, v, ask, m, i, g, w, next, o)
    PROVE  AmKeeps(g, mp, w, next, o)
<1>a. /\ AmArray(n) /\ v \in Seq(A!Entries) /\ A!Alike(v, A!CreateMenus(n))
      /\ mp \in Seq(A!Mappings) /\ Len(mp) = Len(n) /\ AmKeeps(n, mp, v, ask, m) /\ (m => o)
      /\ i \in DOMAIN n /\ g \in Seq(A!Entries) /\ A!Alike(n, g)
      /\ \A k \in DOMAIN n \ {i} : g[k] = n[k]
  BY DEF AmMoves
<1>b. /\ \A k \in DOMAIN v \ {i} : k \notin A!ItemAddress(v, mp[i].num) => w[k] = v[k]
      /\ \A k \in DOMAIN n \ {i} : next[n[k].id] = ask[n[k].id]
      /\ AmAddressed(n, mp, i) => /\ AmSame(g[i], w[i], o)
                                  /\ g[i].checked = next[n[i].id].checked
                                  /\ g[i].disabled = next[n[i].id].disabled
  BY DEF AmMoves
<1>0. n \in Seq(A!Entries) /\ DOMAIN g = DOMAIN n /\ DOMAIN mp = DOMAIN n
  BY <1>a DEF AmArray, A!Alike
<1>1. ASSUME NEW k \in DOMAIN g, AmAddressed(g, mp, k)
      PROVE  /\ mp[k].num = A!NumberOf(g, k) /\ AmSame(g[k], w[k], o)
             /\ g[k].checked = next[g[k].id].checked /\ g[k].disabled = next[g[k].id].disabled
  <2>1. k \in DOMAIN n /\ AmAddressed(n, mp, k) /\ A!NumberOf(g, k) = A!NumberOf(n, k)
    BY <1>a, <1>0, <1>1, AmAlike
  <2>2. /\ mp[k].num = A!NumberOf(n, k) /\ AmSame(n[k], v[k], m)
        /\ n[k].checked = ask[n[k].id].checked /\ n[k].disabled = ask[n[k].id].disabled
    BY <1>a, <2>1 DEF AmKeeps
  <2>3. CASE k = i
    <3>1. g[i].id = n[i].id
      BY <1>a DEF A!Alike
    <3> QED BY <1>b, <2>1, <2>2, <2>3, <3>1
  <2>4. CASE k # i
    <3>1. AmHasAddress(n, k)
      BY <2>1 DEF AmAddressed, AmHasAddress
    <3>2. k \in DOMAIN v /\ A!NumberOf(v, k) = A!NumberOf(n, k)
      BY <1>a, <3>1, <2>1, AmDenoted
    <3>3. mp[i].num # mp[k].num
      <4>1. i \in DOMAIN mp
        BY <1>a, <1>0
      <4> QED BY <2>1, <2>4, <4>1 DEF AmAddressed
    <3>4. k \notin A!ItemAddress(v, mp[i].num)
      BY <2>2, <3>2, <3>3 DEF A!ItemAddress
    <3>5. w[k] = v[k] /\ g[k] = n[k] /\ next[n[k].id] = ask[n[k].id]
      BY <1>a, <1>b, <2>1, <2>4, <3>2, <3>4
    <3>6. AmSame(g[k], w[k], o)
      BY <1>a, <2>2, <3>5 DEF AmSame
    <3> QED BY <2>1, <2>2, <3>5, <3>6
  <2> QED BY <2>3, <2>4
<1> QED BY <1>1 DEF AmKeeps

\* Of a command the client has, the entry and its mapping.
LEMMA AmHasEntry ==
    ASSUME A!InOrder, NEW id \in added
    PROVE  LET i == A!FindItem(id)
           IN /\ i \in DOMAIN newMenus /\ newMenus[i].id = id /\ i # 0 /\ id # 0 /\ id \in A!Ids
              /\ A!FindMapping(id) = mappings[i].num
              /\ \A k \in DOMAIN newMenus \ {i} : newMenus[k].id # id
<1>1. newMenus \in Seq(A!Entries) /\ mappings \in Seq(A!Mappings) /\ added \subseteq A!Ids \ {0}
  BY DEF A!InOrder, A!Typed
<1>2. A!Paired
  BY DEF A!InOrder
<1>3. PICK k \in DOMAIN newMenus : newMenus[k].id = id
  BY <1>2 DEF A!Paired
<1>4. id # 0 /\ id \in A!Ids
  BY <1>1
<1>5. A!FindItem(id) = k
  BY <1>1, <1>2, <1>3, <1>4, AmFind
<1>6. k # 0
  BY <1>1
<1>7. A!FindMapping(id) = mappings[k].num
  BY <1>5, <1>6 DEF A!FindMapping
<1>8. \A l \in DOMAIN newMenus \ {k} : newMenus[l].id # id
  BY <1>2, <1>3, <1>4 DEF A!Paired
<1> QED BY <1>3, <1>4, <1>5, <1>6, <1>7, <1>8


\* The state of a command's entry, and of the items its number denotes, changes.
LEMMA AmSetItem ==
    ASSUME A!InOrder, NEW id \in added, UNCHANGED <<items, mappings, added, displaced, failed>>,
           attached' \in BOOLEAN, missed' \in BOOLEAN, missed => missed',
           NEW i, i = A!FindItem(id),
           NEW ask \in [checked : BOOLEAN, disabled : BOOLEAN], itemsAsked' = [itemsAsked EXCEPT ![id] = ask],
           newMenus' \in Seq(A!Entries), A!Alike(newMenus, newMenus'),
           \A k \in DOMAIN newMenus \ {i} : newMenus'[k] = newMenus[k],
           native' \in Seq(A!Entries), A!Alike(native, native'),
           \A k \in DOMAIN native : k \notin A!Denoted(id) /\ native[k].id # id => native'[k] = native[k],
           ~A!HasSubMenus /\ ~displaced /\ AmAddressed(newMenus, mappings, i) =>
               /\ AmSame(newMenus'[i], native'[i], missed')
               /\ newMenus'[i].checked = ask.checked /\ newMenus'[i].disabled = ask.disabled
    PROVE  A!InOrder'
<1>0. /\ newMenus \in Seq(A!Entries) /\ mappings \in Seq(A!Mappings) /\ native \in Seq(A!Entries)
      /\ itemsAsked \in [A!Ids -> [checked : BOOLEAN, disabled : BOOLEAN]]
  BY DEF A!InOrder, A!Typed
<1>1. /\ i \in DOMAIN newMenus /\ newMenus[i].id = id /\ id # 0 /\ id \in A!Ids
      /\ A!FindMapping(id) = mappings[i].num
      /\ \A k \in DOMAIN newMenus \ {i} : newMenus[k].id # id
  BY AmHasEntry
<1> DEFINE n == newMenus
           g == newMenus'
           mp == mappings
           v == native
           w == native'
           next == itemsAsked'
           m == missed
           o == missed'
<1>2. next \in [A!Ids -> [checked : BOOLEAN, disabled : BOOLEAN]]
      /\ next[id] = ask /\ \A j : j # id => next[j] = itemsAsked[j]
  BY <1>0, <1>1
<1>3. ASSUME ~A!HasSubMenus, ~displaced PROVE AmKeeps(g, mp, w, next, o)
  <2>1. AmArray(n) /\ A!Alike(v, A!CreateMenus(n)) /\ AmKeeps(n, mp, v, itemsAsked, m)
    BY <1>3, AmNowArray
  <2>2. AmPairs(n, mp, added)
    BY AmMeansGood DEF AmGood
  <2>3. v \in Seq(A!Entries) /\ mp \in Seq(A!Mappings) /\ i \in DOMAIN n /\ n[i].id # 0
        /\ g \in Seq(A!Entries) /\ A!Alike(n, g) /\ \A k \in DOMAIN n \ {i} : g[k] = n[k]
    BY <1>0, <1>1
  <2>4. A!Denoted(id) = A!ItemAddress(v, mp[i].num)
    BY <1>1 DEF A!Denoted
  <2>5. \A k \in DOMAIN v : k \in DOMAIN n /\ v[k].id = n[k].id
    <3>1. Len(v) = Len(n) - 1 /\ \A k \in DOMAIN v : v[k].id = n[k].id
      BY <1>0, <2>1, AmDenoted
    <3> QED BY <1>0, <3>1
  <2>6. \A k \in DOMAIN v \ {i} : k \notin A!ItemAddress(v, mp[i].num) => w[k] = v[k]
    BY <1>1, <2>4, <2>5
  <2>7. \A k \in DOMAIN n \ {i} : next[n[k].id] = itemsAsked[n[k].id]
    BY <1>1, <1>2
  <2>8. AmAddressed(n, mp, i) => /\ AmSame(g[i], w[i], o) /\ g[i].checked = next[n[i].id].checked
                                 /\ g[i].disabled = next[n[i].id].disabled
    BY <1>1, <1>2, <1>3
  <2>9. Len(mp) = Len(n)
    BY <2>2 DEF AmPairs
  <2>0. m => o
    OBVIOUS
  <2> HIDE DEF n, g, mp, v, w, next, m, o
  <2>10. AmMoves(n, mp, v, itemsAsked, m, i, g, w, next, o)
    BY <2>0, <2>1, <2>3, <2>6, <2>7, <2>8, <2>9 DEF AmMoves
  <2> QED BY <2>10, AmKeepsSet
<1> QED BY <1>2, <1>3, AmSet

\* An item that is addressed is denoted by its number, and is as asked.
LEMMA AmAddressedIs ==
    ASSUME A!InOrder, ~A!HasSubMenus, ~displaced, NEW i \in DOMAIN newMenus,
           AmAddressed(newMenus, mappings, i)
    PROVE  /\ i \in DOMAIN native /\ mappings[i].num # A!NotFound
           /\ A!ItemAddress(native, mappings[i].num) = {i}
           /\ mappings[i].num = A!NumberOf(newMenus, i) /\ AmSame(newMenus[i], native[i], missed)
           /\ newMenus[i].checked = itemsAsked[newMenus[i].id].checked
           /\ newMenus[i].disabled = itemsAsked[newMenus[i].id].disabled
<1>1. /\ AmArray(newMenus) /\ A!Alike(native, A!CreateMenus(newMenus))
      /\ AmKeeps(newMenus, mappings, native, itemsAsked, missed) /\ native \in Seq(A!Entries)
  BY AmNowArray DEF A!InOrder, A!Typed
<1>2. /\ mappings[i].num = A!NumberOf(newMenus, i) /\ AmSame(newMenus[i], native[i], missed)
      /\ newMenus[i].checked = itemsAsked[newMenus[i].id].checked
      /\ newMenus[i].disabled = itemsAsked[newMenus[i].id].disabled
  BY <1>1 DEF AmKeeps
<1>3. AmHasAddress(newMenus, i) /\ mappings[i].num # A!NotFound
  BY DEF AmAddressed, AmHasAddress
<1>4. i \in DOMAIN native /\ A!ItemAddress(native, A!NumberOf(newMenus, i)) = {i}
  BY <1>1, <1>3, AmDenoted
<1> QED BY <1>2, <1>3, <1>4

LEMMA AmSetOne ==
    ASSUME NEW n \in Seq(A!Entries), NEW i \in DOMAIN n, NEW e \in A!Entries,
           e.type = n[i].type, e.id = n[i].id, NEW g, g = [n EXCEPT ![i] = e]
    PROVE  /\ g \in Seq(A!Entries) /\ A!Alike(n, g) /\ g[i] = e
           /\ \A k \in DOMAIN n \ {i} : g[k] = n[k]
<1>1. g \in Seq(A!Entries) /\ Len(g) = Len(n) /\ g[i] = e /\ \A k \in DOMAIN n \ {i} : g[k] = n[k]
  OBVIOUS
<1> QED BY <1>1 DEF A!Alike

LEMMA AmCheckItem ==
    ASSUME A!InOrder, NEW id, NEW enable \in BOOLEAN, A!CheckItem(id, enable)
    PROVE  A!InOrder'
<1> DEFINE i == A!FindItem(id)
           ask == [itemsAsked[id] EXCEPT !.checked = enable]
           moved == A!FindMapping(id) # A!NotFound /\ A!Denoted(id) # {}
<1>0. /\ newMenus \in Seq(A!Entries) /\ native \in Seq(A!Entries)
      /\ itemsAsked \in [A!Ids -> [checked : BOOLEAN, disabled : BOOLEAN]]
  BY DEF A!InOrder, A!Typed
<1>1. id \in added /\ UNCHANGED <<items, mappings, added, displaced, failed>>
      /\ itemsAsked' = [itemsAsked EXCEPT ![id].checked = enable]
  BY DEF A!CheckItem
<1>a. attached' \in BOOLEAN /\ missed' = missed /\ missed' \in BOOLEAN
  BY DEF A!CheckItem, A!InOrder, A!Typed
<1>2. /\ i \in DOMAIN newMenus /\ newMenus[i].id = id /\ id # 0 /\ id \in A!Ids
      /\ A!FindMapping(id) = mappings[i].num
  BY <1>1, AmHasEntry
<1>3. ask \in [checked : BOOLEAN, disabled : BOOLEAN] /\ itemsAsked' = [itemsAsked EXCEPT ![id] = ask]
      /\ ask.checked = enable /\ ask.disabled = itemsAsked[id].disabled
  BY <1>0, <1>1, <1>2
<1>4. moved => /\ newMenus' = [newMenus EXCEPT ![i] = AmChecked(newMenus[i], enable)]
               /\ native' = [k \in DOMAIN native |->
                      IF k \in A!Denoted(id) THEN AmChecked(native[k], enable) ELSE native[k]]
  BY <1>0, <1>2 DEF A!CheckItem, AmChecked
<1>5. ~moved => newMenus' = newMenus /\ native' = native
  BY DEF A!CheckItem
<1>6. ~A!HasSubMenus /\ ~displaced /\ AmAddressed(newMenus, mappings, i) =>
         /\ moved /\ A!Denoted(id) = {i} /\ AmSame(newMenus[i], native[i], missed)
         /\ i \in DOMAIN native
         /\ newMenus[i].disabled = itemsAsked[id].disabled
  BY <1>2, AmAddressedIs DEF A!Denoted
<1>i. i = A!FindItem(id)
  OBVIOUS
<1> HIDE DEF i, ask, moved
<1>7. CASE moved
  <2> DEFINE e == AmChecked(newMenus[i], enable)
             w == [k \in DOMAIN native |->
                      IF k \in A!Denoted(id) THEN AmChecked(native[k], enable) ELSE native[k]]
  <2>0. newMenus[i] \in A!Entries
    BY <1>0, <1>2
  <2>1. e \in A!Entries /\ e.type = newMenus[i].type /\ e.id = newMenus[i].id /\ e.checked = enable
        /\ e.disabled = newMenus[i].disabled
    BY <2>0, AmEntrySet
  <2>2. /\ newMenus' \in Seq(A!Entries) /\ A!Alike(newMenus, newMenus') /\ newMenus'[i] = e
        /\ \A k \in DOMAIN newMenus \ {i} : newMenus'[k] = newMenus[k]
    <3> HIDE DEF e
    <3>1. newMenus' = [newMenus EXCEPT ![i] = e]
      BY <1>4, <1>7 DEF e
    <3> QED BY <1>0, <1>2, <2>1, <3>1, AmSetOne
  <2>3. \A k \in DOMAIN native :
           w[k] = IF k \in A!Denoted(id) THEN AmChecked(native[k], enable) ELSE native[k]
    OBVIOUS
  <2>4. \A k \in DOMAIN native : w[k] \in A!Entries /\ w[k].type = native[k].type /\ w[k].id = native[k].id
    <3> SUFFICES ASSUME NEW k \in DOMAIN native
                 PROVE  w[k] \in A!Entries /\ w[k].type = native[k].type /\ w[k].id = native[k].id
      OBVIOUS
    <3>1. native[k] \in A!Entries
      BY <1>0
    <3> HIDE DEF w
    <3> QED BY <2>3, <3>1, AmEntrySet
  <2>5. w = [k \in DOMAIN native |-> w[k]]
    OBVIOUS
  <2>6. native' = w
    BY <1>4, <1>7
  <2> HIDE DEF e, w
  <2>7. native' \in Seq(A!Entries) /\ A!Alike(native, native')
    BY <1>0, <2>4, <2>5, <2>6, AmMapped
  <2>8. \A k \in DOMAIN native : k \notin A!Denoted(id) /\ native[k].id # id => native'[k] = native[k]
    BY <2>3, <2>6
  <2>9. ASSUME ~A!HasSubMenus, ~displaced, AmAddressed(newMenus, mappings, i)
        PROVE  /\ AmSame(newMenus'[i], native'[i], missed')
               /\ newMenus'[i].checked = ask.checked /\ newMenus'[i].disabled = ask.disabled
    <3>1. A!Denoted(id) = {i} /\ AmSame(newMenus[i], native[i], missed) /\ i \in DOMAIN native
          /\ newMenus[i].disabled = itemsAsked[id].disabled
      BY <1>6, <2>9
    <3>2. native'[i] = AmChecked(native[i], enable)
      BY <2>3, <2>6, <3>1
    <3>3. AmChecked(native[i], enable).checked = enable
      BY <1>0, <3>1, AmEntrySet
    <3>4. AmSame(newMenus'[i], native'[i], missed')
      BY <1>a, <2>1, <2>2, <3>1, <3>2, <3>3 DEF AmSame, e
    <3> QED BY <1>3, <2>1, <2>2, <3>1, <3>4
  <2>10. ~A!HasSubMenus /\ ~displaced /\ AmAddressed(newMenus, mappings, i) =>
            /\ AmSame(newMenus'[i], native'[i], missed')
            /\ newMenus'[i].checked = ask.checked /\ newMenus'[i].disabled = ask.disabled
    BY <2>9
  <2>11. id \in added /\ UNCHANGED <<items, mappings, added, displaced, failed>>
    BY <1>1
  <2>12. ask \in [checked : BOOLEAN, disabled : BOOLEAN] /\ itemsAsked' = [itemsAsked EXCEPT ![id] = ask]
    BY <1>3
  <2>13. /\ newMenus' \in Seq(A!Entries) /\ A!Alike(newMenus, newMenus')
         /\ \A k \in DOMAIN newMenus \ {i} : newMenus'[k] = newMenus[k]
    BY <2>2
  <2> QED BY <1>a, <1>i, <2>7, <2>8, <2>10, <2>11, <2>12, <2>13, AmSetItem
<1>8. CASE ~moved
  <2>1. A!Alike(newMenus, newMenus') /\ A!Alike(native, native')
    BY <1>5, <1>8, AmRefl
  <2>2. ~(~A!HasSubMenus /\ ~displaced /\ AmAddressed(newMenus, mappings, i))
    BY <1>6, <1>8
  <2> QED BY <1>0, <1>a, <1>1, <1>3, <1>5, <1>8, <2>1, <2>2, <1>i, AmSetItem
<1> QED BY <1>7, <1>8

LEMMA AmEnableItem ==
    ASSUME A!InOrder, NEW id, NEW enable \in BOOLEAN, A!EnableItem(id, enable)
    PROVE  A!InOrder'
<1> DEFINE i == A!FindItem(id)
           b == ~enable
           ask == [itemsAsked[id] EXCEPT !.disabled = b]
           moved == A!FindMapping(id) # A!NotFound
           hit == {k \in A!Denoted(id) : attached}
<1>0. /\ newMenus \in Seq(A!Entries) /\ native \in Seq(A!Entries)
      /\ itemsAsked \in [A!Ids -> [checked : BOOLEAN, disabled : BOOLEAN]]
  BY DEF A!InOrder, A!Typed
<1>1. id \in added /\ UNCHANGED <<items, mappings, added, displaced, failed>>
      /\ itemsAsked' = [itemsAsked EXCEPT ![id].disabled = b]
  BY DEF A!EnableItem
<1>a. attached' \in BOOLEAN /\ missed' \in BOOLEAN /\ (missed => missed')
  BY DEF A!EnableItem, A!InOrder, A!Typed
<1>2. /\ i \in DOMAIN newMenus /\ newMenus[i].id = id /\ id # 0 /\ id \in A!Ids
      /\ A!FindMapping(id) = mappings[i].num
  BY <1>1, AmHasEntry
<1>3. ask \in [checked : BOOLEAN, disabled : BOOLEAN] /\ itemsAsked' = [itemsAsked EXCEPT ![id] = ask]
      /\ ask.disabled = b /\ ask.checked = itemsAsked[id].checked
  BY <1>0, <1>1, <1>2
<1>4. moved => /\ newMenus' = [newMenus EXCEPT ![i] = AmDisabled(newMenus[i], b)]
               /\ native' = [k \in DOMAIN native |->
                      IF k \in hit THEN AmDisabled(native[k], b) ELSE native[k]]
               /\ missed' = (missed \/ ~attached)
  <2>1. moved => /\ newMenus' = [newMenus EXCEPT ![i] = AmDisabled(newMenus[i], b)]
                 /\ native' = [k \in DOMAIN native |->
                        IF attached /\ k \in A!Denoted(id) THEN AmDisabled(native[k], b) ELSE native[k]]
                 /\ missed' = (missed \/ ~attached)
    BY <1>0, <1>2 DEF A!EnableItem, AmDisabled
  <2>2. \A k : k \in hit <=> attached /\ k \in A!Denoted(id)
    OBVIOUS
  <2> HIDE DEF hit, moved, b, i
  <2> QED BY <2>1, <2>2
<1>5. ~moved => newMenus' = newMenus /\ native' = native
  BY DEF A!EnableItem
<1>6. ~A!HasSubMenus /\ ~displaced /\ AmAddressed(newMenus, mappings, i) =>
         /\ moved /\ A!Denoted(id) = {i} /\ AmSame(newMenus[i], native[i], missed)
         /\ i \in DOMAIN native
         /\ newMenus[i].checked = itemsAsked[id].checked
  BY <1>2, AmAddressedIs DEF A!Denoted
<1>i. i = A!FindItem(id)
  OBVIOUS
<1>b. b \in BOOLEAN
  OBVIOUS
<1>h. hit \subseteq A!Denoted(id) /\ (attached => hit = A!Denoted(id)) /\ (~attached => hit = {})
  OBVIOUS
<1> HIDE DEF i, ask, moved, b, hit
<1>7. CASE moved
  <2> DEFINE e == AmDisabled(newMenus[i], b)
             w == [k \in DOMAIN native |->
                      IF k \in hit THEN AmDisabled(native[k], b) ELSE native[k]]
  <2>0. newMenus[i] \in A!Entries
    BY <1>0, <1>2
  <2>1. e \in A!Entries /\ e.type = newMenus[i].type /\ e.id = newMenus[i].id /\ e.disabled = b
        /\ e.checked = newMenus[i].checked
    <3>1. PICK old \in A!Entries : old = newMenus[i]
      BY <2>0
    <3>2. PICK c \in BOOLEAN : c = b
      BY <1>b
    <3>3. /\ AmDisabled(old, c) \in A!Entries /\ AmDisabled(old, c).type = old.type
          /\ AmDisabled(old, c).id = old.id /\ AmDisabled(old, c).checked = old.checked
          /\ AmDisabled(old, c).disabled = c
      BY AmEntrySet
    <3> QED BY <3>1, <3>2, <3>3
  <2>2. /\ newMenus' \in Seq(A!Entries) /\ A!Alike(newMenus, newMenus') /\ newMenus'[i] = e
        /\ \A k \in DOMAIN newMenus \ {i} : newMenus'[k] = newMenus[k]
    <3> HIDE DEF e
    <3>1. newMenus' = [newMenus EXCEPT ![i] = e]
      BY <1>4, <1>7 DEF e
    <3> QED BY <1>0, <1>2, <2>1, <3>1, AmSetOne
  <2>3. \A k \in DOMAIN native :
           w[k] = IF k \in hit THEN AmDisabled(native[k], b) ELSE native[k]
    OBVIOUS
  <2>4. \A k \in DOMAIN native : w[k] \in A!Entries /\ w[k].type = native[k].type /\ w[k].id = native[k].id
    <3> SUFFICES ASSUME NEW k \in DOMAIN native
                 PROVE  w[k] \in A!Entries /\ w[k].type = native[k].type /\ w[k].id = native[k].id
      OBVIOUS
    <3>1. native[k] \in A!Entries
      BY <1>0
    <3> HIDE DEF w
    <3> QED BY <1>b, <2>3, <3>1, AmEntrySet
  <2>5. w = [k \in DOMAIN native |-> w[k]]
    OBVIOUS
  <2>6. native' = w
    BY <1>4, <1>7
  <2> HIDE DEF e, w
  <2>7. native' \in Seq(A!Entries) /\ A!Alike(native, native')
    BY <1>0, <2>4, <2>5, <2>6, AmMapped
  <2>8. \A k \in DOMAIN native : k \notin A!Denoted(id) /\ native[k].id # id => native'[k] = native[k]
    BY <1>h, <2>3, <2>6
  <2>9. ASSUME ~A!HasSubMenus, ~displaced, AmAddressed(newMenus, mappings, i)
        PROVE  /\ AmSame(newMenus'[i], native'[i], missed')
               /\ newMenus'[i].checked = ask.checked /\ newMenus'[i].disabled = ask.disabled
    <3>1. A!Denoted(id) = {i} /\ AmSame(newMenus[i], native[i], missed) /\ i \in DOMAIN native
          /\ newMenus[i].checked = itemsAsked[id].checked
      BY <1>6, <2>9
    <3>2. native'[i] = IF attached THEN AmDisabled(native[i], b) ELSE native[i]
      BY <1>h, <2>3, <2>6, <3>1
    <3>3. AmDisabled(native[i], b).checked = native[i].checked
      BY <1>0, <1>b, <3>1, AmEntrySet
    <3>4. newMenus'[i] = AmDisabled(newMenus[i], b) /\ newMenus'[i].checked = newMenus[i].checked
      BY <2>1, <2>2 DEF e
    <3>5. missed' = (missed \/ ~attached) /\ attached \in BOOLEAN /\ missed \in BOOLEAN
      BY <1>4, <1>7 DEF A!InOrder, A!Typed
    <3>6. AmSame(newMenus'[i], native'[i], missed')
      BY <3>1, <3>2, <3>3, <3>4, <3>5 DEF AmSame
    <3> QED BY <1>3, <2>1, <2>2, <3>1, <3>6
  <2>10. ~A!HasSubMenus /\ ~displaced /\ AmAddressed(newMenus, mappings, i) =>
            /\ AmSame(newMenus'[i], native'[i], missed')
            /\ newMenus'[i].checked = ask.checked /\ newMenus'[i].disabled = ask.disabled
    BY <2>9
  <2>11. id \in added /\ UNCHANGED <<items, mappings, added, displaced, failed>>
    BY <1>1
  <2>12. ask \in [checked : BOOLEAN, disabled : BOOLEAN] /\ itemsAsked' = [itemsAsked EXCEPT ![id] = ask]
    BY <1>3
  <2>13. /\ newMenus' \in Seq(A!Entries) /\ A!Alike(newMenus, newMenus')
         /\ \A k \in DOMAIN newMenus \ {i} : newMenus'[k] = newMenus[k]
    BY <2>2
  <2> QED BY <1>a, <1>i, <2>7, <2>8, <2>10, <2>11, <2>12, <2>13, AmSetItem
<1>8. CASE ~moved
  <2>1. A!Alike(newMenus, newMenus') /\ A!Alike(native, native')
    BY <1>5, <1>8, AmRefl
  <2>2. ~(~A!HasSubMenus /\ ~displaced /\ AmAddressed(newMenus, mappings, i))
    BY <1>6, <1>8
  <2> QED BY <1>0, <1>a, <1>1, <1>3, <1>5, <1>8, <2>1, <2>2, <1>i, AmSetItem
<1> QED BY <1>7, <1>8
LEMMA AmPickItem ==
    ASSUME A!InOrder, NEW k, A!PickItem(k)
    PROVE  A!InOrder'
<1> DEFINE id == native[k].id
           i == A!FindItem(id)
           b == ~native[k].checked
           ask == [itemsAsked[id] EXCEPT !.checked = b]
<1>0. /\ newMenus \in Seq(A!Entries) /\ native \in Seq(A!Entries)
      /\ itemsAsked \in [A!Ids -> [checked : BOOLEAN, disabled : BOOLEAN]]
  BY DEF A!InOrder, A!Typed
<1>1. /\ id \in added /\ UNCHANGED <<items, mappings, added, displaced, failed>>
      /\ itemsAsked' = [itemsAsked EXCEPT ![id].checked = b] /\ k \in DOMAIN native
      /\ native' = [native EXCEPT ![k].checked = ~@]
      /\ newMenus' = IF i = 0 THEN newMenus ELSE [newMenus EXCEPT ![i].checked = b]
  BY DEF A!PickItem
<1>a. attached' \in BOOLEAN /\ missed' = missed /\ missed' \in BOOLEAN
  BY DEF A!PickItem, A!InOrder, A!Typed
<1>2. /\ i \in DOMAIN newMenus /\ newMenus[i].id = id /\ i # 0 /\ id \in A!Ids
      /\ \A l \in DOMAIN newMenus \ {i} : newMenus[l].id # id
  BY <1>1, AmHasEntry
<1>3. native[k] \in A!Entries /\ newMenus[i] \in A!Entries /\ b \in BOOLEAN
  BY <1>0, <1>1, <1>2
<1>4. ask \in [checked : BOOLEAN, disabled : BOOLEAN] /\ itemsAsked' = [itemsAsked EXCEPT ![id] = ask]
      /\ ask.checked = b /\ ask.disabled = itemsAsked[id].disabled
  BY <1>0, <1>1, <1>2, <1>3
<1>5. native' = [native EXCEPT ![k] = AmChecked(native[k], b)]
  BY <1>0, <1>1 DEF AmChecked
<1>6. newMenus' = [newMenus EXCEPT ![i] = AmChecked(newMenus[i], b)]
  BY <1>0, <1>1, <1>2 DEF AmChecked
<1>7. /\ AmChecked(native[k], b) \in A!Entries /\ AmChecked(native[k], b).type = native[k].type
      /\ AmChecked(native[k], b).id = native[k].id
      /\ AmChecked(newMenus[i], b) \in A!Entries /\ AmChecked(newMenus[i], b).type = newMenus[i].type
      /\ AmChecked(newMenus[i], b).id = newMenus[i].id /\ AmChecked(newMenus[i], b).checked = b
      /\ AmChecked(newMenus[i], b).disabled = newMenus[i].disabled
  BY <1>3, AmEntrySet
<1>i. i = A!FindItem(id) /\ id = native[k].id
  OBVIOUS
<1> HIDE DEF id, i, b, ask
<1>8. /\ native' \in Seq(A!Entries) /\ A!Alike(native, native')
      /\ native'[k] = AmChecked(native[k], b) /\ \A l \in DOMAIN native \ {k} : native'[l] = native[l]
  <2> DEFINE c == AmChecked(native[k], b)
  <2>1. c \in A!Entries /\ c.type = native[k].type /\ c.id = native[k].id
    BY <1>7
  <2>2. native' = [native EXCEPT ![k] = c] /\ k \in DOMAIN native
    BY <1>1, <1>5
  <2> HIDE DEF c
  <2>3. /\ native' \in Seq(A!Entries) /\ A!Alike(native, native')
        /\ native'[k] = c /\ \A l \in DOMAIN native \ {k} : native'[l] = native[l]
    BY <1>0, <2>1, <2>2, AmSetOne
  <2> QED BY <2>3 DEF c
<1>9. /\ newMenus' \in Seq(A!Entries) /\ A!Alike(newMenus, newMenus')
      /\ newMenus'[i] = AmChecked(newMenus[i], b)
      /\ \A l \in DOMAIN newMenus \ {i} : newMenus'[l] = newMenus[l]
  BY <1>0, <1>2, <1>6, <1>7, AmSetOne
<1>10. \A l \in DOMAIN native : l \notin A!Denoted(id) /\ native[l].id # id => native'[l] = native[l]
  BY <1>8, <1>i
<1>11. ASSUME ~A!HasSubMenus, ~displaced, AmAddressed(newMenus, mappings, i)
       PROVE  /\ AmSame(newMenus'[i], native'[i], missed')
              /\ newMenus'[i].checked = ask.checked /\ newMenus'[i].disabled = ask.disabled
  <2>1. AmSame(newMenus[i], native[i], missed) /\ newMenus[i].disabled = itemsAsked[id].disabled
    BY <1>2, <1>11, AmAddressedIs
  <2>2. AmArray(newMenus) /\ A!Alike(native, A!CreateMenus(newMenus))
    BY <1>11, AmNowArray
  <2>3. Len(native) = Len(newMenus) - 1 /\ native[k].id = newMenus[k].id
    BY <1>0, <1>1, <2>2, AmDenoted
  <2>4. k \in DOMAIN newMenus
    BY <1>0, <1>1, <2>3
  <2>5. k = i
    BY <1>2, <1>i, <2>3, <2>4
  <2>6. AmChecked(native[i], b).checked = b
    BY <1>3, <2>5, AmEntrySet
  <2>7. AmSame(newMenus'[i], native'[i], missed')
    BY <1>a, <1>7, <1>8, <1>9, <2>1, <2>5, <2>6 DEF AmSame
  <2> QED BY <1>4, <1>7, <1>9, <2>1, <2>7
<1>12. ~A!HasSubMenus /\ ~displaced /\ AmAddressed(newMenus, mappings, i) =>
          /\ AmSame(newMenus'[i], native'[i], missed')
          /\ newMenus'[i].checked = ask.checked /\ newMenus'[i].disabled = ask.disabled
  BY <1>11
<1>13. id \in added /\ UNCHANGED <<items, mappings, added, displaced, failed>>
  BY <1>1
<1>14. ask \in [checked : BOOLEAN, disabled : BOOLEAN] /\ itemsAsked' = [itemsAsked EXCEPT ![id] = ask]
  BY <1>4
<1>15. /\ newMenus' \in Seq(A!Entries) /\ A!Alike(newMenus, newMenus')
       /\ \A l \in DOMAIN newMenus \ {i} : newMenus'[l] = newMenus[l]
       /\ native' \in Seq(A!Entries) /\ A!Alike(native, native')
  BY <1>8, <1>9
<1> QED BY <1>a, <1>i, <1>10, <1>12, <1>13, <1>14, <1>15, AmSetItem

\* Every step keeps the invariant.
LEMMA AmInductive ==
    ASSUME A!InOrder, A!Next \/ UNCHANGED ofAmiga
    PROVE  A!InOrder'
<1>1. CASE A!Next
  <2>1. \/ \E id \in NewIds, type \in {"Item", "Separator"}, ordinal \in 0 .. 1 :
              \E sub \in {-1} \cup A!SubOrdinals(ordinal) : A!AddItem(type, id, ordinal, sub)
        \/ \E id \in A!Ids :
              \/ A!RemoveItem(id) \/ A!UpdateItem(id)
              \/ \E enable \in BOOLEAN : A!CheckItem(id, enable) \/ A!EnableItem(id, enable)
        \/ \E k \in DOMAIN native : A!PickItem(k)
    BY <1>1 DEF A!Next
  <2>2. ASSUME NEW id \in NewIds, NEW type \in {"Item", "Separator"}, NEW ordinal \in 0 .. 1,
               NEW sub \in {-1} \cup A!SubOrdinals(ordinal), A!AddItem(type, id, ordinal, sub)
        PROVE  A!InOrder'
    BY <2>2, AmAddItem
  <2>3. ASSUME NEW id \in A!Ids,
               \/ A!RemoveItem(id) \/ A!UpdateItem(id)
               \/ \E enable \in BOOLEAN : A!CheckItem(id, enable) \/ A!EnableItem(id, enable)
        PROVE  A!InOrder'
    <3>1. CASE A!RemoveItem(id)
      BY <3>1, AmRemoveItem
    <3>2. CASE A!UpdateItem(id)
      BY <3>2, AmUpdateItem
    <3>3. ASSUME NEW enable \in BOOLEAN, A!CheckItem(id, enable) PROVE A!InOrder'
      BY <3>3, AmCheckItem
    <3>4. ASSUME NEW enable \in BOOLEAN, A!EnableItem(id, enable) PROVE A!InOrder'
      BY <3>4, AmEnableItem
    <3> QED BY <2>3, <3>1, <3>2, <3>3, <3>4
  <2>4. ASSUME NEW k, A!PickItem(k) PROVE A!InOrder'
    BY <2>4, AmPickItem
  <2> QED BY <2>1, <2>2, <2>3, <2>4
<1>2. CASE UNCHANGED ofAmiga
  <2>1. UNCHANGED <<items, newMenus, mappings, native, attached, itemsAsked, added, displaced, failed,
                    missed>>
    BY <1>2 DEF ofAmiga
  <2>2. AmGood(newMenus, mappings, native, itemsAsked, added, displaced, failed, missed)
    BY AmMeansGood
  <2>3. A!Typed'
    BY <2>1 DEF A!InOrder, A!Typed
  <2> QED BY <2>1, <2>2, <2>3, AmThen
<1> QED BY <1>1, <1>2

--------------------------------------------------------------------------------
(***************************************************************************)
(* AmiMenus: what follows from the invariant.                              *)
(***************************************************************************)
LEMMA AmAsAsked ==
    ASSUME A!InOrder
    PROVE  A!TypeOK /\ A!ItemsAreAsAsked
<1>0. /\ newMenus \in Seq(A!Entries) /\ mappings \in Seq(A!Mappings) /\ native \in Seq(A!Entries)
      /\ items \in Descriptions /\ added \subseteq A!Ids \ {0} /\ displaced \in BOOLEAN /\ failed \in BOOLEAN
      /\ attached \in BOOLEAN /\ missed \in BOOLEAN
      /\ itemsAsked \in [A!Ids -> [checked : BOOLEAN, disabled : BOOLEAN]]
      /\ \A k \in DOMAIN native : native[k].type # "End"
  BY DEF A!InOrder, A!Typed
<1>1. /\ A!Paired /\ AmPairs(newMenus, mappings, added) /\ (~A!HasSubMenus => AmWhole(newMenus))
      /\ ~failed \/ ~displaced => A!Alike(native, A!CreateMenus(newMenus))
  BY AmMeansGood DEF AmGood, A!InOrder
<1>2. A!TypeOK
  <2>1. Len(newMenus) = Len(mappings)
    BY <1>1 DEF AmPairs
  <2>2. \A k \in DOMAIN newMenus : newMenus[k] \in A!Entries
    BY <1>0
  <2> QED BY <1>0, <2>1, <2>2 DEF A!TypeOK
<1>3. DOMAIN mappings = DOMAIN newMenus /\ \A k \in DOMAIN newMenus : mappings[k].id = newMenus[k].id
  BY <1>0, <1>1 DEF AmPairs
<1>4. ASSUME NEW id \in added
      PROVE  A!Cardinality({k \in DOMAIN mappings : mappings[k].id = id}) = 1
  <2> DEFINE T == {k \in DOMAIN mappings : mappings[k].id = id}
             i == A!FindItem(id)
  <2>1. i \in DOMAIN newMenus /\ newMenus[i].id = id /\ \A k \in DOMAIN newMenus \ {i} : newMenus[k].id # id
    BY AmHasEntry
  <2> HIDE DEF i
  <2>2. T = {i}
    BY <1>3, <2>1
  <2> HIDE DEF T
  <2>3. Cardinality(T) = 1
    BY <2>2, FS_Singleton
  <2>4. A!Cardinality(T) = Cardinality(T)
    BY Zenon DEF A!Cardinality, Cardinality
  <2> QED BY <2>3, <2>4 DEF T
<1>5. ASSUME ~failed, ~A!HasSubMenus
      PROVE  {native[k].id : k \in DOMAIN native} \ {0} = added
  <2> DEFINE c == A!CreateMenus(newMenus)
  <2>1. A!Alike(native, c) /\ AmWhole(newMenus)
    BY <1>1, <1>5
  <2>2. /\ newMenus # <<>> /\ newMenus[Len(newMenus)].type = "End" /\ newMenus[Len(newMenus)].id = 0
        /\ \A k \in DOMAIN newMenus : newMenus[k].type = "End" => k = Len(newMenus)
    <3>1. newMenus # <<>> /\ newMenus[Len(newMenus)].type = "End"
      BY <1>1 DEF AmPairs
    <3>2. Len(newMenus) \in DOMAIN newMenus
      BY <1>0, <3>1
    <3> QED BY <1>1, <2>1, <3>1, <3>2 DEF AmPairs, AmWhole
  <2>3. Len(c) = Len(newMenus) - 1 /\ \A k \in 1 .. Len(newMenus) - 1 : c[k] = newMenus[k]
    BY <1>0, <2>2, AmCreateWhole
  <2> HIDE DEF c
  <2>4. Len(native) = Len(newMenus) - 1 /\ \A k \in DOMAIN native : native[k].id = c[k].id
    BY <2>1, <2>3 DEF A!Alike
  <2>5. DOMAIN native = 1 .. Len(newMenus) - 1 /\ DOMAIN newMenus = 1 .. Len(newMenus)
        /\ Len(newMenus) \in Nat
    BY <1>0, <2>4
  <2>6. \A k \in DOMAIN native : k \in DOMAIN newMenus /\ native[k].id = newMenus[k].id
    BY <2>3, <2>4, <2>5
  <2>7. ASSUME NEW id \in added PROVE \E k \in DOMAIN native : native[k].id = id
    <3>1. PICK k \in DOMAIN newMenus : newMenus[k].id = id
      BY <1>1 DEF AmPairs
    <3>2. id # 0
      BY <1>0
    <3>3. k # Len(newMenus)
      BY <2>2, <3>1, <3>2
    <3>4. k \in DOMAIN native
      BY <2>5, <3>1, <3>3
    <3> QED BY <2>6, <3>1, <3>4
  <2>8. \A k \in DOMAIN native : native[k].id \in added \cup {0}
    BY <1>1, <2>6 DEF AmPairs
  <2>9. 0 \notin added
    BY <1>0
  <2> QED BY <2>7, <2>8, <2>9
<1>6. ASSUME ~failed
      PROVE  [k \in DOMAIN native |-> native[k].id]
               = LET made == A!CreateMenus(newMenus) IN [k \in DOMAIN made |-> made[k].id]
  <2> DEFINE c == A!CreateMenus(newMenus)
  <2>1. A!Alike(native, c) /\ c \in Seq(A!Entries)
    BY <1>0, <1>1, <1>6, AmCreate
  <2> HIDE DEF c
  <2>2. DOMAIN native = DOMAIN c /\ \A k \in DOMAIN native : native[k].id = c[k].id
    BY <1>0, <2>1 DEF A!Alike
  <2>3. [k \in DOMAIN native |-> native[k].id] = [k \in DOMAIN c |-> c[k].id]
    BY <2>2
  <2> QED BY <2>3 DEF c
<1>7. ASSUME NEW k \in DOMAIN newMenus, A!Addressed(k)
      PROVE  LET id == newMenus[k].id
             IN /\ mappings[k].num = A!NumberOf(newMenus, k)
                /\ A!Agree(newMenus[k], native[k])
                /\ newMenus[k].checked = itemsAsked[id].checked
                /\ newMenus[k].disabled = itemsAsked[id].disabled
                /\ A!ItemChecked(id) = itemsAsked[id].checked
  <2> DEFINE id == newMenus[k].id
  <2>1. ~A!HasSubMenus /\ ~displaced /\ AmAddressed(newMenus, mappings, k)
    BY <1>7 DEF A!Addressed, A!Numbered, AmAddressed, AmSubsBefore
  <2>2. /\ k \in DOMAIN native /\ mappings[k].num # A!NotFound
        /\ A!ItemAddress(native, mappings[k].num) = {k}
        /\ mappings[k].num = A!NumberOf(newMenus, k) /\ AmSame(newMenus[k], native[k], missed)
        /\ newMenus[k].checked = itemsAsked[id].checked
        /\ newMenus[k].disabled = itemsAsked[id].disabled
    BY <2>1, AmAddressedIs
  <2>3. id \in added /\ id # 0
    <3>1. id # 0
      BY <1>1, <2>1 DEF AmWhole, AmAddressed
    <3> QED BY <1>1, <3>1 DEF AmPairs
  <2>4. A!FindMapping(id) = mappings[k].num
    <3>1. A!FindItem(id) = k
      BY <1>0, <1>1, <2>3, AmFind
    <3> QED BY <2>3, <3>1, AmHasEntry
  <2> HIDE DEF id
  <2>5. A!Denoted(id) = {k}
    BY <2>2, <2>4 DEF A!Denoted
  <2>6. itemsAsked[id].checked \in BOOLEAN /\ native[k].checked \in BOOLEAN
    <3>1. native[k] \in A!Entries /\ itemsAsked[id] \in [checked : BOOLEAN, disabled : BOOLEAN]
      BY <1>0, <2>2, <2>3
    <3> QED BY <3>1 DEF A!Entries
  <2>7. A!ItemChecked(id) <=> native[k].checked
    BY <2>2, <2>4, <2>5 DEF A!ItemChecked
  <2>8. native[k].checked = itemsAsked[id].checked
    BY <2>2 DEF AmSame
  <2>9. A!ItemChecked(id) = itemsAsked[id].checked
    <3>1. A!ItemChecked(id) \in BOOLEAN
      BY DEF A!ItemChecked
    <3> QED BY <2>6, <2>7, <2>8, <3>1, Zenon
  <2>10. A!Agree(newMenus[k], native[k])
    BY <2>2 DEF AmSame, A!Agree
  <2> QED BY <2>2, <2>9, <2>10, Zenon DEF id
<1>8. A!ItemsAreAsAsked
  BY <1>4, <1>5, <1>6, <1>7, Zenon DEF A!ItemsAreAsAsked
<1> QED BY <1>2, <1>8

--------------------------------------------------------------------------------
(***************************************************************************)
(* AmiMenus: the shortcuts of the two menus.                               *)
(***************************************************************************)
AmBegin == [command |-> FALSE, result |-> FALSE, sent |-> 0]

LEMMA AmFiveScanned ==
    ASSUME Len(items) = 5, NEW key, NEW shift, NEW ctrl
    PROVE  LET s1 == A!Scanned(items[1], AmBegin, key, shift, ctrl)
               s2 == A!Scanned(items[2], s1, key, shift, ctrl)
               s3 == A!Scanned(items[3], s2, key, shift, ctrl)
               s4 == A!Scanned(items[4], s3, key, shift, ctrl)
           IN A!ExecuteShortcut(key, shift, ctrl) = A!Scanned(items[5], s4, key, shift, ctrl)
<1> DEFINE g(n, s) == A!Scanned(items[n], s, key, shift, ctrl)
           s0 == [command |-> FALSE, result |-> FALSE, sent |-> 0]
           s1 == g(1, s0)
           s2 == g(2, s1)
           s3 == g(3, s2)
           s4 == g(4, s3)
           s5 == g(5, s4)
           Is(h) == h = [k \in 0 .. Len(items) |-> IF k = 0 THEN s0 ELSE g(k, h[k - 1])]
           r == [n \in 0 .. Len(items) |-> IF n = 0 THEN s0 ELSE IF n = 1 THEN s1 ELSE IF n = 2 THEN s2
                                           ELSE IF n = 3 THEN s3 ELSE IF n = 4 THEN s4 ELSE s5]
           f == CHOOSE h : Is(h)
<1>0. A!ExecuteShortcut(key, shift, ctrl) = f[Len(items)]
  BY Zenon DEF A!ExecuteShortcut
<1>1. s1 = g(1, s0) /\ s2 = g(2, s1) /\ s3 = g(3, s2) /\ s4 = g(4, s3) /\ s5 = g(5, s4)
  OBVIOUS
<1>2. s0 = AmBegin
  BY DEF AmBegin
<1> HIDE DEF s0, s1, s2, s3, s4, s5
<1>3. Is(r)
  <2>1. ASSUME NEW n \in 0 .. Len(items)
        PROVE  r[n] = IF n = 0 THEN s0 ELSE g(n, r[n - 1])
    <3>1. n = 0 \/ n = 1 \/ n = 2 \/ n = 3 \/ n = 4 \/ n = 5
      OBVIOUS
    <3>2. r[0] = s0 /\ r[1] = s1 /\ r[2] = s2 /\ r[3] = s3 /\ r[4] = s4 /\ r[5] = s5
      OBVIOUS
    <3> HIDE DEF r, g
    <3> QED BY <1>1, <3>1, <3>2
  <2>2. r = [n \in 0 .. Len(items) |-> r[n]]
    OBVIOUS
  <2> HIDE DEF r, g
  <2> QED BY <2>1, <2>2
<1>4. f = CHOOSE h : Is(h)
  OBVIOUS
<1> HIDE DEF Is, f
<1>5. Is(f)
  BY <1>3, <1>4, Zenon
<1> HIDE DEF g
<1>6. f = [n \in 0 .. 5 |-> IF n = 0 THEN s0 ELSE g(n, f[n - 1])]
  BY <1>5 DEF Is
<1>7. /\ f[0] = s0 /\ f[1] = g(1, f[0]) /\ f[2] = g(2, f[1])
      /\ f[3] = g(3, f[2]) /\ f[4] = g(4, f[3]) /\ f[5] = g(5, f[4])
  BY <1>6
<1>8. f[5] = s5
  BY <1>1, <1>7
<1> QED BY <1>0, <1>2, <1>8 DEF g, s1, s2, s3, s4, s5

\* An element that has no shortcut, or comes when an item has been run, is passed by.
LEMMA AmPass ==
    ASSUME NEW i, NEW s, s.sent # 0 \/ i.type # "Item" \/ i.key = NoKey, NEW key, NEW shift, NEW ctrl
    PROVE  A!Scanned(i, s, key, shift, ctrl) = s
BY DEF A!Scanned

LEMMA AmScan ==
    ASSUME NEW i, NEW s, s.sent = 0, i.type = "Item", i.key # NoKey, NEW shift, NEW ctrl
    PROVE  LET n == A!Scanned(i, s, i.key, shift, ctrl)
               fits == A!Fits(i.modifier, shift, ctrl)
           IN /\ n.result = (s.result \/ fits)
              /\ n.sent = IF (s.result \/ fits) /\ A!Enabled(i.id) THEN i.id ELSE 0
<1> DEFINE command == s.command \/ i.key = i.key
           fits == command /\ A!Fits(i.modifier, shift, ctrl)
           runs == s.result \/ fits
<1>1. A!Scanned(i, s, i.key, shift, ctrl) =
         [command |-> fits, result |-> runs,
          sent |-> IF command /\ runs /\ A!Enabled(i.id) THEN i.id ELSE 0]
  BY DEF A!Scanned
<1>2. command /\ (fits <=> A!Fits(i.modifier, shift, ctrl)) /\ (runs = (s.result \/ fits))
  OBVIOUS
<1> HIDE DEF command, fits, runs
<1>3. A!Scanned(i, s, i.key, shift, ctrl).result = runs
      /\ A!Scanned(i, s, i.key, shift, ctrl).sent = IF command /\ runs /\ A!Enabled(i.id) THEN i.id ELSE 0
  BY <1>1
<1> QED BY <1>2, <1>3 DEF runs, fits, command

LEMMA AmShortcuts ==
    ASSUME items \in Descriptions
    PROVE  A!ShortcutRunsItsItem
<1>0. NoKey # "a"
  BY MenuAssumption
<1>1. ASSUME NEW key \in A!HotKeys PROVE key = "a"
  <2>1. /\ DOMAIN TwoMenus = 1 .. 5 /\ DOMAIN WithSubMenu = 1 .. 5
    BY DEF TwoMenus, WithSubMenu
  <2>2. \A k \in 1 .. 5 : k = 1 \/ k = 2 \/ k = 3 \/ k = 4 \/ k = 5
    OBVIOUS
  <2>3. \A k \in 1 .. 5 : TwoMenus[k].key \in {NoKey, "a"} /\ WithSubMenu[k].key \in {NoKey, "a"}
    BY <2>2 DEF TwoMenus, WithSubMenu, Title, MenuItem
  <2>4. key \in UNION {{d[k].key : k \in DOMAIN d} : d \in Descriptions} /\ key # NoKey
    BY DEF A!HotKeys
  <2>5. PICK keys \in {{d[k].key : k \in DOMAIN d} : d \in Descriptions} : key \in keys
    BY <2>4
  <2>6. PICK d \in Descriptions : keys = {d[k].key : k \in DOMAIN d}
    BY <2>5
  <2>7. PICK k \in DOMAIN d : key = d[k].key
    BY <2>5, <2>6
  <2> QED BY <2>1, <2>3, <2>4, <2>7 DEF Descriptions
<1>2. ASSUME NEW shift \in BOOLEAN, NEW ctrl \in BOOLEAN
      PROVE  LET ran  == A!ExecuteShortcut("a", shift, ctrl)
                 have == {items[k].id : k \in {i \in DOMAIN items :
                             /\ items[i].type = "Item" /\ items[i].key = "a"
                             /\ A!Fits(items[i].modifier, shift, ctrl)}}
             IN (\A id \in have : A!Enabled(id)) =>
                    /\ ran.result = (have # {})
                    /\ IF have = {} THEN ran.sent = 0 ELSE ran.sent \in have
  <2> DEFINE ran == A!ExecuteShortcut("a", shift, ctrl)
             have == {items[k].id : k \in {i \in DOMAIN items :
                             /\ items[i].type = "Item" /\ items[i].key = "a"
                             /\ A!Fits(items[i].modifier, shift, ctrl)}}
             s1 == A!Scanned(items[1], AmBegin, "a", shift, ctrl)
             s2 == A!Scanned(items[2], s1, "a", shift, ctrl)
             s3 == A!Scanned(items[3], s2, "a", shift, ctrl)
             s4 == A!Scanned(items[4], s3, "a", shift, ctrl)
             s5 == A!Scanned(items[5], s4, "a", shift, ctrl)
  <2> SUFFICES (\A id \in have : A!Enabled(id)) =>
                    /\ ran.result = (have # {})
                    /\ IF have = {} THEN ran.sent = 0 ELSE ran.sent \in have
    OBVIOUS
  <2>0. \A k \in 1 .. 5 : k = 1 \/ k = 2 \/ k = 3 \/ k = 4 \/ k = 5
    OBVIOUS
  <2>1. Len(items) = 5 => ran = s5
    BY AmFiveScanned
  <2>2. AmBegin.sent = 0 /\ AmBegin.result = FALSE
    BY DEF AmBegin
  <2>3. A!Fits("None", shift, ctrl) <=> ~ctrl
    BY DEF A!Fits
  <2>4. A!Fits("Control", shift, ctrl) <=> ctrl
    BY DEF A!Fits
  <2>5. CASE items = TwoMenus
    <3>1. /\ Len(items) = 5 /\ DOMAIN items = 1 .. 5
          /\ items[1] = Title /\ items[2] = MenuItem("Item", 1, "a", "None")
          /\ items[3] = MenuItem("Check", 2, NoKey, "None") /\ items[4] = Title
          /\ items[5] = MenuItem("Item", 3, "a", "Control")
      BY <2>5 DEF TwoMenus
    <3>2. /\ items[1].type = "Title" /\ items[2].type = "Item" /\ items[3].type = "Check"
          /\ items[4].type = "Title" /\ items[5].type = "Item"
          /\ items[2].key = "a" /\ items[2].id = 1 /\ items[2].modifier = "None"
          /\ items[5].key = "a" /\ items[5].id = 3 /\ items[5].modifier = "Control"
      BY <3>1 DEF Title, MenuItem
    <3>3. s1 = AmBegin
      BY <3>2, AmPass
    <3>4. s2.result = ~ctrl /\ s2.sent = IF ~ctrl /\ A!Enabled(1) THEN 1 ELSE 0
      <4> HIDE DEF s1
      <4>1. /\ s2.result = (s1.result \/ A!Fits(items[2].modifier, shift, ctrl))
            /\ s2.sent = IF (s1.result \/ A!Fits(items[2].modifier, shift, ctrl)) /\ A!Enabled(items[2].id)
                         THEN items[2].id ELSE 0
        BY <1>0, <2>2, <3>2, <3>3, AmScan
      <4> HIDE DEF s2
      <4> QED BY <2>2, <2>3, <3>2, <3>3, <4>1
    <3> HIDE DEF s1, s2
    <3>5. s4 = s2
      <4>1. s3 = s2
        BY <3>2, AmPass
      <4> HIDE DEF s3
      <4>2. s4 = s3
        BY <3>2, AmPass
      <4> QED BY <4>1, <4>2
    <3> HIDE DEF s4
    <3>6. s4.sent # 0 => s5 = s4
      BY AmPass
    <3>7. s4.sent = 0 => /\ s5.result = (s4.result \/ ctrl)
                         /\ s5.sent = IF (s4.result \/ ctrl) /\ A!Enabled(3) THEN 3 ELSE 0
      <4> SUFFICES ASSUME s4.sent = 0
                   PROVE  /\ s5.result = (s4.result \/ ctrl)
                          /\ s5.sent = IF (s4.result \/ ctrl) /\ A!Enabled(3) THEN 3 ELSE 0
        OBVIOUS
      <4>1. /\ s5.result = (s4.result \/ A!Fits(items[5].modifier, shift, ctrl))
            /\ s5.sent = IF (s4.result \/ A!Fits(items[5].modifier, shift, ctrl)) /\ A!Enabled(items[5].id)
                         THEN items[5].id ELSE 0
        BY <1>0, <3>2, AmScan
      <4> HIDE DEF s5
      <4> QED BY <2>4, <3>2, <4>1
    <3>8. have = IF ctrl THEN {3} ELSE {1}
      <4>1. \A i \in DOMAIN items :
               (/\ items[i].type = "Item" /\ items[i].key = "a"
                /\ A!Fits(items[i].modifier, shift, ctrl)) <=> (i = 2 /\ ~ctrl) \/ (i = 5 /\ ctrl)
        BY <2>0, <2>3, <2>4, <3>1, <3>2
      <4> QED BY <3>1, <3>2, <4>1
    <3> HIDE DEF s5, have, ran
    <3>9. ran = s5
      BY <2>1, <3>1
    <3>10. CASE ctrl
      <4>1. have = {3} /\ s4.sent = 0 /\ s4.result = FALSE
        BY <3>4, <3>5, <3>8, <3>10
      <4>2. ran.result = TRUE /\ ran.sent = IF A!Enabled(3) THEN 3 ELSE 0
        BY <3>7, <3>9, <3>10, <4>1
      <4> HIDE DEF ran, have, s4
      <4> QED BY <4>1, <4>2
    <3>11. CASE ~ctrl
      <4>1. have = {1} /\ s4.result = TRUE /\ s4.sent = IF A!Enabled(1) THEN 1 ELSE 0
        BY <3>4, <3>5, <3>8, <3>11
      <4>2. A!Enabled(1) => ran.result = TRUE /\ ran.sent = 1
        BY <3>6, <3>9, <4>1
      <4> HIDE DEF ran, have, s4
      <4> QED BY <4>1, <4>2
    <3> QED BY <3>10, <3>11
  <2>6. CASE items = WithSubMenu
    <3>1. /\ Len(items) = 5 /\ DOMAIN items = 1 .. 5
          /\ items[1] = Title /\ items[2] = MenuItem("SubMenu", 0, NoKey, "None")
          /\ items[3] = MenuItem("Item", 1, "a", "None")
          /\ items[4] = MenuItem("SubMenuEnd", 0, NoKey, "None")
          /\ items[5] = MenuItem("Item", 3, NoKey, "None")
      BY <2>6 DEF WithSubMenu
    <3>2. /\ items[1].type = "Title" /\ items[2].type = "SubMenu" /\ items[3].type = "Item"
          /\ items[4].type = "SubMenuEnd" /\ items[5].key = NoKey
          /\ items[3].key = "a" /\ items[3].id = 1 /\ items[3].modifier = "None"
      BY <3>1 DEF Title, MenuItem
    <3>3. s2 = AmBegin
      <4>1. s1 = AmBegin
        BY <3>2, AmPass
      <4> HIDE DEF s1
      <4>2. s2 = s1
        BY <3>2, AmPass
      <4> QED BY <4>1, <4>2
    <3> HIDE DEF s2
    <3>4. s3.result = ~ctrl /\ s3.sent = IF ~ctrl /\ A!Enabled(1) THEN 1 ELSE 0
      <4>1. /\ s3.result = (s2.result \/ A!Fits(items[3].modifier, shift, ctrl))
            /\ s3.sent = IF (s2.result \/ A!Fits(items[3].modifier, shift, ctrl)) /\ A!Enabled(items[3].id)
                         THEN items[3].id ELSE 0
        BY <1>0, <2>2, <3>2, <3>3, AmScan
      <4> HIDE DEF s3
      <4> QED BY <2>2, <2>3, <3>2, <3>3, <4>1
    <3> HIDE DEF s3
    <3>5. s5 = s3
      <4>1. s4 = s3
        BY <3>2, AmPass
      <4> HIDE DEF s4
      <4>2. s5 = s4
        BY <3>2, AmPass
      <4> QED BY <4>1, <4>2
    <3>8. have = IF ctrl THEN {} ELSE {1}
      <4>1. \A i \in DOMAIN items :
               (/\ items[i].type = "Item" /\ items[i].key = "a"
                /\ A!Fits(items[i].modifier, shift, ctrl)) <=> (i = 3 /\ ~ctrl)
        BY <1>0, <2>0, <2>3, <3>1, <3>2
      <4> QED BY <3>1, <3>2, <4>1
    <3> HIDE DEF s5, have, ran
    <3>9. ran = s5
      BY <2>1, <3>1
    <3>10. CASE ctrl
      <4>1. have = {} /\ ran.sent = 0 /\ ran.result = FALSE
        BY <3>4, <3>5, <3>8, <3>9, <3>10
      <4> HIDE DEF ran, have
      <4> QED BY <4>1
    <3>11. CASE ~ctrl
      <4>1. have = {1} /\ ran.result = TRUE /\ ran.sent = IF A!Enabled(1) THEN 1 ELSE 0
        BY <3>4, <3>5, <3>8, <3>9, <3>11
      <4> HIDE DEF ran, have
      <4> QED BY <4>1
    <3> QED BY <3>10, <3>11
  <2> QED BY <2>5, <2>6 DEF Descriptions
<1>3. ASSUME NEW key \in A!HotKeys, NEW shift \in BOOLEAN, NEW ctrl \in BOOLEAN
      PROVE  LET ran  == A!ExecuteShortcut(key, shift, ctrl)
                 have == {items[k].id : k \in {i \in DOMAIN items :
                             /\ items[i].type = "Item" /\ items[i].key = key
                             /\ A!Fits(items[i].modifier, shift, ctrl)}}
             IN (\A id \in have : A!Enabled(id)) =>
                    /\ ran.result = (have # {})
                    /\ IF have = {} THEN ran.sent = 0 ELSE ran.sent \in have
  <2>1. key = "a"
    BY <1>1
  <2> QED BY <1>2, <2>1, Zenon
<1> QED BY <1>3, Zenon DEF A!ShortcutRunsItsItem

--------------------------------------------------------------------------------
(***************************************************************************)
(* AmiMenus: the arrays at first.                                          *)
(***************************************************************************)
AmState(menu, item, sub, m) ==
    [count |-> [menu |-> menu, item |-> item, sub |-> sub], made |-> m]

AmOutside(menu, item, m) == AmState(menu, item, FALSE, m)
AmInside(menu, item, m) == AmState(menu, item, TRUE, m)

AmMade(type, id, menu, item) ==
    [entry   |-> A!Entry(type, id),
     mapping |-> [id |-> id, num |-> A!FULLMENUNUM(menu, item, 0)]]

AmMades == [entry : A!Entries, mapping : A!Mappings]

LEMMA AmFiveMade ==
    ASSUME NEW d, Len(d) = 5
    PROVE  LET c1 == A!Constructed(d[1], AmState(-1, 0, FALSE, <<>>))
               c2 == A!Constructed(d[2], c1)
               c3 == A!Constructed(d[3], c2)
               c4 == A!Constructed(d[4], c3)
               m == A!Constructed(d[5], c4).made
           IN /\ A!Construct(d).newMenus =
                    [k \in DOMAIN m |-> m[k].entry] \o [k \in 1 .. 6 - Len(m) |-> A!Zero]
              /\ A!Construct(d).mappings =
                    [k \in DOMAIN m |-> m[k].mapping]
                       \o [k \in 1 .. 6 - Len(m) |-> [id |-> 0, num |-> A!NotFound]]
<1> DEFINE g(n, s) == A!Constructed(d[n], s)
           s0 == [count |-> [menu |-> -1, item |-> 0, sub |-> FALSE], made |-> <<>>]
           s1 == g(1, s0)
           s2 == g(2, s1)
           s3 == g(3, s2)
           s4 == g(4, s3)
           s5 == g(5, s4)
           Is(h) == h = [k \in 0 .. Len(d) |-> IF k = 0 THEN s0 ELSE g(k, h[k - 1])]
           r == [n \in 0 .. Len(d) |-> IF n = 0 THEN s0 ELSE IF n = 1 THEN s1 ELSE IF n = 2 THEN s2
                                       ELSE IF n = 3 THEN s3 ELSE IF n = 4 THEN s4 ELSE s5]
           f == CHOOSE h : Is(h)
           m == f[Len(d)].made
           e(q) == [k \in DOMAIN m |-> m[k].entry] \o [k \in 1 .. q |-> A!Zero]
           p(q) == [k \in DOMAIN m |-> m[k].mapping]
                      \o [k \in 1 .. q |-> [id |-> 0, num |-> A!NotFound]]
<1>0. A!Construct(d) = [newMenus |-> e(Len(d) + 1 - Len(m)), mappings |-> p(Len(d) + 1 - Len(m))]
  BY Zenon DEF A!Construct
<1> HIDE DEF e, p
<1>1. s1 = g(1, s0) /\ s2 = g(2, s1) /\ s3 = g(3, s2) /\ s4 = g(4, s3) /\ s5 = g(5, s4)
  OBVIOUS
<1>2. s0 = AmState(-1, 0, FALSE, <<>>)
  BY DEF AmState
<1> HIDE DEF s0, s1, s2, s3, s4, s5
<1>3. Is(r)
  <2>1. ASSUME NEW n \in 0 .. Len(d)
        PROVE  r[n] = IF n = 0 THEN s0 ELSE g(n, r[n - 1])
    <3>1. n = 0 \/ n = 1 \/ n = 2 \/ n = 3 \/ n = 4 \/ n = 5
      OBVIOUS
    <3>2. r[0] = s0 /\ r[1] = s1 /\ r[2] = s2 /\ r[3] = s3 /\ r[4] = s4 /\ r[5] = s5
      OBVIOUS
    <3> HIDE DEF r, g
    <3> QED BY <1>1, <3>1, <3>2
  <2>2. r = [n \in 0 .. Len(d) |-> r[n]]
    OBVIOUS
  <2> HIDE DEF r, g
  <2> QED BY <2>1, <2>2
<1>4. f = CHOOSE h : Is(h)
  OBVIOUS
<1> HIDE DEF Is, f
<1>5. Is(f)
  BY <1>3, <1>4, Zenon
<1> HIDE DEF g
<1>6. f = [n \in 0 .. 5 |-> IF n = 0 THEN s0 ELSE g(n, f[n - 1])]
  BY <1>5 DEF Is
<1>7. /\ f[0] = s0 /\ f[1] = g(1, f[0]) /\ f[2] = g(2, f[1])
      /\ f[3] = g(3, f[2]) /\ f[4] = g(4, f[3]) /\ f[5] = g(5, f[4])
  BY <1>6
<1>8. m = s5.made
  BY <1>1, <1>7
<1>9. Len(d) + 1 - Len(m) = 6 - Len(m)
  <2>1. Len(d) + 1 = 6
    OBVIOUS
  <2> HIDE DEF m
  <2> QED BY <2>1
<1> HIDE DEF m
<1>10. A!Construct(d).newMenus = e(6 - Len(m)) /\ A!Construct(d).mappings = p(6 - Len(m))
  BY <1>0, <1>9
<1> QED BY <1>2, <1>8, <1>10, Zenon DEF g, s1, s2, s3, s4, s5, e, p

LEMMA AmArrays ==
    ASSUME NEW m \in Seq(AmMades), NEW n \in Nat
    PROVE  LET e == [k \in DOMAIN m |-> m[k].entry] \o [k \in 1 .. n |-> A!Zero]
               p == [k \in DOMAIN m |-> m[k].mapping]
                       \o [k \in 1 .. n |-> [id |-> 0, num |-> A!NotFound]]
           IN /\ e \in Seq(A!Entries) /\ p \in Seq(A!Mappings)
              /\ Len(e) = Len(m) + n /\ Len(p) = Len(m) + n
              /\ \A k \in 1 .. Len(m) : e[k] = m[k].entry /\ p[k] = m[k].mapping
              /\ \A k \in 1 .. n : /\ e[Len(m) + k] = A!Zero
                                   /\ p[Len(m) + k] = [id |-> 0, num |-> A!NotFound]
<1> DEFINE z == [id |-> 0, num |-> A!NotFound]
           a == [k \in DOMAIN m |-> m[k].entry]
           b == [k \in 1 .. n |-> A!Zero]
           c == [k \in DOMAIN m |-> m[k].mapping]
           d == [k \in 1 .. n |-> z]
<1>1. A!Zero \in A!Entries
  BY DEF A!Zero, A!Entry, A!Entries
<1>2. z \in A!Mappings
  BY DEF A!Mappings, A!NotFound, A!FULLMENUNUM
<1>3. DOMAIN m = 1 .. Len(m) /\ Len(m) \in Nat
  OBVIOUS
<1>4. \A k \in 1 .. Len(m) : m[k].entry \in A!Entries /\ m[k].mapping \in A!Mappings
  <2>1. ASSUME NEW k \in 1 .. Len(m) PROVE m[k].entry \in A!Entries /\ m[k].mapping \in A!Mappings
    <3>1. m[k] \in AmMades
      BY <1>3
    <3> QED BY <3>1 DEF AmMades
  <2> QED BY <2>1
<1> HIDE DEF z
<1>5. a \in Seq(A!Entries) /\ Len(a) = Len(m) /\ \A k \in 1 .. Len(m) : a[k] = m[k].entry
  BY <1>3, <1>4
<1>6. b \in Seq(A!Entries) /\ Len(b) = n /\ \A k \in 1 .. n : b[k] = A!Zero
  BY <1>1
<1>7. c \in Seq(A!Mappings) /\ Len(c) = Len(m) /\ \A k \in 1 .. Len(m) : c[k] = m[k].mapping
  BY <1>3, <1>4
<1>8. d \in Seq(A!Mappings) /\ Len(d) = n /\ \A k \in 1 .. n : d[k] = z
  BY <1>2
<1> HIDE DEF a, b, c, d
<1>9. /\ a \o b \in Seq(A!Entries) /\ Len(a \o b) = Len(a) + Len(b)
      /\ \A k \in 1 .. Len(a) : (a \o b)[k] = a[k]
      /\ \A k \in 1 .. Len(b) : (a \o b)[Len(a) + k] = b[k]
  <2>1. a \in Seq(A!Entries) /\ b \in Seq(A!Entries)
    BY <1>5, <1>6
  <2> QED BY <2>1, MeConcat
<1>10. /\ c \o d \in Seq(A!Mappings) /\ Len(c \o d) = Len(c) + Len(d)
       /\ \A k \in 1 .. Len(c) : (c \o d)[k] = c[k]
       /\ \A k \in 1 .. Len(d) : (c \o d)[Len(c) + k] = d[k]
  <2>1. c \in Seq(A!Mappings) /\ d \in Seq(A!Mappings)
    BY <1>7, <1>8
  <2> QED BY <2>1, MeConcat
<1>11. /\ a \o b \in Seq(A!Entries) /\ c \o d \in Seq(A!Mappings)
       /\ Len(a \o b) = Len(m) + n /\ Len(c \o d) = Len(m) + n
       /\ \A k \in 1 .. Len(m) : (a \o b)[k] = m[k].entry /\ (c \o d)[k] = m[k].mapping
       /\ \A k \in 1 .. n : (a \o b)[Len(m) + k] = A!Zero /\ (c \o d)[Len(m) + k] = z
  BY <1>5, <1>6, <1>7, <1>8, <1>9, <1>10
<1> QED BY <1>11, Zenon DEF a, b, c, d, z

LEMMA AmOfCount ==
    ASSUME NEW r, NEW menu, NEW item, NEW sub, r = [menu |-> menu, item |-> item, sub |-> sub]
    PROVE  r.menu = menu /\ r.item = item
OBVIOUS

LEMMA AmStepTo ==
    ASSUME NEW i, NEW menu, NEW item, NEW m
    PROVE  /\ i.type = "Title" => A!Constructed(i, AmOutside(menu, item, m)) =
                 AmOutside(menu + 1, -1, Append(m, AmMade("Title", i.id, menu + 1, -1)))
           /\ i.type = "SubMenu" => A!Constructed(i, AmOutside(menu, item, m)) =
                 AmInside(menu, item, Append(m, AmMade("Item", i.id, menu, item)))
           /\ i.type = "SubMenuEnd" => A!Constructed(i, AmInside(menu, item, m)) =
                 AmOutside(menu, item + 1, m)
           /\ i.type \in {"Item", "Check"} => A!Constructed(i, AmOutside(menu, item, m)) =
                 AmOutside(menu, item + 1, Append(m, AmMade("Item", i.id, menu, item + 1)))
           /\ i.type \in {"Item", "Check"} => A!Constructed(i, AmInside(menu, item, m)) =
                 AmInside(menu, item + 1, Append(m, AmMade("Sub", i.id, menu, item + 1)))
<1> DEFINE count(u) == [menu |-> menu, item |-> item, sub |-> u]
           new(u) == [entry   |-> A!Entry(A!NewMenuType(i.type, u), i.id),
                      mapping |-> [id |-> i.id,
                                   num |-> A!FULLMENUNUM(A!Counted(i, count(u)).menu,
                                                         A!Counted(i, count(u)).item, 0)]]
<1>1. ASSUME NEW u
      PROVE  A!Constructed(i, AmState(menu, item, u, m)) =
                [count |-> A!Counted(i, count(u)),
                 made  |-> IF i.type = "SubMenuEnd" THEN m ELSE Append(m, new(u))]
  <2>1. AmState(menu, item, u, m).count = count(u) /\ AmState(menu, item, u, m).made = m
        /\ count(u).sub = u
    BY DEF AmOutside, AmInside, AmState
  <2> HIDE DEF count
  <2> QED BY <2>1 DEF A!Constructed
<1>2. ASSUME NEW u
      PROVE  A!Counted(i, count(u)) =
                CASE i.type = "Title"      -> [menu |-> menu + 1, item |-> -1, sub |-> u]
                  [] i.type = "SubMenuEnd" -> [menu |-> menu, item |-> item + 1, sub |-> FALSE]
                  [] i.type = "SubMenu"    -> [menu |-> menu, item |-> item, sub |-> TRUE]
                  [] OTHER                 -> [menu |-> menu, item |-> item + 1, sub |-> u]
  BY DEF A!Counted
<1> HIDE DEF count
<1>0. /\ AmOutside(menu, item, m) = AmState(menu, item, FALSE, m)
      /\ AmInside(menu, item, m) = AmState(menu, item, TRUE, m)
  BY DEF AmOutside, AmInside
<1>3. ASSUME i.type = "Title"
      PROVE  A!Constructed(i, AmOutside(menu, item, m)) =
                AmOutside(menu + 1, -1, Append(m, AmMade("Title", i.id, menu + 1, -1)))
  <2>1. A!Counted(i, count(FALSE)) = [menu |-> menu + 1, item |-> -1, sub |-> FALSE]
    BY <1>2, <1>3
  <2>2. A!NewMenuType(i.type, FALSE) = "Title" /\ i.type # "SubMenuEnd"
    BY <1>3 DEF A!NewMenuType
  <2>3. new(FALSE) = AmMade("Title", i.id, menu + 1, -1)
    <3>1. A!Counted(i, count(FALSE)).menu = menu + 1 /\ A!Counted(i, count(FALSE)).item = -1
      BY <2>1, AmOfCount, Zenon
    <3> QED BY <2>2, <3>1, Zenon DEF AmMade
  <2> HIDE DEF new
  <2>4. A!Constructed(i, AmOutside(menu, item, m)) =
           [count |-> A!Counted(i, count(FALSE)), made |-> Append(m, new(FALSE))]
    BY <1>0, <1>1, <2>2
  <2> QED BY <2>1, <2>3, <2>4 DEF AmOutside, AmInside, AmState
<1>4. ASSUME i.type = "SubMenu"
      PROVE  A!Constructed(i, AmOutside(menu, item, m)) =
                AmInside(menu, item, Append(m, AmMade("Item", i.id, menu, item)))
  <2>1. A!Counted(i, count(FALSE)) = [menu |-> menu, item |-> item, sub |-> TRUE]
    BY <1>2, <1>4
  <2>2. A!NewMenuType(i.type, FALSE) = "Item" /\ i.type # "SubMenuEnd"
    BY <1>4 DEF A!NewMenuType
  <2>3. new(FALSE) = AmMade("Item", i.id, menu, item)
    <3>1. A!Counted(i, count(FALSE)).menu = menu /\ A!Counted(i, count(FALSE)).item = item
      BY <2>1, AmOfCount, Zenon
    <3> QED BY <2>2, <3>1, Zenon DEF AmMade
  <2> HIDE DEF new
  <2>4. A!Constructed(i, AmOutside(menu, item, m)) =
           [count |-> A!Counted(i, count(FALSE)), made |-> Append(m, new(FALSE))]
    BY <1>0, <1>1, <2>2
  <2> QED BY <2>1, <2>3, <2>4 DEF AmOutside, AmInside, AmState
<1>5. ASSUME i.type = "SubMenuEnd"
      PROVE  A!Constructed(i, AmInside(menu, item, m)) = AmOutside(menu, item + 1, m)
  <2>1. A!Counted(i, count(TRUE)) = [menu |-> menu, item |-> item + 1, sub |-> FALSE]
    BY <1>2, <1>5
  <2> QED BY <1>0, <1>1, <1>5, <2>1 DEF AmOutside, AmState
<1>6. ASSUME i.type \in {"Item", "Check"}
      PROVE  /\ A!Constructed(i, AmOutside(menu, item, m)) =
                   AmOutside(menu, item + 1, Append(m, AmMade("Item", i.id, menu, item + 1)))
             /\ A!Constructed(i, AmInside(menu, item, m)) =
                   AmInside(menu, item + 1, Append(m, AmMade("Sub", i.id, menu, item + 1)))
  <2>1. A!Counted(i, count(FALSE)) = [menu |-> menu, item |-> item + 1, sub |-> FALSE]
    BY <1>2, <1>6
  <2>2. A!Counted(i, count(TRUE)) = [menu |-> menu, item |-> item + 1, sub |-> TRUE]
    BY <1>2, <1>6
  <2>3. A!NewMenuType(i.type, FALSE) = "Item" /\ A!NewMenuType(i.type, TRUE) = "Sub"
        /\ i.type # "SubMenuEnd"
    BY <1>6 DEF A!NewMenuType
  <2>4. A!Constructed(i, AmOutside(menu, item, m)) =
           AmOutside(menu, item + 1, Append(m, AmMade("Item", i.id, menu, item + 1)))
    <3>1. new(FALSE) = AmMade("Item", i.id, menu, item + 1)
      <4>1. A!Counted(i, count(FALSE)).menu = menu /\ A!Counted(i, count(FALSE)).item = item + 1
        BY <2>1, AmOfCount, Zenon
      <4> QED BY <2>3, <4>1, Zenon DEF AmMade
    <3> HIDE DEF new
    <3>2. A!Constructed(i, AmOutside(menu, item, m)) =
             [count |-> A!Counted(i, count(FALSE)), made |-> Append(m, new(FALSE))]
      BY <1>0, <1>1, <2>3
    <3> QED BY <2>1, <3>1, <3>2 DEF AmOutside, AmInside, AmState
  <2>5. A!Constructed(i, AmInside(menu, item, m)) =
           AmInside(menu, item + 1, Append(m, AmMade("Sub", i.id, menu, item + 1)))
    <3>1. new(TRUE) = AmMade("Sub", i.id, menu, item + 1)
      <4>1. A!Counted(i, count(TRUE)).menu = menu /\ A!Counted(i, count(TRUE)).item = item + 1
        BY <2>2, AmOfCount, Zenon
      <4> QED BY <2>3, <4>1, Zenon DEF AmMade
    <3> HIDE DEF new
    <3>2. A!Constructed(i, AmInside(menu, item, m)) =
             [count |-> A!Counted(i, count(TRUE)), made |-> Append(m, new(TRUE))]
      BY <1>0, <1>1, <2>3
    <3> QED BY <2>2, <3>1, <3>2 DEF AmOutside, AmInside, AmState
  <2> QED BY <2>4, <2>5
<1> QED BY <1>3, <1>4, <1>5, <1>6

--------------------------------------------------------------------------------
LEMMA AmAppend ==
    ASSUME NEW S, NEW m \in Seq(S), NEW x \in S
    PROVE  /\ Append(m, x) \in Seq(S) /\ Len(Append(m, x)) = Len(m) + 1
           /\ Append(m, x)[Len(m) + 1] = x
           /\ \A k \in 1 .. Len(m) : Append(m, x)[k] = m[k]
OBVIOUS

LEMMA AmIds == 1 \in A!Ids /\ 2 \in A!Ids /\ 3 \in A!Ids
<1> DEFINE ids == {TwoMenus[k].id : k \in DOMAIN TwoMenus}
<1>1. /\ DOMAIN TwoMenus = 1 .. 5 /\ TwoMenus[2].id = 1 /\ TwoMenus[3].id = 2 /\ TwoMenus[5].id = 3
  BY DEF TwoMenus, Title, MenuItem
<1>2. 1 \in ids /\ 2 \in ids /\ 3 \in ids
  BY <1>1
<1>3. ids \in {{d[k].id : k \in DOMAIN d} : d \in Descriptions}
  BY DEF Descriptions
<1> HIDE DEF ids
<1> QED BY <1>2, <1>3 DEF A!Ids

LEMMA AmMadeIn ==
    ASSUME NEW type \in {"Title", "Item", "Sub", "End"}, NEW id \in A!Ids \cup {0},
           NEW menu \in Int, NEW item \in Int
    PROVE  LET x == AmMade(type, id, menu, item)
           IN /\ x \in AmMades /\ x.entry = A!Entry(type, id)
              /\ x.mapping.id = id /\ x.mapping.num = A!FULLMENUNUM(menu, item, 0)
<1> DEFINE x == AmMade(type, id, menu, item)
           y == [id |-> id, num |-> A!FULLMENUNUM(menu, item, 0)]
<1>1. A!Entry(type, id) \in A!Entries
  BY DEF A!Entry, A!Entries
<1>2. A!FULLMENUNUM(menu, item, 0) \in [menu : Int, item : Int, sub : Int]
  BY DEF A!FULLMENUNUM
<1>3. y \in A!Mappings /\ y.id = id /\ y.num = A!FULLMENUNUM(menu, item, 0)
  BY <1>2 DEF A!Mappings
<1>4. x = [entry |-> A!Entry(type, id), mapping |-> y]
  BY DEF AmMade
<1> HIDE DEF x, y
<1>5. x \in AmMades /\ x.entry = A!Entry(type, id) /\ x.mapping = y
  BY <1>1, <1>3, <1>4 DEF AmMades
<1> QED BY <1>3, <1>5 DEF x

LEMMA AmStepTitle ==
    ASSUME NEW i, NEW menu, NEW item, NEW m, i.type = "Title"
    PROVE  A!Constructed(i, AmOutside(menu, item, m)) =
              AmOutside(menu + 1, -1, Append(m, AmMade("Title", i.id, menu + 1, -1)))
BY AmStepTo

LEMMA AmStepSubMenu ==
    ASSUME NEW i, NEW menu, NEW item, NEW m, i.type = "SubMenu"
    PROVE  A!Constructed(i, AmOutside(menu, item, m)) =
              AmInside(menu, item, Append(m, AmMade("Item", i.id, menu, item)))
BY AmStepTo

LEMMA AmStepEnd ==
    ASSUME NEW i, NEW menu, NEW item, NEW m, i.type = "SubMenuEnd"
    PROVE  A!Constructed(i, AmInside(menu, item, m)) = AmOutside(menu, item + 1, m)
BY AmStepTo

LEMMA AmStepItem ==
    ASSUME NEW i, NEW menu, NEW item, NEW m, i.type \in {"Item", "Check"}
    PROVE  A!Constructed(i, AmOutside(menu, item, m)) =
              AmOutside(menu, item + 1, Append(m, AmMade("Item", i.id, menu, item + 1)))
BY AmStepTo

LEMMA AmStepSub ==
    ASSUME NEW i, NEW menu, NEW item, NEW m, i.type \in {"Item", "Check"}
    PROVE  A!Constructed(i, AmInside(menu, item, m)) =
              AmInside(menu, item + 1, Append(m, AmMade("Sub", i.id, menu, item + 1)))
BY AmStepTo

LEMMA AmTwoMade ==
    LET e == A!Construct(TwoMenus).newMenus
        p == A!Construct(TwoMenus).mappings
    IN /\ e \in Seq(A!Entries) /\ p \in Seq(A!Mappings) /\ Len(e) = 6 /\ Len(p) = 6
       /\ e[1] = A!Entry("Title", 0) /\ e[2] = A!Entry("Item", 1) /\ e[3] = A!Entry("Item", 2)
       /\ e[4] = A!Entry("Title", 0) /\ e[5] = A!Entry("Item", 3) /\ e[6] = A!Zero
       /\ p[1].id = 0 /\ p[2].id = 1 /\ p[3].id = 2 /\ p[4].id = 0 /\ p[5].id = 3 /\ p[6].id = 0
       /\ p[2].num = A!NotFound /\ p[3].num = A!FULLMENUNUM(0, 1, 0)
       /\ p[5].num = A!FULLMENUNUM(1, 0, 0)
<1> DEFINE d == TwoMenus
           x1 == AmMade("Title", 0, 0, -1)
           x2 == AmMade("Item", 1, 0, 0)
           x3 == AmMade("Item", 2, 0, 1)
           x4 == AmMade("Title", 0, 1, -1)
           x5 == AmMade("Item", 3, 1, 0)
           m0 == <<>>
           m1 == Append(m0, x1)
           m2 == Append(m1, x2)
           m3 == Append(m2, x3)
           m4 == Append(m3, x4)
           m5 == Append(m4, x5)
           c1 == A!Constructed(d[1], AmOutside(-1, 0, m0))
           c2 == A!Constructed(d[2], c1)
           c3 == A!Constructed(d[3], c2)
           c4 == A!Constructed(d[4], c3)
           c5 == A!Constructed(d[5], c4)
           e == A!Construct(TwoMenus).newMenus
           p == A!Construct(TwoMenus).mappings
<1>1. /\ Len(d) = 5
      /\ d[1].type = "Title" /\ d[2].type = "Item" /\ d[3].type = "Check"
      /\ d[4].type = "Title" /\ d[5].type = "Item"
      /\ d[2].type \in {"Item", "Check"} /\ d[3].type \in {"Item", "Check"}
      /\ d[5].type \in {"Item", "Check"}
      /\ d[1].id = 0 /\ d[2].id = 1 /\ d[3].id = 2 /\ d[4].id = 0 /\ d[5].id = 3
  BY DEF TwoMenus, Title, MenuItem
<1>2. /\ e = [k \in DOMAIN c5.made |-> c5.made[k].entry]
                \o [k \in 1 .. 6 - Len(c5.made) |-> A!Zero]
      /\ p = [k \in DOMAIN c5.made |-> c5.made[k].mapping]
                \o [k \in 1 .. 6 - Len(c5.made) |-> [id |-> 0, num |-> A!NotFound]]
  BY <1>1, AmFiveMade, Zenon DEF AmOutside
<1>3. /\ x1 \in AmMades /\ x1.entry = A!Entry("Title", 0) /\ x1.mapping.id = 0
      /\ x4 \in AmMades /\ x4.entry = A!Entry("Title", 0) /\ x4.mapping.id = 0
  BY AmMadeIn
<1>4. /\ x2 \in AmMades /\ x2.entry = A!Entry("Item", 1) /\ x2.mapping.id = 1
      /\ x2.mapping.num = A!FULLMENUNUM(0, 0, 0)
  BY AmIds, AmMadeIn
<1>5. /\ x3 \in AmMades /\ x3.entry = A!Entry("Item", 2) /\ x3.mapping.id = 2
      /\ x3.mapping.num = A!FULLMENUNUM(0, 1, 0)
  BY AmIds, AmMadeIn
<1>6. /\ x5 \in AmMades /\ x5.entry = A!Entry("Item", 3) /\ x5.mapping.id = 3
      /\ x5.mapping.num = A!FULLMENUNUM(1, 0, 0)
  BY AmIds, AmMadeIn
<1> HIDE DEF d, e, p
<1>7. c1 = AmOutside(0, -1, m1)
  <2> HIDE DEF m0
  <2>1. A!Constructed(d[1], AmOutside(-1, 0, m0)) =
           AmOutside(-1 + 1, -1, Append(m0, AmMade("Title", d[1].id, -1 + 1, -1)))
    BY <1>1, AmStepTitle
  <2>2. -1 + 1 = 0 /\ -1 = -1
    OBVIOUS
  <2>3. c1 = AmOutside(-1 + 1, -1, Append(m0, AmMade("Title", d[1].id, -1 + 1, -1)))
    BY <2>1, Zenon
  <2> QED BY <1>1, <2>2, <2>3, Zenon
<1> HIDE DEF c1
<1>8. c2 = AmOutside(0, 0, m2)
  <2> HIDE DEF m1
  <2>1. A!Constructed(d[2], AmOutside(0, -1, m1)) =
           AmOutside(0, -1 + 1, Append(m1, AmMade("Item", d[2].id, 0, -1 + 1)))
    BY <1>1, AmStepItem
  <2>2. 0 = 0 /\ -1 + 1 = 0
    OBVIOUS
  <2>3. c2 = AmOutside(0, -1 + 1, Append(m1, AmMade("Item", d[2].id, 0, -1 + 1)))
    BY <1>7, <2>1, Zenon
  <2> QED BY <1>1, <2>2, <2>3, Zenon
<1> HIDE DEF c2
<1>9. c3 = AmOutside(0, 1, m3)
  <2> HIDE DEF m2
  <2>1. A!Constructed(d[3], AmOutside(0, 0, m2)) =
           AmOutside(0, 0 + 1, Append(m2, AmMade("Item", d[3].id, 0, 0 + 1)))
    BY <1>1, AmStepItem
  <2>2. 0 = 0 /\ 0 + 1 = 1
    OBVIOUS
  <2>3. c3 = AmOutside(0, 0 + 1, Append(m2, AmMade("Item", d[3].id, 0, 0 + 1)))
    BY <1>8, <2>1, Zenon
  <2> QED BY <1>1, <2>2, <2>3, Zenon
<1> HIDE DEF c3
<1>10. c4 = AmOutside(1, -1, m4)
  <2> HIDE DEF m3
  <2>1. A!Constructed(d[4], AmOutside(0, 1, m3)) =
           AmOutside(0 + 1, -1, Append(m3, AmMade("Title", d[4].id, 0 + 1, -1)))
    BY <1>1, AmStepTitle
  <2>2. 0 + 1 = 1 /\ -1 = -1
    OBVIOUS
  <2>3. c4 = AmOutside(0 + 1, -1, Append(m3, AmMade("Title", d[4].id, 0 + 1, -1)))
    BY <1>9, <2>1, Zenon
  <2> QED BY <1>1, <2>2, <2>3, Zenon
<1> HIDE DEF c4
<1>11. c5 = AmOutside(1, 0, m5)
  <2> HIDE DEF m4
  <2>1. A!Constructed(d[5], AmOutside(1, -1, m4)) =
           AmOutside(1, -1 + 1, Append(m4, AmMade("Item", d[5].id, 1, -1 + 1)))
    BY <1>1, AmStepItem
  <2>2. 1 = 1 /\ -1 + 1 = 0
    OBVIOUS
  <2>3. c5 = AmOutside(1, -1 + 1, Append(m4, AmMade("Item", d[5].id, 1, -1 + 1)))
    BY <1>10, <2>1, Zenon
  <2> QED BY <1>1, <2>2, <2>3, Zenon
<1> HIDE DEF c5, x1, x2, x3, x4, x5
<1>12. c5.made = m5
  <2> HIDE DEF m5
  <2> QED BY <1>11 DEF AmOutside, AmState
<1>13. m5 \in Seq(AmMades) /\ Len(m5) = 5 /\ m5[1] = x1 /\ m5[2] = x2 /\ m5[3] = x3
       /\ m5[4] = x4 /\ m5[5] = x5
  <2>1. /\ m1 \in Seq(AmMades) /\ Len(m1) = 1
        /\ m1[1] = x1
    <3>0. <<>> \in Seq(AmMades) /\ x1 \in AmMades
      BY <1>3
    <3>1. Len(<<>>) = 0
      BY <1>3
    <3>2. m1 = Append(<<>>, x1)
      OBVIOUS
    <3> HIDE DEF m1
    <3>3. /\ Append(<<>>, x1) \in Seq(AmMades) /\ Len(Append(<<>>, x1)) = Len(<<>>) + 1
          /\ Append(<<>>, x1)[Len(<<>>) + 1] = x1
          /\ \A k \in 1 .. Len(<<>>) : Append(<<>>, x1)[k] = <<>>[k]
      BY <3>0, AmAppend
    <3> QED BY <3>1, <3>2, <3>3
  <2> HIDE DEF m1
  <2>2. /\ m2 \in Seq(AmMades) /\ Len(m2) = 2
        /\ m2[1] = x1 /\ m2[2] = x2
    <3>0. m1 \in Seq(AmMades) /\ x2 \in AmMades
      BY <1>4, <2>1
    <3>1. Len(m1) = 1
      BY <1>4, <2>1
    <3>2. m2 = Append(m1, x2)
      OBVIOUS
    <3> HIDE DEF m2
    <3>3. /\ Append(m1, x2) \in Seq(AmMades) /\ Len(Append(m1, x2)) = Len(m1) + 1
          /\ Append(m1, x2)[Len(m1) + 1] = x2
          /\ \A k \in 1 .. Len(m1) : Append(m1, x2)[k] = m1[k]
      BY <3>0, AmAppend
    <3> QED BY <3>1, <3>2, <3>3, <2>1
  <2> HIDE DEF m2
  <2>3. /\ m3 \in Seq(AmMades) /\ Len(m3) = 3
        /\ m3[1] = x1 /\ m3[2] = x2 /\ m3[3] = x3
    <3>0. m2 \in Seq(AmMades) /\ x3 \in AmMades
      BY <1>5, <2>2
    <3>1. Len(m2) = 2
      BY <1>5, <2>2
    <3>2. m3 = Append(m2, x3)
      OBVIOUS
    <3> HIDE DEF m3
    <3>3. /\ Append(m2, x3) \in Seq(AmMades) /\ Len(Append(m2, x3)) = Len(m2) + 1
          /\ Append(m2, x3)[Len(m2) + 1] = x3
          /\ \A k \in 1 .. Len(m2) : Append(m2, x3)[k] = m2[k]
      BY <3>0, AmAppend
    <3> QED BY <3>1, <3>2, <3>3, <2>2
  <2> HIDE DEF m3
  <2>4. /\ m4 \in Seq(AmMades) /\ Len(m4) = 4
        /\ m4[1] = x1 /\ m4[2] = x2 /\ m4[3] = x3 /\ m4[4] = x4
    <3>0. m3 \in Seq(AmMades) /\ x4 \in AmMades
      BY <1>3, <2>3
    <3>1. Len(m3) = 3
      BY <1>3, <2>3
    <3>2. m4 = Append(m3, x4)
      OBVIOUS
    <3> HIDE DEF m4
    <3>3. /\ Append(m3, x4) \in Seq(AmMades) /\ Len(Append(m3, x4)) = Len(m3) + 1
          /\ Append(m3, x4)[Len(m3) + 1] = x4
          /\ \A k \in 1 .. Len(m3) : Append(m3, x4)[k] = m3[k]
      BY <3>0, AmAppend
    <3> QED BY <3>1, <3>2, <3>3, <2>3
  <2> HIDE DEF m4
  <2>5. /\ m5 \in Seq(AmMades) /\ Len(m5) = 5
        /\ m5[1] = x1 /\ m5[2] = x2 /\ m5[3] = x3 /\ m5[4] = x4 /\ m5[5] = x5
    <3>0. m4 \in Seq(AmMades) /\ x5 \in AmMades
      BY <1>6, <2>4
    <3>1. Len(m4) = 4
      BY <1>6, <2>4
    <3>2. m5 = Append(m4, x5)
      OBVIOUS
    <3> HIDE DEF m5
    <3>3. /\ Append(m4, x5) \in Seq(AmMades) /\ Len(Append(m4, x5)) = Len(m4) + 1
          /\ Append(m4, x5)[Len(m4) + 1] = x5
          /\ \A k \in 1 .. Len(m4) : Append(m4, x5)[k] = m4[k]
      BY <3>0, AmAppend
    <3> QED BY <3>1, <3>2, <3>3, <2>4
  <2> HIDE DEF m5
  <2> QED BY <2>5
<1> HIDE DEF m5
<1>14. 6 - Len(m5) = 1
  BY <1>13
<1>15. /\ e = [k \in DOMAIN m5 |-> m5[k].entry] \o [k \in 1 .. 1 |-> A!Zero]
       /\ p = [k \in DOMAIN m5 |-> m5[k].mapping]
                \o [k \in 1 .. 1 |-> [id |-> 0, num |-> A!NotFound]]
  BY <1>2, <1>12, <1>14, Zenon
<1>16. /\ e \in Seq(A!Entries) /\ p \in Seq(A!Mappings)
       /\ Len(e) = Len(m5) + 1 /\ Len(p) = Len(m5) + 1
       /\ \A k \in 1 .. Len(m5) : e[k] = m5[k].entry /\ p[k] = m5[k].mapping
       /\ \A k \in 1 .. 1 : e[Len(m5) + k] = A!Zero /\ p[Len(m5) + k] = [id |-> 0, num |-> A!NotFound]
  <2>1. m5 \in Seq(AmMades) /\ 1 \in Nat
    BY <1>13
  <2> QED BY <1>15, <2>1, AmArrays
<1>17. /\ e[1] = x1.entry /\ e[2] = x2.entry /\ e[3] = x3.entry /\ e[4] = x4.entry
       /\ e[5] = x5.entry /\ e[6] = A!Zero
       /\ p[1] = x1.mapping /\ p[2] = x2.mapping /\ p[3] = x3.mapping /\ p[4] = x4.mapping
       /\ p[5] = x5.mapping /\ p[6].id = 0
  BY <1>13, <1>16
<1>18. Len(e) = 6 /\ Len(p) = 6
  BY <1>13, <1>16
<1> QED BY <1>3, <1>4, <1>5, <1>6, <1>16, <1>17, <1>18 DEF e, p, A!NotFound

LEMMA AmSubMade ==
    LET e == A!Construct(WithSubMenu).newMenus
        p == A!Construct(WithSubMenu).mappings
    IN /\ e \in Seq(A!Entries) /\ p \in Seq(A!Mappings) /\ Len(e) = 6 /\ Len(p) = 6
       /\ e[1] = A!Entry("Title", 0) /\ e[2] = A!Entry("Item", 0) /\ e[3] = A!Entry("Sub", 1)
       /\ e[4] = A!Entry("Item", 3) /\ e[5] = A!Zero /\ e[6] = A!Zero
       /\ p[1].id = 0 /\ p[2].id = 0 /\ p[3].id = 1 /\ p[4].id = 3 /\ p[5].id = 0 /\ p[6].id = 0
<1> DEFINE d == WithSubMenu
           x1 == AmMade("Title", 0, 0, -1)
           x2 == AmMade("Item", 0, 0, -1)
           x3 == AmMade("Sub", 1, 0, 0)
           x4 == AmMade("Item", 3, 0, 2)
           m0 == <<>>
           m1 == Append(m0, x1)
           m2 == Append(m1, x2)
           m3 == Append(m2, x3)
           m4 == Append(m3, x4)
           c1 == A!Constructed(d[1], AmOutside(-1, 0, m0))
           c2 == A!Constructed(d[2], c1)
           c3 == A!Constructed(d[3], c2)
           c4 == A!Constructed(d[4], c3)
           c5 == A!Constructed(d[5], c4)
           e == A!Construct(WithSubMenu).newMenus
           p == A!Construct(WithSubMenu).mappings
<1>1. /\ Len(d) = 5
      /\ d[1].type = "Title" /\ d[2].type = "SubMenu" /\ d[3].type = "Item"
      /\ d[4].type = "SubMenuEnd" /\ d[5].type = "Item"
      /\ d[3].type \in {"Item", "Check"} /\ d[5].type \in {"Item", "Check"}
      /\ d[1].id = 0 /\ d[2].id = 0 /\ d[3].id = 1 /\ d[5].id = 3
  BY DEF WithSubMenu, Title, MenuItem
<1>2. /\ e = [k \in DOMAIN c5.made |-> c5.made[k].entry]
                \o [k \in 1 .. 6 - Len(c5.made) |-> A!Zero]
      /\ p = [k \in DOMAIN c5.made |-> c5.made[k].mapping]
                \o [k \in 1 .. 6 - Len(c5.made) |-> [id |-> 0, num |-> A!NotFound]]
  BY <1>1, AmFiveMade, Zenon DEF AmOutside
<1>3. /\ x1 \in AmMades /\ x1.entry = A!Entry("Title", 0) /\ x1.mapping.id = 0
      /\ x2 \in AmMades /\ x2.entry = A!Entry("Item", 0) /\ x2.mapping.id = 0
  BY AmMadeIn
<1>4. x3 \in AmMades /\ x3.entry = A!Entry("Sub", 1) /\ x3.mapping.id = 1
  BY AmIds, AmMadeIn
<1>5. x4 \in AmMades /\ x4.entry = A!Entry("Item", 3) /\ x4.mapping.id = 3
  BY AmIds, AmMadeIn
<1> HIDE DEF d, e, p
<1>7. c1 = AmOutside(0, -1, m1)
  <2> HIDE DEF m0
  <2>1. A!Constructed(d[1], AmOutside(-1, 0, m0)) =
           AmOutside(-1 + 1, -1, Append(m0, AmMade("Title", d[1].id, -1 + 1, -1)))
    BY <1>1, AmStepTitle
  <2>2. -1 + 1 = 0 /\ -1 = -1
    OBVIOUS
  <2>3. c1 = AmOutside(-1 + 1, -1, Append(m0, AmMade("Title", d[1].id, -1 + 1, -1)))
    BY <2>1, Zenon
  <2> QED BY <1>1, <2>2, <2>3, Zenon
<1> HIDE DEF c1
<1>8. c2 = AmInside(0, -1, m2)
  <2> HIDE DEF m1
  <2>1. A!Constructed(d[2], AmOutside(0, -1, m1)) =
           AmInside(0, -1, Append(m1, AmMade("Item", d[2].id, 0, -1)))
    BY <1>1, AmStepSubMenu
  <2>2. 0 = 0 /\ -1 = -1
    OBVIOUS
  <2>3. c2 = AmInside(0, -1, Append(m1, AmMade("Item", d[2].id, 0, -1)))
    BY <1>7, <2>1, Zenon
  <2> QED BY <1>1, <2>2, <2>3, Zenon
<1> HIDE DEF c2
<1>9. c3 = AmInside(0, 0, m3)
  <2> HIDE DEF m2
  <2>1. A!Constructed(d[3], AmInside(0, -1, m2)) =
           AmInside(0, -1 + 1, Append(m2, AmMade("Sub", d[3].id, 0, -1 + 1)))
    BY <1>1, AmStepSub
  <2>2. 0 = 0 /\ -1 + 1 = 0
    OBVIOUS
  <2>3. c3 = AmInside(0, -1 + 1, Append(m2, AmMade("Sub", d[3].id, 0, -1 + 1)))
    BY <1>8, <2>1, Zenon
  <2> QED BY <1>1, <2>2, <2>3, Zenon
<1> HIDE DEF c3
<1>10. c4 = AmOutside(0, 1, m3)
  <2> HIDE DEF m3
  <2>1. A!Constructed(d[4], AmInside(0, 0, m3)) =
           AmOutside(0, 0 + 1, m3)
    BY <1>1, AmStepEnd
  <2>2. 0 = 0 /\ 0 + 1 = 1
    OBVIOUS
  <2>3. c4 = AmOutside(0, 0 + 1, m3)
    BY <1>9, <2>1, Zenon
  <2> QED BY <1>1, <2>2, <2>3, Zenon
<1> HIDE DEF c4
<1>11. c5 = AmOutside(0, 2, m4)
  <2> HIDE DEF m3
  <2>1. A!Constructed(d[5], AmOutside(0, 1, m3)) =
           AmOutside(0, 1 + 1, Append(m3, AmMade("Item", d[5].id, 0, 1 + 1)))
    BY <1>1, AmStepItem
  <2>2. 0 = 0 /\ 1 + 1 = 2
    OBVIOUS
  <2>3. c5 = AmOutside(0, 1 + 1, Append(m3, AmMade("Item", d[5].id, 0, 1 + 1)))
    BY <1>10, <2>1, Zenon
  <2> QED BY <1>1, <2>2, <2>3, Zenon
<1> HIDE DEF c5, x1, x2, x3, x4
<1>12. c5.made = m4
  <2> HIDE DEF m4
  <2> QED BY <1>11 DEF AmOutside, AmState
<1>13. m4 \in Seq(AmMades) /\ Len(m4) = 4 /\ m4[1] = x1 /\ m4[2] = x2 /\ m4[3] = x3 /\ m4[4] = x4
  <2>1. /\ m1 \in Seq(AmMades) /\ Len(m1) = 1
        /\ m1[1] = x1
    <3>0. <<>> \in Seq(AmMades) /\ x1 \in AmMades
      BY <1>3
    <3>1. Len(<<>>) = 0
      BY <1>3
    <3>2. m1 = Append(<<>>, x1)
      OBVIOUS
    <3> HIDE DEF m1
    <3>3. /\ Append(<<>>, x1) \in Seq(AmMades) /\ Len(Append(<<>>, x1)) = Len(<<>>) + 1
          /\ Append(<<>>, x1)[Len(<<>>) + 1] = x1
          /\ \A k \in 1 .. Len(<<>>) : Append(<<>>, x1)[k] = <<>>[k]
      BY <3>0, AmAppend
    <3> QED BY <3>1, <3>2, <3>3
  <2> HIDE DEF m1
  <2>2. /\ m2 \in Seq(AmMades) /\ Len(m2) = 2
        /\ m2[1] = x1 /\ m2[2] = x2
    <3>0. m1 \in Seq(AmMades) /\ x2 \in AmMades
      BY <1>3, <2>1
    <3>1. Len(m1) = 1
      BY <1>3, <2>1
    <3>2. m2 = Append(m1, x2)
      OBVIOUS
    <3> HIDE DEF m2
    <3>3. /\ Append(m1, x2) \in Seq(AmMades) /\ Len(Append(m1, x2)) = Len(m1) + 1
          /\ Append(m1, x2)[Len(m1) + 1] = x2
          /\ \A k \in 1 .. Len(m1) : Append(m1, x2)[k] = m1[k]
      BY <3>0, AmAppend
    <3> QED BY <3>1, <3>2, <3>3, <2>1
  <2> HIDE DEF m2
  <2>3. /\ m3 \in Seq(AmMades) /\ Len(m3) = 3
        /\ m3[1] = x1 /\ m3[2] = x2 /\ m3[3] = x3
    <3>0. m2 \in Seq(AmMades) /\ x3 \in AmMades
      BY <1>4, <2>2
    <3>1. Len(m2) = 2
      BY <1>4, <2>2
    <3>2. m3 = Append(m2, x3)
      OBVIOUS
    <3> HIDE DEF m3
    <3>3. /\ Append(m2, x3) \in Seq(AmMades) /\ Len(Append(m2, x3)) = Len(m2) + 1
          /\ Append(m2, x3)[Len(m2) + 1] = x3
          /\ \A k \in 1 .. Len(m2) : Append(m2, x3)[k] = m2[k]
      BY <3>0, AmAppend
    <3> QED BY <3>1, <3>2, <3>3, <2>2
  <2> HIDE DEF m3
  <2>4. /\ m4 \in Seq(AmMades) /\ Len(m4) = 4
        /\ m4[1] = x1 /\ m4[2] = x2 /\ m4[3] = x3 /\ m4[4] = x4
    <3>0. m3 \in Seq(AmMades) /\ x4 \in AmMades
      BY <1>5, <2>3
    <3>1. Len(m3) = 3
      BY <1>5, <2>3
    <3>2. m4 = Append(m3, x4)
      OBVIOUS
    <3> HIDE DEF m4
    <3>3. /\ Append(m3, x4) \in Seq(AmMades) /\ Len(Append(m3, x4)) = Len(m3) + 1
          /\ Append(m3, x4)[Len(m3) + 1] = x4
          /\ \A k \in 1 .. Len(m3) : Append(m3, x4)[k] = m3[k]
      BY <3>0, AmAppend
    <3> QED BY <3>1, <3>2, <3>3, <2>3
  <2> HIDE DEF m4
  <2> QED BY <2>4
<1> HIDE DEF m4
<1>14. 6 - Len(m4) = 2
  BY <1>13
<1>15. /\ e = [k \in DOMAIN m4 |-> m4[k].entry] \o [k \in 1 .. 2 |-> A!Zero]
       /\ p = [k \in DOMAIN m4 |-> m4[k].mapping]
                \o [k \in 1 .. 2 |-> [id |-> 0, num |-> A!NotFound]]
  BY <1>2, <1>12, <1>14, Zenon
<1>16. /\ e \in Seq(A!Entries) /\ p \in Seq(A!Mappings)
       /\ Len(e) = Len(m4) + 2 /\ Len(p) = Len(m4) + 2
       /\ \A k \in 1 .. Len(m4) : e[k] = m4[k].entry /\ p[k] = m4[k].mapping
       /\ \A k \in 1 .. 2 : e[Len(m4) + k] = A!Zero /\ p[Len(m4) + k] = [id |-> 0, num |-> A!NotFound]
  <2>1. m4 \in Seq(AmMades) /\ 2 \in Nat
    BY <1>13
  <2> QED BY <1>15, <2>1, AmArrays
<1>17. /\ e[1] = x1.entry /\ e[2] = x2.entry /\ e[3] = x3.entry /\ e[4] = x4.entry
       /\ e[5] = A!Zero /\ e[6] = A!Zero
       /\ p[1] = x1.mapping /\ p[2] = x2.mapping /\ p[3] = x3.mapping /\ p[4] = x4.mapping
       /\ p[5].id = 0 /\ p[6].id = 0
  BY <1>13, <1>16
<1>18. Len(e) = 6 /\ Len(p) = 6
  BY <1>13, <1>16
<1> QED BY <1>3, <1>4, <1>5, <1>16, <1>17, <1>18 DEF e, p

--------------------------------------------------------------------------------
\* The numbers of the items of the two menus.
LEMMA AmTwoNumbers ==
    ASSUME NEW n \in Seq(A!Entries), Len(n) = 6,
           n[1].type = "Title", n[2].type = "Item", n[3].type = "Item", n[4].type = "Title",
           n[5].type = "Item", n[6].type = "End"
    PROVE  /\ A!NumberOf(n, 3) = A!FULLMENUNUM(0, 1, 0)
           /\ A!NumberOf(n, 5) = A!FULLMENUNUM(1, 0, 0)
<1>1. A!NumberOf(n, 3) = A!FULLMENUNUM(0, 1, 0)
  <2>1. A!LastOf(n, "Title", 3) = 1
    <3>1. \A i \in 1 + 1 .. 3 : i = 2 \/ i = 3
      OBVIOUS
    <3>2. \A i \in 1 + 1 .. 3 : n[i].type # "Title"
      BY <3>1
    <3>3. 3 \in Nat /\ 1 \in 0 .. 3
      OBVIOUS
    <3> QED BY <3>2, <3>3, AmLastIs
  <2>2. A!Count(n, "Title", 1, 3) = 1
    <3>1. A!Count(n, "Title", 1, 3) = A!Count(n, "Title", 1, 1) + A!Count(n, "Title", 2, 3)
      <4>1. /\ 1 \in Int /\ 3 \in Int /\ 1 <= 1 + 1 /\ 1 <= 3 /\ 1 + 1 = 2
        OBVIOUS
      <4> QED BY <4>1, AmCountSum
    <3>2. A!Count(n, "Title", 1, 1) = 1
      BY AmCountOne
    <3>3. \A i \in 2 .. 3 : i = 2 \/ i = 3
      OBVIOUS
    <3>4. A!Count(n, "Title", 2, 3) = 0
      <4>1. \A i \in 2 .. 3 : n[i].type # "Title"
        BY <3>3
      <4> QED BY <4>1, AmCountNone
    <3> QED BY <3>1, <3>2, <3>4
  <2>3. A!Count(n, "Item", 2, 3) = 2
    <3>1. \A i \in 2 .. 3 : i = 2 \/ i = 3
      OBVIOUS
    <3>2. \A i \in 2 .. 3 : n[i].type = "Item"
      BY <3>1
    <3>3. 2 \in Int /\ 3 \in Int /\ 2 <= 3 + 1 /\ 3 - 2 + 1 = 2
      OBVIOUS
    <3> QED BY <3>2, <3>3, AmCountAll
  <2>4. 1 + 1 = 2 /\ 1 - 1 = 0 /\ 2 - 1 = 1
    OBVIOUS
  <2> QED BY <2>1, <2>2, <2>3, <2>4 DEF A!NumberOf
<1>2. A!NumberOf(n, 5) = A!FULLMENUNUM(1, 0, 0)
  <2>1. A!LastOf(n, "Title", 5) = 4
    <3>1. \A i \in 4 + 1 .. 5 : i = 5
      OBVIOUS
    <3>2. \A i \in 4 + 1 .. 5 : n[i].type # "Title"
      BY <3>1
    <3>3. 5 \in Nat /\ 4 \in 0 .. 5
      OBVIOUS
    <3> QED BY <3>2, <3>3, AmLastIs
  <2>2. A!Count(n, "Title", 1, 5) = 2
    <3>1. A!Count(n, "Title", 1, 5) = A!Count(n, "Title", 1, 1) + A!Count(n, "Title", 2, 5)
      <4>1. /\ 1 \in Int /\ 5 \in Int /\ 1 <= 1 + 1 /\ 1 <= 5 /\ 1 + 1 = 2
        OBVIOUS
      <4> QED BY <4>1, AmCountSum
    <3>2. A!Count(n, "Title", 2, 5) = A!Count(n, "Title", 2, 4) + A!Count(n, "Title", 5, 5)
      <4>1. /\ 2 \in Int /\ 4 \in Int /\ 5 \in Int /\ 2 <= 4 + 1 /\ 4 <= 5 /\ 4 + 1 = 5
        OBVIOUS
      <4> QED BY <4>1, AmCountSum
    <3>3. A!Count(n, "Title", 2, 4) = A!Count(n, "Title", 2, 3) + A!Count(n, "Title", 4, 4)
      <4>1. /\ 2 \in Int /\ 3 \in Int /\ 4 \in Int /\ 2 <= 3 + 1 /\ 3 <= 4 /\ 3 + 1 = 4
        OBVIOUS
      <4> QED BY <4>1, AmCountSum
    <3>4. /\ A!Count(n, "Title", 1, 1) = 1 /\ A!Count(n, "Title", 4, 4) = 1
          /\ A!Count(n, "Title", 5, 5) = 0
      BY AmCountOne
    <3>5. A!Count(n, "Title", 2, 3) = 0
      <4>1. \A i \in 2 .. 3 : i = 2 \/ i = 3
        OBVIOUS
      <4>2. \A i \in 2 .. 3 : n[i].type # "Title"
        BY <4>1
      <4> QED BY <4>2, AmCountNone
    <3> QED BY <3>1, <3>2, <3>3, <3>4, <3>5
  <2>3. A!Count(n, "Item", 5, 5) = 1
    BY AmCountOne
  <2>4. 4 + 1 = 5 /\ 2 - 1 = 1 /\ 1 - 1 = 0
    OBVIOUS
  <2> QED BY <2>1, <2>2, <2>3, <2>4 DEF A!NumberOf
<1> QED BY <1>1, <1>2

\* What both of the descriptions come to.
LEMMA AmBegun ==
    ASSUME A!Init, newMenus \in Seq(A!Entries), mappings \in Seq(A!Mappings)
    PROVE  /\ native \in Seq(A!Entries)
           /\ \A k \in DOMAIN native : native[k].type # "End"
           /\ itemsAsked \in [A!Ids -> [checked : BOOLEAN, disabled : BOOLEAN]]
           /\ A!Shown /\ displaced = FALSE /\ failed = FALSE /\ attached = TRUE /\ missed = FALSE
           /\ \A id \in A!Ids : itemsAsked[id].checked = FALSE /\ itemsAsked[id].disabled = FALSE
<1>1. /\ native = A!CreateMenus(newMenus) /\ displaced = FALSE /\ failed = FALSE
      /\ attached = TRUE /\ missed = FALSE
      /\ itemsAsked = [i \in A!Ids |-> [checked |-> FALSE, disabled |-> FALSE]]
  BY DEF A!Init
<1>2. /\ native \in Seq(A!Entries)
      /\ \A k \in 1 .. Len(native) : native[k].type # "End"
  BY <1>1, AmCreate
<1>3. DOMAIN native = 1 .. Len(native)
  BY <1>2
<1>4. A!Alike(native, A!CreateMenus(newMenus))
  BY <1>1 DEF A!Alike
<1>5. /\ itemsAsked \in [A!Ids -> [checked : BOOLEAN, disabled : BOOLEAN]]
      /\ \A id \in A!Ids : itemsAsked[id].checked = FALSE /\ itemsAsked[id].disabled = FALSE
  BY <1>1
<1> QED BY <1>1, <1>2, <1>3, <1>4, <1>5 DEF A!Shown

LEMMA AmTwoFirst ==
    ASSUME A!Init, items = TwoMenus
    PROVE  A!InOrder
<1>1. /\ newMenus \in Seq(A!Entries) /\ mappings \in Seq(A!Mappings)
      /\ Len(newMenus) = 6 /\ Len(mappings) = 6
      /\ newMenus[1] = A!Entry("Title", 0) /\ newMenus[2] = A!Entry("Item", 1)
      /\ newMenus[3] = A!Entry("Item", 2) /\ newMenus[4] = A!Entry("Title", 0)
      /\ newMenus[5] = A!Entry("Item", 3) /\ newMenus[6] = A!Zero
      /\ mappings[1].id = 0 /\ mappings[2].id = 1 /\ mappings[3].id = 2
      /\ mappings[4].id = 0 /\ mappings[5].id = 3 /\ mappings[6].id = 0
      /\ mappings[2].num = A!NotFound /\ mappings[3].num = A!FULLMENUNUM(0, 1, 0)
      /\ mappings[5].num = A!FULLMENUNUM(1, 0, 0)
  <2>1. newMenus = A!Construct(TwoMenus).newMenus /\ mappings = A!Construct(TwoMenus).mappings
    BY DEF A!Init
  <2> QED BY <2>1, AmTwoMade
<1>2. /\ newMenus[1].type = "Title" /\ newMenus[2].type = "Item" /\ newMenus[3].type = "Item"
      /\ newMenus[4].type = "Title" /\ newMenus[5].type = "Item" /\ newMenus[6].type = "End"
      /\ newMenus[1].id = 0 /\ newMenus[2].id = 1 /\ newMenus[3].id = 2
      /\ newMenus[4].id = 0 /\ newMenus[5].id = 3 /\ newMenus[6].id = 0
      /\ newMenus[3].checked = FALSE /\ newMenus[3].disabled = FALSE
      /\ newMenus[5].checked = FALSE /\ newMenus[5].disabled = FALSE
  <2>1. newMenus[1].type = "Title" /\ newMenus[1].id = 0
        /\ newMenus[1].checked = FALSE /\ newMenus[1].disabled = FALSE
    <3>1. newMenus[1] = A!Entry("Title", 0)
      BY <1>1
    <3> QED BY <3>1 DEF A!Entry
  <2>2. newMenus[2].type = "Item" /\ newMenus[2].id = 1
        /\ newMenus[2].checked = FALSE /\ newMenus[2].disabled = FALSE
    <3>1. newMenus[2] = A!Entry("Item", 1)
      BY <1>1
    <3> QED BY <3>1 DEF A!Entry
  <2>3. newMenus[3].type = "Item" /\ newMenus[3].id = 2
        /\ newMenus[3].checked = FALSE /\ newMenus[3].disabled = FALSE
    <3>1. newMenus[3] = A!Entry("Item", 2)
      BY <1>1
    <3> QED BY <3>1 DEF A!Entry
  <2>4. newMenus[4].type = "Title" /\ newMenus[4].id = 0
        /\ newMenus[4].checked = FALSE /\ newMenus[4].disabled = FALSE
    <3>1. newMenus[4] = A!Entry("Title", 0)
      BY <1>1
    <3> QED BY <3>1 DEF A!Entry
  <2>5. newMenus[5].type = "Item" /\ newMenus[5].id = 3
        /\ newMenus[5].checked = FALSE /\ newMenus[5].disabled = FALSE
    <3>1. newMenus[5] = A!Entry("Item", 3)
      BY <1>1
    <3> QED BY <3>1 DEF A!Entry
  <2>6. newMenus[6].type = "End" /\ newMenus[6].id = 0
        /\ newMenus[6].checked = FALSE /\ newMenus[6].disabled = FALSE
    <3>1. newMenus[6] = A!Entry("End", 0)
      BY <1>1 DEF A!Zero
    <3> QED BY <3>1 DEF A!Entry
  <2> QED BY <2>1, <2>2, <2>3, <2>4, <2>5, <2>6
<1>3. DOMAIN newMenus = 1 .. 6 /\ DOMAIN mappings = 1 .. 6
  BY <1>1
<1>4. \A k \in 1 .. 6 : k = 1 \/ k = 2 \/ k = 3 \/ k = 4 \/ k = 5 \/ k = 6
  OBVIOUS
<1>5. added = {1, 2, 3}
  <2>1. DOMAIN items = 1 .. 5 /\ items[1].id = 0 /\ items[2].id = 1 /\ items[3].id = 2
        /\ items[4].id = 0 /\ items[5].id = 3
    BY DEF TwoMenus, Title, MenuItem
  <2>2. \A k \in 1 .. 5 : k = 1 \/ k = 2 \/ k = 3 \/ k = 4 \/ k = 5
    OBVIOUS
  <2>3. {items[k].id : k \in DOMAIN items} = {0, 1, 2, 3}
    BY <2>1, <2>2
  <2>4. added = {items[k].id : k \in DOMAIN items} \ {0}
    BY DEF A!Init
  <2> QED BY <2>3, <2>4
<1>6. /\ native \in Seq(A!Entries) /\ \A k \in DOMAIN native : native[k].type # "End"
      /\ itemsAsked \in [A!Ids -> [checked : BOOLEAN, disabled : BOOLEAN]]
      /\ A!Shown /\ displaced = FALSE /\ failed = FALSE /\ attached = TRUE /\ missed = FALSE
      /\ \A id \in A!Ids : itemsAsked[id].checked = FALSE /\ itemsAsked[id].disabled = FALSE
  BY <1>1, AmBegun
<1>7. A!Typed
  <2>1. added \subseteq A!Ids \ {0}
    BY <1>5, AmIds
  <2>2. items \in Descriptions
    BY DEF A!Init
  <2> QED BY <1>1, <1>6, <2>1, <2>2 DEF A!Typed
<1>8. AmPairs(newMenus, mappings, added)
  <2>1. \A k \in DOMAIN newMenus : mappings[k].id = newMenus[k].id
    BY <1>1, <1>2, <1>3, <1>4
  <2>2. \A id \in added : \E k \in DOMAIN newMenus : newMenus[k].id = id
    BY <1>2, <1>3, <1>5
  <2>3. \A k \in DOMAIN newMenus : newMenus[k].id \in added \cup {0}
    BY <1>2, <1>3, <1>4, <1>5
  <2>4. ASSUME NEW k \in DOMAIN newMenus, newMenus[k].id # 0
        PROVE  (k = 2 /\ newMenus[k].id = 1) \/ (k = 3 /\ newMenus[k].id = 2) \/ (k = 5 /\ newMenus[k].id = 3)
    BY <1>2, <1>3, <1>4, <2>4
  <2>5. \A k, l \in DOMAIN newMenus : newMenus[k].id = newMenus[l].id /\ newMenus[k].id # 0 => k = l
    BY <2>4
  <2>6. \A k \in DOMAIN newMenus : newMenus[k].type = "End" => newMenus[k].id = 0
    BY <1>2, <1>3, <1>4
  <2>7. newMenus # <<>>
    <3>1. Len(newMenus) = 6 /\ Len(<<>>) = 0
      BY <1>1
    <3> QED BY <3>1
  <2>8. newMenus[Len(newMenus)].type = "End" /\ Len(newMenus) = Len(mappings)
    BY <1>1, <1>2, Zenon
  <2> QED BY <2>1, <2>2, <2>3, <2>5, <2>6, <2>7, <2>8 DEF AmPairs
<1>9. AmWhole(newMenus)
  BY <1>1, <1>2, <1>3, <1>4 DEF AmWhole
<1>10. AmRows(newMenus)
  BY <1>2, <1>3, <1>4 DEF AmRows
<1>11. AmKeeps(newMenus, mappings, native, itemsAsked, missed)
  <2>1. /\ A!NumberOf(newMenus, 3) = A!FULLMENUNUM(0, 1, 0)
        /\ A!NumberOf(newMenus, 5) = A!FULLMENUNUM(1, 0, 0)
    BY <1>1, <1>2, AmTwoNumbers
  <2>2. newMenus[3] = native[3] /\ newMenus[5] = native[5]
    <3>1. AmArray(newMenus)
      BY <1>1, <1>8, <1>9, <1>10, AmMeansArray
    <3>2. native = A!CreateMenus(newMenus)
      BY DEF A!Init
    <3>3. \A k \in 1 .. Len(newMenus) - 1 : native[k] = newMenus[k]
      BY <3>1, <3>2, AmCreateArray
    <3>4. 3 \in 1 .. Len(newMenus) - 1 /\ 5 \in 1 .. Len(newMenus) - 1
      BY <1>1
    <3> QED BY <3>3, <3>4
  <2>3. itemsAsked[2].checked = FALSE /\ itemsAsked[2].disabled = FALSE
        /\ itemsAsked[3].checked = FALSE /\ itemsAsked[3].disabled = FALSE
    BY <1>6, AmIds
  <2>4. ASSUME NEW k \in DOMAIN newMenus, AmAddressed(newMenus, mappings, k)
        PROVE  k = 3 \/ k = 5
    <3>1. newMenus[k].type \in {"Item", "Sub"} /\ mappings[k].num # A!NotFound
      BY <2>4 DEF AmAddressed
    <3> QED BY <1>1, <1>2, <1>3, <1>4, <3>1
  <2>5. ASSUME NEW k \in DOMAIN newMenus, AmAddressed(newMenus, mappings, k)
        PROVE  /\ mappings[k].num = A!NumberOf(newMenus, k) /\ newMenus[k] = native[k]
               /\ newMenus[k].checked = itemsAsked[newMenus[k].id].checked
               /\ newMenus[k].disabled = itemsAsked[newMenus[k].id].disabled
    <3>1. CASE k = 3
      BY <1>1, <1>2, <2>1, <2>2, <2>3, <3>1
    <3>2. CASE k = 5
      BY <1>1, <1>2, <2>1, <2>2, <2>3, <3>2
    <3> QED BY <2>4, <2>5, <3>1, <3>2
  <2> QED BY <2>5 DEF AmKeeps, AmSame
<1> QED BY <1>6, <1>7, <1>8, <1>9, <1>10, <1>11, AmMeans DEF A!InOrder

LEMMA AmSubFirst ==
    ASSUME A!Init, items = WithSubMenu
    PROVE  A!InOrder
<1>1. /\ newMenus \in Seq(A!Entries) /\ mappings \in Seq(A!Mappings)
      /\ Len(newMenus) = 6 /\ Len(mappings) = 6
      /\ newMenus[1] = A!Entry("Title", 0) /\ newMenus[2] = A!Entry("Item", 0)
      /\ newMenus[3] = A!Entry("Sub", 1) /\ newMenus[4] = A!Entry("Item", 3)
      /\ newMenus[5] = A!Zero /\ newMenus[6] = A!Zero
      /\ mappings[1].id = 0 /\ mappings[2].id = 0 /\ mappings[3].id = 1
      /\ mappings[4].id = 3 /\ mappings[5].id = 0 /\ mappings[6].id = 0
  <2>1. newMenus = A!Construct(WithSubMenu).newMenus /\ mappings = A!Construct(WithSubMenu).mappings
    BY DEF A!Init
  <2> QED BY <2>1, AmSubMade
<1>2. /\ newMenus[1].id = 0 /\ newMenus[2].id = 0 /\ newMenus[3].id = 1
      /\ newMenus[4].id = 3 /\ newMenus[5].id = 0 /\ newMenus[6].id = 0
      /\ newMenus[3].type = "Sub" /\ newMenus[4].type = "Item" /\ newMenus[6].type = "End"
  <2>1. newMenus[1].type = "Title" /\ newMenus[1].id = 0
        /\ newMenus[1].checked = FALSE /\ newMenus[1].disabled = FALSE
    <3>1. newMenus[1] = A!Entry("Title", 0)
      BY <1>1
    <3> QED BY <3>1 DEF A!Entry
  <2>2. newMenus[2].type = "Item" /\ newMenus[2].id = 0
        /\ newMenus[2].checked = FALSE /\ newMenus[2].disabled = FALSE
    <3>1. newMenus[2] = A!Entry("Item", 0)
      BY <1>1
    <3> QED BY <3>1 DEF A!Entry
  <2>3. newMenus[3].type = "Sub" /\ newMenus[3].id = 1
        /\ newMenus[3].checked = FALSE /\ newMenus[3].disabled = FALSE
    <3>1. newMenus[3] = A!Entry("Sub", 1)
      BY <1>1
    <3> QED BY <3>1 DEF A!Entry
  <2>4. newMenus[4].type = "Item" /\ newMenus[4].id = 3
        /\ newMenus[4].checked = FALSE /\ newMenus[4].disabled = FALSE
    <3>1. newMenus[4] = A!Entry("Item", 3)
      BY <1>1
    <3> QED BY <3>1 DEF A!Entry
  <2>5. newMenus[5].type = "End" /\ newMenus[5].id = 0
        /\ newMenus[5].checked = FALSE /\ newMenus[5].disabled = FALSE
    <3>1. newMenus[5] = A!Entry("End", 0)
      BY <1>1 DEF A!Zero
    <3> QED BY <3>1 DEF A!Entry
  <2>6. newMenus[6].type = "End" /\ newMenus[6].id = 0
        /\ newMenus[6].checked = FALSE /\ newMenus[6].disabled = FALSE
    <3>1. newMenus[6] = A!Entry("End", 0)
      BY <1>1 DEF A!Zero
    <3> QED BY <3>1 DEF A!Entry
  <2> QED BY <2>1, <2>2, <2>3, <2>4, <2>5, <2>6
<1>3. DOMAIN newMenus = 1 .. 6 /\ DOMAIN mappings = 1 .. 6
  BY <1>1
<1>4. \A k \in 1 .. 6 : k = 1 \/ k = 2 \/ k = 3 \/ k = 4 \/ k = 5 \/ k = 6
  OBVIOUS
<1>5. added = {1, 3} /\ A!HasSubMenus
  <2>1. DOMAIN items = 1 .. 5 /\ items[1].id = 0 /\ items[2].id = 0 /\ items[3].id = 1
        /\ items[4].id = 0 /\ items[5].id = 3 /\ items[2].type = "SubMenu"
    BY DEF WithSubMenu, Title, MenuItem
  <2>2. \A k \in 1 .. 5 : k = 1 \/ k = 2 \/ k = 3 \/ k = 4 \/ k = 5
    OBVIOUS
  <2>3. {items[k].id : k \in DOMAIN items} = {0, 1, 3}
    BY <2>1, <2>2
  <2>4. added = {items[k].id : k \in DOMAIN items} \ {0}
    BY DEF A!Init
  <2>5. A!HasSubMenus
    BY <2>1 DEF A!HasSubMenus
  <2> QED BY <2>3, <2>4, <2>5
<1>6. /\ native \in Seq(A!Entries) /\ \A k \in DOMAIN native : native[k].type # "End"
      /\ itemsAsked \in [A!Ids -> [checked : BOOLEAN, disabled : BOOLEAN]]
      /\ A!Shown /\ displaced = FALSE /\ failed = FALSE /\ attached = TRUE /\ missed = FALSE
  BY <1>1, AmBegun
<1>7. A!Typed
  <2>1. added \subseteq A!Ids \ {0}
    BY <1>5, AmIds
  <2>2. items \in Descriptions
    BY DEF A!Init
  <2> QED BY <1>1, <1>6, <2>1, <2>2 DEF A!Typed
<1>8. AmPairs(newMenus, mappings, added)
  <2>1. \A k \in DOMAIN newMenus : mappings[k].id = newMenus[k].id
    BY <1>1, <1>2, <1>3, <1>4
  <2>2. \A id \in added : \E k \in DOMAIN newMenus : newMenus[k].id = id
    BY <1>2, <1>3, <1>5
  <2>3. \A k \in DOMAIN newMenus : newMenus[k].id \in added \cup {0}
    BY <1>2, <1>3, <1>4, <1>5
  <2>4. ASSUME NEW k \in DOMAIN newMenus, newMenus[k].id # 0
        PROVE  (k = 3 /\ newMenus[k].id = 1) \/ (k = 4 /\ newMenus[k].id = 3)
    BY <1>2, <1>3, <1>4, <2>4
  <2>5. \A k, l \in DOMAIN newMenus : newMenus[k].id = newMenus[l].id /\ newMenus[k].id # 0 => k = l
    BY <2>4
  <2>6. \A k \in DOMAIN newMenus : newMenus[k].type = "End" => newMenus[k].id = 0
    BY <1>2, <1>3, <1>4
  <2>7. newMenus # <<>>
    <3>1. Len(newMenus) = 6 /\ Len(<<>>) = 0
      BY <1>1
    <3> QED BY <3>1
  <2>8. newMenus[Len(newMenus)].type = "End" /\ Len(newMenus) = Len(mappings)
    BY <1>1, <1>2, Zenon
  <2> QED BY <2>1, <2>2, <2>3, <2>5, <2>6, <2>7, <2>8 DEF AmPairs
<1> QED BY <1>5, <1>6, <1>7, <1>8, AmMeans DEF A!InOrder

LEMMA AmFirst == A!Init => A!InOrder
BY AmTwoFirst, AmSubFirst DEF A!Init, Descriptions

--------------------------------------------------------------------------------
(***************************************************************************)
(* The two together.                                                       *)
(***************************************************************************)
AmigaFollows == part = "amiga" => A!InOrder

MenusFollow == part = "menus" => M!InOrder

\* CWindow and CAmiMenus: what the client has added to the menus and not removed is in
\* them, each item once and in the state it was last given, where on Windows an update of
\* its label gives it one too, enabled and without a tick; on Windows and Qt in the menu bar
\* and among the shortcuts, on Amiga OS in the array, by the numbers, and in the strip made
\* for the window but for what is enabled or disabled while SetMenuStrip() has left the
\* window without one; and a shortcut runs an item that has its key.  For any number of
\* calls, and any commands and keys of what is added.
THEOREM MenusStayAsAsked == AllSpec => []MenusAreAsAsked
<1>1. AllInit => AmigaFollows /\ MenusFollow
  <2>1. AllInit /\ part = "amiga" => A!InOrder
    BY AmFirst DEF AllInit
  <2>2. AllInit /\ part = "menus" => M!InOrder
    BY MeFirst DEF AllInit
  <2> QED BY <2>1, <2>2 DEF AmigaFollows, MenusFollow
<1>2. AmigaFollows /\ [AllNext]_all => AmigaFollows'
  <2> SUFFICES ASSUME AmigaFollows, [AllNext]_all, part' = "amiga"
               PROVE  A!InOrder'
    BY DEF AmigaFollows
  <2>1. CASE UNCHANGED all
    BY <2>1, AmInductive DEF all, AmigaFollows
  <2>2. CASE AllNext
    BY <2>2, AmInductive DEF AllNext, AmigaFollows
  <2> QED BY <2>1, <2>2
<1>3. MenusFollow /\ [AllNext]_all => MenusFollow'
  <2> SUFFICES ASSUME MenusFollow, [AllNext]_all, part' = "menus"
               PROVE  M!InOrder'
    BY DEF MenusFollow
  <2>1. CASE UNCHANGED all
    BY <2>1, MeInductive DEF all, MenusFollow
  <2>2. CASE AllNext
    BY <2>2, MeInductive DEF AllNext, MenusFollow
  <2> QED BY <2>1, <2>2
<1>4. AmigaFollows /\ MenusFollow => MenusAreAsAsked
  <2>1. CASE part = "amiga"
    <3>1. ASSUME A!InOrder PROVE A!TypeOK /\ A!ItemsAreAsAsked
      BY <3>1, AmAsAsked
    <3>2. ASSUME A!InOrder PROVE A!ShortcutRunsItsItem
      BY <3>2, AmShortcuts DEF A!InOrder, A!Typed
    <3> QED BY <2>1, <3>1, <3>2 DEF AmigaFollows, MenusAreAsAsked
  <2>2. CASE part = "menus"
    BY <2>2, MeProperty DEF MenusFollow, MenusAreAsAsked
  <2>3. CASE part \notin {"amiga", "menus"}
    BY <2>3 DEF MenusAreAsAsked
  <2> QED BY <2>1, <2>2, <2>3
<1> QED BY <1>1, <1>2, <1>3, <1>4, PTL DEF AllSpec
================================================================================
