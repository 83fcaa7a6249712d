------------------------------- MODULE FilesProofs -----------------------------
(***************************************************************************)
(* What a program uses of the system below it, for any lengths, files,     *)
(* objects, lists, blocks and addresses: names, files, the node pool and   *)
(* MungWall.  What is proved of StdList serves the pool, which is two of   *)
(* its lists.                                                              *)
(***************************************************************************)
EXTENDS MCFiles, ListSortProofs, FiniteSetTheorems

--------------------------------------------------------------------------------
(***************************************************************************)
(* PathNames.  What is behind the last separator, and the last dot.        *)
(***************************************************************************)
LEMMA Greatest ==
    ASSUME NEW n \in Nat, NEW T, T \subseteq 1 .. n, T # {}
    PROVE  \E k \in T : \A j \in T : j <= k
<1> DEFINE U == {n - j : j \in T}
<1>0. \A j \in T : j \in Nat /\ n - j \in Nat
  OBVIOUS
<1>1. U \subseteq Nat /\ U # {}
  BY <1>0
<1>2. PICK k \in U : \A j \in U : k <= j
  BY <1>1, Least
<1>3. PICK i \in T : k = n - i
  OBVIOUS
<1>4. ASSUME NEW j \in T PROVE j <= i
  <2>1. n - j \in U
    OBVIOUS
  <2>2. n - i <= n - j /\ i \in Nat /\ j \in Nat
    BY <1>0, <1>2, <1>3, <2>1
  <2> QED BY <2>2
<1> QED BY <1>4

LEMMA NaMax ==
    ASSUME NEW n \in Nat, NEW T, T \subseteq 1 .. n, T # {}
    PROVE  N!Max(T) \in T /\ \A j \in T : j <= N!Max(T)
<1>0. \A j \in T : j \in Nat
  OBVIOUS
<1>1. PICK k \in T : \A j \in T : k >= j
  <2>1. PICK k \in T : \A j \in T : j <= k
    BY Greatest
  <2> QED BY <1>0, <2>1
<1>2. N!Max(T) \in T /\ \A j \in T : N!Max(T) >= j
  BY <1>1, Zenon DEF N!Max
<1> QED BY <1>0, <1>2

LEMMA NaMin ==
    ASSUME NEW n \in Nat, NEW T, T \subseteq 1 .. n, T # {}
    PROVE  N!Min(T) \in T /\ \A j \in T : N!Min(T) <= j
<1>1. PICK k \in T : \A j \in T : k =< j
  <2>1. T \subseteq Nat
    OBVIOUS
  <2> QED BY <2>1, Least
<1>2. N!Min(T) \in T /\ \A j \in T : N!Min(T) =< j
  BY <1>1, Zenon DEF N!Min
<1> QED BY <1>2

Separated(s) == {i \in 1 .. Len(s) : s[i] \in N!Separators}

Dotted(s) == {i \in 1 .. Len(s) : s[i] = "."}

Greatest0(T) == IF T # {} THEN N!Max(T) ELSE 0

LEMMA NaParts ==
    ASSUME NEW s
    PROVE  /\ N!FilePart(s) = SubSeq(s, Greatest0(Separated(s)) + 1, Len(s))
           /\ N!Extension(s) = SubSeq(s, Greatest0(Dotted(s)) + 1, Len(s))
BY DEF N!FilePart, N!Extension, N!SelectLastInSeq, Separated, Dotted, Greatest0

LEMMA NaGreatest ==
    ASSUME NEW n \in Nat, NEW T, T \subseteq 1 .. n, NEW k \in T, \A j \in T : j <= k
    PROVE  Greatest0(T) = k
<1>1. N!Max(T) \in T /\ \A j \in T : j <= N!Max(T)
  BY NaMax
<1>2. \A j \in T : j \in Nat
  OBVIOUS
<1>3. N!Max(T) = k
  <2>1. N!Max(T) \in Nat /\ k \in Nat /\ k <= N!Max(T) /\ N!Max(T) <= k
    BY <1>1, <1>2
  <2> QED BY <2>1
<1>4. T # {}
  OBVIOUS
<1> QED BY <1>3, <1>4 DEF Greatest0

\* A part without separators, behind one or alone.
LEMMA NaFilePart ==
    ASSUME NEW S, NEW r \in Seq(S), NEW t \in Seq(S), N!Plain(t),
           r = <<>> \/ r[Len(r)] \in N!Separators
    PROVE  N!FilePart(r \o t) = t
<1> DEFINE u == r \o t
<1>1. /\ u \in Seq(S) /\ Len(u) = Len(r) + Len(t) /\ Len(r) \in Nat /\ Len(t) \in Nat
      /\ \A i \in 1 .. Len(r) + Len(t) : u[i] = IF i <= Len(r) THEN r[i] ELSE t[i - Len(r)]
  BY ConcatProperties
<1> HIDE DEF u
<1>2. \A i \in 1 .. Len(u) : i > Len(r) => i \notin Separated(u)
  <2> SUFFICES ASSUME NEW i \in 1 .. Len(u), i > Len(r) PROVE u[i] \notin N!Separators
    BY DEF Separated
  <2>1. u[i] = t[i - Len(r)] /\ i - Len(r) \in 1 .. Len(t)
    BY <1>1
  <2> QED BY <2>1 DEF N!Plain
<1>3. Separated(u) \subseteq 1 .. Len(u) /\ Len(u) \in Nat
  BY <1>1 DEF Separated
<1>4. Greatest0(Separated(u)) = Len(r)
  <2>1. CASE r = <<>>
    <3>1. Len(r) = 0 /\ Separated(u) = {}
      BY <1>1, <1>2, <1>3, <2>1
    <3> QED BY <3>1 DEF Greatest0
  <2>2. CASE r # <<>>
    <3>1. Len(r) \in 1 .. Len(u)
      BY <1>1, <2>2
    <3>2. Len(r) \in Separated(u)
      BY <1>1, <2>2, <3>1 DEF Separated
    <3>3. \A j \in Separated(u) : j <= Len(r)
      BY <1>1, <1>2, <1>3
    <3> QED BY <1>3, <3>2, <3>3, NaGreatest
  <2> QED BY <2>1, <2>2
<1>5. N!FilePart(u) = SubSeq(u, Len(r) + 1, Len(u))
  BY <1>4, NaParts
<1>6. SubSeq(u, Len(r) + 1, Len(u)) = t
  <2>1. \A i \in Len(r) + 1 .. Len(u) : u[i] \in S
    BY <1>1, ElementOfSeq
  <2>2. /\ SubSeq(u, Len(r) + 1, Len(u)) \in Seq(S)
        /\ Len(SubSeq(u, Len(r) + 1, Len(u))) =
              IF Len(r) + 1 <= Len(u) THEN Len(u) - (Len(r) + 1) + 1 ELSE 0
        /\ \A i \in 1 .. Len(u) - (Len(r) + 1) + 1 :
              SubSeq(u, Len(r) + 1, Len(u))[i] = u[Len(r) + 1 + i - 1]
    BY <1>1, <2>1, SubSeqProperties
  <2>3. Len(SubSeq(u, Len(r) + 1, Len(u))) = Len(t)
    BY <1>1, <2>2
  <2>4. \A i \in 1 .. Len(t) : SubSeq(u, Len(r) + 1, Len(u))[i] = t[i]
    <3> SUFFICES ASSUME NEW i \in 1 .. Len(t) PROVE u[Len(r) + 1 + i - 1] = t[i]
      BY <1>1, <2>2
    <3>1. Len(r) + 1 + i - 1 = Len(r) + i /\ Len(r) + i \in 1 .. Len(r) + Len(t)
          /\ ~(Len(r) + i <= Len(r)) /\ Len(r) + i - Len(r) = i
      BY <1>1
    <3> QED BY <1>1, <3>1
  <2> QED BY <2>2, <2>3, <2>4, SeqEqual
<1> QED BY <1>5, <1>6 DEF u

\* An extension is that of the last part.
LEMMA NaExtension ==
    ASSUME NEW S, NEW r \in Seq(S), NEW t \in Seq(S), N!HasExtension(t)
    PROVE  N!HasExtension(r \o t) /\ N!Extension(r \o t) = N!Extension(t)
<1> DEFINE u == r \o t
<1>1. /\ u \in Seq(S) /\ Len(u) = Len(r) + Len(t) /\ Len(r) \in Nat /\ Len(t) \in Nat
      /\ \A i \in 1 .. Len(r) + Len(t) : u[i] = IF i <= Len(r) THEN r[i] ELSE t[i - Len(r)]
  BY ConcatProperties
<1> HIDE DEF u
<1>2. \A i \in 1 .. Len(t) : u[Len(r) + i] = t[i]
  <2> SUFFICES ASSUME NEW i \in 1 .. Len(t) PROVE u[Len(r) + i] = t[i]
    OBVIOUS
  <2>1. Len(r) + i \in 1 .. Len(r) + Len(t) /\ ~(Len(r) + i <= Len(r)) /\ Len(r) + i - Len(r) = i
    BY <1>1
  <2> QED BY <1>1, <2>1
<1>3. Dotted(t) # {} /\ Dotted(t) \subseteq 1 .. Len(t)
  BY DEF N!HasExtension, Dotted
<1> DEFINE m == N!Max(Dotted(t))
<1>4. m \in Dotted(t) /\ \A j \in Dotted(t) : j <= m
  BY <1>1, <1>3, NaMax
<1>5. Greatest0(Dotted(t)) = m
  BY <1>3 DEF Greatest0
<1> HIDE DEF m
<1>6. m \in 1 .. Len(t) /\ t[m] = "."
  BY <1>4 DEF Dotted
<1>7. Len(r) + m \in Dotted(u)
  <2>1. Len(r) + m \in 1 .. Len(u)
    BY <1>1, <1>6
  <2> QED BY <1>2, <1>6, <2>1 DEF Dotted
<1>8. \A j \in Dotted(u) : j <= Len(r) + m
  <2> SUFFICES ASSUME NEW j \in Dotted(u), j > Len(r) PROVE j <= Len(r) + m
    BY <1>1, <1>6 DEF Dotted
  <2>1. j \in 1 .. Len(u) /\ u[j] = "."
    BY DEF Dotted
  <2>2. j - Len(r) \in 1 .. Len(t) /\ Len(r) + (j - Len(r)) = j
    BY <1>1, <2>1
  <2>3. t[j - Len(r)] = "."
    BY <1>2, <2>1, <2>2
  <2>4. j - Len(r) <= m
    BY <1>4, <2>2, <2>3 DEF Dotted
  <2> QED BY <1>1, <1>6, <2>1, <2>4
<1>9. Greatest0(Dotted(u)) = Len(r) + m
  <2>1. Dotted(u) \subseteq 1 .. Len(u) /\ Len(u) \in Nat
    BY <1>1 DEF Dotted
  <2> QED BY <1>7, <1>8, <2>1, NaGreatest
<1>10. N!HasExtension(u)
  BY <1>1, <1>7 DEF N!HasExtension, Dotted
<1>11. SubSeq(u, Len(r) + m + 1, Len(u)) = SubSeq(t, m + 1, Len(t))
  <2> DEFINE v == SubSeq(u, Len(r) + m + 1, Len(u))
             w == SubSeq(t, m + 1, Len(t))
  <2>1. (\A i \in Len(r) + m + 1 .. Len(u) : u[i] \in S) /\ \A i \in m + 1 .. Len(t) : t[i] \in S
    BY <1>1, <1>6, ElementOfSeq
  <2>2. /\ v \in Seq(S)
        /\ Len(v) = IF Len(r) + m + 1 <= Len(u) THEN Len(u) - (Len(r) + m + 1) + 1 ELSE 0
        /\ \A i \in 1 .. Len(u) - (Len(r) + m + 1) + 1 : v[i] = u[Len(r) + m + 1 + i - 1]
    BY <1>1, <1>6, <2>1, SubSeqProperties
  <2>3. /\ w \in Seq(S)
        /\ Len(w) = IF m + 1 <= Len(t) THEN Len(t) - (m + 1) + 1 ELSE 0
        /\ \A i \in 1 .. Len(t) - (m + 1) + 1 : w[i] = t[m + 1 + i - 1]
    BY <1>1, <1>6, <2>1, SubSeqProperties
  <2> HIDE DEF v, w
  <2>4. Len(v) = Len(w)
    BY <1>1, <1>6, <2>2, <2>3
  <2>5. \A i \in 1 .. Len(v) : v[i] = w[i]
    <3> SUFFICES ASSUME NEW i \in 1 .. Len(v) PROVE v[i] = w[i]
      OBVIOUS
    <3>1. i \in 1 .. Len(u) - (Len(r) + m + 1) + 1 /\ i \in 1 .. Len(t) - (m + 1) + 1
      BY <1>1, <1>6, <2>2
    <3>2. m + i \in 1 .. Len(t) /\ Len(r) + m + 1 + i - 1 = Len(r) + (m + i) /\ m + 1 + i - 1 = m + i
      BY <1>1, <1>6, <3>1
    <3> QED BY <1>2, <2>2, <2>3, <3>1, <3>2
  <2> QED BY <2>2, <2>3, <2>4, <2>5, SeqEqual DEF v, w
<1>12. N!Extension(u) = SubSeq(u, Len(r) + m + 1, Len(u)) /\ N!Extension(t) = SubSeq(t, m + 1, Len(t))
  BY <1>5, <1>9, NaParts
<1> QED BY <1>10, <1>11, <1>12 DEF u

LEMMA NaEnds ==
    ASSUME NEW S, NEW r \in Seq(S), NEW t \in Seq(S)
    PROVE  N!IsPrefix(r, r \o t) /\ N!IsSuffix(t, r \o t)
<1> DEFINE u == r \o t
<1>1. /\ u \in Seq(S) /\ Len(u) = Len(r) + Len(t) /\ Len(r) \in Nat /\ Len(t) \in Nat
      /\ \A i \in 1 .. Len(r) + Len(t) : u[i] = IF i <= Len(r) THEN r[i] ELSE t[i - Len(r)]
  BY ConcatProperties
<1> HIDE DEF u
<1>2. ASSUME NEW R, NEW a \in Seq(R), NEW b \in Seq(R), Len(a) <= Len(b),
             \A i \in 1 .. Len(a) : a[i] = b[i]
      PROVE  N!IsPrefix(a, b)
  <2>1. Len(a) \in Nat /\ Len(b) \in Nat /\ \A i \in 1 .. Len(a) : a[i] \in R /\ b[i] \in R
    BY <1>2, ElementOfSeq
  <2>2. /\ SubSeq(a, 1, Len(a)) \in Seq(R) /\ SubSeq(b, 1, Len(a)) \in Seq(R)
        /\ Len(SubSeq(a, 1, Len(a))) = Len(SubSeq(b, 1, Len(a)))
        /\ \A i \in 1 .. Len(a) - 1 + 1 : /\ SubSeq(a, 1, Len(a))[i] = a[1 + i - 1]
                                          /\ SubSeq(b, 1, Len(a))[i] = b[1 + i - 1]
        /\ Len(SubSeq(a, 1, Len(a))) = IF 1 <= Len(a) THEN Len(a) - 1 + 1 ELSE 0
    BY <2>1, SubSeqProperties
  <2>3. \A i \in 1 .. Len(SubSeq(a, 1, Len(a))) : SubSeq(a, 1, Len(a))[i] = SubSeq(b, 1, Len(a))[i]
    <3> SUFFICES ASSUME NEW i \in 1 .. Len(a) PROVE SubSeq(a, 1, Len(a))[i] = SubSeq(b, 1, Len(a))[i]
      BY <2>1, <2>2
    <3>1. i \in 1 .. Len(a) - 1 + 1 /\ 1 + i - 1 = i
      BY <2>1
    <3> QED BY <1>2, <2>2, <3>1
  <2>4. SubSeq(a, 1, Len(a)) = SubSeq(b, 1, Len(a))
    BY <2>2, <2>3, SeqEqual
  <2> QED BY <1>2, <2>4 DEF N!IsPrefix
<1>3. N!IsPrefix(r, u)
  <2>1. Len(r) <= Len(u) /\ \A i \in 1 .. Len(r) : r[i] = u[i]
    BY <1>1
  <2> QED BY <1>1, <1>2, <2>1
<1>4. ASSUME NEW a \in Seq(S)
      PROVE  /\ N!Reverse(a) \in Seq(S) /\ Len(N!Reverse(a)) = Len(a)
             /\ \A i \in 1 .. Len(a) : N!Reverse(a)[i] = a[Len(a) - i + 1]
  <2> DEFINE e(i) == a[Len(a) - i + 1]
  <2>1. Len(a) \in Nat /\ \A i \in 1 .. Len(a) : e(i) \in S
    BY ElementOfSeq
  <2>2. N!Reverse(a) = [i \in 1 .. Len(a) |-> e(i)]
    BY DEF N!Reverse
  <2> HIDE DEF e
  <2>3. N!Reverse(a) \in [1 .. Len(a) -> S]
    BY <2>1, <2>2
  <2>4. N!Reverse(a) \in Seq(S) /\ Len(N!Reverse(a)) = Len(a)
    BY <2>1, <2>2, <2>3, IsASeq, LenProperties
  <2> QED BY <2>2, <2>4 DEF e
<1>5. N!IsSuffix(t, u)
  <2>1. /\ N!Reverse(t) \in Seq(S) /\ Len(N!Reverse(t)) = Len(t)
        /\ \A i \in 1 .. Len(t) : N!Reverse(t)[i] = t[Len(t) - i + 1]
    BY <1>4
  <2>2. /\ N!Reverse(u) \in Seq(S) /\ Len(N!Reverse(u)) = Len(u)
        /\ \A i \in 1 .. Len(u) : N!Reverse(u)[i] = u[Len(u) - i + 1]
    BY <1>1, <1>4
  <2>3. \A i \in 1 .. Len(t) : N!Reverse(t)[i] = N!Reverse(u)[i]
    <3> SUFFICES ASSUME NEW i \in 1 .. Len(t) PROVE t[Len(t) - i + 1] = u[Len(u) - i + 1]
      BY <1>1, <2>1, <2>2
    <3>1. /\ Len(u) - i + 1 \in 1 .. Len(r) + Len(t) /\ ~(Len(u) - i + 1 <= Len(r))
          /\ (Len(u) - i + 1) - Len(r) = Len(t) - i + 1
      BY <1>1
    <3> QED BY <1>1, <3>1
  <2>4. N!IsPrefix(N!Reverse(t), N!Reverse(u))
    <3>1. /\ Len(N!Reverse(t)) <= Len(N!Reverse(u))
          /\ \A i \in 1 .. Len(N!Reverse(t)) : N!Reverse(t)[i] = N!Reverse(u)[i]
      BY <1>1, <2>1, <2>2, <2>3
    <3> QED BY <1>2, <2>1, <2>2, <3>1
  <2> QED BY <2>4 DEF N!IsSuffix
<1> QED BY <1>3, <1>5 DEF u

\* The characters of a buffer.
Written == Chars \cup N!Separators \cup {"A"} \cup N!Range(N!Program)

LEMMA NaWritten ==
    /\ Chars \subseteq Written /\ N!Separators \subseteq Written
    /\ "/" \in Written /\ "p" \in Written /\ "A" \in Written /\ "\\" \in Written
    /\ N!Program \in Seq(Written) /\ Len(N!Program) = 2 /\ N!Program[2] = "/"
    /\ "/" \in N!Separators /\ "\\" \in N!Separators /\ "A" \notin N!Separators
    /\ "a" \notin N!Separators
<1>1. /\ N!Program = <<"p", "/">> /\ DOMAIN N!Program = 1 .. 2
      /\ N!Program[1] = "p" /\ N!Program[2] = "/"
  BY DEF N!Program
<1>2. "p" \in N!Range(N!Program)
  <2>1. 1 \in DOMAIN N!Program
    BY <1>1
  <2> QED BY <1>1, <2>1, Zenon DEF N!Range
<1>3. /\ "/" \in N!Separators /\ "\\" \in N!Separators /\ "A" \notin N!Separators
      /\ "a" \notin N!Separators
  BY DEF N!Separators
<1>4. /\ Chars \subseteq Written /\ N!Separators \subseteq Written
      /\ "/" \in Written /\ "p" \in Written /\ "A" \in Written /\ "\\" \in Written
  BY <1>2, <1>3 DEF Written
<1>5. N!Program \in Seq(Written)
  BY <1>1, <1>4
<1> QED BY <1>1, <1>3, <1>4, <1>5

LEMMA NaStrings ==
    ASSUME NEW t \in N!Strings(MaxSource)
    PROVE  t \in Seq(Written)
<1>1. PICK n \in 0 .. MaxSource : t \in [1 .. n -> Chars]
  BY DEF N!Strings
<1>2. n \in Nat
  BY FileAssumption
<1>3. t \in [1 .. n -> Written]
  BY <1>1, NaWritten
<1> QED BY <1>2, <1>3

\* A part behind what is there already.
LEMMA NaBehind ==
    ASSUME NEW s \in Seq(Written), NEW r \in Seq(Written), NEW t \in Seq(Written),
           r = <<>> \/ r[Len(r)] \in N!Separators,
           \/ r = s /\ (s = <<>> \/ s[Len(s)] \in N!Separators)
           \/ r = s \o <<"/">> /\ s # <<>> /\ s[Len(s)] \notin N!Separators,
           path' = r \o t, source' = t, before' = s, last' \in {"addPart", "progdir"}
    PROVE  N!TypeOK' /\ N!PartComesBack'
<1>1. path' \in Seq(Written) /\ Len(path') = Len(r) + Len(t)
      /\ Len(r) \in Nat /\ Len(t) \in Nat /\ Len(s) \in Nat
  BY ConcatProperties
<1>2. N!TypeOK'
  BY <1>1 DEF N!TypeOK, Written
<1>3. N!Plain(t) => N!FilePart(path') = t
  BY NaFilePart
<1>4. N!HasExtension(t) => N!HasExtension(path') /\ N!Extension(path') = N!Extension(t)
  BY NaExtension
<1>5. N!IsSuffix(t, path') /\ N!IsPrefix(r, path')
  BY NaEnds
<1>6. N!IsPrefix(s, path') /\ Len(path') - Len(s) - Len(t)
          = IF s = <<>> \/ s[Len(s)] \in N!Separators THEN 0 ELSE 1
  <2>1. CASE r = s /\ (s = <<>> \/ s[Len(s)] \in N!Separators)
    BY <1>1, <1>5, <2>1
  <2>2. CASE r = s \o <<"/">> /\ s # <<>> /\ s[Len(s)] \notin N!Separators
    <3>1. <<"/">> \in Seq(Written) /\ Len(<<"/">>) = 1
      BY NaWritten
    <3>2. path' = s \o (<<"/">> \o t) /\ <<"/">> \o t \in Seq(Written) /\ Len(r) = Len(s) + 1
      BY <2>2, <3>1, ConcatAssociative, ConcatProperties
    <3>3. N!IsPrefix(s, path')
      BY <3>2, NaEnds
    <3> QED BY <1>1, <2>2, <3>2, <3>3
  <2> QED BY <2>1, <2>2
<1>7. N!PartComesBack'
  <2>1. last' \notin {"refused", "localise", "normalise"}
    OBVIOUS
  <2> QED BY <1>3, <1>4, <1>5, <1>6, <2>1, Zenon DEF N!PartComesBack, N!Last
<1> QED BY <1>2, <1>7

LEMMA NaAdd ==
    ASSUME N!TypeOK, N!addPart
    PROVE  N!TypeOK' /\ N!PartComesBack'
<1>1. PICK t \in N!Strings(MaxSource) :
         /\ source' = t /\ before' = path
         /\ IF N!Needed(path, t) <= bufferSize
            THEN path' = N!Joined(path, t) /\ last' = "addPart"
            ELSE path' = path /\ last' = "refused"
  BY DEF N!addPart
<1>2. path \in Seq(Written) /\ t \in Seq(Written)
  BY NaStrings DEF N!TypeOK, Written
<1>3. CASE path' = path /\ last' = "refused"
  <2>1. N!TypeOK'
    BY <1>3 DEF N!TypeOK
  <2>2. N!PartComesBack'
    BY <1>1, <1>3 DEF N!PartComesBack
  <2> QED BY <2>1, <2>2
<1>4. CASE path' = N!Joined(path, t) /\ last' = "addPart"
  <2>1. CASE path = <<>> \/ path[Len(path)] \in N!Separators
    <3>1. path' = path \o t
      BY <1>4, <2>1 DEF N!Joined, N!Last
    <3> QED BY <1>1, <1>2, <1>4, <2>1, <3>1, NaBehind
  <2>2. CASE ~(path = <<>> \/ path[Len(path)] \in N!Separators)
    <3> DEFINE r == path \o <<"/">>
    <3>1. path' = r \o t
      BY <1>4, <2>2 DEF N!Joined, N!Last
    <3>2. <<"/">> \in Seq(Written) /\ Len(<<"/">>) = 1 /\ <<"/">>[1] = "/" /\ Len(path) \in Nat
      BY <1>2, NaWritten
    <3>3. r \in Seq(Written) /\ Len(r) = Len(path) + 1 /\ r[Len(path) + 1] = "/"
      <4>1. /\ r \in Seq(Written) /\ Len(r) = Len(path) + Len(<<"/">>)
            /\ \A i \in 1 .. Len(path) + Len(<<"/">>) :
                   r[i] = IF i <= Len(path) THEN path[i] ELSE <<"/">>[i - Len(path)]
        BY <1>2, <3>2, ConcatProperties
      <4> QED BY <3>2, <4>1
    <3>4. r[Len(r)] \in N!Separators
      BY <3>3, NaWritten
    <3>5. r = path \o <<"/">>
      OBVIOUS
    <3> HIDE DEF r
    <3> QED BY <1>1, <1>2, <1>4, <2>2, <3>1, <3>3, <3>4, <3>5, NaBehind
  <2> QED BY <2>1, <2>2
<1> QED BY <1>1, <1>3, <1>4

LEMMA NaProgram ==
    ASSUME N!TypeOK, last = "none" => path = <<>>, N!ResolveProgDirName
    PROVE  N!TypeOK' /\ N!PartComesBack'
<1>1. PICK t \in N!Strings(MaxSource) :
         /\ source' = t /\ before' = N!Program
         /\ IF Len(t) <= bufferSize
            THEN path' = N!Program \o t /\ last' = "progdir"
            ELSE path' = path /\ last' = "refused"
  BY DEF N!ResolveProgDirName
<1>2. path \in Seq(Written) /\ t \in Seq(Written)
  BY NaStrings DEF N!TypeOK, Written
<1>3. CASE path' = N!Program \o t /\ last' = "progdir"
  <2>1. N!Program[Len(N!Program)] \in N!Separators
    BY NaWritten
  <2> QED BY <1>1, <1>2, <1>3, <2>1, NaWritten, NaBehind
<1>4. CASE path' = path /\ last' = "refused"
  <2>1. path = <<>>
    BY DEF N!ResolveProgDirName
  <2> QED BY <1>4, <2>1 DEF N!TypeOK, N!PartComesBack
<1> QED BY <1>1, <1>3, <1>4

LEMMA NaReplaced ==
    ASSUME NEW s \in Seq(Written), NEW from, NEW to \in Written
    PROVE  /\ N!Replaced(s, from, to) \in Seq(Written) /\ Len(N!Replaced(s, from, to)) = Len(s)
           /\ \A i \in 1 .. Len(s) :
                 N!Replaced(s, from, to)[i] = IF s[i] = from THEN to ELSE s[i]
<1> DEFINE e(i) == IF s[i] = from THEN to ELSE s[i]
<1>1. Len(s) \in Nat /\ DOMAIN s = 1 .. Len(s) /\ \A i \in 1 .. Len(s) : e(i) \in Written
  BY ElementOfSeq, LenProperties
<1>2. N!Replaced(s, from, to) = [i \in 1 .. Len(s) |-> e(i)]
  BY <1>1 DEF N!Replaced
<1> HIDE DEF e
<1>3. N!Replaced(s, from, to) \in [1 .. Len(s) -> Written]
  BY <1>1, <1>2
<1>4. N!Replaced(s, from, to) \in Seq(Written) /\ Len(N!Replaced(s, from, to)) = Len(s)
  BY <1>1, <1>2, <1>3, IsASeq, LenProperties
<1> QED BY <1>2, <1>4 DEF e

\* The separators stay where they are.
LEMMA NaLocal ==
    ASSUME N!TypeOK, N!LocalisePath
    PROVE  N!TypeOK' /\ N!PartComesBack'
<1>1. path \in Seq(Written) /\ DOMAIN path = 1 .. Len(path)
  BY LenProperties DEF N!TypeOK, Written
<1>2. before' = path /\ last' = "localise"
  BY DEF N!LocalisePath
<1>3. PICK from \in N!Separators, to \in N!Separators : path' = N!Replaced(path, from, to)
  <2>1. "/" \in N!Separators /\ "\\" \in N!Separators
    BY NaWritten
  <2>2. path' = N!Replaced(path, "/", "\\") \/ path' = N!Replaced(path, "\\", "/")
    BY DEF N!LocalisePath
  <2> QED BY <2>1, <2>2
<1>4. /\ path' \in Seq(Written)
      /\ \A i \in 1 .. Len(path) : path'[i] = IF path[i] = from THEN to ELSE path[i]
  <2>1. to \in Written
    BY NaWritten
  <2> QED BY <1>1, <1>3, <2>1, NaReplaced
<1>5. N!TypeOK'
  BY <1>2, <1>4 DEF N!TypeOK, Written
<1>6. \A i \in DOMAIN path : path'[i] \in N!Separators <=> path[i] \in N!Separators
  BY <1>1, <1>3, <1>4
<1>7. N!PartComesBack'
  BY <1>2, <1>6 DEF N!PartComesBack
<1> QED BY <1>5, <1>7

LEMMA NaNormal ==
    ASSUME N!TypeOK, N!NormalisePath
    PROVE  N!TypeOK' /\ N!PartComesBack'
<1> DEFINE s == N!Replaced(path, "\\", "/")
<1>1. path \in Seq(Written) /\ DOMAIN path = 1 .. Len(path)
  BY LenProperties DEF N!TypeOK, Written
<1>2. before' = path /\ last' = "normalise"
  BY DEF N!NormalisePath
<1>3. /\ s \in Seq(Written) /\ Len(s) = Len(path) /\ Len(path) \in Nat
      /\ \A i \in 1 .. Len(path) : s[i] = IF path[i] = "\\" THEN "/" ELSE path[i]
  BY <1>1, NaWritten, NaReplaced
<1>4. path' = IF windows /\ Len(s) >= 2 THEN <<N!Upper(s[1])>> \o Tail(s) ELSE s
  BY DEF N!NormalisePath
<1> HIDE DEF s
<1>5. /\ path' \in Seq(Written) /\ Len(path') = Len(path)
      /\ \A i \in 1 .. Len(path) : path'[i] = s[i] \/ (s[i] = "a" /\ path'[i] = "A")
  <2>1. CASE windows /\ Len(s) >= 2
    <3> DEFINE c == <<N!Upper(s[1])>>
    <3>1. /\ s # <<>> /\ Tail(s) \in Seq(Written) /\ Len(Tail(s)) = Len(s) - 1
          /\ \A i \in 1 .. Len(Tail(s)) : Tail(s)[i] = s[i + 1]
      BY <1>3, <2>1, HeadTailProperties
    <3>2. s[1] \in Written
      BY <1>3, <2>1, ElementOfSeq
    <3>3. N!Upper(s[1]) \in Written
      BY <3>2, NaWritten DEF N!Upper
    <3>4. c \in Seq(Written) /\ Len(c) = 1 /\ c[1] = N!Upper(s[1])
      BY <3>3
    <3> HIDE DEF c
    <3>5. /\ c \o Tail(s) \in Seq(Written) /\ Len(c \o Tail(s)) = 1 + Len(Tail(s))
          /\ \A i \in 1 .. 1 + Len(Tail(s)) :
                (c \o Tail(s))[i] = IF i <= 1 THEN c[i] ELSE Tail(s)[i - 1]
      BY <3>1, <3>4, ConcatProperties
    <3>6. path' = c \o Tail(s)
      BY <1>4, <2>1 DEF c
    <3>7. ASSUME NEW i \in 1 .. Len(path)
          PROVE  path'[i] = s[i] \/ (s[i] = "a" /\ path'[i] = "A")
      <4>1. CASE i = 1
        <5>1. path'[1] = N!Upper(s[1])
          BY <1>3, <3>1, <3>4, <3>5, <3>6
        <5> QED BY <4>1, <5>1 DEF N!Upper
      <4>2. CASE i # 1
        <5>1. i - 1 \in 1 .. Len(Tail(s)) /\ ~(i <= 1) /\ i \in 1 .. 1 + Len(Tail(s)) /\ i - 1 + 1 = i
          BY <1>3, <3>1, <4>2
        <5> QED BY <3>1, <3>5, <3>6, <5>1
      <4> QED BY <4>1, <4>2
    <3> QED BY <1>3, <3>1, <3>5, <3>6, <3>7
  <2>2. CASE ~(windows /\ Len(s) >= 2)
    BY <1>3, <1>4, <2>2
  <2> QED BY <2>1, <2>2
<1>6. N!TypeOK'
  BY <1>2, <1>5 DEF N!TypeOK, Written
<1>7. ASSUME NEW i \in 1 .. Len(path)
      PROVE  /\ path'[i] \in N!Separators <=> path[i] \in N!Separators
             /\ path'[i] # "\\"
  <2>1. s[i] = (IF path[i] = "\\" THEN "/" ELSE path[i])
        /\ (path'[i] = s[i] \/ (s[i] = "a" /\ path'[i] = "A"))
    BY <1>3, <1>5
  <2> QED BY <2>1 DEF N!Separators
<1>8. ~N!Contains(path', "\\")
  BY <1>5, <1>7 DEF N!Contains
<1>9. N!PartComesBack'
  BY <1>1, <1>2, <1>7, <1>8 DEF N!PartComesBack
<1> QED BY <1>6, <1>9

LEMMA NaTrim ==
    ASSUME N!TypeOK, N!TrimString
    PROVE  N!TypeOK' /\ N!PartComesBack'
<1>1. path \in Seq(Written) /\ Len(path) \in Nat
  BY DEF N!TypeOK, Written
<1>2. path' = N!Trimmed(path) /\ last' = "trim"
  BY DEF N!TrimString
<1> DEFINE T == {i \in 1 .. Len(path) : path[i] \notin N!Blanks}
           first0 == IF T # {} THEN N!Min(T) ELSE 0
           behind0 == IF T # {} THEN N!Max(T) ELSE 0
<1>3. N!Trimmed(path) = IF first0 = 0 THEN <<>> ELSE SubSeq(path, first0, behind0)
  BY DEF N!Trimmed, N!SelectInSeq, N!SelectLastInSeq
<1>4. N!Trimmed(path) \in Seq(Written)
  <2>1. CASE T = {}
    BY <1>3, <2>1
  <2>2. CASE T # {}
    <3>1. T \subseteq 1 .. Len(path)
      OBVIOUS
    <3>2. N!Min(T) \in T /\ N!Max(T) \in T
      BY <1>1, <2>2, <3>1, NaMin, NaMax
    <3>3. first0 \in 1 .. Len(path) /\ behind0 \in 1 .. Len(path)
      BY <2>2, <3>1, <3>2
    <3> HIDE DEF T, first0, behind0
    <3>4. \A i \in first0 .. behind0 : path[i] \in Written
      BY <1>1, <3>3, ElementOfSeq
    <3>5. SubSeq(path, first0, behind0) \in Seq(Written)
      BY <1>1, <3>3, <3>4, SubSeqProperties
    <3> QED BY <1>3, <3>5
  <2> QED BY <2>1, <2>2
<1> QED BY <1>2, <1>4 DEF N!TypeOK, N!PartComesBack, Written

LEMMA NaInit ==
    ASSUME N!Init
    PROVE  N!TypeOK /\ N!PartComesBack /\ (last = "none" => path = <<>>)
BY DEF N!Init, N!TypeOK, N!PartComesBack

LEMMA NaNext ==
    ASSUME N!TypeOK, N!PartComesBack, last = "none" => path = <<>>, [N!Next]_(ofNames)
    PROVE  N!TypeOK' /\ N!PartComesBack' /\ (last' = "none" => path' = <<>>)
<1>1. CASE UNCHANGED ofNames
  BY <1>1 DEF ofNames, N!TypeOK, N!PartComesBack
<1>2. CASE N!Next
  <2>1. last' # "none"
    BY <1>2 DEF N!Next, N!addPart, N!ResolveProgDirName, N!LocalisePath, N!NormalisePath, N!TrimString
  <2> QED BY <1>2, <2>1, NaAdd, NaProgram, NaLocal, NaNormal, NaTrim DEF N!Next
<1> QED BY <1>1, <1>2

--------------------------------------------------------------------------------
(***************************************************************************)
(* LocalFile.  What a step of one object leaves of the invariant for the   *)
(* others.                                                                 *)
(***************************************************************************)
FiCall(o) ==
    /\ locked[o] => file[o] # F!NoFile
    /\ filePc[o] = "open" => asked[o].call = "open"
    /\ filePc[o] \in {"look", "make"} => asked[o].call \in {"create", "replace"}
    /\ filePc[o] = "lock" => file[o] # F!NoFile /\ ~locked[o] /\ filePlatform # "windows"

FiMaker(o) ==
    filePlatform # "amiga" /\ file[o] # F!NoFile /\ asked[o].call \in {"create", "replace"}
        => maker[file[o]] = o

FiLock(o, p) ==
    locked[o] /\ file[p] = file[o] => filePlatform = "unix" /\ ~locked[p]

FiMissing(o) ==
    filePc[o] \in {"map", "mapdelete"} =>
        F!InDirectory(asked[o].name) /\ "no file" \in witness[o]

FiError(o) ==
    filePc[o] = "idle" =>
        /\ fileResult[o] = "KErrAlreadyExists" => "file" \in witness[o]
        /\ fileResult[o] = "KErrNotFound" => "no file" \in witness[o]
        /\ fileResult[o] = "KErrPathNotFound" => "no directory" \in witness[o]

LEMMA FiParts ==
    F!InOrder <=> /\ F!Typed /\ F!FilesAreMade
                  /\ \A o \in Objects : FiCall(o) /\ FiMaker(o) /\ FiMissing(o) /\ FiError(o)
                  /\ \A o, p \in Objects : o # p => FiLock(o, p)
BY DEF F!InOrder, F!CallsInOrder, F!MakersAreKnown, F!LocksAreAlone, F!MissingWasSeen,
       F!ErrorsAreTrue, FiCall, FiMaker, FiLock, FiMissing, FiError

\* A step of o, or of nobody.
FiOwn(o) ==
    /\ filePlatform' = filePlatform /\ F!Noted
    /\ made' \in Nat /\ made <= made'
    /\ \A f \in F!Files : f <= made => maker'[f] = maker[f]
    /\ \A p \in Objects \ {o} : /\ filePc'[p] = filePc[p] /\ file'[p] = file[p]
                                /\ locked'[p] = locked[p] /\ fileResult'[p] = fileResult[p]

LEMMA FiFacts ==
    ASSUME F!Typed
    PROVE  /\ disk \in [F!Names -> F!Files \cup {0}] /\ file \in [Objects -> F!Files \cup {0}]
           /\ filePc \in [Objects -> {"idle", "delete", "look", "make", "open", "lock", "map",
                                      "mapdelete"}]
           /\ asked \in [Objects -> F!Calls \cup {F!Nothing}]
           /\ fileResult \in [Objects -> F!Errors] /\ locked \in [Objects -> BOOLEAN]
           /\ pos \in [Objects -> 0 .. MaxLength]
           /\ witness \in [Objects -> SUBSET {"file", "no file", "no directory"}]
           /\ filePlatform \in {"unix", "windows", "amiga"} /\ there \in BOOLEAN
           /\ maker \in [F!Files -> Objects \cup {"nobody"}]
           /\ data \in [F!Files -> Seq(Objects \cup {"0"})]
           /\ made \in 0 .. MaxFiles /\ made \in Nat /\ MaxFiles \in Nat
           /\ F!Files = 1 .. MaxFiles /\ F!NoFile = 0
           /\ \A o \in Objects : filePc[o] \notin {"idle", "lock"} => file[o] = 0
           /\ ~there => disk["d/f"] = 0
           /\ \A f \in F!Files : Len(data[f]) <= MaxLength
           /\ \A o \in Objects : asked[o].name \in F!Names
<1>1. F!TypeOK /\ F!NoFile = 0 /\ F!Files = 1 .. MaxFiles /\ MaxFiles \in Nat
  BY FileAssumption DEF F!Typed, F!NoFile, F!Files
<1>2. /\ disk \in [F!Names -> F!Files \cup {0}] /\ file \in [Objects -> F!Files \cup {0}]
      /\ filePc \in [Objects -> {"idle", "delete", "look", "make", "open", "lock", "map",
                                 "mapdelete"}]
      /\ asked \in [Objects -> F!Calls \cup {F!Nothing}]
      /\ fileResult \in [Objects -> F!Errors]
      /\ \A o \in Objects : filePc[o] \notin {"idle", "lock"} => file[o] = 0
      /\ ~there => disk["d/f"] = 0
      /\ \A f \in F!Files : Len(data[f]) <= MaxLength
  BY <1>1, Zenon DEF F!TypeOK, F!NoFile
<1>3. /\ locked \in [Objects -> BOOLEAN] /\ pos \in [Objects -> 0 .. MaxLength]
      /\ witness \in [Objects -> SUBSET {"file", "no file", "no directory"}]
      /\ there \in BOOLEAN /\ maker \in [F!Files -> Objects \cup {"nobody"}]
      /\ data \in [F!Files -> Seq(Objects \cup {"0"})] /\ made \in 0 .. MaxFiles
      /\ filePlatform \in FilePlatforms
  BY Zenon DEF F!Typed
<1>4. filePlatform \in {"unix", "windows", "amiga"}
  BY <1>3, FileAssumption
<1>5. made \in Nat
  <2>1. made \in 0 .. MaxFiles /\ MaxFiles \in Nat
    BY <1>1, <1>3
  <2> QED BY ONLY <2>1
<1>6. ASSUME NEW o \in Objects PROVE asked[o].name \in F!Names
  <2>1. asked[o] \in F!Calls \cup {F!Nothing}
    BY <1>2
  <2> QED BY <2>1 DEF F!Calls, F!Nothing, F!Names
<1> QED BY <1>1, <1>2, <1>3, <1>4, <1>5, <1>6, Zenon

LEMMA FiExclusive ==
    ASSUME NEW a \in F!Calls \cup {F!Nothing}
    PROVE  a.exclusive \in BOOLEAN
<1>1. CASE a \in F!Calls
  BY <1>1 DEF F!Calls
<1>2. CASE a = F!Nothing
  <2>1. a.exclusive = FALSE
    BY <1>2 DEF F!Nothing
  <2> QED BY <2>1
<1> QED BY <1>1, <1>2

\* What Noted says of the objects.
LEMMA FiNotes ==
    ASSUME F!Typed, F!Noted
    PROVE  /\ \A o \in Objects :
                /\ witness'[o] = IF filePc[o] = "idle" THEN witness[o]
                                 ELSE witness[o] \cup F!Truth(asked[o].name, disk', there')
                /\ asked'[o] = IF filePc'[o] = "idle" /\ file'[o] = 0 THEN F!Nothing ELSE asked[o]
           /\ asked' \in [Objects -> F!Calls \cup {F!Nothing}]
           /\ witness' \in [Objects -> SUBSET {"file", "no file", "no directory"}]
<1>1. \A p \in Objects : asked[p] \in F!Calls \cup {F!Nothing}
  BY FiFacts
<1>2. \A p \in Objects :
         witness[p] \subseteq {"file", "no file", "no directory"}
  BY FiFacts
<1>3. \A p \in Objects :
         F!Truth(asked[p].name, disk', there') \subseteq {"file", "no file", "no directory"}
  BY DEF F!Truth
<1> QED BY <1>1, <1>2, <1>3 DEF F!Noted, F!NoFile

LEMMA FiOthers ==
    ASSUME F!InOrder, NEW o, FiOwn(o), NEW p \in Objects \ {o}
    PROVE  /\ FiCall(p)' /\ FiMaker(p)' /\ FiMissing(p)' /\ FiError(p)'
           /\ file'[p] <= made'
           /\ \A q \in Objects \ {o} : p # q => FiLock(p, q)'
<1>1. F!Typed /\ F!FilesAreMade /\ FiCall(p) /\ FiMaker(p) /\ FiMissing(p) /\ FiError(p)
      /\ \A q \in Objects : p # q => FiLock(p, q)
  BY FiParts
<1>2. /\ filePlatform' = filePlatform /\ filePc'[p] = filePc[p] /\ file'[p] = file[p]
      /\ locked'[p] = locked[p] /\ fileResult'[p] = fileResult[p]
  BY DEF FiOwn
<1>3. /\ witness'[p] = IF filePc[p] = "idle" THEN witness[p]
                       ELSE witness[p] \cup F!Truth(asked[p].name, disk', there')
      /\ asked'[p] = IF filePc'[p] = "idle" /\ file'[p] = 0 THEN F!Nothing ELSE asked[p]
  BY <1>1, FiNotes DEF FiOwn
<1>4. FiCall(p)'
  BY <1>1, <1>2, <1>3 DEF FiCall
<1>5. FiMissing(p)' /\ FiError(p)'
  BY <1>1, <1>2, <1>3 DEF FiMissing, FiError
<1>6. file[p] \in F!Files \cup {0} /\ file[p] <= made /\ made \in Nat /\ made' \in Nat
      /\ made <= made'
  BY <1>1, FiFacts DEF FiOwn, F!FilesAreMade
<1>7. FiMaker(p)'
  <2> SUFFICES ASSUME filePlatform # "amiga", file[p] # 0,
                      asked'[p].call \in {"create", "replace"}
               PROVE  maker'[file[p]] = p
    BY <1>2 DEF FiMaker, F!NoFile
  <2>1. asked'[p] = asked[p]
    BY <1>2, <1>3
  <2>2. maker[file[p]] = p
    BY <1>1, <2>1 DEF FiMaker, F!NoFile
  <2> QED BY <1>6, <2>2 DEF FiOwn
<1>8. file'[p] <= made'
  <2>1. file[p] \in Int
    BY <1>6 DEF F!Files
  <2> QED BY <1>2, <1>6, <2>1
<1>9. \A q \in Objects \ {o} : p # q => FiLock(p, q)'
  BY <1>1, <1>2 DEF FiLock, FiOwn
<1> QED BY <1>4, <1>5, <1>7, <1>8, <1>9

\* What is left to show for a step of o.
LEMMA FiOwnKeeps ==
    ASSUME F!InOrder, NEW o \in Objects, FiOwn(o), F!Typed',
           \A n \in F!Names : disk'[n] <= made', file'[o] <= made',
           FiCall(o)', FiMaker(o)', FiMissing(o)', FiError(o)',
           \A p \in Objects \ {o} : FiLock(o, p)' /\ FiLock(p, o)'
    PROVE  F!InOrder'
<1>1. F!FilesAreMade'
  BY FiOthers DEF F!FilesAreMade
<1>2. \A p \in Objects : FiCall(p)' /\ FiMaker(p)' /\ FiMissing(p)' /\ FiError(p)'
  BY FiOthers
<1>3. \A p, q \in Objects : p # q => FiLock(p, q)'
  BY FiOthers
<1>4. F!CallsInOrder' /\ F!MakersAreKnown' /\ F!MissingWasSeen' /\ F!ErrorsAreTrue'
  BY <1>2 DEF FiCall, FiMaker, FiMissing, FiError, F!CallsInOrder, F!MakersAreKnown,
              F!MissingWasSeen, F!ErrorsAreTrue
<1>5. F!LocksAreAlone'
  BY <1>3 DEF FiLock, F!LocksAreAlone
<1> QED BY <1>1, <1>4, <1>5 DEF F!InOrder


\* What a step leaves on the disk.
FiWorld ==
    /\ filePlatform' = filePlatform /\ there' \in BOOLEAN /\ made' \in 0 .. MaxFiles
    /\ made <= made'
    /\ disk' \in [F!Names -> F!Files \cup {0}]
    /\ \A n \in F!Names : disk'[n] <= made'
    /\ ~there' => disk'["d/f"] = 0
    /\ data' \in [F!Files -> Seq(Objects \cup {"0"})]
    /\ \A f \in F!Files : Len(data'[f]) <= MaxLength
    /\ maker' \in [F!Files -> Objects \cup {"nobody"}]
    /\ \A f \in F!Files : f <= made => maker'[f] = maker[f]
    /\ pos' \in [Objects -> 0 .. MaxLength]

\* The step takes o to w, with a result, a file and a lock.
FiStep(o, w, r, f, l) ==
    /\ filePc' = [filePc EXCEPT ![o] = w] /\ fileResult' = [fileResult EXCEPT ![o] = r]
    /\ file' = [file EXCEPT ![o] = f] /\ locked' = [locked EXCEPT ![o] = l]
    /\ w \in {"idle", "delete", "look", "make", "open", "lock", "map", "mapdelete"}
    /\ r \in F!Errors /\ f \in F!Files \cup {0} /\ f <= made' /\ l \in BOOLEAN
    /\ w \notin {"idle", "lock"} => f = 0

\* It may go there.
FiGood(o, w, r, f, l) ==
    /\ l => f # 0
    /\ w = "open" => asked[o].call = "open"
    /\ w \in {"look", "make"} => asked[o].call \in {"create", "replace"}
    /\ w = "lock" => f # 0 /\ ~l /\ filePlatform # "windows"
    /\ filePlatform # "amiga" /\ f # 0 /\ asked[o].call \in {"create", "replace"} => maker'[f] = o
    /\ \A p \in Objects \ {o} :
          file[p] = f => /\ l => filePlatform = "unix" /\ ~locked[p]
                         /\ locked[p] => filePlatform = "unix" /\ ~l
    /\ w \in {"map", "mapdelete"} => F!InDirectory(asked[o].name) /\ "no file" \in witness'[o]
    /\ w = "idle" =>
          /\ r = "KErrAlreadyExists" => "file" \in witness'[o]
          /\ r = "KErrNotFound" => "no file" \in witness'[o]
          /\ r = "KErrPathNotFound" => "no directory" \in witness'[o]

LEMMA FiTypedNext ==
    ASSUME F!Typed, F!Noted, FiWorld, NEW o \in Objects, NEW w, NEW r, NEW f, NEW l,
           FiStep(o, w, r, f, l)
    PROVE  F!Typed'
<1>1. /\ filePc' \in [Objects -> {"idle", "delete", "look", "make", "open", "lock", "map",
                                  "mapdelete"}]
      /\ fileResult' \in [Objects -> F!Errors] /\ file' \in [Objects -> F!Files \cup {0}]
      /\ locked' \in [Objects -> BOOLEAN]
      /\ filePc'[o] = w /\ file'[o] = f
      /\ \A p \in Objects \ {o} : filePc'[p] = filePc[p] /\ file'[p] = file[p]
  BY FiFacts DEF FiStep
<1>2. /\ asked' \in [Objects -> F!Calls \cup {F!Nothing}]
      /\ witness' \in [Objects -> SUBSET {"file", "no file", "no directory"}]
  BY FiNotes
<1>3. \A p \in Objects : filePc'[p] \notin {"idle", "lock"} => file'[p] = 0
  BY <1>1, FiFacts DEF FiStep
<1>4. F!TypeOK'
  BY <1>1, <1>2, <1>3, Zenon DEF F!TypeOK, F!NoFile, FiWorld
<1>5. filePlatform' \in FilePlatforms
  BY DEF FiWorld, F!Typed
<1> QED BY <1>1, <1>2, <1>4, <1>5, Zenon DEF F!Typed, FiWorld

LEMMA FiKeeps ==
    ASSUME F!InOrder, F!Noted, FiWorld, NEW o \in Objects, NEW w, NEW r, NEW f, NEW l,
           FiStep(o, w, r, f, l), FiGood(o, w, r, f, l)
    PROVE  F!InOrder'
<1>0. F!Typed
  BY FiParts
<1>1. /\ filePc'[o] = w /\ file'[o] = f /\ fileResult'[o] = r /\ locked'[o] = l
      /\ \A p \in Objects \ {o} : /\ filePc'[p] = filePc[p] /\ file'[p] = file[p]
                                  /\ locked'[p] = locked[p] /\ fileResult'[p] = fileResult[p]
  BY <1>0, FiFacts DEF FiStep
<1>2. FiOwn(o)
  <2>1. made' \in Nat
    BY FileAssumption DEF FiWorld
  <2> QED BY <1>1, <2>1 DEF FiOwn, FiWorld
<1>3. F!Typed'
  BY <1>0, FiTypedNext
<1>4. (\A n \in F!Names : disk'[n] <= made') /\ file'[o] <= made'
  BY <1>1 DEF FiWorld, FiStep
<1>5. asked'[o] = asked[o] \/ (w = "idle" /\ f = 0)
  BY <1>0, <1>1, FiNotes
<1>6. FiCall(o)'
  BY <1>1, <1>5 DEF FiCall, FiGood, F!NoFile, FiWorld
<1>7. FiMaker(o)'
  BY <1>1, <1>5 DEF FiMaker, FiGood, F!NoFile, FiWorld
<1>8. FiMissing(o)'
  BY <1>1, <1>5 DEF FiMissing, FiGood
<1>9. FiError(o)'
  BY <1>1 DEF FiError, FiGood
<1>10. \A p \in Objects \ {o} : FiLock(o, p)' /\ FiLock(p, o)'
  BY <1>1 DEF FiLock, FiGood, FiWorld
<1> QED BY <1>2, <1>3, <1>4, <1>6, <1>7, <1>8, <1>9, <1>10, FiOwnKeeps

LEMMA FiWorldSame ==
    ASSUME F!InOrder, filePlatform' = filePlatform, there' = there, disk' = disk, data' = data,
           maker' = maker, made' = made, pos' \in [Objects -> 0 .. MaxLength]
    PROVE  FiWorld
<1>1. F!Typed /\ F!FilesAreMade
  BY FiParts
<1>2. /\ disk \in [F!Names -> F!Files \cup {0}] /\ there \in BOOLEAN /\ made \in 0 .. MaxFiles
      /\ maker \in [F!Files -> Objects \cup {"nobody"}] /\ data \in [F!Files -> Seq(Objects \cup {"0"})]
      /\ ~there => disk["d/f"] = 0
      /\ \A f \in F!Files : Len(data[f]) <= MaxLength
  BY <1>1, FiFacts, Zenon
<1>3. made <= made
  <2>1. made \in Nat
    BY <1>1, FiFacts
  <2> QED BY ONLY <2>1
<1>4. \A n \in F!Names : disk[n] <= made
  BY <1>1 DEF F!FilesAreMade
<1> QED BY <1>2, <1>3, <1>4, Zenon DEF FiWorld

\* What is known of the caller, and what it gets to know.
LEMMA FiCaller ==
    ASSUME F!InOrder, NEW o \in Objects
    PROVE  /\ asked[o].name \in F!Names
           /\ file[o] \in F!Files \cup {0} /\ file[o] <= made /\ made \in Nat
           /\ fileResult[o] \in F!Errors /\ locked[o] \in BOOLEAN
           /\ filePc[o] \notin {"idle", "lock"} => file[o] = 0 /\ locked[o] = FALSE
           /\ F!NoFile = 0
           /\ FiCall(o) /\ FiMaker(o) /\ FiMissing(o) /\ FiError(o)
           /\ \A p \in Objects \ {o} : FiLock(o, p) /\ FiLock(p, o)
           /\ disk[asked[o].name] \in F!Files \cup {0} /\ disk[asked[o].name] <= made
<1>1. /\ F!Typed /\ F!FilesAreMade /\ FiCall(o) /\ FiMaker(o) /\ FiMissing(o) /\ FiError(o)
      /\ \A p \in Objects \ {o} : FiLock(o, p) /\ FiLock(p, o)
  BY FiParts
<1>2. locked[o] \in BOOLEAN /\ filePc[o] \notin {"idle", "lock"} => file[o] = 0
  BY <1>1, FiFacts
<1>3. /\ asked[o].name \in F!Names /\ file[o] \in F!Files \cup {0} /\ made \in Nat
      /\ fileResult[o] \in F!Errors /\ F!NoFile = 0 /\ locked[o] \in BOOLEAN
      /\ disk \in [F!Names -> F!Files \cup {0}]
  BY <1>1, FiFacts
<1>4. file[o] <= made /\ disk[asked[o].name] <= made /\ disk[asked[o].name] \in F!Files \cup {0}
  BY <1>1, <1>3 DEF F!FilesAreMade
<1> QED BY <1>1, <1>2, <1>3, <1>4 DEF FiCall

LEMMA FiSees ==
    ASSUME F!InOrder, F!Noted, NEW o \in Objects
    PROVE  /\ filePc[o] # "idle" =>
                /\ disk'[asked[o].name] = 0 => "no file" \in witness'[o]
                /\ disk'[asked[o].name] # 0 => "file" \in witness'[o]
                /\ ~there' /\ F!InDirectory(asked[o].name) => "no directory" \in witness'[o]
           /\ witness[o] \subseteq witness'[o]
<1>1. F!Typed
  BY FiParts
<1>2. witness'[o] = IF filePc[o] = "idle" THEN witness[o]
                    ELSE witness[o] \cup F!Truth(asked[o].name, disk', there')
  BY <1>1, FiNotes
<1>3. /\ disk'[asked[o].name] = 0 => "no file" \in F!Truth(asked[o].name, disk', there')
      /\ disk'[asked[o].name] # 0 => "file" \in F!Truth(asked[o].name, disk', there')
      /\ ~there' /\ F!InDirectory(asked[o].name) =>
            "no directory" \in F!Truth(asked[o].name, disk', there')
  BY DEF F!Truth, F!NoFile
<1> QED BY <1>2, <1>3

LEMMA FiGoes ==
    ASSUME F!InOrder, FiWorld, NEW o \in Objects, NEW w, F!Goes(o, w), file' = file, locked' = locked,
           file[o] = 0, locked[o] = FALSE,
           w \in {"idle", "delete", "look", "make", "open", "lock", "map", "mapdelete"}
    PROVE  FiStep(o, w, fileResult[o], 0, FALSE)
<1>1. F!Typed
  BY FiParts
<1>2. /\ file' = [file EXCEPT ![o] = 0] /\ locked' = [locked EXCEPT ![o] = FALSE]
      /\ fileResult' = [fileResult EXCEPT ![o] = fileResult[o]]
  BY <1>1, FiFacts DEF F!Goes
<1>3. 0 <= made'
  BY FileAssumption DEF FiWorld
<1> QED BY <1>2, <1>3, FiCaller DEF FiStep, F!Goes

LEMMA FiReturns ==
    ASSUME F!InOrder, FiWorld, NEW o \in Objects, NEW r \in F!Errors, F!Returns(o, r),
           file' = file, locked' = locked
    PROVE  FiStep(o, "idle", r, file[o], locked[o])
<1>1. F!Typed
  BY FiParts
<1>2. file' = [file EXCEPT ![o] = file[o]] /\ locked' = [locked EXCEPT ![o] = locked[o]]
  BY <1>1, FiFacts
<1>3. file[o] <= made'
  <2>1. file[o] \in F!Files \cup {0} /\ made \in Nat /\ file[o] <= made
    BY FiCaller
  <2>2. file[o] \in Nat
    BY <2>1 DEF F!Files
  <2>3. made' \in Nat
    BY FileAssumption DEF FiWorld
  <2> QED BY <2>1, <2>2, <2>3 DEF FiWorld
<1> QED BY <1>2, <1>3, FiCaller DEF FiStep, F!Returns

\* Returning with what one has.
LEMMA FiComesBack ==
    ASSUME F!InOrder, F!Noted, FiWorld, NEW o \in Objects, NEW r \in F!Errors, F!Returns(o, r),
           file' = file, locked' = locked,
           r = "KErrAlreadyExists" => "file" \in witness'[o],
           r = "KErrNotFound" => "no file" \in witness'[o],
           r = "KErrPathNotFound" => "no directory" \in witness'[o]
    PROVE  F!InOrder'
<1>1. FiStep(o, "idle", r, file[o], locked[o])
  BY FiReturns
<1>2. /\ locked[o] => file[o] # 0
      /\ filePlatform # "amiga" /\ file[o] # 0 /\ asked[o].call \in {"create", "replace"}
           => maker[file[o]] = o
      /\ \A p \in Objects \ {o} :
            file[p] = file[o] => /\ locked[o] => filePlatform = "unix" /\ ~locked[p]
                                 /\ locked[p] => filePlatform = "unix" /\ ~locked[o]
      /\ file[o] \in F!Files \cup {0} /\ file[o] <= made
  BY FiCaller DEF FiCall, FiMaker, FiLock
<1>3. file[o] # 0 => maker'[file[o]] = maker[file[o]]
  BY <1>2 DEF FiWorld
<1>4. FiGood(o, "idle", r, file[o], locked[o])
  BY <1>2, <1>3 DEF FiGood
<1> QED BY <1>1, <1>4, FiKeeps

\* Going on without a file.
LEMMA FiGoesOn ==
    ASSUME F!InOrder, F!Noted, FiWorld, NEW o \in Objects, NEW w, F!Goes(o, w),
           file' = file, locked' = locked, filePc[o] \notin {"idle", "lock"},
           \/ w \in {"look", "make"} /\ asked[o].call \in {"create", "replace"}
           \/ w \in {"map", "mapdelete"} /\ F!InDirectory(asked[o].name) /\ "no file" \in witness'[o]
    PROVE  F!InOrder'
<1>1. file[o] = 0 /\ locked[o] = FALSE
  BY FiCaller
<1>2. FiStep(o, w, fileResult[o], 0, FALSE)
  BY <1>1, FiGoes
<1>3. \A p \in Objects \ {o} : locked[p] => file[p] # 0
  <2> SUFFICES ASSUME NEW p \in Objects PROVE locked[p] => file[p] # 0
    OBVIOUS
  <2> QED BY FiCaller DEF FiCall
<1>4. FiGood(o, w, fileResult[o], 0, FALSE)
  BY <1>3 DEF FiGood
<1> QED BY <1>2, <1>4, FiKeeps

LEMMA FiNotFound ==
    ASSUME F!InOrder, F!Noted, FiWorld, NEW o \in Objects, F!NotFound(o),
           file' = file, locked' = locked, there' = there, disk' = disk,
           filePc[o] \in {"delete", "make", "open"}, disk[asked[o].name] = 0
    PROVE  F!InOrder'
<1>1. "no file" \in witness'[o] /\ (~there /\ F!InDirectory(asked[o].name) => "no directory" \in witness'[o])
  BY FiSees
<1>2. {"KErrPathNotFound", "KErrNotFound"} \subseteq F!Errors
  BY DEF F!Errors
<1>3. CASE filePlatform # "windows" /\ F!InDirectory(asked[o].name)
  <2>1. F!Goes(o, IF filePc[o] = "delete" THEN "mapdelete" ELSE "map")
    BY <1>3 DEF F!NotFound
  <2> DEFINE w == IF filePc[o] = "delete" THEN "mapdelete" ELSE "map"
  <2>2. w \in {"map", "mapdelete"} /\ F!Goes(o, w)
    BY <2>1
  <2> HIDE DEF w
  <2> QED BY <1>1, <1>3, <2>2, FiGoesOn
<1>4. CASE ~(filePlatform # "windows" /\ F!InDirectory(asked[o].name)) /\ ~F!Reachable(asked[o].name)
  <2>1. F!Returns(o, "KErrPathNotFound")
    BY <1>4 DEF F!NotFound
  <2>2. "no directory" \in witness'[o]
    BY <1>1, <1>4 DEF F!Reachable
  <2> QED BY <1>2, <2>1, <2>2, FiComesBack
<1>5. CASE /\ ~(filePlatform # "windows" /\ F!InDirectory(asked[o].name)) /\ F!Reachable(asked[o].name)
           /\ filePc[o] = "delete" /\ asked[o].call = "replace"
  <2>1. F!Goes(o, F!AfterDelete)
    BY <1>5 DEF F!NotFound
  <2>2. F!AfterDelete \in {"look", "make"}
    BY DEF F!AfterDelete
  <2>3. asked[o].call \in {"create", "replace"}
    BY <1>5
  <2> QED BY <2>1, <2>2, <2>3, FiGoesOn
<1>6. CASE /\ ~(filePlatform # "windows" /\ F!InDirectory(asked[o].name)) /\ F!Reachable(asked[o].name)
           /\ ~(filePc[o] = "delete" /\ asked[o].call = "replace")
  <2>1. F!Returns(o, "KErrNotFound")
    BY <1>6 DEF F!NotFound
  <2> QED BY <1>1, <1>2, <2>1, FiComesBack
<1> QED BY <1>3, <1>4, <1>5, <1>6

--------------------------------------------------------------------------------
(***************************************************************************)
(* The calls.                                                              *)
(***************************************************************************)
LEMMA FiBegin ==
    ASSUME F!InOrder, NEW o \in Objects, F!Begin(o), filePlatform' = filePlatform
    PROVE  F!InOrder'
<1>1. /\ filePc[o] = "idle" /\ file[o] = 0 /\ locked[o] = FALSE
      /\ F!Typed /\ F!FilesAreMade
  BY FiCaller, FiParts DEF F!Begin, FiCall
<1>2. PICK a \in F!Calls :
         /\ asked' = [asked EXCEPT ![o] = a]
         /\ F!Goes(o, CASE a.call \in {"replace", "delete"} -> "delete"
                        [] a.call = "create" -> F!AfterDelete
                        [] a.call = "open" -> "open")
         /\ witness' = [witness EXCEPT ![o] = F!Truth(a.name, disk, there)]
  BY DEF F!Begin
<1>3. /\ there' = there /\ disk' = disk /\ data' = data /\ maker' = maker /\ made' = made
      /\ file' = file /\ locked' = locked /\ pos' = pos /\ fileResult' = fileResult
  BY <1>2 DEF F!Begin, F!world, F!Goes
<1>4. PICK w : /\ filePc' = [filePc EXCEPT ![o] = w]
               /\ w = "delete" \/ (w \in {"look", "make"} /\ a.call = "create")
                    \/ (w = "open" /\ a.call = "open")
  BY <1>2 DEF F!Goes, F!AfterDelete, F!Calls
<1>5. /\ filePc' \in [Objects -> {"idle", "delete", "look", "make", "open", "lock", "map",
                                  "mapdelete"}]
      /\ filePc'[o] = w /\ asked'[o] = a
      /\ \A p \in Objects \ {o} : filePc'[p] = filePc[p] /\ asked'[p] = asked[p]
                                  /\ witness'[p] = witness[p]
      /\ asked' \in [Objects -> F!Calls \cup {F!Nothing}]
      /\ witness' \in [Objects -> SUBSET {"file", "no file", "no directory"}]
  <2>1. F!Truth(a.name, disk, there) \subseteq {"file", "no file", "no directory"}
    BY DEF F!Truth
  <2>2. /\ filePc \in [Objects -> {"idle", "delete", "look", "make", "open", "lock", "map",
                                   "mapdelete"}]
        /\ asked \in [Objects -> F!Calls \cup {F!Nothing}]
        /\ witness \in [Objects -> SUBSET {"file", "no file", "no directory"}]
    BY <1>1, FiFacts
  <2> QED BY <1>2, <1>4, <2>1, <2>2
<1>6. F!Typed'
  <2>1. \A p \in Objects : filePc'[p] \notin {"idle", "lock"} => file'[p] = 0
    BY <1>1, <1>3, <1>5, FiFacts
  <2>2. F!TypeOK'
    BY <1>1, <1>3, <1>5, <2>1, Zenon DEF F!Typed, F!TypeOK, F!NoFile
  <2> QED BY <1>1, <1>3, <1>5, <2>2, Zenon DEF F!Typed
<1>7. \A p \in Objects : FiCall(p) /\ FiMaker(p) /\ FiMissing(p) /\ FiError(p)
      /\ \A q \in Objects : p # q => FiLock(p, q)
  BY FiParts
<1>8. F!CallsInOrder'
  <2> SUFFICES ASSUME NEW p \in Objects PROVE FiCall(p)'
    BY DEF F!CallsInOrder, FiCall
  <2>1. CASE p = o
    BY <2>1, <1>1, <1>3, <1>4, <1>5 DEF FiCall
  <2>2. CASE p # o
    BY <2>2, <1>3, <1>5, <1>7 DEF FiCall
  <2> QED BY <2>1, <2>2
<1>9. F!MakersAreKnown'
  <2> SUFFICES ASSUME NEW p \in Objects PROVE FiMaker(p)'
    BY DEF F!MakersAreKnown, FiMaker
  <2>1. CASE p = o
    BY <2>1, <1>1, <1>3 DEF FiMaker, F!NoFile
  <2>2. CASE p # o
    BY <2>2, <1>3, <1>5, <1>7 DEF FiMaker
  <2> QED BY <2>1, <2>2
<1>10. F!MissingWasSeen' /\ F!ErrorsAreTrue'
  <2> SUFFICES ASSUME NEW p \in Objects PROVE FiMissing(p)' /\ FiError(p)'
    BY DEF F!MissingWasSeen, F!ErrorsAreTrue, FiMissing, FiError
  <2>1. CASE p = o
    BY <2>1, <1>4, <1>5 DEF FiMissing, FiError
  <2>2. CASE p # o
    BY <2>2, <1>3, <1>5, <1>7 DEF FiMissing, FiError
  <2> QED BY <2>1, <2>2
<1>11. F!FilesAreMade' /\ F!LocksAreAlone'
  BY <1>1, <1>3, <1>7 DEF F!FilesAreMade, F!LocksAreAlone, FiLock
<1> QED BY <1>6, <1>8, <1>9, <1>10, <1>11 DEF F!InOrder

LEMMA FiDelete ==
    ASSUME F!InOrder, F!Noted, NEW o \in Objects, F!Delete(o), filePlatform' = filePlatform
    PROVE  F!InOrder'
<1>1. /\ filePc[o] = "delete" /\ file[o] = 0 /\ locked[o] = FALSE /\ F!Typed /\ F!FilesAreMade
      /\ there' = there /\ data' = data /\ maker' = maker /\ made' = made /\ file' = file
      /\ locked' = locked /\ pos' = pos
      /\ asked[o].name \in F!Names
  BY FiCaller, FiParts DEF F!Delete
<1>2. pos \in [Objects -> 0 .. MaxLength]
  BY <1>1, FiFacts
<1>3. {"KErrNone", "KErrInUse"} \subseteq F!Errors
  BY DEF F!Errors
<1>4. CASE /\ disk' = [disk EXCEPT ![asked[o].name] = F!NoFile]
           /\ IF asked[o].call = "replace" THEN F!Goes(o, F!AfterDelete) ELSE F!Returns(o, "KErrNone")
  <2>1. FiWorld
    <3>1. /\ disk \in [F!Names -> F!Files \cup {0}] /\ there \in BOOLEAN /\ made \in 0 .. MaxFiles
          /\ maker \in [F!Files -> Objects \cup {"nobody"}] /\ data \in [F!Files -> Seq(Objects \cup {"0"})]
          /\ ~there => disk["d/f"] = 0
          /\ \A f \in F!Files : Len(data[f]) <= MaxLength
          /\ made \in Nat /\ F!NoFile = 0
      BY <1>1, FiFacts, Zenon
    <3>2. disk' \in [F!Names -> F!Files \cup {0}] /\ \A n \in F!Names : (disk'[n] = disk[n] \/ disk'[n] = 0)
      BY <1>1, <1>4, <3>1
    <3>3. \A n \in F!Names : disk'[n] <= made
      BY <1>1, <3>1, <3>2 DEF F!FilesAreMade
    <3>4. ~there => disk'["d/f"] = 0
      BY <3>1, <3>2 DEF F!Names
    <3>5. made <= made
      BY ONLY <3>1
    <3> QED BY <1>1, <1>2, <3>1, <3>2, <3>3, <3>4, <3>5, Zenon DEF FiWorld
  <2>2. CASE asked[o].call = "replace"
    <3>1. F!AfterDelete \in {"look", "make"} /\ F!Goes(o, F!AfterDelete)
      BY <1>4, <2>2 DEF F!AfterDelete
    <3> QED BY <1>1, <2>1, <2>2, <3>1, FiGoesOn
  <2>3. CASE asked[o].call # "replace"
    <3>1. F!Returns(o, "KErrNone")
      BY <1>4, <2>3
    <3> QED BY <1>1, <1>3, <2>1, <3>1, FiComesBack
  <2> QED BY <2>2, <2>3
<1>5. CASE F!Returns(o, "KErrInUse") /\ disk' = disk
  <2>1. FiWorld
    BY <1>1, <1>2, <1>5, FiWorldSame
  <2> QED BY <1>1, <1>3, <1>5, <2>1, FiComesBack
<1>6. CASE disk[asked[o].name] = 0 /\ F!NotFound(o) /\ disk' = disk
  <2>1. FiWorld
    BY <1>1, <1>2, <1>6, FiWorldSame
  <2> QED BY <1>1, <1>6, <2>1, FiNotFound
<1> QED BY <1>4, <1>5, <1>6 DEF F!Delete, F!NoFile

\* Of a step that leaves the disk alone.
LEMMA FiSame ==
    ASSUME F!InOrder, filePlatform' = filePlatform, UNCHANGED F!world,
           pos' = pos
    PROVE  FiWorld
<1>1. F!Typed
  BY FiParts
<1>2. pos \in [Objects -> 0 .. MaxLength]
  BY <1>1, FiFacts
<1> QED BY <1>2, FiWorldSame DEF F!world

LEMMA FiMap ==
    ASSUME F!InOrder, F!Noted, NEW o \in Objects, F!Map(o), filePlatform' = filePlatform
    PROVE  F!InOrder'
<1>1. /\ filePc[o] \in {"map", "mapdelete"} /\ UNCHANGED F!world /\ file' = file /\ locked' = locked
      /\ pos' = pos /\ there' = there
  BY DEF F!Map, F!world
<1>2. FiWorld /\ F!InDirectory(asked[o].name) /\ "no file" \in witness[o]
  BY <1>1, FiSame, FiCaller DEF FiMissing
<1>3. "no file" \in witness'[o] /\ (~there => "no directory" \in witness'[o])
  BY <1>1, <1>2, FiSees
<1>4. {"KErrPathNotFound", "KErrNotFound"} \subseteq F!Errors
  BY DEF F!Errors
<1>5. CASE ~there /\ F!Returns(o, "KErrPathNotFound")
  BY <1>1, <1>2, <1>3, <1>4, <1>5, FiComesBack
<1>6. CASE asked[o].call = "replace" /\ F!Goes(o, F!AfterDelete)
  <2>1. F!AfterDelete \in {"look", "make"}
    BY DEF F!AfterDelete
  <2> QED BY <1>1, <1>2, <1>6, <2>1, FiGoesOn
<1>7. CASE F!Returns(o, "KErrNotFound")
  BY <1>1, <1>2, <1>3, <1>4, <1>7, FiComesBack
<1> QED BY <1>5, <1>6, <1>7 DEF F!Map

LEMMA FiLook ==
    ASSUME F!InOrder, F!Noted, NEW o \in Objects, F!Look(o), filePlatform' = filePlatform
    PROVE  F!InOrder'
<1>1. /\ filePc[o] = "look" /\ UNCHANGED F!world /\ file' = file /\ locked' = locked
      /\ pos' = pos /\ disk' = disk /\ FiWorld
  BY FiSame DEF F!Look, F!world
<1>2. asked[o].call \in {"create", "replace"}
  BY <1>1, FiCaller DEF FiCall
<1>3. CASE F!Goes(o, "make")
  BY <1>1, <1>2, <1>3, FiGoesOn
<1>4. CASE disk[asked[o].name] # 0 /\ F!Returns(o, "KErrAlreadyExists")
  <2>1. "file" \in witness'[o]
    BY <1>1, <1>4, FiSees
  <2>2. "KErrAlreadyExists" \in F!Errors
    BY DEF F!Errors
  <2> QED BY <1>1, <1>4, <2>1, <2>2, FiComesBack
<1> QED BY <1>3, <1>4 DEF F!Look, F!NoFile

\* Having got a file.
LEMMA FiHeld ==
    ASSUME F!InOrder, F!Noted, FiWorld, NEW o \in Objects, NEW f \in F!Files, NEW l \in BOOLEAN,
           F!Held(o, f, l), filePc[o] \notin {"idle", "lock"}, f <= made', f # 0,
           filePlatform = "windows" => l = asked[o].exclusive,
           filePlatform # "amiga" /\ asked[o].call \in {"create", "replace"} => maker'[f] = o,
           \A p \in Objects \ {o} :
               file[p] = f => l = FALSE /\ (locked[p] => filePlatform = "unix")
    PROVE  F!InOrder'
<1>1. /\ file' = [file EXCEPT ![o] = f] /\ locked' = [locked EXCEPT ![o] = l]
      /\ IF asked[o].exclusive /\ ~l THEN F!Goes(o, "lock") ELSE F!Returns(o, "KErrNone")
  BY DEF F!Held
<1>2. F!Typed /\ fileResult[o] \in F!Errors
  BY FiParts, FiCaller
<1>3. CASE asked[o].exclusive /\ ~l
  <2>1. filePc' = [filePc EXCEPT ![o] = "lock"] /\ fileResult' = fileResult
    BY <1>1, <1>3 DEF F!Goes
  <2>2. fileResult' = [fileResult EXCEPT ![o] = fileResult[o]]
    BY <1>2, <2>1, FiFacts
  <2>3. FiStep(o, "lock", fileResult[o], f, l)
    BY <1>1, <1>2, <2>1, <2>2 DEF FiStep
  <2>4. FiGood(o, "lock", fileResult[o], f, l)
    BY <1>3 DEF FiGood
  <2> QED BY <2>3, <2>4, FiKeeps
<1>4. CASE ~(asked[o].exclusive /\ ~l)
  <2>1. filePc' = [filePc EXCEPT ![o] = "idle"] /\ fileResult' = [fileResult EXCEPT ![o] = "KErrNone"]
    BY <1>1, <1>4 DEF F!Returns
  <2>2. FiStep(o, "idle", "KErrNone", f, l)
    BY <1>1, <2>1 DEF FiStep, F!Errors
  <2>3. FiGood(o, "idle", "KErrNone", f, l)
    BY DEF FiGood
  <2> QED BY <2>2, <2>3, FiKeeps
<1> QED BY <1>3, <1>4

LEMMA FiAsk ==
    ASSUME F!InOrder, F!Noted, NEW o \in Objects, filePlatform' = filePlatform, UNCHANGED F!world,
           F!Ask(o, disk[asked[o].name]), disk[asked[o].name] # 0,
           filePc[o] = "open" \/ (filePc[o] = "make" /\ filePlatform = "amiga")
    PROVE  F!InOrder'
<1> DEFINE f == disk[asked[o].name]
<1>1. /\ f \in F!Files /\ f # 0 /\ f <= made /\ made' = made /\ maker' = maker /\ F!Typed
      /\ asked[o] \in F!Calls \cup {F!Nothing}
      /\ filePc[o] = "open" => asked[o].call = "open"
      /\ F!Ask(o, f)
  <2>1. /\ f \in F!Files \cup {0} /\ f <= made /\ F!Typed
        /\ filePc[o] = "open" => asked[o].call = "open"
    BY FiCaller, FiParts DEF FiCall
  <2>2. asked[o] \in F!Calls \cup {F!Nothing}
    BY <2>1, FiFacts
  <2>3. f \in F!Files
    BY <2>1
  <2>4. made' = made /\ maker' = maker
    BY DEF F!world
  <2> QED BY <2>1, <2>2, <2>3, <2>4
<1>2. asked[o].exclusive \in BOOLEAN
  BY <1>1, FiExclusive
<1>3. pos \in [Objects -> 0 .. MaxLength]
  BY <1>1, FiFacts
<1> HIDE DEF f
<1>4. ASSUME NEW l, F!Held(o, f, l) PROVE FiWorld
  <2>1. pos' \in [Objects -> 0 .. MaxLength]
    <3>1. 0 \in 0 .. MaxLength
      BY FileAssumption
    <3> QED BY <1>3, <1>4, <3>1 DEF F!Held
  <2> QED BY <2>1, FiWorldSame DEF F!world
<1>5. CASE filePlatform = "unix" /\ F!Held(o, f, FALSE)
  BY <1>1, <1>4, <1>5, FiHeld
<1>6. CASE F!Returns(o, "KErrInUse") /\ UNCHANGED <<file, pos, locked>>
  <2>1. FiWorld
    BY <1>6, FiSame
  <2>2. "KErrInUse" \in F!Errors
    BY DEF F!Errors
  <2> QED BY <1>6, <2>1, <2>2, FiComesBack
<1>7. ASSUME ~F!Shut(f), NEW p \in Objects, file[p] = f PROVE ~locked[p]
  BY <1>7 DEF F!Shut, F!Users
<1>8. CASE filePlatform = "amiga" /\ ~F!Shut(f) /\ F!Held(o, f, FALSE)
  BY <1>1, <1>4, <1>7, <1>8, FiHeld
<1>9. CASE /\ filePlatform = "windows" /\ ~F!Shut(f)
           /\ ~(asked[o].exclusive /\ F!Users(f) # {}) /\ F!Held(o, f, asked[o].exclusive)
  <2>1. \A p \in Objects \ {o} : file[p] = f => asked[o].exclusive = FALSE
    BY <1>2, <1>9 DEF F!Users
  <2> QED BY <1>1, <1>2, <1>4, <1>7, <1>9, <2>1, FiHeld
<1> QED BY <1>1, <1>5, <1>6, <1>8, <1>9 DEF F!Ask

LEMMA FiOpenIt ==
    ASSUME F!InOrder, F!Noted, NEW o \in Objects, F!OpenIt(o), filePlatform' = filePlatform
    PROVE  F!InOrder'
<1>1. filePc[o] = "open" /\ UNCHANGED F!world
  BY DEF F!OpenIt
<1>2. CASE disk[asked[o].name] = 0
  <2>1. F!NotFound(o) /\ file' = file /\ pos' = pos /\ locked' = locked
    BY <1>2 DEF F!OpenIt, F!NoFile
  <2>2. FiWorld /\ there' = there /\ disk' = disk
    BY <1>1, <2>1, FiSame DEF F!world
  <2> QED BY <1>1, <1>2, <2>1, <2>2, FiNotFound
<1>3. CASE disk[asked[o].name] # 0
  <2>1. F!Ask(o, disk[asked[o].name])
    BY <1>3 DEF F!OpenIt, F!NoFile
  <2> QED BY <1>1, <1>3, <2>1, FiAsk
<1> QED BY <1>2, <1>3

LEMMA FiMake ==
    ASSUME F!InOrder, F!Noted, NEW o \in Objects, F!Make(o), filePlatform' = filePlatform
    PROVE  F!InOrder'
<1>1. /\ filePc[o] = "make" /\ there' = there /\ data' = data /\ F!Typed /\ F!FilesAreMade
      /\ file[o] = 0 /\ locked[o] = FALSE /\ asked[o].name \in F!Names /\ F!NoFile = 0
      /\ asked[o] \in F!Calls \cup {F!Nothing}
  BY FiCaller, FiParts, FiFacts DEF F!Make
<1>2. CASE disk[asked[o].name] # 0 /\ filePlatform = "amiga" /\ F!Ask(o, disk[asked[o].name])
           /\ UNCHANGED <<disk, maker, made>>
  <2>1. UNCHANGED F!world
    BY <1>1, <1>2 DEF F!world
  <2> QED BY <1>1, <1>2, <2>1, FiAsk
<1>3. CASE /\ disk[asked[o].name] # 0 /\ F!Returns(o, "KErrAlreadyExists")
           /\ UNCHANGED <<disk, maker, made, file, pos, locked>>
  <2>1. FiWorld
    BY <1>1, <1>3, FiSame DEF F!world
  <2>2. "file" \in witness'[o] /\ "KErrAlreadyExists" \in F!Errors
    BY <1>1, <1>3, FiSees DEF F!Errors
  <2> QED BY <1>3, <2>1, <2>2, FiComesBack
<1>4. CASE /\ disk[asked[o].name] = 0 /\ F!NotFound(o)
           /\ UNCHANGED <<disk, maker, made, file, pos, locked>>
  <2>1. FiWorld
    BY <1>1, <1>4, FiSame DEF F!world
  <2> QED BY <1>1, <1>4, <2>1, FiNotFound
<1>5. CASE /\ disk[asked[o].name] = 0 /\ F!Reachable(asked[o].name) /\ made < MaxFiles
           /\ made' = made + 1 /\ maker' = [maker EXCEPT ![made'] = o]
           /\ disk' = [disk EXCEPT ![asked[o].name] = made']
           /\ F!Held(o, made', filePlatform = "windows" /\ asked[o].exclusive)
  <2> DEFINE l == filePlatform = "windows" /\ asked[o].exclusive
  <2>1. /\ disk \in [F!Names -> F!Files \cup {0}] /\ there \in BOOLEAN /\ made \in 0 .. MaxFiles
        /\ maker \in [F!Files -> Objects \cup {"nobody"}] /\ data \in [F!Files -> Seq(Objects \cup {"0"})]
        /\ ~there => disk["d/f"] = 0
        /\ \A f \in F!Files : Len(data[f]) <= MaxLength
        /\ F!Files = 1 .. MaxFiles /\ MaxFiles \in Nat /\ made \in Nat
        /\ file \in [Objects -> F!Files \cup {0}] /\ pos \in [Objects -> 0 .. MaxLength]
    BY <1>1, FiFacts, Zenon
  <2>2. made' \in F!Files /\ made <= made' /\ made' \in 0 .. MaxFiles /\ made' # 0 /\ made' <= made'
        /\ \A f \in F!Files : f <= made => f # made'
    <3>1. made \in Nat /\ MaxFiles \in Nat /\ made < MaxFiles /\ made' = made + 1 /\ F!Files = 1 .. MaxFiles
      BY <1>5, <2>1
    <3> QED BY ONLY <3>1
  <2>3. /\ disk' \in [F!Names -> F!Files \cup {0}]
        /\ \A n \in F!Names : disk'[n] = made' \/ disk'[n] = disk[n]
        /\ disk'[asked[o].name] = made'
        /\ \A n \in F!Names \ {asked[o].name} : disk'[n] = disk[n]
    BY <1>1, <1>5, <2>1, <2>2
  <2>4. \A n \in F!Names : disk'[n] <= made'
    <3> SUFFICES ASSUME NEW n \in F!Names PROVE disk'[n] <= made'
      OBVIOUS
    <3>1. disk[n] <= made /\ disk[n] \in F!Files \cup {0}
      BY <1>1, <2>1 DEF F!FilesAreMade
    <3>2. disk[n] \in Nat /\ made \in Nat /\ made' = made + 1 /\ (disk'[n] = made' \/ disk'[n] = disk[n])
      BY <1>5, <2>1, <2>3, <3>1
    <3> QED BY ONLY <3>1, <3>2
  <2>5. ~there' => disk'["d/f"] = 0
    BY <1>1, <1>5, <2>1, <2>3 DEF F!Reachable, F!InDirectory, F!Names
  <2>6. maker' \in [F!Files -> Objects \cup {"nobody"}] /\ maker'[made'] = o
        /\ \A f \in F!Files : f <= made => maker'[f] = maker[f]
    BY <1>5, <2>1, <2>2
  <2>7. pos' \in [Objects -> 0 .. MaxLength]
    <3>1. 0 \in 0 .. MaxLength
      BY FileAssumption
    <3> QED BY <1>5, <2>1, <3>1 DEF F!Held
  <2>8. FiWorld
    BY <1>1, <2>1, <2>2, <2>3, <2>4, <2>5, <2>6, <2>7, Zenon DEF FiWorld
  <2>9. \A p \in Objects : file[p] # made'
    <3> SUFFICES ASSUME NEW p \in Objects PROVE file[p] # made'
      OBVIOUS
    <3>1. file[p] <= made /\ file[p] \in F!Files \cup {0}
      BY <1>1, <2>1 DEF F!FilesAreMade
    <3>2. file[p] \in Nat /\ made \in Nat /\ made' = made + 1
      BY <1>5, <2>1, <3>1
    <3> QED BY ONLY <3>1, <3>2
  <2>10. l \in BOOLEAN /\ (filePlatform = "windows" => l = asked[o].exclusive)
    <3>1. asked[o].exclusive \in BOOLEAN
      BY <1>1, FiExclusive
    <3> QED BY <3>1, Zenon
  <2>11. F!Held(o, made', l)
    BY <1>5
  <2> HIDE DEF l
  <2> QED BY <1>1, <2>2, <2>6, <2>8, <2>9, <2>10, <2>11, FiHeld
<1> QED BY <1>2, <1>3, <1>4, <1>5 DEF F!Make, F!NoFile

LEMMA FiLocks ==
    ASSUME F!InOrder, F!Noted, NEW o \in Objects, F!Lock(o), filePlatform' = filePlatform
    PROVE  F!InOrder'
<1>1. /\ filePc[o] = "lock" /\ UNCHANGED F!world /\ pos' = pos /\ FiWorld /\ made' = made
      /\ file[o] # 0 /\ locked[o] = FALSE /\ filePlatform \in {"unix", "amiga"}
      /\ file[o] \in F!Files \cup {0} /\ file[o] <= made /\ F!Typed /\ maker' = maker
  <2>1. /\ F!Typed /\ file[o] # 0 /\ ~locked[o] /\ filePlatform # "windows"
        /\ locked[o] \in BOOLEAN /\ file[o] \in F!Files \cup {0} /\ file[o] <= made
    BY FiCaller, FiParts DEF FiCall, F!Lock
  <2>2. filePlatform \in {"unix", "windows", "amiga"}
    BY <2>1, FiFacts
  <2> QED BY <2>1, <2>2, FiSame DEF F!Lock, F!world
<1>2. file \in [Objects -> F!Files \cup {0}] /\ locked \in [Objects -> BOOLEAN] /\ made \in Nat
  BY <1>1, FiFacts
<1>3. CASE F!Blocking(o) = {} /\ locked' = [locked EXCEPT ![o] = TRUE] /\ F!Returns(o, "KErrNone")
           /\ file' = file
  <2>1. file' = [file EXCEPT ![o] = file[o]]
    BY <1>2, <1>3
  <2>2. FiStep(o, "idle", "KErrNone", file[o], TRUE)
    BY <1>1, <1>3, <2>1 DEF FiStep, F!Returns, F!Errors
  <2>3. \A p \in Objects \ {o} : file[p] = file[o] => filePlatform # "amiga" /\ ~locked[p]
    BY <1>3 DEF F!Blocking, F!Users
  <2>4. FiMaker(o)
    BY FiCaller
  <2>5. FiGood(o, "idle", "KErrNone", file[o], TRUE)
    BY <1>1, <2>3, <2>4 DEF FiGood, FiMaker, F!NoFile
  <2> QED BY <1>1, <2>2, <2>5, FiKeeps
<1>4. CASE /\ file' = [file EXCEPT ![o] = 0] /\ locked' = locked
           /\ F!Returns(o, IF filePlatform = "unix" /\ asked[o].call # "open"
                           THEN "KErrGeneral" ELSE "KErrInUse")
  <2> DEFINE r == IF filePlatform = "unix" /\ asked[o].call # "open" THEN "KErrGeneral" ELSE "KErrInUse"
  <2>1. locked' = [locked EXCEPT ![o] = FALSE]
    BY <1>1, <1>2, <1>4
  <2>2. r \in {"KErrGeneral", "KErrInUse"} /\ r \in F!Errors /\ F!Returns(o, r)
    BY <1>4 DEF F!Errors
  <2> HIDE DEF r
  <2>3. 0 <= made'
    BY <1>1, <1>2
  <2>4. FiStep(o, "idle", r, 0, FALSE)
    BY <1>4, <2>1, <2>2, <2>3 DEF FiStep, F!Returns
  <2>5. \A p \in Objects \ {o} : locked[p] => file[p] # 0
    <3> SUFFICES ASSUME NEW p \in Objects PROVE locked[p] => file[p] # 0
      OBVIOUS
    <3> QED BY FiCaller DEF FiCall
  <2>6. FiGood(o, "idle", r, 0, FALSE)
    BY <2>2, <2>5 DEF FiGood
  <2> QED BY <1>1, <2>4, <2>6, FiKeeps
<1> QED BY <1>3, <1>4 DEF F!Lock, F!NoFile

LEMMA FiPut ==
    ASSUME NEW S, NEW d \in Seq(S), NEW p \in Nat, NEW b \in S, "0" \in S
    PROVE  /\ F!Put(d, p, b) \in Seq(S)
           /\ Len(F!Put(d, p, b)) = IF p + 1 > Len(d) THEN p + 1 ELSE Len(d)
<1> DEFINE n == IF p + 1 > Len(d) THEN p + 1 ELSE Len(d)
           e(i) == IF i = p + 1 THEN b ELSE IF i <= Len(d) THEN d[i] ELSE "0"
<1>1. n \in Nat
  OBVIOUS
<1>2. \A i \in 1 .. n : e(i) \in S
  OBVIOUS
<1>3. F!Put(d, p, b) = [i \in 1 .. n |-> e(i)]
  BY DEF F!Put
<1> HIDE DEF n, e
<1>4. F!Put(d, p, b) \in [1 .. n -> S]
  BY <1>2, <1>3
<1>5. F!Put(d, p, b) \in Seq(S) /\ Len(F!Put(d, p, b)) = n
  BY <1>1, <1>3, <1>4, IsASeq, LenProperties
<1> QED BY <1>5 DEF n

LEMMA FiWrite ==
    ASSUME F!InOrder, F!Noted, NEW o \in Objects, F!Write(o), filePlatform' = filePlatform
    PROVE  F!InOrder'
<1>1. /\ filePc[o] = "idle" /\ file[o] # 0 /\ there' = there /\ disk' = disk /\ maker' = maker
      /\ made' = made /\ file' = file /\ locked' = locked
      /\ F!Typed /\ file[o] \in F!Files \cup {0}
  BY FiCaller, FiParts DEF F!Write, F!NoFile
<1>2. {"KErrNone", "KErrGeneral"} \subseteq F!Errors
  BY DEF F!Errors
<1>3. CASE F!Returns(o, "KErrGeneral") /\ UNCHANGED <<data, pos>>
  <2>1. FiWorld
    BY <1>1, <1>3, FiSame DEF F!world
  <2> QED BY <1>1, <1>2, <1>3, <2>1, FiComesBack
<1>4. CASE /\ pos[o] < MaxLength /\ F!Returns(o, "KErrNone")
           /\ data' = [data EXCEPT ![file[o]] = F!Put(@, pos[o], o)]
           /\ pos' = [pos EXCEPT ![o] = @ + 1]
  <2>1. /\ pos \in [Objects -> 0 .. MaxLength] /\ data \in [F!Files -> Seq(Objects \cup {"0"})]
        /\ \A f \in F!Files : Len(data[f]) <= MaxLength
    BY <1>1, FiFacts
  <2> DEFINE d == F!Put(data[file[o]], pos[o], o)
  <2>2. file[o] \in F!Files /\ pos[o] \in 0 .. MaxLength /\ MaxLength \in Nat /\ pos[o] \in Nat
        /\ data[file[o]] \in Seq(Objects \cup {"0"}) /\ Len(data[file[o]]) <= MaxLength
    <3>1. MaxLength \in Nat
      BY FileAssumption
    <3>2. file[o] \in F!Files /\ pos[o] \in 0 .. MaxLength
      BY <1>1, <2>1
    <3>3. data[file[o]] \in Seq(Objects \cup {"0"}) /\ Len(data[file[o]]) <= MaxLength
      BY <2>1, <3>2
    <3> QED BY <3>1, <3>2, <3>3
  <2>3. d \in Seq(Objects \cup {"0"})
        /\ Len(d) = IF pos[o] + 1 > Len(data[file[o]]) THEN pos[o] + 1 ELSE Len(data[file[o]])
    <3>1. o \in Objects \cup {"0"} /\ "0" \in Objects \cup {"0"}
      OBVIOUS
    <3> QED BY <2>2, <3>1, FiPut
  <2> HIDE DEF d
  <2>4. Len(d) <= MaxLength
    BY <1>4, <2>2, <2>3
  <2>5. data' = [data EXCEPT ![file[o]] = d]
    BY <1>4 DEF d
  <2>6. data' \in [F!Files -> Seq(Objects \cup {"0"})] /\ \A f \in F!Files : Len(data'[f]) <= MaxLength
    BY <2>1, <2>2, <2>3, <2>4, <2>5
  <2>7. pos' \in [Objects -> 0 .. MaxLength]
    <3>1. pos[o] + 1 \in 0 .. MaxLength
      BY <1>4, <2>2
    <3> QED BY <1>4, <2>1, <3>1
  <2>8. FiWorld
    <3>1. /\ disk \in [F!Names -> F!Files \cup {0}] /\ there \in BOOLEAN /\ made \in 0 .. MaxFiles
          /\ maker \in [F!Files -> Objects \cup {"nobody"}] /\ made \in Nat
          /\ ~there => disk["d/f"] = 0
      BY <1>1, FiFacts, Zenon
    <3>2. made <= made
      BY ONLY <3>1
    <3>3. \A n \in F!Names : disk[n] <= made
      BY FiParts DEF F!FilesAreMade
    <3> QED BY <1>1, <2>6, <2>7, <3>1, <3>2, <3>3, Zenon DEF FiWorld
  <2> QED BY <1>1, <1>2, <1>4, <2>8, FiComesBack
<1> QED BY <1>3, <1>4 DEF F!Write

LEMMA FiMove ==
    ASSUME F!InOrder, F!Noted, NEW o \in Objects, F!Move(o), filePlatform' = filePlatform
    PROVE  F!InOrder'
<1>1. /\ filePc[o] = "idle" /\ UNCHANGED F!world /\ file' = file /\ locked' = locked /\ F!Typed
  BY FiParts DEF F!Move
<1>2. PICK p \in 0 .. MaxLength : pos' = [pos EXCEPT ![o] = p] /\ F!Returns(o, "KErrNone")
  BY DEF F!Move
<1>3. pos \in [Objects -> 0 .. MaxLength]
  BY <1>1, FiFacts
<1>4. FiWorld
  <2>1. pos' \in [Objects -> 0 .. MaxLength]
    BY <1>2, <1>3
  <2> QED BY <1>1, <2>1, FiWorldSame DEF F!world
<1>5. "KErrNone" \in F!Errors
  BY DEF F!Errors
<1> QED BY <1>1, <1>2, <1>4, <1>5, FiComesBack

LEMMA FiClose ==
    ASSUME F!InOrder, F!Noted, NEW o \in Objects, F!Close(o), filePlatform' = filePlatform
    PROVE  F!InOrder'
<1>1. /\ filePc[o] = "idle" /\ UNCHANGED F!world /\ F!Typed
      /\ file' = [file EXCEPT ![o] = 0] /\ locked' = [locked EXCEPT ![o] = FALSE]
      /\ pos' = [pos EXCEPT ![o] = 0] /\ F!Returns(o, "KErrNone")
  BY FiParts DEF F!Close, F!NoFile
<1>2. pos \in [Objects -> 0 .. MaxLength]
  BY <1>1, FiFacts
<1>3. FiWorld
  <2>1. pos' \in [Objects -> 0 .. MaxLength]
    <3>1. 0 \in 0 .. MaxLength
      BY FileAssumption
    <3> QED BY <1>1, <1>2, <3>1
  <2> QED BY <1>1, <2>1, FiWorldSame DEF F!world
<1>4. 0 <= made'
  BY FileAssumption, <1>3 DEF FiWorld
<1>5. FiStep(o, "idle", "KErrNone", 0, FALSE)
  BY <1>1, <1>4 DEF FiStep, F!Returns, F!Errors
<1>6. \A p \in Objects \ {o} : locked[p] => file[p] # 0
  <2> SUFFICES ASSUME NEW p \in Objects PROVE locked[p] => file[p] # 0
    OBVIOUS
  <2> QED BY FiCaller DEF FiCall
<1>7. FiGood(o, "idle", "KErrNone", 0, FALSE)
  BY <1>6 DEF FiGood
<1> QED BY <1>3, <1>5, <1>7, FiKeeps

LEMMA FiDirectories ==
    ASSUME F!InOrder, F!Noted, F!Directories, filePlatform' = filePlatform
    PROVE  F!InOrder'
<1>1. /\ data' = data /\ maker' = maker /\ made' = made /\ filePc' = filePc /\ file' = file
      /\ locked' = locked /\ pos' = pos /\ fileResult' = fileResult
      /\ F!Typed /\ F!FilesAreMade
  BY FiParts DEF F!Directories, F!own
<1>2. /\ disk \in [F!Names -> F!Files \cup {0}] /\ there \in BOOLEAN /\ F!NoFile = 0
      /\ ~there => disk["d/f"] = 0
      /\ made \in Nat
  BY <1>1, FiFacts, Zenon
<1>3. /\ disk' \in [F!Names -> F!Files \cup {0}] /\ there' \in BOOLEAN
      /\ ~there' => disk'["d/f"] = 0
      /\ \A n \in F!Names : disk'[n] = 0 \/ \E m \in F!Names : disk'[n] = disk[m]
  <2>1. CASE (F!CreateDirectory \/ F!DeleteDirectory) /\ UNCHANGED disk
    BY <1>2, <2>1 DEF F!CreateDirectory, F!DeleteDirectory
  <2>2. CASE F!RenameFile /\ UNCHANGED there
    <3>1. PICK old \in F!Names, new \in F!Names :
             /\ old # new /\ disk[old] # 0 /\ F!Reachable(new)
             /\ disk' = [disk EXCEPT ![new] = disk[old], ![old] = 0]
      BY <1>2, <2>2 DEF F!RenameFile
    <3>2. disk' \in [F!Names -> F!Files \cup {0}]
          /\ \A n \in F!Names : disk'[n] = IF n = old THEN 0 ELSE IF n = new THEN disk[old] ELSE disk[n]
      BY <1>2, <3>1
    <3>3. ~there => disk'["d/f"] = 0
      BY <1>2, <3>1, <3>2 DEF F!Reachable, F!InDirectory, F!Names
    <3> QED BY <1>2, <2>2, <3>2, <3>3
  <2> QED BY <2>1, <2>2 DEF F!Directories
<1>4. F!Typed'
  <2>1. /\ asked' \in [Objects -> F!Calls \cup {F!Nothing}]
        /\ witness' \in [Objects -> SUBSET {"file", "no file", "no directory"}]
    BY <1>1, FiNotes
  <2>2. F!TypeOK'
    BY <1>1, <1>2, <1>3, <2>1, Zenon DEF F!Typed, F!TypeOK
  <2> QED BY <1>1, <1>3, <2>1, <2>2, Zenon DEF F!Typed
<1>5. PICK o : o \notin Objects
  BY NoSetContainsEverything
<1>6. FiOwn(o)
  <2>1. made <= made
    BY ONLY <1>2
  <2> QED BY <1>1, <1>2, <2>1, Zenon DEF FiOwn
<1>7. \A p \in Objects : /\ FiCall(p)' /\ FiMaker(p)' /\ FiMissing(p)' /\ FiError(p)'
                         /\ file'[p] <= made' /\ \A q \in Objects : p # q => FiLock(p, q)'
  BY <1>5, <1>6, FiOthers
<1>8. F!FilesAreMade'
  <2> SUFFICES ASSUME NEW n \in F!Names PROVE disk'[n] <= made'
    BY <1>7 DEF F!FilesAreMade
  <2>1. disk'[n] = 0 \/ \E m \in F!Names : disk'[n] = disk[m]
    BY <1>3
  <2>2. \A m \in F!Names : disk[m] <= made
    BY <1>1 DEF F!FilesAreMade
  <2>3. 0 <= made
    BY ONLY <1>2
  <2> QED BY <1>1, <2>1, <2>2, <2>3
<1>9. F!CallsInOrder' /\ F!MakersAreKnown' /\ F!MissingWasSeen' /\ F!ErrorsAreTrue'
  BY <1>7 DEF FiCall, FiMaker, FiMissing, FiError, F!CallsInOrder, F!MakersAreKnown,
              F!MissingWasSeen, F!ErrorsAreTrue
<1>10. F!LocksAreAlone'
  BY <1>7 DEF FiLock, F!LocksAreAlone
<1> QED BY <1>4, <1>8, <1>9, <1>10 DEF F!InOrder

LEMMA FiInit ==
    ASSUME F!Init
    PROVE  F!InOrder
<1>1. /\ MaxFiles \in Nat /\ MaxFiles >= 1 /\ MaxLength \in Nat
      /\ F!NoFile = 0 /\ F!Files = 1 .. MaxFiles
  BY FileAssumption DEF F!NoFile, F!Files
<1>2. /\ filePlatform \in FilePlatforms /\ there \in BOOLEAN
      /\ disk \in [F!Names -> {0, 1}] /\ disk["d/f"] = 0
      /\ data = [f \in F!Files |-> <<>>] /\ maker = [f \in F!Files |-> "nobody"]
      /\ made = IF disk["f"] = 0 THEN 0 ELSE 1
      /\ filePc = [o \in Objects |-> "idle"] /\ asked = [o \in Objects |-> F!Nothing]
      /\ file = [o \in Objects |-> 0] /\ locked = [o \in Objects |-> FALSE]
      /\ pos = [o \in Objects |-> 0] /\ fileResult = [o \in Objects |-> "KErrNone"]
      /\ witness = [o \in Objects |-> {}]
  BY <1>1 DEF F!Init
<1>3. /\ 0 \in F!Files \cup {0} /\ 1 \in F!Files \cup {0} /\ made \in 0 .. MaxFiles
      /\ 0 \in 0 .. MaxLength /\ made \in {0, 1} /\ 0 <= made
  BY <1>1, <1>2
<1>4. /\ data \in [F!Files -> Seq(Objects \cup {"0"})] /\ \A f \in F!Files : Len(data[f]) <= MaxLength
  BY <1>1, <1>2
<1>5. disk \in [F!Names -> F!Files \cup {0}] /\ file \in [Objects -> F!Files \cup {0}]
      /\ pos \in [Objects -> 0 .. MaxLength]
  BY <1>2, <1>3
<1>6. /\ fileResult \in [Objects -> F!Errors] /\ locked \in [Objects -> BOOLEAN]
      /\ asked \in [Objects -> F!Calls \cup {F!Nothing}]
      /\ witness \in [Objects -> SUBSET {"file", "no file", "no directory"}]
      /\ maker \in [F!Files -> Objects \cup {"nobody"}]
      /\ filePc \in [Objects -> {"idle", "delete", "look", "make", "open", "lock", "map",
                                 "mapdelete"}]
  BY <1>2 DEF F!Errors
<1>7. F!TypeOK
  <2>1. \A o \in Objects : filePc[o] \notin {"idle", "lock"} => file[o] = 0
    BY <1>2
  <2> QED BY <1>1, <1>2, <1>4, <1>5, <1>6, <2>1, Zenon DEF F!TypeOK
<1>8. F!Typed
  BY <1>2, <1>3, <1>4, <1>5, <1>6, <1>7, Zenon DEF F!Typed
<1>9. F!FilesAreMade
  <2>1. \A n \in F!Names : disk[n] <= made
    <3>1. F!Names = {"f", "d/f"}
      BY DEF F!Names
    <3>2. disk["f"] \in {0, 1} /\ disk["d/f"] = 0
      BY <1>2, <3>1
    <3> QED BY <1>2, <1>3, <3>1, <3>2
  <2> QED BY <1>2, <1>3, <2>1 DEF F!FilesAreMade
<1>10. F!CallsInOrder /\ F!MakersAreKnown /\ F!MissingWasSeen /\ F!ErrorsAreTrue /\ F!LocksAreAlone
  BY <1>2 DEF F!CallsInOrder, F!MakersAreKnown, F!MissingWasSeen, F!ErrorsAreTrue, F!LocksAreAlone,
              F!NoFile
<1> QED BY <1>8, <1>9, <1>10 DEF F!InOrder

LEMMA FiNext ==
    ASSUME F!InOrder, [F!Next]_(ofFile)
    PROVE  F!InOrder'
<1>1. CASE UNCHANGED ofFile
  BY <1>1 DEF ofFile, F!InOrder, F!Typed, F!TypeOK, F!FilesAreMade, F!CallsInOrder,
              F!MakersAreKnown, F!LocksAreAlone, F!MissingWasSeen, F!ErrorsAreTrue
<1>2. CASE F!Next
  <2>1. filePlatform' = filePlatform
    BY <1>2 DEF F!Next
  <2>2. CASE \E o \in Objects : F!Begin(o)
    BY <2>1, <2>2, FiBegin
  <2>3. ASSUME NEW o \in Objects, F!Noted,
               \/ F!Delete(o) \/ F!Map(o) \/ F!Look(o) \/ F!Make(o) \/ F!OpenIt(o) \/ F!Lock(o)
               \/ F!Write(o) \/ F!Move(o) \/ F!Close(o)
        PROVE  F!InOrder'
    BY <2>1, <2>3, FiDelete, FiMap, FiLook, FiMake, FiOpenIt, FiLocks, FiWrite, FiMove, FiClose
  <2>4. CASE F!Directories /\ F!Noted
    BY <2>1, <2>4, FiDirectories
  <2> QED BY <1>2, <2>2, <2>3, <2>4 DEF F!Next
<1> QED BY <1>1, <1>2

LEMMA FiShows ==
    ASSUME F!InOrder
    PROVE  F!TypeOK /\ F!CreatedIsNew /\ F!ExclusiveIsAlone /\ F!ErrorsAreTrue
BY DEF F!InOrder, F!Typed, F!MakersAreKnown, F!LocksAreAlone, F!CreatedIsNew, F!ExclusiveIsAlone,
       F!Holds

--------------------------------------------------------------------------------
(***************************************************************************)
(* Directory.  Lists of entries, and what sorting does to them.            *)
(***************************************************************************)
DiNames(s) == {s[i].name : i \in DOMAIN s}

DiOnce(s) == \A i, j \in DOMAIN s : s[i].name = s[j].name => i = j

LEMMA DiAppend ==
    ASSUME NEW s \in Seq(D!Entry), NEW e \in D!Entry
    PROVE  /\ Append(s, e) \in Seq(D!Entry)
           /\ DOMAIN Append(s, e) = DOMAIN s \cup {Len(s) + 1} /\ Len(s) + 1 \notin DOMAIN s
           /\ \A i \in DOMAIN s : Append(s, e)[i] = s[i]
           /\ Append(s, e)[Len(s) + 1] = e
           /\ DiNames(Append(s, e)) = DiNames(s) \cup {e.name}
<1>1. /\ Append(s, e) \in Seq(D!Entry) /\ Len(Append(s, e)) = Len(s) + 1
      /\ \A i \in 1 .. Len(s) : Append(s, e)[i] = s[i]
      /\ Append(s, e)[Len(s) + 1] = e
  BY AppendProperties
<1>2. /\ DOMAIN s = 1 .. Len(s) /\ Len(s) \in Nat
      /\ DOMAIN Append(s, e) = 1 .. (Len(s) + 1)
  BY <1>1
<1>3. DOMAIN Append(s, e) = DOMAIN s \cup {Len(s) + 1} /\ Len(s) + 1 \notin DOMAIN s
  BY <1>2
<1>4. DiNames(Append(s, e)) = DiNames(s) \cup {e.name}
  BY ONLY <1>1, <1>2, <1>3 DEF DiNames
<1> QED BY <1>1, <1>2, <1>3, <1>4

LEMMA DiAppendOnce ==
    ASSUME NEW s \in Seq(D!Entry), NEW e \in D!Entry, DiOnce(s), e.name \notin DiNames(s)
    PROVE  DiOnce(Append(s, e))
BY DiAppend DEF DiOnce, DiNames

\* The places of the first entries of an outcome, as Sortings() finds them.
FirstsIn(o, s, limit) ==
    CHOOSE firsts : firsts = [n \in 0 .. limit |->
            IF n = 0 THEN {<<>>} ELSE UNION {D!Further(o, s, q) : q \in firsts[n - 1]}]

LEMMA DiSortingsAre ==
    ASSUME NEW o, NEW s
    PROVE  D!Sortings(o, s) =
             IF o = "none" THEN {s}
             ELSE {[i \in DOMAIN s |-> s[q[i]]] : q \in FirstsIn(o, s, Len(s))[Len(s)]}
BY Zenon DEF D!Sortings, FirstsIn

LEMMA DiFirsts ==
    ASSUME NEW o, NEW s, NEW limit \in Nat
    PROVE  FirstsIn(o, s, limit) = [n \in 0 .. limit |->
             IF n = 0 THEN {<<>>}
             ELSE UNION {D!Further(o, s, q) : q \in FirstsIn(o, s, limit)[n - 1]}]
<1> DEFINE Onto(S) == UNION {D!Further(o, s, q) : q \in S}
           Is(M, r) == r = [n \in 0 .. M |-> IF n = 0 THEN {<<>>} ELSE Onto(r[n - 1])]
           T == {M \in Nat : ~ \E r : Is(M, r)}
<1> HIDE DEF Onto
<1>1. T = {}
  <2> SUFFICES ASSUME T # {} PROVE FALSE
    OBVIOUS
  <2>1. T \subseteq Nat
    OBVIOUS
  <2>2. PICK M \in T : \A j \in T : M <= j
    BY <2>1, Least
  <2>3. M \in Nat /\ ~ \E r : Is(M, r)
    OBVIOUS
  <2>4. CASE M = 0
    <3> DEFINE r == [n \in 0 .. M |-> {<<>>}]
    <3>1. Is(M, r)
      BY <2>4
    <3> QED BY <2>3, <3>1
  <2>5. CASE M # 0
    <3>1. M - 1 \in Nat /\ ~(M <= M - 1)
      BY <2>3, <2>5
    <3>2. PICK q : Is(M - 1, q)
      BY <2>2, <3>1
    <3> DEFINE r == [n \in 0 .. M |-> IF n = M THEN Onto(q[M - 1]) ELSE q[n]]
    <3>3. ASSUME NEW n \in 0 .. M
          PROVE  r[n] = IF n = 0 THEN {<<>>} ELSE Onto(r[n - 1])
      <4>1. CASE n = M
        <5>1. n - 1 \in 0 .. M /\ n - 1 # M
          BY <2>3, <2>5, <4>1
        <5>2. r[n - 1] = q[n - 1]
          BY <5>1
        <5> QED BY <2>5, <4>1, <5>2
      <4>2. CASE n # M
        <5>1. n \in 0 .. M - 1 /\ (n # 0 => n - 1 \in 0 .. M /\ n - 1 # M)
          BY <2>3, <4>2
        <5>2. q[n] = IF n = 0 THEN {<<>>} ELSE Onto(q[n - 1])
          BY <3>2, <5>1
        <5>3. r[n] = q[n] /\ (n # 0 => r[n - 1] = q[n - 1])
          BY <4>2, <5>1
        <5> QED BY <5>2, <5>3
      <4> QED BY <4>1, <4>2
    <3>4. r = [n \in 0 .. M |-> r[n]]
      OBVIOUS
    <3> HIDE DEF r
    <3>5. Is(M, r)
      BY <3>3, <3>4
    <3> QED BY <2>3, <3>5
  <2> QED BY <2>4, <2>5
<1>2. PICK r : Is(limit, r)
  BY <1>1
<1>3. FirstsIn(o, s, limit) = CHOOSE q : Is(limit, q)
  BY Zenon DEF FirstsIn, Onto
<1> HIDE DEF Is
<1>4. Is(limit, FirstsIn(o, s, limit))
  BY <1>2, <1>3, Zenon
<1> QED BY <1>4 DEF Is, Onto

\* The first n places of an outcome are n different ones, every two neighbours in order.
DiPlaces(o, s, n) ==
    {q \in [1 .. n -> DOMAIN s] :
        /\ \A i, j \in 1 .. n : q[i] = q[j] => i = j
        /\ \A i \in 1 .. n - 1 : D!InPlace(o, s, q[i], q[i + 1])}

LEMMA DiFurther ==
    ASSUME NEW s \in Seq(D!Entry), NEW o, NEW n \in Nat,
           NEW q \in DiPlaces(o, s, n), NEW p \in D!Further(o, s, q)
    PROVE  p \in DiPlaces(o, s, n + 1)
<1>1. /\ q \in [1 .. n -> DOMAIN s] /\ q \in Seq(DOMAIN s) /\ Len(q) = n
      /\ \A i, j \in 1 .. n : q[i] = q[j] => i = j
      /\ \A i \in 1 .. n - 1 : D!InPlace(o, s, q[i], q[i + 1])
  BY DEF DiPlaces
<1>2. PICK k \in DOMAIN s :
         /\ p = Append(q, k)
         /\ \A i \in DOMAIN q : q[i] # k
         /\ q # <<>> => D!InPlace(o, s, q[Len(q)], k)
  BY DEF D!Further
<1>3. /\ p \in Seq(DOMAIN s) /\ Len(p) = n + 1
      /\ \A i \in 1 .. n : p[i] = q[i]
      /\ p[n + 1] = k
  BY <1>1, <1>2, AppendProperties
<1>4. p \in [1 .. n + 1 -> DOMAIN s]
  BY <1>3
<1>5. ASSUME NEW i \in 1 .. n + 1, NEW j \in 1 .. n + 1, p[i] = p[j]
      PROVE  i = j
  <2>1. DOMAIN q = 1 .. n
    BY <1>1
  <2>2. (i = n + 1 \/ i \in 1 .. n) /\ (j = n + 1 \/ j \in 1 .. n)
    OBVIOUS
  <2> QED BY <1>1, <1>2, <1>3, <1>5, <2>1, <2>2
<1>6. ASSUME NEW i \in 1 .. n
      PROVE  D!InPlace(o, s, p[i], p[i + 1])
  <2>1. CASE i = n
    <3>1. q # <<>>
      BY <1>1, <2>1
    <3> QED BY <1>1, <1>2, <1>3, <2>1, <3>1
  <2>2. CASE i # n
    <3>1. i \in 1 .. n - 1 /\ i + 1 \in 1 .. n
      BY <2>2
    <3> QED BY <1>1, <1>3, <3>1
  <2> QED BY <2>1, <2>2
<1>7. \A i \in 1 .. (n + 1) - 1 : D!InPlace(o, s, p[i], p[i + 1])
  BY <1>6
<1> QED BY ONLY <1>4, <1>5, <1>7 DEF DiPlaces

LEMMA DiSorting ==
    ASSUME NEW s \in Seq(D!Entry), NEW o, NEW t \in D!Sortings(o, s)
    PROVE  \E q \in [DOMAIN s -> DOMAIN s] :
              /\ \A i \in DOMAIN s : \E j \in DOMAIN s : q[j] = i
              /\ \A i, j \in DOMAIN s : q[i] = q[j] => i = j
              /\ t = [i \in DOMAIN s |-> s[q[i]]]
              /\ o # "none" => \A i \in 1 .. Len(s) - 1 : D!InPlace(o, s, q[i], q[i + 1])
<1>1. CASE o = "none"
  <2> DEFINE q == [i \in DOMAIN s |-> i]
  <2>1. t = s
    BY <1>1, DiSortingsAre
  <2>2. s = [i \in DOMAIN s |-> s[q[i]]]
    <3>1. s = [i \in DOMAIN s |-> s[i]]
      OBVIOUS
    <3> QED BY <3>1
  <2>3. /\ q \in [DOMAIN s -> DOMAIN s]
        /\ \A i \in DOMAIN s : \E j \in DOMAIN s : q[j] = i
        /\ \A i, j \in DOMAIN s : q[i] = q[j] => i = j
    OBVIOUS
  <2> HIDE DEF q
  <2> QED BY <1>1, <2>1, <2>2, <2>3
<1>2. CASE o # "none"
  <2> DEFINE limit == Len(s)
             r == FirstsIn(o, s, limit)
             T == {n \in 0 .. limit : ~(r[n] \subseteq DiPlaces(o, s, n))}
  <2>1. limit \in Nat /\ DOMAIN s = 1 .. limit
    OBVIOUS
  <2>2. \A n \in 0 .. limit :
          r[n] = IF n = 0 THEN {<<>>} ELSE UNION {D!Further(o, s, q) : q \in r[n - 1]}
    <3>1. r = [n \in 0 .. limit |->
                IF n = 0 THEN {<<>>} ELSE UNION {D!Further(o, s, q) : q \in r[n - 1]}]
      BY <2>1, DiFirsts
    <3> HIDE DEF r
    <3> QED BY <3>1, Zenon
  <2>3. PICK q \in r[limit] : t = [i \in DOMAIN s |-> s[q[i]]]
    BY <1>2, DiSortingsAre
  <2> HIDE DEF r, limit
  <2>4. <<>> \in DiPlaces(o, s, 0)
    BY DEF DiPlaces
  <2>5. T = {}
    <3> SUFFICES ASSUME T # {} PROVE FALSE
      OBVIOUS
    <3>1. T \subseteq Nat
      BY <2>1
    <3>2. PICK n \in T : \A j \in T : n <= j
      BY <3>1, Least
    <3>3. n \in 0 .. limit /\ ~(r[n] \subseteq DiPlaces(o, s, n))
      OBVIOUS
    <3>4. n # 0
      BY <2>2, <2>4, <3>3
    <3>5. n - 1 \in 0 .. limit /\ n - 1 \in Nat /\ ~(n <= n - 1) /\ (n - 1) + 1 = n
      BY <2>1, <3>3, <3>4
    <3>6. r[n - 1] \subseteq DiPlaces(o, s, n - 1)
      BY <3>2, <3>5
    <3>7. ASSUME NEW p \in r[n]
          PROVE  p \in DiPlaces(o, s, n)
      <4>1. PICK f \in r[n - 1] : p \in D!Further(o, s, f)
        <5>1. r[n] = UNION {D!Further(o, s, f) : f \in r[n - 1]}
          BY <2>2, <3>3, <3>4
        <5> QED BY <3>7, <5>1
      <4>2. f \in DiPlaces(o, s, n - 1)
        BY <3>6
      <4>3. p \in DiPlaces(o, s, (n - 1) + 1)
        BY <3>5, <4>1, <4>2, DiFurther
      <4> QED BY <3>5, <4>3
    <3> QED BY <3>3, <3>7
  <2>6. q \in DiPlaces(o, s, limit)
    <3>1. limit \in 0 .. limit
      BY <2>1
    <3> QED BY <2>3, <2>5, <3>1
  <2>7. /\ q \in [DOMAIN s -> DOMAIN s]
        /\ \A i, j \in DOMAIN s : q[i] = q[j] => i = j
        /\ \A i \in 1 .. Len(s) - 1 : D!InPlace(o, s, q[i], q[i + 1])
    BY <2>1, <2>6 DEF DiPlaces, limit
  <2>8. \A i \in DOMAIN s : \E j \in DOMAIN s : q[j] = i
    <3>1. IsFiniteSet(DOMAIN s)
      <4>1. IsFiniteSet(1 .. limit)
        BY <2>1, FS_Interval
      <4> QED BY <2>1, <4>1
    <3>2. q \in Injection(DOMAIN s, DOMAIN s)
      BY <2>7 DEF Injection, IsInjective
    <3>3. q \in Surjection(DOMAIN s, DOMAIN s)
      BY <3>1, <3>2, FS_Injection
    <3> QED BY <3>3 DEF Surjection
  <2> QED BY <2>3, <2>7, <2>8
<1> QED BY <1>1, <1>2

\* Sorting leaves every entry in the list, and adds none.
LEMMA DiSortingKeeps ==
    ASSUME NEW s \in Seq(D!Entry), NEW o, NEW t \in D!Sortings(o, s)
    PROVE  /\ t \in Seq(D!Entry) /\ DOMAIN t = DOMAIN s
           /\ DiNames(t) = DiNames(s)
           /\ DiOnce(s) => DiOnce(t)
           /\ \A i \in DOMAIN t : \E j \in DOMAIN s : t[i] = s[j]
           /\ \A j \in DOMAIN s : \E i \in DOMAIN t : t[i] = s[j]
<1>1. PICK q \in [DOMAIN s -> DOMAIN s] :
              /\ \A i \in DOMAIN s : \E j \in DOMAIN s : q[j] = i
              /\ \A i, j \in DOMAIN s : q[i] = q[j] => i = j
              /\ t = [i \in DOMAIN s |-> s[q[i]]]
              /\ o # "none" => \A i \in 1 .. Len(s) - 1 : D!InPlace(o, s, q[i], q[i + 1])
  BY DiSorting
<1>2. DOMAIN t = DOMAIN s /\ \A i \in DOMAIN s : t[i] = s[q[i]] /\ q[i] \in DOMAIN s
  BY <1>1
<1>3. t \in Seq(D!Entry)
  <2>1. DOMAIN s = 1 .. Len(s) /\ Len(s) \in Nat /\ \A i \in DOMAIN s : s[i] \in D!Entry
    OBVIOUS
  <2>2. t \in [1 .. Len(s) -> D!Entry]
    BY <1>1, <1>2, <2>1
  <2> QED BY <2>1, <2>2, SeqDef
<1>4. DiNames(t) = DiNames(s)
  BY <1>1, <1>2 DEF DiNames
<1>5. DiOnce(s) => DiOnce(t)
  BY <1>1, <1>2 DEF DiOnce
<1> QED BY <1>1, <1>2, <1>3, <1>4, <1>5

LEMMA DiNeighbours ==
    ASSUME NEW n \in Nat, NEW f \in [1 .. n -> Nat],
           \A i \in 1 .. n - 1 : f[i] <= f[i + 1]
    PROVE  \A i, j \in 1 .. n : i < j => f[i] <= f[j]
<1> SUFFICES ASSUME NEW i \in 1 .. n, NEW j \in 1 .. n, i < j, ~(f[i] <= f[j])
             PROVE  FALSE
  OBVIOUS
<1> DEFINE T == {k \in 1 .. n : i < k /\ ~(f[i] <= f[k])}
<1>1. T \subseteq Nat /\ T # {}
  <2>1. j \in T
    OBVIOUS
  <2>2. T \subseteq Nat
    OBVIOUS
  <2> HIDE DEF T
  <2> QED BY <2>1, <2>2
<1>2. PICK k \in T : \A m \in T : k <= m
  <2> HIDE DEF T
  <2> QED BY <1>1, Least
<1>3. k \in 1 .. n /\ i < k /\ ~(f[i] <= f[k]) /\ k - 1 \in 1 .. n - 1 /\ k - 1 \in 1 .. n /\ k - 1 + 1 = k
  BY <1>2
<1>4. f[k - 1] <= f[k] /\ f[k] \in Nat /\ f[i] \in Nat /\ f[k - 1] \in Nat
  BY <1>3
<1>5. k - 1 \notin T
  BY <1>2, <1>3
<1>6. i < k - 1
  BY <1>3, <1>4
<1>7. f[i] <= f[k - 1]
  BY <1>3, <1>5, <1>6
<1> QED BY <1>3, <1>4, <1>7

\* The difference of two sizes that fits a TInt is not cut.
LEMMA DiFits ==
    ASSUME NEW d \in Int, -Wide <= d, d < Wide, Wide \in Nat \ {0}
    PROVE  D!Signed(d) = d
<1>1. \A n, m \in Nat : n < m => n % m = n
  OBVIOUS
<1>2. d + Wide \in Nat /\ 2 * Wide \in Nat /\ d + Wide < 2 * Wide
  OBVIOUS
<1>3. (d + Wide) % (2 * Wide) = d + Wide
  BY ONLY <1>1, <1>2
<1> QED BY <1>3 DEF D!Signed

LEMMA DiSortedBySize ==
    ASSUME NEW s \in Seq(D!Entry), NEW t \in D!Sortings("size", s),
           \A i, j \in DOMAIN t : t[i].size - t[j].size < Wide
    PROVE  \A i, j \in DOMAIN t : i < j => t[i].size <= t[j].size
<1>1. PICK q \in [DOMAIN s -> DOMAIN s] :
              /\ \A i \in DOMAIN s : \E j \in DOMAIN s : q[j] = i
              /\ \A i, j \in DOMAIN s : q[i] = q[j] => i = j
              /\ t = [i \in DOMAIN s |-> s[q[i]]]
              /\ \A i \in 1 .. Len(s) - 1 : D!InPlace("size", s, q[i], q[i + 1])
  BY DiSorting
<1>2. /\ DOMAIN s = 1 .. Len(s) /\ Len(s) \in Nat /\ DOMAIN t = DOMAIN s
      /\ \A i \in DOMAIN s : t[i] = s[q[i]] /\ q[i] \in DOMAIN s
  BY <1>1
<1>3. \A i \in DOMAIN s : s[i].size \in Nat
  <2>1. \A e \in D!Entry : e.size \in Sizes \cup {0}
    BY DEF D!Entry
  <2>2. Sizes \cup {0} \subseteq Nat
    BY FileAssumption
  <2>3. \A i \in DOMAIN s : s[i] \in D!Entry
    OBVIOUS
  <2> QED BY <2>1, <2>2, <2>3
<1>4. Wide \in Nat \ {0}
  BY FileAssumption
<1> DEFINE f == [i \in 1 .. Len(s) |-> t[i].size]
<1>5. f \in [1 .. Len(s) -> Nat]
  BY <1>2, <1>3
<1>6. ASSUME NEW i \in 1 .. Len(s) - 1
      PROVE  f[i] <= f[i + 1]
  <2>1. i \in 1 .. Len(s) /\ i + 1 \in 1 .. Len(s)
    BY <1>2
  <2> DEFINE x == s[q[i]].size
             y == s[q[i + 1]].size
  <2>2. f[i] = x /\ f[i + 1] = y /\ x \in Nat /\ y \in Nat
    BY <1>2, <1>3, <2>1
  <2>3. x - y < Wide /\ y - x < Wide
    BY <1>2, <2>1, <2>2
  <2>4. D!Signed(x - y) = x - y /\ D!Signed(y - x) = y - x
    <3> HIDE DEF x, y, f
    <3> QED BY <1>4, <2>2, <2>3, DiFits
  <2>5. D!InPlace("size", s, q[i], q[i + 1])
    BY <1>1
  <2>6. D!Compare("size", s[q[i]], s[q[i + 1]]) = x - y /\ D!Compare("size", s[q[i + 1]], s[q[i]]) = y - x
    BY <2>4 DEF D!Compare, D!SizeOrder
  <2>7. x - y <= 0 \/ y - x > 0
    BY <2>5, <2>6 DEF D!InPlace
  <2> HIDE DEF x, y, f
  <2> QED BY <2>2, <2>7
<1>7. \A i, j \in 1 .. Len(s) : i < j => f[i] <= f[j]
  <2> HIDE DEF f
  <2> QED BY <1>2, <1>5, <1>6, DiNeighbours
<1> QED BY <1>2, <1>7

--------------------------------------------------------------------------------
(***************************************************************************)
(* What is on the disk, and what a list says of it.                        *)
(***************************************************************************)
LEMMA DiNodes ==
    /\ \A node \in D!DiskNodes :
         /\ node.kind \in {"none", "dir", "dead", "busy", "file", "link"}
         /\ node.size \in Sizes \cup {0}
    /\ D!None \in D!DiskNodes /\ D!None.kind = "none" /\ [kind |-> "file", size |-> 1] \in D!DiskNodes
    /\ D!NoBatch.names = <<>> /\ D!NoBatch \in [names : Seq(D!Names), first : D!DiskNodes]
<1>1. 1 \in Sizes
  BY FileAssumption
<1>2. ASSUME NEW node \in D!DiskNodes
      PROVE  /\ node.kind \in {"none", "dir", "dead", "busy", "file", "link"}
             /\ node.size \in Sizes \cup {0}
  <2>1. \/ node \in {[kind |-> "none", size |-> 0], [kind |-> "dir", size |-> 0],
                     [kind |-> "dead", size |-> 0], [kind |-> "busy", size |-> 0]}
        \/ node \in [kind : {"file", "link"}, size : Sizes]
    BY DEF D!DiskNodes, D!None, D!Dir
  <2> QED BY <2>1
<1>3. D!None \in D!DiskNodes /\ D!None.kind = "none" /\ [kind |-> "file", size |-> 1] \in D!DiskNodes
  BY <1>1 DEF D!DiskNodes, D!None
<1>4. D!NoBatch.names = <<>> /\ D!NoBatch \in [names : Seq(D!Names), first : D!DiskNodes]
  BY <1>3 DEF D!NoBatch
<1> QED BY <1>2, <1>3, <1>4

LEMMA DiEntryOf ==
    ASSUME NEW s \in Seq(D!Entry), NEW i \in DOMAIN s
    PROVE  /\ s[i] \in D!Entry /\ s[i].name \in D!Names /\ s[i].set \in BOOLEAN
           /\ s[i].size \in Sizes \cup {0}
<1>1. s[i] \in D!Entry
  OBVIOUS
<1>2. \A e \in D!Entry : e.name \in D!Names /\ e.set \in BOOLEAN /\ e.size \in Sizes \cup {0}
  BY DEF D!Entry
<1> QED BY <1>1, <1>2

DiEntry(n, set, size) == [name |-> n, set |-> set, size |-> size]

LEMMA DiEntries ==
    ASSUME NEW n \in D!Names, NEW node, node.size \in Sizes \cup {0},
           NEW set \in BOOLEAN, NEW link1 \in BOOLEAN
    PROVE  /\ DiEntry(n, set, D!Resolved(node, link1)) \in D!Entry
           /\ DiEntry(n, set, 0) \in D!Entry
           /\ D!Append1(n, node) = Append(entries, DiEntry(n, TRUE, D!Resolved(node, FALSE)))
<1>1. D!Resolved(node, link1) \in Sizes \cup {0}
  BY DEF D!Resolved
<1> QED BY <1>1 DEF DiEntry, D!Entry, D!Append1

LEMMA DiPatterns ==
    ASSUME NEW p, p \in Patterns \cup [at : D!Places, last : {""}]
    PROVE  /\ p.at \in D!Places /\ p.last \in D!Names \cup {"", "*", "b*"}
           /\ D!Wild(p) <=> p.last \in {"*", "b*"}
<1>1. p.at \in {"root", "cwd", "sub"} /\ p.last \in {"a", "b", "d", "", "*", "b*"}
  <2>1. CASE p \in Patterns
    <3>1. \/ p = Pattern("root", "*") \/ p = Pattern("cwd", "d")
          \/ p = Pattern("cwd", "a") \/ p = Pattern("cwd", "b")
          \/ p = Pattern("sub", "*") \/ p = Pattern("sub", "b*")
      BY <2>1, Zenon DEF Patterns
    <3>2. ASSUME NEW x, NEW y
          PROVE  Pattern(x, y).at = x /\ Pattern(x, y).last = y
      BY Zenon DEF Pattern
    <3>3. \/ (p.at = "root" /\ p.last = "*") \/ (p.at = "cwd" /\ p.last = "d")
          \/ (p.at = "cwd" /\ p.last = "a") \/ (p.at = "cwd" /\ p.last = "b")
          \/ (p.at = "sub" /\ p.last = "*") \/ (p.at = "sub" /\ p.last = "b*")
      BY ONLY <3>1, <3>2
    <3> QED BY ONLY <3>3
  <2>2. CASE p \in [at : D!Places, last : {""}]
    BY <2>2 DEF D!Places
  <2> QED BY <2>1, <2>2
<1>2. D!Wild(p) <=> p.last \in {"*", "b*"}
  <2>1. DOMAIN D!Matching = {"*", "b*"}
    BY DEF D!Matching
  <2> QED BY <2>1 DEF D!Wild
<1> QED BY <1>1, <1>2 DEF D!Places, D!Names

DiRange(b) == {b[i] : i \in DOMAIN b}

DiSize(e) ==
    LET node == world[place][e.name] IN
    (e.set /\ e.name \notin changed
         /\ (D!IsLink(node) => platform = "amiga4" /\ node.kind = "link")) => e.size = node.size

DiShort(s) == platform = "amiga3" /\ \E i \in DOMAIN s : ~s[i].set

\* The list s is right, with b in the buffer and what the handle has returned.
DiRight(s, b, returned) ==
    /\ DiOnce(s)
    /\ DiNames(s) \subseteq returned /\ DiRange(b) \subseteq returned
    /\ DiNames(s) \cap DiRange(b) = {}
    /\ \A i, j \in DOMAIN b : b[i] = b[j] => i = j
    /\ \A n \in returned \ DiRange(b) : D!Fits(n) => n \in DiNames(s) \/ DiShort(s)
    /\ \A i \in DOMAIN s : DiSize(s[i])

LEMMA DiKnown ==
    ASSUME D!InOrder, handle = "open", opened = 1
    PROVE  DiRight(entries, batch.names, seen)
<1>1. DiOnce(entries)
  BY DEF D!InOrder, D!ListedOnce, DiOnce
<1>2. /\ DiNames(entries) = D!InEntries /\ DiRange(batch.names) = D!InBatch
      /\ DiShort(entries) <=> D!CutShort
  BY DEF DiNames, D!InEntries, DiRange, D!InBatch, DiShort, D!CutShort
<1>3. D!SeenIsListed
  BY DEF D!InOrder
<1>4. \A i \in DOMAIN entries : DiSize(entries[i])
  BY DEF D!InOrder, D!SizesAreTheirs, DiSize
<1> QED BY <1>1, <1>2, <1>3, <1>4 DEF DiRight, D!SeenIsListed

LEMMA DiTold ==
    ASSUME DiRight(entries, batch.names, seen)',
           (pc' = "idle" /\ result' = "KErrNone" /\ order' # "unread") =>
               steady' \subseteq seen' /\ batch'.names = <<>>
    PROVE  D!SeenIsListed' /\ D!ListedOnce' /\ D!SizesAreTheirs'
<1>1. D!ListedOnce'
  BY DEF DiRight, D!ListedOnce, DiOnce
<1>2. /\ DiNames(entries)' = D!InEntries' /\ DiRange(batch.names)' = D!InBatch'
      /\ DiShort(entries)' <=> D!CutShort'
  BY DEF DiNames, D!InEntries, DiRange, D!InBatch, DiShort, D!CutShort
<1>3. D!SizesAreTheirs'
  BY DEF DiRight, D!SizesAreTheirs, DiSize
<1>4. D!SeenIsListed'
  BY <1>2 DEF DiRight, D!SeenIsListed
<1> QED BY <1>1, <1>3, <1>4

\* Sorting leaves a list right.
LEMMA DiSortingRight ==
    ASSUME NEW s \in Seq(D!Entry), NEW o, NEW t \in D!Sortings(o, s), NEW b, NEW returned,
           DiRight(s, b, returned)
    PROVE  DiRight(t, b, returned)
<1>1. /\ DiNames(t) = DiNames(s) /\ DiOnce(t)
      /\ \A i \in DOMAIN t : \E j \in DOMAIN s : t[i] = s[j]
      /\ \A j \in DOMAIN s : \E i \in DOMAIN t : t[i] = s[j]
  BY DiSortingKeeps DEF DiRight
<1>2. DiShort(s) => DiShort(t)
  BY <1>1 DEF DiShort
<1>3. \A i \in DOMAIN t : DiSize(t[i])
  BY <1>1 DEF DiRight
<1> QED BY <1>1, <1>2, <1>3 DEF DiRight

\* A name that is new goes on the list.
LEMMA DiAdded ==
    ASSUME NEW s \in Seq(D!Entry), NEW e \in D!Entry, NEW b, NEW returned,
           NEW c, NEW back,
           DiRight(s, b, returned), e.name \notin DiNames(s), DiSize(e),
           e.name \in back, returned \subseteq back, back \subseteq returned \cup {e.name},
           DiRange(c) \subseteq DiRange(b), e.name \notin DiRange(c),
           \A n \in DiRange(b) \ DiRange(c) : n = e.name \/ (platform = "amiga3" /\ ~e.set),
           \A i, j \in DOMAIN c : c[i] = c[j] => i = j
    PROVE  DiRight(Append(s, e), c, back)
<1> DEFINE t == Append(s, e)
<1>1. /\ DiNames(t) = DiNames(s) \cup {e.name}
      /\ DOMAIN t = DOMAIN s \cup {Len(s) + 1}
      /\ \A i \in DOMAIN s : t[i] = s[i]
      /\ t[Len(s) + 1] = e
  BY DiAppend
<1>2. DiOnce(t)
  BY DiAppendOnce DEF DiRight
<1> HIDE DEF t
<1>3. \A i \in DOMAIN t : DiSize(t[i])
  BY <1>1 DEF DiRight
<1>4. (DiShort(s) => DiShort(t)) /\ (platform = "amiga3" /\ ~e.set => DiShort(t))
  BY <1>1 DEF DiShort
<1>5. DiNames(t) \subseteq back /\ DiRange(c) \subseteq back /\ DiNames(t) \cap DiRange(c) = {}
  BY <1>1 DEF DiRight
<1>6. ASSUME NEW n \in back \ DiRange(c), D!Fits(n)
      PROVE  n \in DiNames(t) \/ DiShort(t)
  <2>1. CASE n \in returned \ DiRange(b)
    BY <1>1, <1>4, <1>6, <2>1 DEF DiRight
  <2>2. CASE n \notin returned \ DiRange(b)
    BY <1>1, <1>4, <1>6, <2>2
  <2> QED BY <2>1, <2>2
<1>7. DiRight(t, c, back)
  BY <1>2, <1>3, <1>5, <1>6 DEF DiRight
<1> QED BY <1>7 DEF t

--------------------------------------------------------------------------------
(***************************************************************************)
(* The steps, from the simple ones to reading.                             *)
(***************************************************************************)
LEMMA DiTyped ==
    ASSUME D!Typed
    PROVE  /\ world \in [D!Places -> [D!Names -> D!DiskNodes]] /\ entries \in Seq(D!Entry)
           /\ single \in BOOLEAN /\ handle \in {"none", "bad", "open"} /\ place \in D!Places
           /\ seen \subseteq D!Names /\ steady \subseteq D!Names /\ changed \subseteq D!Names
           /\ pc \in {"idle", "open", "read"} /\ order \in D!Orders \cup {"unread"} /\ lost \in Nat
           /\ result \in {"none", "KErrNone", "KErrNotFound", "KErrNoMemory", "KErrGeneral",
                          "KErrInUse", "KErrNotOpen"}
           /\ platform \in Platforms /\ pattern \in Patterns \cup [at : D!Places, last : {""}]
           /\ batch \in [names : Seq(D!Names), first : D!DiskNodes]
           /\ opened \in Nat /\ opens \in Nat
BY Zenon DEF D!Typed, D!TypeOK

LEMMA DiRetyped ==
    ASSUME world' \in [D!Places -> [D!Names -> D!DiskNodes]], entries' \in Seq(D!Entry),
           single' \in BOOLEAN, handle' \in {"none", "bad", "open"}, place' \in D!Places,
           seen' \subseteq D!Names, steady' \subseteq D!Names, changed' \subseteq D!Names,
           pc' \in {"idle", "open", "read"}, order' \in D!Orders \cup {"unread"}, lost' \in Nat,
           result' \in {"none", "KErrNone", "KErrNotFound", "KErrNoMemory", "KErrGeneral",
                        "KErrInUse", "KErrNotOpen"},
           platform' \in Platforms, pattern' \in Patterns \cup [at : D!Places, last : {""}],
           batch' \in [names : Seq(D!Names), first : D!DiskNodes],
           opened' \in Nat, opens' \in Nat
    PROVE  D!Typed'
BY Zenon DEF D!Typed, D!TypeOK

\* An object of which nothing is left.
LEMMA DiCleared ==
    ASSUME D!InOrder, D!Cleared, opened' = 0, pc' = "idle", lost' \in Nat,
           lost' > 0 => opens' > 1,
           UNCHANGED <<platform, world, pattern, opens>>,
           result' \in {"none", "KErrNotFound", "KErrNoMemory"}
    PROVE  D!InOrder'
<1>1. D!Typed
  BY DEF D!InOrder
<1>2. /\ entries' = <<>> /\ single' = FALSE /\ handle' = "none" /\ batch' = D!NoBatch
      /\ seen' = {} /\ steady' = {} /\ changed' = {} /\ order' = "unread" /\ place' = place
  BY DEF D!Cleared
<1>3. <<>> \in Seq(D!Entry) /\ 0 \in Nat
  OBVIOUS
<1>4. D!Typed'
  <2>1. /\ world' \in [D!Places -> [D!Names -> D!DiskNodes]] /\ place' \in D!Places
        /\ platform' \in Platforms /\ opens' \in Nat
        /\ pattern' \in Patterns \cup [at : D!Places, last : {""}]
    BY <1>1, <1>2, DiTyped
  <2>2. batch' \in [names : Seq(D!Names), first : D!DiskNodes]
    BY <1>2, DiNodes
  <2> QED BY <1>2, <1>3, <2>1, <2>2, DiRetyped
<1>5. D!OpensInOrder'
  <2>1. 0 <= opens'
    <3>1. opens' \in Nat
      BY <1>1, DiTyped
    <3> QED BY ONLY <3>1
  <2> QED BY <1>2, <2>1 DEF D!OpensInOrder
<1>6. D!ReadsTheDirectory' /\ D!SeenIsListed' /\ D!ListedOnce' /\ D!SizesAreTheirs'
      /\ D!SmallerFirst'
  BY <1>2 DEF D!ReadsTheDirectory, D!SeenIsListed, D!ListedOnce, D!SizesAreTheirs, D!SmallerFirst
<1>7. D!HandlesAreKept'
  BY DEF D!HandlesAreKept
<1> QED BY <1>4, <1>5, <1>6, <1>7, Zenon DEF D!InOrder

LEMMA DiClose ==
    ASSUME D!InOrder, D!Close
    PROVE  D!InOrder'
<1>1. lost' = lost /\ opens' = opens /\ lost \in Nat
  BY DiTyped DEF D!Close, D!InOrder
<1>2. lost' > 0 => opens' > 1
  BY <1>1 DEF D!InOrder, D!HandlesAreKept
<1> QED BY <1>1, <1>2, DiCleared DEF D!Close

LEMMA DiChange ==
    ASSUME D!InOrder, D!Change
    PROVE  D!InOrder'
<1>1. D!Typed
  BY DEF D!InOrder
<1>2. PICK p \in {"cwd", "sub"}, n \in D!Names, node \in {D!None, [kind |-> "file", size |-> 1]} :
        /\ world' = [world EXCEPT ![p][n] = node]
        /\ steady' = (IF p = "cwd" /\ n = "d" /\ place = "sub" THEN {}
                      ELSE IF p = place /\ node.kind = "none" THEN steady \ {n} ELSE steady)
        /\ changed' = (IF p = place THEN changed \cup {n} ELSE changed)
  BY DEF D!Change
<1>3. UNCHANGED <<platform, pattern, entries, single, handle, place, batch, seen, pc, result,
                  order, opened, lost, opens>>
  BY DEF D!Change
<1>4. steady' \subseteq steady /\ changed \subseteq changed' /\ changed' \subseteq changed \cup {n}
  BY <1>2
<1>5. world' \in [D!Places -> [D!Names -> D!DiskNodes]]
  <2>1. node \in D!DiskNodes /\ p \in D!Places
    BY DiNodes DEF D!Places
  <2> QED BY <1>1, <1>2, <2>1, DiTyped
<1>6. D!Typed'
  BY <1>1, <1>3, <1>4, <1>5, DiTyped, DiRetyped
<1>7. \A m \in D!Names : m \notin changed' => m \notin changed /\ world'[place][m] = world[place][m]
  BY <1>1, <1>2, DiTyped
<1>8. \A i \in DOMAIN entries : entries[i].name \in D!Names
  <2>1. entries \in Seq(D!Entry)
    BY <1>1, DiTyped
  <2> QED BY <2>1, DiEntryOf
<1>9. D!OpensInOrder' /\ D!ReadsTheDirectory' /\ D!ListedOnce' /\ D!SmallerFirst' /\ D!HandlesAreKept'
  BY <1>3, Zenon DEF D!InOrder, D!OpensInOrder, D!ReadsTheDirectory, D!ListedOnce, D!SmallerFirst,
                     D!HandlesAreKept, D!DifferencesFit, D!Wild
<1>10. D!SeenIsListed'
  <2>1. /\ D!InEntries' = D!InEntries /\ D!InBatch' = D!InBatch /\ D!CutShort' = D!CutShort
        /\ \A m : D!Fits(m)' <=> D!Fits(m)
    BY <1>3, Zenon DEF D!InEntries, D!InBatch, D!CutShort, D!Fits, D!Wild
  <2>2. D!SeenIsListed
    BY DEF D!InOrder
  <2> QED BY <1>3, <1>4, <2>1, <2>2 DEF D!SeenIsListed
<1>11. D!SizesAreTheirs'
  <2> SUFFICES ASSUME handle = "open", opened = 1, NEW i \in DOMAIN entries,
                      entries[i].set, entries[i].name \notin changed',
                      D!IsLink(world'[place][entries[i].name]) =>
                          platform = "amiga4" /\ world'[place][entries[i].name].kind = "link"
               PROVE  entries[i].size = world'[place][entries[i].name].size
    BY <1>3, Zenon DEF D!SizesAreTheirs, D!IsLink
  <2>1. entries[i].name \notin changed /\ world'[place][entries[i].name] = world[place][entries[i].name]
    BY <1>7, <1>8
  <2>2. D!SizesAreTheirs
    BY DEF D!InOrder
  <2> QED BY <2>1, <2>2 DEF D!SizesAreTheirs
<1> QED BY <1>6, <1>9, <1>10, <1>11, Zenon DEF D!InOrder

LEMMA DiInfo ==
    ASSUME D!Typed, NEW p \in Patterns, D!Info(p).kind = "file"
    PROVE  p.last \in D!Names /\ D!Info(p).size \in Sizes \cup {0}
<1> DEFINE node == world[p.at][p.last]
<1>1. D!None.kind = "none" /\ D!Dir.kind = "dir"
  BY DEF D!None, D!Dir
<1>2. p.last \in D!Names \cup {"", "*", "b*"} /\ p.at \in D!Places
      /\ (D!Wild(p) <=> p.last \in {"*", "b*"})
  BY DiPatterns
<1>3. ~D!Wild(p) /\ p.last # "" /\ D!Exists(p.at)
  BY <1>1, Zenon DEF D!Info
<1>4. p.last \in D!Names
  BY <1>2, <1>3
<1>5. node \in D!DiskNodes
  BY <1>2, <1>4, DiTyped
<1>6. D!Info(p) = CASE node.kind = "link" -> [node EXCEPT !.kind = "file"]
           [] node.kind \in {"dead", "busy"} /\ platform \in {"amiga3", "amiga4"} -> D!None
           [] node.kind = "dead" -> D!None
           [] node.kind = "busy" -> [node EXCEPT !.kind = "file"]
           [] OTHER -> node
  BY <1>3, Zenon DEF D!Info
<1> HIDE DEF node
<1>7. node.size \in Sizes \cup {0}
  BY <1>5, DiNodes
<1>8. [node EXCEPT !.kind = "file"].size = node.size
  <2>1. "size" \in DOMAIN node
    BY <1>5 DEF D!DiskNodes, D!None, D!Dir
  <2> QED BY <2>1
<1>9. D!Info(p).size = node.size
  BY <1>1, <1>6, <1>8
<1> QED BY <1>4, <1>7, <1>9

LEMMA DiOpen ==
    ASSUME D!InOrder, D!Open
    PROVE  D!InOrder'
<1>1. D!Typed
  BY DEF D!InOrder
<1>2. /\ pc = "idle" /\ platform # "remote" /\ opens' = opens + 1 /\ opened' = opened + 1
      /\ order' = "unread"
      /\ UNCHANGED <<platform, world, handle, place, batch, seen, steady, changed, lost, changes>>
  BY DEF D!Open
<1>3. PICK p \in Patterns :
        /\ pattern' = p
        /\ \/ /\ D!Info(p).kind = "file"
              /\ single' = TRUE /\ entries' = D!Append1(p.last, D!Info(p))
              /\ result' = "KErrNone" /\ pc' = pc
           \/ pc' = "open" /\ result' = "none" /\ UNCHANGED <<single, entries>>
  BY DEF D!Open
<1>4. /\ opened \in Nat /\ opens \in Nat /\ opened <= opens
      /\ opened = 0 => entries = <<>> /\ ~single /\ handle = "none"
  BY <1>1, DiTyped DEF D!InOrder, D!OpensInOrder
<1>5. opened' = 1 => opened = 0
  BY <1>2, <1>4
<1>6. CASE /\ D!Info(p).kind = "file"
           /\ single' = TRUE /\ entries' = D!Append1(p.last, D!Info(p))
           /\ result' = "KErrNone" /\ pc' = pc
  <2>1. p.last \in D!Names /\ D!Info(p).size \in Sizes \cup {0}
    BY <1>1, <1>6, DiInfo
  <2>2. entries' = Append(entries, DiEntry(p.last, TRUE, D!Resolved(D!Info(p), FALSE)))
        /\ DiEntry(p.last, TRUE, D!Resolved(D!Info(p), FALSE)) \in D!Entry
    BY <1>6, <2>1, DiEntries
  <2>3. entries' \in Seq(D!Entry)
    BY <1>1, <2>2, DiAppend, DiTyped
  <2>4. D!Typed'
    <3>1. opened' \in Nat /\ opens' \in Nat
      BY ONLY <1>2, <1>4
    <3>2. pattern' \in Patterns \cup [at : D!Places, last : {""}]
      BY <1>3
    <3>3. /\ world' \in [D!Places -> [D!Names -> D!DiskNodes]]
          /\ handle' \in {"none", "bad", "open"} /\ place' \in D!Places
          /\ seen' \subseteq D!Names /\ steady' \subseteq D!Names /\ changed' \subseteq D!Names
          /\ lost' \in Nat /\ platform' \in Platforms
          /\ batch' \in [names : Seq(D!Names), first : D!DiskNodes]
      BY <1>1, <1>2, DiTyped
    <3> QED BY <1>2, <1>6, <2>3, <3>1, <3>2, <3>3, DiRetyped
  <2>5. D!OpensInOrder'
    <3>1. opened' <= opens' /\ opened' # 0
      BY ONLY <1>2, <1>4
    <3>2. handle' = "open" /\ opened' = 1 => FALSE
      BY <1>2, <1>4, <1>5
    <3> QED BY <1>2, <1>6, <3>1, <3>2 DEF D!InOrder, D!OpensInOrder
  <2>6. D!ReadsTheDirectory' /\ D!SmallerFirst'
    BY <1>2, <1>6 DEF D!ReadsTheDirectory, D!SmallerFirst
  <2>7. D!SeenIsListed' /\ D!SizesAreTheirs'
    BY <1>2, <1>4, <1>5 DEF D!SeenIsListed, D!SizesAreTheirs
  <2>8. D!ListedOnce'
    <3> SUFFICES ASSUME opened' = 1 PROVE DiOnce(entries')
      BY DEF D!ListedOnce, DiOnce
    <3>1. entries = <<>> /\ <<>> \in Seq(D!Entry) /\ DiOnce(<<>>) /\ DiNames(<<>>) = {}
      BY <1>4, <1>5 DEF DiOnce, DiNames
    <3> QED BY <2>2, <3>1, DiAppendOnce
  <2>9. D!HandlesAreKept'
    <3>1. lost' = lost /\ lost \in Nat /\ (lost > 0 => opens > 1)
      BY <1>1, <1>2, DiTyped DEF D!InOrder, D!HandlesAreKept
    <3>2. lost' > 0 => opens' > 1
      BY ONLY <1>2, <1>4, <3>1
    <3> QED BY <3>2 DEF D!HandlesAreKept
  <2> QED BY <2>4, <2>5, <2>6, <2>7, <2>8, <2>9, Zenon DEF D!InOrder
<1>7. CASE pc' = "open" /\ result' = "none" /\ UNCHANGED <<single, entries>>
  <2>1. D!Typed'
    <3>1. opened' \in Nat /\ opens' \in Nat
      BY ONLY <1>2, <1>4
    <3>2. pattern' \in Patterns \cup [at : D!Places, last : {""}]
      BY <1>3
    <3>3. /\ world' \in [D!Places -> [D!Names -> D!DiskNodes]] /\ entries' \in Seq(D!Entry)
          /\ single' \in BOOLEAN
          /\ handle' \in {"none", "bad", "open"} /\ place' \in D!Places
          /\ seen' \subseteq D!Names /\ steady' \subseteq D!Names /\ changed' \subseteq D!Names
          /\ lost' \in Nat /\ platform' \in Platforms
          /\ batch' \in [names : Seq(D!Names), first : D!DiskNodes]
      BY <1>1, <1>2, <1>7, DiTyped
    <3> QED BY <1>2, <1>7, <3>1, <3>2, <3>3, DiRetyped
  <2>2. D!OpensInOrder'
    <3>1. opened' <= opens' /\ opened' # 0 /\ opened' > 0
      BY ONLY <1>2, <1>4
    <3>2. handle' = "open" /\ opened' = 1 => FALSE
      BY <1>2, <1>4, <1>5
    <3>3. opened' = 1 => entries' = <<>> /\ ~single' /\ handle' = "none"
      BY <1>2, <1>4, <1>5, <1>7
    <3> QED BY <1>2, <1>7, <3>1, <3>2, <3>3 DEF D!OpensInOrder
  <2>3. D!ReadsTheDirectory' /\ D!SmallerFirst'
    BY <1>2, <1>7 DEF D!ReadsTheDirectory, D!SmallerFirst
  <2>4. D!SeenIsListed' /\ D!SizesAreTheirs'
    BY <1>2, <1>4, <1>5 DEF D!SeenIsListed, D!SizesAreTheirs
  <2>5. D!ListedOnce'
    <3>1. opened' = 1 => entries' = <<>>
      BY <1>4, <1>5, <1>7
    <3> QED BY <3>1 DEF D!ListedOnce
  <2>6. D!HandlesAreKept'
    <3>1. lost' = lost /\ lost \in Nat /\ (lost > 0 => opens > 1)
      BY <1>1, <1>2, DiTyped DEF D!InOrder, D!HandlesAreKept
    <3>2. lost' > 0 => opens' > 1
      BY ONLY <1>2, <1>4, <3>1
    <3> QED BY <3>2 DEF D!HandlesAreKept
  <2> QED BY <2>1, <2>2, <2>3, <2>4, <2>5, <2>6, Zenon DEF D!InOrder
<1> QED BY <1>3, <1>6, <1>7

\* An object that is not open, or was opened before, of which nobody needs to know more.
LEMMA DiNotOpen ==
    ASSUME D!Typed', handle' # "open" \/ opened' # 1, pc' = "idle", order' = "unread",
           opened' > 0, opened' <= opens', platform' = "remote" => handle' = "none",
           handle' = "open" /\ ~single' => D!ReadsTheDirectory',
           opened' = 1 => D!ListedOnce', lost' > 0 => opens' > 1
    PROVE  D!InOrder'
<1>1. D!OpensInOrder'
  <2>1. opened' # 0
    <3>1. opened' > 0
      OBVIOUS
    <3> QED BY ONLY <3>1
  <2> QED BY <2>1 DEF D!OpensInOrder
<1>2. D!ReadsTheDirectory' /\ D!SmallerFirst' /\ D!SeenIsListed' /\ D!SizesAreTheirs'
  BY DEF D!ReadsTheDirectory, D!SmallerFirst, D!SeenIsListed, D!SizesAreTheirs
<1>3. D!ListedOnce' /\ D!HandlesAreKept'
  BY DEF D!ListedOnce, D!HandlesAreKept
<1> QED BY <1>1, <1>2, <1>3, Zenon DEF D!InOrder

\* RRemoteDir::open() makes a sequence of a set, of each name once.
LEMMA DiListing ==
    ASSUME D!Typed, NEW p \in D!Places
    PROVE  LET S == {[name |-> n, set |-> TRUE, size |-> world[p][n].size] : n \in D!Present(p)} IN
           D!SetToSeq(S) \in Seq(D!Entry) /\ DiOnce(D!SetToSeq(S))
<1> DEFINE S == {[name |-> n, set |-> TRUE, size |-> world[p][n].size] : n \in D!Present(p)}
           t == D!SetToSeq(S)
<1>1. D!Present(p) \subseteq D!Names
  BY DEF D!Present
<1>2. S \subseteq D!Entry
  <2>1. \A n \in D!Names : world[p][n].size \in Sizes \cup {0}
    <3>1. \A n \in D!Names : world[p][n] \in D!DiskNodes
      BY DiTyped
    <3> QED BY <3>1, DiNodes
  <2>2. ASSUME NEW n \in D!Present(p)
        PROVE  [name |-> n, set |-> TRUE, size |-> world[p][n].size] \in D!Entry
    BY <1>1, <2>1 DEF D!Entry
  <2> QED BY <2>2
<1>3. IsFiniteSet(S)
  <2>1. IsFiniteSet(D!Present(p))
    <3>1. IsFiniteSet({"a"}) /\ IsFiniteSet({"a"} \cup {"b"})
          /\ IsFiniteSet({"a"} \cup {"b"} \cup {"d"})
      BY FS_Singleton, FS_AddElement
    <3>2. D!Names = {"a"} \cup {"b"} \cup {"d"}
      BY DEF D!Names
    <3> QED BY <1>1, <3>1, <3>2, FS_Subset
  <2> DEFINE g == [n \in D!Present(p) |-> [name |-> n, set |-> TRUE, size |-> world[p][n].size]]
  <2>2. g \in Surjection(D!Present(p), S)
    BY DEF Surjection
  <2> HIDE DEF g, S
  <2> QED BY <2>1, <2>2, FS_Surjection
<1>4. \A e, f \in S : e.name = f.name => e = f
  <2>1. \A e \in S : \E n \in D!Present(p) : e = [name |-> n, set |-> TRUE, size |-> world[p][n].size]
    OBVIOUS
  <2> HIDE DEF S
  <2>2. \A e \in S : e = [name |-> e.name, set |-> TRUE, size |-> world[p][e.name].size]
    BY <2>1
  <2> QED BY <2>2
<1> HIDE DEF S
<1>5. Cardinality(S) \in Nat /\ ExistsBijection(1 .. Cardinality(S), S)
  BY <1>3, FS_CardinalityType
<1>6. \E g \in [1 .. Cardinality(S) -> S] : IsInjective(g)
  BY <1>5 DEF ExistsBijection, Bijection, Injection
<1>7. t = CHOOSE g \in [1 .. Cardinality(S) -> S] : IsInjective(g)
  BY Zenon DEF D!SetToSeq, D!Cardinality, Cardinality, D!IsInjective, IsInjective
<1>8. t \in [1 .. Cardinality(S) -> S] /\ IsInjective(t)
  BY <1>6, <1>7, Zenon
<1> HIDE DEF t
<1>9. t \in Seq(D!Entry)
  BY <1>2, <1>5, <1>8, SeqDef
<1>10. DiOnce(t)
  BY <1>4, <1>8 DEF DiOnce, IsInjective
<1> QED BY <1>9, <1>10 DEF t, S

LEMMA DiOpenRemote ==
    ASSUME D!InOrder, D!OpenRemote
    PROVE  D!InOrder'
<1>1. D!Typed
  BY DEF D!InOrder
<1>2. /\ pc = "idle" /\ platform = "remote" /\ opens' = opens + 1 /\ opened' = opened + 1
      /\ order' = "unread"
      /\ UNCHANGED <<platform, world, single, handle, batch, seen, pc, lost, changes>>
  BY DEF D!OpenRemote
<1>3. /\ opened \in Nat /\ opens \in Nat /\ lost \in Nat /\ opened <= opens
      /\ opened = 0 => entries = <<>>
      /\ handle = "none" /\ entries \in Seq(D!Entry) /\ (lost > 0 => opens > 1)
  BY <1>1, <1>2, DiTyped DEF D!InOrder, D!OpensInOrder, D!HandlesAreKept
<1>4. /\ opened' \in Nat /\ opens' \in Nat /\ opened' > 0 /\ opened' <= opens'
      /\ opened' = 1 => opened = 0
  BY ONLY <1>2, <1>3
<1>5. lost' > 0 => opens' > 1
  BY ONLY <1>2, <1>3
<1>6. PICK p \in D!Places :
        \/ /\ place' = p /\ result' = "KErrNone"
           /\ steady' = D!Present(p) /\ changed' = {}
           /\ entries' = entries \o D!SetToSeq({[name |-> n, set |-> TRUE, size |-> world[p][n].size] :
                                                  n \in D!Present(p)})
           /\ pattern' = [at |-> p, last |-> ""]
        \/ /\ result' \in {"KErrNotFound", "KErrNotOpen", "KErrGeneral"}
           /\ UNCHANGED <<entries, place, steady, changed, pattern>>
  BY Zenon DEF D!OpenRemote
<1> DEFINE t == D!SetToSeq({[name |-> n, set |-> TRUE, size |-> world[p][n].size] : n \in D!Present(p)})
<1>7. t \in Seq(D!Entry) /\ DiOnce(t) /\ D!Present(p) \subseteq D!Names
  BY <1>1, DiListing DEF D!Present
<1>8. entries' = entries \o t \/ entries' = entries
  BY <1>6
<1> HIDE DEF t
<1>9. entries' \in Seq(D!Entry)
  BY <1>3, <1>7, <1>8, ConcatProperties
<1>10. opened' = 1 => D!ListedOnce'
  <2> SUFFICES ASSUME opened' = 1 PROVE DiOnce(entries')
    BY DEF D!ListedOnce, DiOnce
  <2>1. entries = <<>>
    BY <1>3, <1>4
  <2>2. <<>> \o t = t
    BY <1>7
  <2>3. DiOnce(<<>>)
    BY DEF DiOnce
  <2> QED BY <1>7, <1>8, <2>1, <2>2, <2>3
<1>11. D!Typed'
  <2>1. /\ place' \in D!Places /\ steady' \subseteq D!Names /\ changed' \subseteq D!Names
        /\ pattern' \in Patterns \cup [at : D!Places, last : {""}]
        /\ result' \in {"none", "KErrNone", "KErrNotFound", "KErrNoMemory", "KErrGeneral",
                        "KErrInUse", "KErrNotOpen"}
    <3>1. pattern' = pattern \/ pattern' = [at |-> p, last |-> ""]
      BY <1>6
    <3>2. pattern' \in Patterns \cup [at : D!Places, last : {""}]
      <4>1. pattern \in Patterns \cup [at : D!Places, last : {""}]
        BY <1>1, DiTyped
      <4>2. [at |-> p, last |-> ""] \in [at : D!Places, last : {""}]
        OBVIOUS
      <4> QED BY ONLY <3>1, <4>1, <4>2, Zenon
    <3>3. /\ place' = p \/ place' = place
          /\ steady' = D!Present(p) \/ steady' = steady
          /\ changed' = {} \/ changed' = changed
          /\ result' \in {"KErrNone", "KErrNotFound", "KErrNotOpen", "KErrGeneral"}
      BY <1>6
    <3>4. place \in D!Places /\ steady \subseteq D!Names /\ changed \subseteq D!Names
      BY <1>1, DiTyped
    <3> QED BY ONLY <1>7, <3>2, <3>3, <3>4, p \in D!Places
  <2>2. /\ world' \in [D!Places -> [D!Names -> D!DiskNodes]]
        /\ single' \in BOOLEAN /\ handle' \in {"none", "bad", "open"}
        /\ seen' \subseteq D!Names /\ pc' \in {"idle", "open", "read"}
        /\ lost' \in Nat /\ platform' \in Platforms
        /\ batch' \in [names : Seq(D!Names), first : D!DiskNodes]
    BY <1>1, <1>2, DiTyped
  <2> QED BY <1>2, <1>4, <1>9, <2>1, <2>2, DiRetyped
<1> QED BY <1>2, <1>3, <1>4, <1>5, <1>10, <1>11, DiNotOpen

LEMMA DiOpenDirectory ==
    ASSUME D!InOrder, D!OpenDirectory
    PROVE  D!InOrder'
<1> DEFINE p == D!Directory(pattern)
           ok == p \in D!Places /\ (p \in D!Places => D!Exists(p))
           found == {n \in D!Names : D!Exists(p) /\ world[p][n].kind # "none" /\ D!Fits(n)}
<1>1. D!Typed
  BY DEF D!InOrder
<1>2. pc = "open" /\ pc' = "idle" /\ UNCHANGED <<platform, world, pattern, opens, changes>>
  BY DEF D!OpenDirectory
<1>3. /\ opened \in Nat /\ opens \in Nat /\ lost \in Nat /\ opened <= opens /\ opened > 0
      /\ opened = 1 => entries = <<>> /\ ~single /\ handle = "none"
      /\ entries \in Seq(D!Entry) /\ (lost > 0 => opens > 1) /\ order = "unread"
      /\ platform # "remote"
  BY <1>1, <1>2, DiTyped DEF D!InOrder, D!OpensInOrder, D!HandlesAreKept
<1>4. D!Overwritten \in Nat /\ (D!Overwritten > 0 => opens > 1)
  <2>1. CASE handle = "open"
    <3>1. D!Overwritten = lost + 1 /\ opened # 1
      BY <1>3, <2>1 DEF D!Overwritten
    <3> QED BY ONLY <1>3, <3>1
  <2>2. CASE handle # "open"
    <3>1. D!Overwritten = lost
      BY <2>2 DEF D!Overwritten
    <3> QED BY ONLY <1>3, <3>1
  <2> QED BY <2>1, <2>2
<1>5. CASE D!OpenDirectoryNot
  <2>1. D!Cleared /\ opened' = 0 /\ result' = "KErrNoMemory" /\ lost' = lost
    BY <1>5 DEF D!OpenDirectoryNot, D!OpenFails
  <2>2. opens' = opens
    BY <1>2
  <2> QED BY <1>2, <1>3, <2>1, <2>2, DiCleared
<1>6. CASE D!OpenDirectoryNow
  <2>1. /\ ~single /\ lost' = D!Overwritten
        /\ \/ /\ handle' = "bad" /\ result' = "KErrNone"
              /\ batch' = D!NoBatch /\ seen' = {} /\ steady' = {} /\ changed' = {}
              /\ UNCHANGED <<entries, single, place, order, opened>>
           \/ D!OpenFails("KErrNotFound")
           \/ /\ ok /\ handle' = "bad" /\ result' = "KErrNone"
              /\ place' = p /\ seen' = {} /\ steady' = {} /\ changed' = {}
              /\ UNCHANGED <<entries, single, batch, order, opened>>
           \/ /\ ok /\ handle' = "open" /\ place' = p /\ result' = "KErrNone"
              /\ steady' = D!Present(p) /\ changed' = {} /\ batch' = D!NoBatch
              /\ \/ platform = "windows" /\
                    \E n \in found : entries' = D!Append1(n, world[p][n]) /\ seen' = {n}
                 \/ seen' = {} /\ UNCHANGED entries
              /\ UNCHANGED <<single, order, opened>>
    BY <1>6, Zenon DEF D!OpenDirectoryNow
  <2>2. /\ \A n \in found : n \in D!Names /\ world[p][n].kind # "none" /\ D!Fits(n)
        /\ ok => p \in D!Places
        /\ D!Present(p) \subseteq D!Names
    BY DEF D!Present
  <2>3. ok => \/ ~D!Wild(pattern) /\ pattern.last # "" /\ p = "sub"
              \/ p = pattern.at
              \/ platform = "unix" /\ pattern.at = "root"
    BY DEF D!Directory, D!Places
  <2> HIDE DEF p, ok, found
  <2>4. \A n \in found : D!Present(p) \subseteq D!Names /\ (ok => world[p][n] \in D!DiskNodes)
    BY <1>1, <2>2, DiTyped
  <2>5. lost' \in Nat /\ (lost' > 0 => opens' > 1) /\ opened > 0 /\ opens' = opens
    BY <1>2, <1>3, <1>4, <2>1
  <2>6. CASE /\ handle' = "bad" /\ result' = "KErrNone"
             /\ seen' = {} /\ steady' = {} /\ changed' = {}
             /\ UNCHANGED <<entries, single, order, opened>>
             /\ batch' = D!NoBatch \/ batch' = batch
             /\ place' = place \/ (ok /\ place' = p)
    <3>1. D!Typed'
      <4>1. batch' \in [names : Seq(D!Names), first : D!DiskNodes] /\ place' \in D!Places
        BY <1>1, <2>2, <2>6, DiNodes, DiTyped
      <4>2. /\ world' \in [D!Places -> [D!Names -> D!DiskNodes]] /\ entries' \in Seq(D!Entry)
            /\ single' \in BOOLEAN /\ platform' \in Platforms
            /\ pattern' \in Patterns \cup [at : D!Places, last : {""}]
            /\ opened' \in Nat /\ opens' \in Nat /\ order' \in D!Orders \cup {"unread"}
        BY <1>1, <1>2, <2>6, DiTyped
      <4> QED BY <1>2, <2>5, <2>6, <4>1, <4>2, DiRetyped
    <3>2. opened' = 1 => D!ListedOnce'
      BY <1>3, <2>6 DEF D!ListedOnce
    <3> QED BY <1>2, <1>3, <2>5, <2>6, <3>1, <3>2, DiNotOpen
  <2>7. CASE D!OpenFails("KErrNotFound")
    <3>1. D!Cleared /\ opened' = 0 /\ result' = "KErrNotFound"
      BY <2>7 DEF D!OpenFails
    <3> QED BY <1>2, <2>5, <3>1, DiCleared
  <2>8. CASE /\ ok /\ handle' = "open" /\ place' = p /\ result' = "KErrNone"
             /\ steady' = D!Present(p) /\ changed' = {} /\ batch' = D!NoBatch
             /\ \/ platform = "windows" /\
                   \E n \in found : entries' = D!Append1(n, world[p][n]) /\ seen' = {n}
                \/ seen' = {} /\ UNCHANGED entries
             /\ UNCHANGED <<single, order, opened>>
    <3>1. entries' \in Seq(D!Entry) /\ seen' \subseteq D!Names
          /\ (opened = 1 => DiRight(entries, batch.names, seen)')
      <4>0. batch'.names = <<>> /\ DiRange(<<>>) = {}
        BY <2>8, DiNodes DEF DiRange
      <4>1. CASE seen' = {} /\ UNCHANGED entries
        <5>1. opened = 1 => DiRight(entries, batch.names, seen)'
          <6> SUFFICES ASSUME opened = 1 PROVE DiRight(entries, batch.names, seen)'
            OBVIOUS
          <6>1. entries' = <<>>
            BY <1>3, <4>1
          <6> QED BY <4>0, <4>1, <6>1 DEF DiRight, DiOnce, DiNames, DiRange
        <5> QED BY <1>3, <4>1, <5>1
      <4>2. ASSUME platform = "windows", NEW n \in found,
                   entries' = D!Append1(n, world[p][n]), seen' = {n}
            PROVE  entries' \in Seq(D!Entry) /\ seen' \subseteq D!Names
                   /\ (opened = 1 => DiRight(entries, batch.names, seen)')
        <5> DEFINE node == world[p][n]
        <5>1. node \in D!DiskNodes /\ n \in D!Names
          BY <2>2, <2>4, <2>8
        <5>2. node.size \in Sizes \cup {0}
          BY <5>1, DiNodes
        <5>3. PICK e \in D!Entry :
                 entries' = Append(entries, e) /\ e = DiEntry(n, TRUE, D!Resolved(node, FALSE))
          <6> HIDE DEF node
          <6> QED BY <4>2, <5>1, <5>2, DiEntries DEF node
        <5>4. entries' \in Seq(D!Entry)
          BY <1>3, <5>3, DiAppend
        <5>5. DiSize(e)'
          <6>1. world' = world /\ place' = p /\ platform' # "amiga4"
            BY <1>2, <2>8, <4>2
          <6>2. e.name = n /\ e.size = D!Resolved(node, FALSE)
            BY ONLY <5>3 DEF DiEntry
          <6>3. CASE D!IsLink(node)
            BY <6>1, <6>2, <6>3, Zenon DEF DiSize, D!IsLink
          <6>4. CASE ~D!IsLink(node)
            <7>1. e.size = node.size
              BY <6>2, <6>4, Zenon DEF D!Resolved
            <7> QED BY <6>1, <6>2, <7>1, Zenon DEF DiSize
          <6> QED BY <6>3, <6>4
        <5>6. ASSUME opened = 1
              PROVE  DiRight(entries, batch.names, seen)'
          <6>0. e.name = n
            BY ONLY <5>3 DEF DiEntry
          <6>1. entries = <<>> /\ DOMAIN entries = {} /\ DiNames(entries) = {} /\ DiOnce(entries)
            BY <1>3, <5>6 DEF DiNames, DiOnce
          <6>2. /\ DOMAIN entries' = {Len(entries) + 1} /\ entries'[Len(entries) + 1] = e
                /\ DiNames(entries') = {n} /\ DiOnce(entries')
            <7> DEFINE t == Append(entries, e)
            <7>1. /\ DOMAIN t = DOMAIN entries \cup {Len(entries) + 1}
                  /\ t[Len(entries) + 1] = e
                  /\ DiNames(t) = DiNames(entries) \cup {e.name}
              BY <1>3, DiAppend
            <7>2. DiOnce(t)
              BY <1>3, <6>1, DiAppendOnce
            <7>3. entries' = t
              BY <5>3
            <7> HIDE DEF t
            <7> QED BY ONLY <6>0, <6>1, <7>1, <7>2, <7>3
          <6>3. \A i \in DOMAIN entries' : DiSize(entries[i])'
            BY <5>5, <6>2
          <6>4. DiNames(entries)' = {n} /\ DiOnce(entries)'
            BY <6>2 DEF DiNames, DiOnce
          <6> QED BY <4>0, <4>2, <6>3, <6>4 DEF DiRight, DiRange
        <5> QED BY <4>2, <5>1, <5>4, <5>6
      <4> QED BY <2>8, <4>1, <4>2
    <3>2. D!Typed'
      <4>1. batch' \in [names : Seq(D!Names), first : D!DiskNodes] /\ place' \in D!Places
            /\ steady' \subseteq D!Names
        BY <2>2, <2>8, DiNodes
      <4>2. /\ world' \in [D!Places -> [D!Names -> D!DiskNodes]]
            /\ single' \in BOOLEAN /\ platform' \in Platforms
            /\ pattern' \in Patterns \cup [at : D!Places, last : {""}]
            /\ opened' \in Nat /\ opens' \in Nat /\ order' \in D!Orders \cup {"unread"}
        BY <1>1, <1>2, <2>8, DiTyped
      <4> QED BY <1>2, <2>5, <2>8, <3>1, <4>1, <4>2, DiRetyped
    <3>3. D!ReadsTheDirectory'
      BY <1>2, <2>3, <2>8 DEF D!ReadsTheDirectory, D!Wild
    <3>4. CASE opened = 1
      <4>1. D!SeenIsListed' /\ D!ListedOnce' /\ D!SizesAreTheirs'
        BY <1>3, <2>8, <3>1, <3>4, DiTold
      <4>2. D!OpensInOrder'
        BY <1>2, <1>3, <2>1, <2>5, <2>8, <3>4 DEF D!OpensInOrder
      <4>3. D!SmallerFirst' /\ D!HandlesAreKept'
        BY <1>3, <2>5, <2>8 DEF D!SmallerFirst, D!HandlesAreKept
      <4> QED BY <3>2, <3>3, <4>1, <4>2, <4>3, Zenon DEF D!InOrder
    <3>5. CASE opened # 1
      BY <1>2, <1>3, <2>5, <2>8, <3>2, <3>3, <3>5, DiNotOpen
    <3> QED BY <3>4, <3>5
  <2> QED BY <2>1, <2>6, <2>7, <2>8
<1> QED BY <1>2, <1>5, <1>6 DEF D!OpenDirectory

\* read() returns with a list that is sorted.
LEMMA DiReturns ==
    ASSUME NEW s \in Seq(D!Entry), NEW error, D!Returns(s, error)
    PROVE  /\ entries' \in Seq(D!Entry) /\ order' \in D!Orders \cup {"unread"}
           /\ result' = error /\ pc' = "idle"
           /\ DiOnce(s) => D!ListedOnce'
           /\ D!SmallerFirst'
           /\ \E o : entries' \in D!Sortings(o, s)
<1>1. PICK o \in D!Orders : order' = o /\ entries' \in D!Sortings(o, s)
  BY DEF D!Returns
<1>2. result' = error /\ pc' = "idle"
  BY DEF D!Returns
<1>3. entries' \in Seq(D!Entry) /\ (DiOnce(s) => DiOnce(entries'))
  BY <1>1, DiSortingKeeps
<1>4. D!SmallerFirst'
  <2> SUFFICES ASSUME order' = "size", D!DifferencesFit'
               PROVE  \A i, j \in DOMAIN entries' : i < j => entries'[i].size <= entries'[j].size
    BY DEF D!SmallerFirst
  <2>1. entries' \in D!Sortings("size", s)
    BY <1>1
  <2>2. \A i, j \in DOMAIN entries' : entries'[i].size - entries'[j].size < Wide
    BY DEF D!DifferencesFit
  <2> QED BY <2>1, <2>2, DiSortedBySize
<1>5. DiOnce(s) => D!ListedOnce'
  BY <1>3 DEF D!ListedOnce, DiOnce
<1> QED BY <1>1, <1>2, <1>3, <1>4, <1>5

LEMMA DiRead ==
    ASSUME D!InOrder, D!Read
    PROVE  D!InOrder'
<1>1. D!Typed
  BY DEF D!InOrder
<1>2. /\ pc = "idle"
      /\ UNCHANGED <<platform, world, pattern, single, handle, place, batch, seen, steady, changed,
                     opened, lost, opens, changes>>
  BY DEF D!Read
<1>3. /\ D!OpensInOrder /\ D!ReadsTheDirectory /\ D!SeenIsListed /\ D!ListedOnce
      /\ D!SizesAreTheirs /\ D!SmallerFirst /\ D!HandlesAreKept
  BY DEF D!InOrder
<1>4. \/ platform = "remote" /\ result' = "KErrNone" /\ UNCHANGED <<entries, order, pc>>
      \/ /\ handle = "open" /\ (single => platform \in {"amiga3", "amiga4"})
         /\ pc' = "read" /\ result' = "none" /\ UNCHANGED <<entries, order>>
      \/ /\ ~(handle = "open" /\ (single => platform \in {"amiga3", "amiga4"}))
         /\ D!Returns(entries, IF single THEN "KErrNone" ELSE "KErrGeneral")
  BY Zenon DEF D!Read
<1>5. /\ world' \in [D!Places -> [D!Names -> D!DiskNodes]]
      /\ single' \in BOOLEAN /\ handle' \in {"none", "bad", "open"} /\ place' \in D!Places
      /\ seen' \subseteq D!Names /\ steady' \subseteq D!Names /\ changed' \subseteq D!Names
      /\ lost' \in Nat /\ platform' \in Platforms
      /\ pattern' \in Patterns \cup [at : D!Places, last : {""}]
      /\ batch' \in [names : Seq(D!Names), first : D!DiskNodes]
      /\ opened' \in Nat /\ opens' \in Nat
  BY <1>1, <1>2, DiTyped
<1>6. D!HandlesAreKept'
  BY <1>2, <1>3, Zenon DEF D!HandlesAreKept
<1>7. handle = "open" /\ opened = 1 => ~single
  BY <1>3 DEF D!OpensInOrder
<1>8. CASE \/ platform = "remote" /\ result' = "KErrNone" /\ UNCHANGED <<entries, order, pc>>
           \/ /\ handle = "open" /\ (single => platform \in {"amiga3", "amiga4"})
              /\ pc' = "read" /\ result' = "none" /\ UNCHANGED <<entries, order>>
  <2>1. D!Typed'
    <3>1. entries \in Seq(D!Entry) /\ order \in D!Orders \cup {"unread"}
      BY <1>1, DiTyped
    <3>2. pc' \in {"idle", "read"} /\ result' \in {"none", "KErrNone"}
      BY <1>2, <1>8
    <3> QED BY <1>5, <1>8, <3>1, <3>2, DiRetyped
  <2>2. /\ entries' = entries /\ order' = order /\ (pc' = pc \/ pc' = "read")
        /\ handle = "open" => pc' = "read"
    BY <1>2, <1>3, <1>8 DEF D!OpensInOrder
  <2>3. D!OpensInOrder'
    <3>1. handle # "open" => pc' = "idle"
      BY <1>2, <1>8
    <3>2. opened = 0 => pc' = "idle"
      BY <1>3, <3>1 DEF D!OpensInOrder
    <3> QED BY <1>2, <1>3, <2>2, <3>1, <3>2 DEF D!OpensInOrder
  <2>4. D!ReadsTheDirectory' /\ D!ListedOnce' /\ D!SizesAreTheirs' /\ D!SmallerFirst'
    BY <1>2, <1>3, <2>2, Zenon DEF D!ReadsTheDirectory, D!ListedOnce, D!SizesAreTheirs, D!SmallerFirst,
                                   D!DifferencesFit, D!Wild, D!IsLink
  <2>5. D!SeenIsListed'
    <3>1. /\ D!InEntries' = D!InEntries /\ D!InBatch' = D!InBatch /\ D!CutShort' = D!CutShort
          /\ \A m : D!Fits(m)' <=> D!Fits(m)
      BY <1>2, <2>2, Zenon DEF D!InEntries, D!InBatch, D!CutShort, D!Fits, D!Wild
    <3> QED BY <1>2, <1>3, <2>2, <3>1 DEF D!SeenIsListed
  <2> QED BY <1>6, <2>1, <2>3, <2>4, <2>5, Zenon DEF D!InOrder
<1>9. CASE /\ ~(handle = "open" /\ (single => platform \in {"amiga3", "amiga4"}))
           /\ D!Returns(entries, IF single THEN "KErrNone" ELSE "KErrGeneral")
  <2>1. entries \in Seq(D!Entry)
    BY <1>1, DiTyped
  <2>2. /\ entries' \in Seq(D!Entry) /\ order' \in D!Orders \cup {"unread"}
        /\ result' = (IF single THEN "KErrNone" ELSE "KErrGeneral") /\ pc' = "idle"
        /\ DiOnce(entries) => D!ListedOnce'
        /\ D!SmallerFirst'
        /\ \E o : entries' \in D!Sortings(o, entries)
    BY <1>9, <2>1, DiReturns
  <2>3. D!Typed'
    <3>1. result' \in {"KErrNone", "KErrGeneral"}
      BY <2>2
    <3> QED BY <1>5, <2>2, <3>1, DiRetyped
  <2>4. ~(handle = "open" /\ opened = 1)
    BY <1>7, <1>9
  <2>5. D!OpensInOrder'
    <3>1. opened = 0 => entries' = <<>>
      <4>1. opened = 0 => entries = <<>>
        BY <1>3 DEF D!OpensInOrder
      <4>2. DOMAIN entries' = DOMAIN entries
        BY <2>1, <2>2, DiSortingKeeps
      <4> QED BY <2>2, <4>1, <4>2
    <3> QED BY <1>2, <1>3, <2>2, <2>4, <3>1 DEF D!OpensInOrder
  <2>6. D!ReadsTheDirectory' /\ D!SeenIsListed' /\ D!SizesAreTheirs'
    <3>1. D!ReadsTheDirectory'
      BY <1>2, <1>3, <2>2, Zenon DEF D!ReadsTheDirectory, D!Wild
    <3>2. ~(handle' = "open" /\ opened' = 1)
      BY <1>2, <2>4
    <3> QED BY <3>1, <3>2, Zenon DEF D!SeenIsListed, D!SizesAreTheirs
  <2>7. D!ListedOnce'
    <3>1. opened = 1 => DiOnce(entries)
      BY <1>3 DEF D!ListedOnce, DiOnce
    <3>2. opened' = opened
      BY <1>2
    <3> QED BY <2>2, <3>1, <3>2 DEF D!ListedOnce
  <2> QED BY <1>6, <2>2, <2>3, <2>5, <2>6, <2>7, Zenon DEF D!InOrder
<1> QED BY <1>4, <1>8, <1>9

--------------------------------------------------------------------------------
(***************************************************************************)
(* Reading, entry by entry.                                                *)
(***************************************************************************)
DiErrors == {"none", "KErrNone", "KErrNotFound", "KErrNoMemory", "KErrGeneral", "KErrInUse",
             "KErrNotOpen"}

\* A step of read() that leaves the list s, which is right, and goes on or returns it
\* sorted.
LEMMA DiStep ==
    ASSUME D!InOrder, pc = "read",
           UNCHANGED <<platform, world, pattern, single, handle, place, steady, changed, opened,
                       lost, opens, changes>>,
           NEW s \in Seq(D!Entry), seen' \subseteq D!Names,
           batch' \in [names : Seq(D!Names), first : D!DiskNodes],
           opened = 1 => DiRight(s, batch'.names, seen'),
           \/ entries' = s /\ pc' = "read" /\ order' = order /\ result' \in DiErrors
           \/ \E error \in DiErrors :
                /\ D!Returns(s, error)
                /\ error = "KErrNone" => steady \subseteq seen' /\ batch'.names = <<>>
    PROVE  D!InOrder'
<1>1. D!Typed /\ D!OpensInOrder /\ D!ReadsTheDirectory /\ D!HandlesAreKept
  BY DEF D!InOrder
<1>2. handle = "open" /\ opened # 0 /\ (opened = 1 => ~single) /\ platform # "remote"
  BY <1>1 DEF D!OpensInOrder
<1>3. /\ entries' \in Seq(D!Entry) /\ order' \in D!Orders \cup {"unread"}
      /\ result' \in DiErrors /\ pc' \in {"idle", "read"}
      /\ D!SmallerFirst'
      /\ entries' = s \/ \E o : entries' \in D!Sortings(o, s)
      /\ pc' = "idle" /\ result' = "KErrNone" => steady \subseteq seen' /\ batch'.names = <<>>
  <2>1. CASE entries' = s /\ pc' = "read" /\ order' = order /\ result' \in DiErrors
    BY <1>1, <2>1, DiTyped DEF D!SmallerFirst
  <2>2. CASE \E error \in DiErrors :
                /\ D!Returns(s, error)
                /\ error = "KErrNone" => steady \subseteq seen' /\ batch'.names = <<>>
    BY <2>2, DiReturns
  <2> QED BY <2>1, <2>2
<1>4. D!Typed'
  <2>1. /\ world' \in [D!Places -> [D!Names -> D!DiskNodes]]
        /\ single' \in BOOLEAN /\ handle' \in {"none", "bad", "open"} /\ place' \in D!Places
        /\ steady' \subseteq D!Names /\ changed' \subseteq D!Names
        /\ lost' \in Nat /\ platform' \in Platforms
        /\ pattern' \in Patterns \cup [at : D!Places, last : {""}]
        /\ opened' \in Nat /\ opens' \in Nat
    BY <1>1, DiTyped
  <2>2. pc' \in {"idle", "open", "read"}
    BY <1>3
  <2>3. result' \in {"none", "KErrNone", "KErrNotFound", "KErrNoMemory", "KErrGeneral",
                     "KErrInUse", "KErrNotOpen"}
    BY <1>3 DEF DiErrors
  <2> QED BY <1>3, <2>1, <2>2, <2>3, DiRetyped
<1>5. D!OpensInOrder'
  BY <1>1, <1>2, <1>3 DEF D!OpensInOrder
<1>6. D!ReadsTheDirectory' /\ D!HandlesAreKept'
  <2>1. pc' # "open"
    BY <1>3
  <2>2. D!HandlesAreKept'
    BY <1>1, Zenon DEF D!HandlesAreKept
  <2>3. ~single => \/ ~D!Wild(pattern) /\ pattern.last # "" /\ place = "sub"
                   \/ place = pattern.at
                   \/ platform = "unix" /\ pattern.at = "root"
    BY <1>1, <1>2 DEF D!ReadsTheDirectory
  <2>4. D!ReadsTheDirectory'
    BY <2>3, Zenon DEF D!ReadsTheDirectory, D!Wild
  <2> QED BY <2>2, <2>4
<1>7. D!SeenIsListed' /\ D!ListedOnce' /\ D!SizesAreTheirs'
  <2>1. CASE opened = 1
    <3>1. DiRight(entries', batch'.names, seen')
      BY <1>3, <2>1, DiSortingRight
    <3>2. DiRight(entries, batch.names, seen)'
      BY <3>1, Zenon DEF DiRight, DiOnce, DiNames, DiRange, DiSize, DiShort, D!Fits, D!Wild, D!IsLink
    <3> QED BY <1>3, <3>2, DiTold
  <2>2. CASE opened # 1
    BY <2>2 DEF D!SeenIsListed, D!ListedOnce, D!SizesAreTheirs
  <2> QED BY <2>1, <2>2
<1> QED BY <1>3, <1>4, <1>5, <1>6, <1>7, Zenon DEF D!InOrder

\* A name that the pattern does not let in stays off the list.
LEMMA DiPassed ==
    ASSUME NEW s, NEW b, NEW returned, NEW n, DiRight(s, b, returned), ~D!Fits(n)
    PROVE  DiRight(s, b, returned \cup {n})
BY DEF DiRight

LEMMA DiTail ==
    ASSUME NEW b \in Seq(D!Names), b # <<>>
    PROVE  /\ Tail(b) \in Seq(D!Names) /\ Head(b) \in D!Names /\ Head(b) \in DiRange(b)
           /\ DiRange(b) \subseteq DiRange(Tail(b)) \cup {Head(b)}
           /\ (\A i, j \in DOMAIN b : b[i] = b[j] => i = j) =>
                 /\ \A i, j \in DOMAIN Tail(b) : Tail(b)[i] = Tail(b)[j] => i = j
                 /\ DiRange(Tail(b)) \subseteq DiRange(b) /\ Head(b) \notin DiRange(Tail(b))
<1> DEFINE t == Tail(b)
           m == Len(b)
<1>1. /\ m \in Nat /\ DOMAIN b = 1 .. m /\ 1 \in DOMAIN b /\ Head(b) = b[1] /\ Head(b) \in D!Names
      /\ t \in Seq(D!Names) /\ Len(t) = m - 1 /\ DOMAIN t = 1 .. m - 1
      /\ \A i \in 1 .. m - 1 : t[i] = b[i + 1]
  BY HeadTailProperties
<1> HIDE DEF t, m
<1>2. \A i \in 1 .. m - 1 : i + 1 \in 1 .. m /\ i + 1 # 1
  BY <1>1
<1>3. \A i \in 1 .. m : i = 1 \/ (i - 1 \in 1 .. m - 1 /\ (i - 1) + 1 = i)
  BY <1>1
<1>4. ASSUME NEW x \in DiRange(b)
      PROVE  x \in DiRange(t) \cup {Head(b)}
  <2>1. PICK i \in 1 .. m : x = b[i]
    BY <1>1 DEF DiRange
  <2>2. CASE i = 1
    BY <1>1, <2>1, <2>2
  <2>3. CASE i # 1
    <3>1. i - 1 \in 1 .. m - 1 /\ (i - 1) + 1 = i
      BY <1>3, <2>3
    <3>2. x = t[i - 1] /\ i - 1 \in DOMAIN t
      BY <1>1, <2>1, <3>1
    <3> QED BY <3>2 DEF DiRange
  <2> QED BY <2>2, <2>3
<1>5. ASSUME \A i, j \in DOMAIN b : b[i] = b[j] => i = j
      PROVE  /\ \A i, j \in DOMAIN t : t[i] = t[j] => i = j
             /\ DiRange(t) \subseteq DiRange(b) /\ Head(b) \notin DiRange(t)
  <2>1. \A i, j \in 1 .. m - 1 : i + 1 = j + 1 => i = j
    OBVIOUS
  <2>2. \A i \in DOMAIN t : t[i] = b[i + 1] /\ i + 1 \in DOMAIN b /\ i + 1 # 1
    BY ONLY <1>1, <1>2
  <2>3. \A i, j \in DOMAIN t : t[i] = t[j] => i = j
    BY ONLY <1>1, <1>5, <2>1, <2>2
  <2>4. DiRange(t) \subseteq DiRange(b) /\ Head(b) \notin DiRange(t)
    BY ONLY <1>1, <1>5, <2>2 DEF DiRange
  <2> QED BY <2>3, <2>4
<1>6. Head(b) \in DiRange(b)
  BY <1>1 DEF DiRange
<1> QED BY <1>1, <1>4, <1>5, <1>6 DEF t

LEMMA DiSizeOfFile ==
    ASSUME NEW n, NEW set, NEW asLink \in BOOLEAN,
           D!IsLink(world[place][n]) =>
               (platform = "amiga4" /\ world[place][n].kind = "link" => asLink)
    PROVE  DiSize(DiEntry(n, set, D!Resolved(world[place][n], asLink)))
<1> DEFINE node == world[place][n]
           e == DiEntry(n, set, D!Resolved(node, asLink))
<1>1. e.name = n /\ e.set = set /\ e.size = D!Resolved(node, asLink)
  BY Zenon DEF DiEntry
<1>2. CASE D!IsLink(node) /\ ~(platform = "amiga4" /\ node.kind = "link")
  BY <1>1, <1>2, Zenon DEF DiSize
<1>3. CASE D!IsLink(node) /\ platform = "amiga4" /\ node.kind = "link"
  <2>1. D!Resolved(node, asLink) = node.size
    BY <1>3 DEF D!Resolved
  <2> QED BY <1>1, <2>1, Zenon DEF DiSize
<1>4. CASE ~D!IsLink(node)
  <2>1. D!Resolved(node, asLink) = node.size
    BY <1>4 DEF D!Resolved, D!IsLink
  <2> QED BY <1>1, <2>1, Zenon DEF DiSize
<1> QED BY <1>2, <1>3, <1>4

\* What every way of reading has to begin with.
LEMMA DiReading ==
    ASSUME D!InOrder, D!Reading
    PROVE  /\ pc = "read" /\ entries \in Seq(D!Entry) /\ seen \subseteq D!Names
           /\ batch \in [names : Seq(D!Names), first : D!DiskNodes] /\ result \in DiErrors
           /\ UNCHANGED <<platform, world, pattern, single, handle, place, steady, changed, opened,
                          lost, opens, changes>>
           /\ opened = 1 => DiRight(entries, batch.names, seen)
           /\ \A n \in D!Next1 : n \in D!Names /\ n \notin seen
           /\ \A n \in D!Names : world[place][n] \in D!DiskNodes /\ world[place][n].size \in Sizes \cup {0}
<1>1. D!Typed /\ D!OpensInOrder
  BY DEF D!InOrder
<1>2. pc = "read" /\ handle = "open"
      /\ UNCHANGED <<platform, world, pattern, single, handle, place, steady, changed, opened,
                     lost, opens, changes>>
  BY <1>1 DEF D!Reading, D!OpensInOrder
<1>3. /\ entries \in Seq(D!Entry) /\ seen \subseteq D!Names /\ result \in DiErrors
      /\ batch \in [names : Seq(D!Names), first : D!DiskNodes]
      /\ steady \subseteq D!Names /\ changed \subseteq D!Names
  BY <1>1, DiTyped DEF DiErrors
<1>4. \A n \in D!Names : world[place][n] \in D!DiskNodes
  BY <1>1, DiTyped
<1>5. \A n \in D!Next1 : n \in D!Names /\ n \notin seen
  BY <1>3 DEF D!Next1, D!Present
<1>6. \A n \in D!Names : world[place][n].size \in Sizes \cup {0}
  BY <1>4, DiNodes
<1> QED BY <1>2, <1>3, <1>4, <1>5, <1>6, DiKnown

\* What readdir(), FindNextFile() and ExamineDir() give goes on the list, or is passed.
LEMMA DiOne ==
    ASSUME D!InOrder, D!Reading, NEW n \in D!Next1, seen' = seen \cup {n}, UNCHANGED batch,
           NEW s \in Seq(D!Entry),
           \/ ~D!Fits(n) /\ s = entries
           \/ \E e \in D!Entry : e.name = n /\ DiSize(e) /\ s = Append(entries, e),
           \/ entries' = s /\ pc' = "read" /\ order' = order /\ result' \in DiErrors
           \/ \E error \in DiErrors \ {"KErrNone"} : D!Returns(s, error)
    PROVE  D!InOrder'
<1>1. /\ pc = "read" /\ entries \in Seq(D!Entry) /\ seen \subseteq D!Names
      /\ batch \in [names : Seq(D!Names), first : D!DiskNodes]
      /\ UNCHANGED <<platform, world, pattern, single, handle, place, steady, changed, opened,
                     lost, opens, changes>>
      /\ n \in D!Names /\ n \notin seen
      /\ opened = 1 => DiRight(entries, batch.names, seen)
  BY DiReading
<1>2. ASSUME opened = 1
      PROVE  DiRight(s, batch'.names, seen')
  <2>1. DiRight(entries, batch.names, seen)
    BY <1>1, <1>2
  <2>2. CASE ~D!Fits(n) /\ s = entries
    BY <2>1, <2>2, DiPassed
  <2>3. ASSUME NEW e \in D!Entry, e.name = n, DiSize(e), s = Append(entries, e)
        PROVE  DiRight(s, batch'.names, seen')
    <3> DEFINE b == batch.names
               back == seen \cup {n}
    <3>1. /\ e.name \notin DiNames(entries) /\ e.name \in back /\ seen \subseteq back
          /\ back \subseteq seen \cup {e.name} /\ DiRange(b) \subseteq DiRange(b)
          /\ e.name \notin DiRange(b) /\ DiRange(b) \ DiRange(b) = {}
          /\ \A i, j \in DOMAIN b : b[i] = b[j] => i = j
      BY <1>1, <2>1, <2>3 DEF DiRight
    <3> HIDE DEF b, back
    <3>2. DiRight(entries, b, seen)
      BY <2>1 DEF b
    <3>3. DiRight(Append(entries, e), b, back)
      BY <1>1, <2>3, <3>1, <3>2, DiAdded
    <3> QED BY <2>3, <3>3 DEF b, back
  <2> QED BY <2>2, <2>3
<1>3. seen' \subseteq D!Names /\ batch' \in [names : Seq(D!Names), first : D!DiskNodes]
  BY <1>1
<1>4. \/ entries' = s /\ pc' = "read" /\ order' = order /\ result' \in DiErrors
      \/ \E error \in DiErrors :
           /\ D!Returns(s, error)
           /\ error = "KErrNone" => steady \subseteq seen' /\ batch'.names = <<>>
  OBVIOUS
<1> QED BY <1>1, <1>2, <1>3, <1>4, DiStep

LEMMA DiReadUnix ==
    ASSUME D!InOrder, D!Reading, D!ReadUnix
    PROVE  D!InOrder'
<1>1. /\ pc = "read" /\ entries \in Seq(D!Entry) /\ result \in DiErrors
      /\ \A n \in D!Next1 : n \in D!Names /\ n \notin seen
      /\ \A n \in D!Names : world[place][n].size \in Sizes \cup {0}
  BY DiReading
<1>2. PICK n \in D!Next1 :
         /\ seen' = seen \cup {n}
         /\ \/ ~D!Fits(n) /\ UNCHANGED <<entries, pc, result, order>>
            \/ entries' = D!Append1(n, world[place][n]) /\ UNCHANGED <<pc, result, order>>
            \/ D!Returns(Append(entries, [name |-> n, set |-> FALSE, size |-> 0]), "KErrNotFound")
  BY Zenon DEF D!ReadUnix
<1>3. platform # "amiga4" /\ UNCHANGED batch
  BY DEF D!ReadUnix
<1> DEFINE e == DiEntry(n, TRUE, D!Resolved(world[place][n], FALSE))
           f == DiEntry(n, FALSE, 0)
<1>4. e \in D!Entry /\ f \in D!Entry /\ D!Append1(n, world[place][n]) = Append(entries, e)
  <2>1. n \in D!Names /\ world[place][n].size \in Sizes \cup {0}
    BY <1>1
  <2> QED BY <2>1, DiEntries
<1>5. e.name = n /\ f.name = n /\ DiSize(e) /\ DiSize(f)
  <2>1. e.name = n /\ f.name = n /\ f.set = FALSE
    BY Zenon DEF DiEntry
  <2>2. DiSize(e)
    BY <1>3, DiSizeOfFile
  <2> QED BY <2>1, <2>2, Zenon DEF DiSize
<1>6. Append(entries, e) \in Seq(D!Entry) /\ Append(entries, f) \in Seq(D!Entry)
  <2> HIDE DEF e, f
  <2> QED BY <1>1, <1>4, DiAppend
<1>7. f = [name |-> n, set |-> FALSE, size |-> 0] /\ "KErrNotFound" \in DiErrors \ {"KErrNone"}
  BY DEF DiEntry, DiErrors
<1> HIDE DEF e, f
<1>8. CASE ~D!Fits(n) /\ UNCHANGED <<entries, pc, result, order>>
  BY <1>1, <1>2, <1>3, <1>8, DiOne
<1>9. CASE entries' = D!Append1(n, world[place][n]) /\ UNCHANGED <<pc, result, order>>
  <2>1. entries' = Append(entries, e) /\ pc' = "read" /\ order' = order /\ result' \in DiErrors
    BY <1>1, <1>4, <1>9
  <2> QED BY <1>2, <1>3, <1>4, <1>5, <1>6, <2>1, DiOne
<1>10. CASE D!Returns(Append(entries, [name |-> n, set |-> FALSE, size |-> 0]), "KErrNotFound")
  <2>1. D!Returns(Append(entries, f), "KErrNotFound")
    BY <1>7, <1>10
  <2> QED BY <1>2, <1>3, <1>4, <1>5, <1>6, <1>7, <2>1, DiOne
<1> QED BY <1>2, <1>8, <1>9, <1>10

LEMMA DiReadWindows ==
    ASSUME D!InOrder, D!Reading, D!ReadWindows
    PROVE  D!InOrder'
<1>1. /\ pc = "read" /\ entries \in Seq(D!Entry) /\ result \in DiErrors
      /\ \A n \in D!Next1 : n \in D!Names /\ n \notin seen
      /\ \A n \in D!Names : world[place][n].size \in Sizes \cup {0}
  BY DiReading
<1>2. PICK n \in D!Next1 :
         /\ seen' = seen \cup {n}
         /\ \/ ~D!Fits(n) /\ entries' = entries
            \/ entries' = D!Append1(n, world[place][n])
  BY DEF D!ReadWindows
<1>3. platform # "amiga4" /\ UNCHANGED <<batch, pc, result, order>>
  BY DEF D!ReadWindows
<1> DEFINE e == DiEntry(n, TRUE, D!Resolved(world[place][n], FALSE))
<1>4. e \in D!Entry /\ D!Append1(n, world[place][n]) = Append(entries, e)
  <2>1. n \in D!Names /\ world[place][n].size \in Sizes \cup {0}
    BY <1>1
  <2> QED BY <2>1, DiEntries
<1>5. e.name = n /\ DiSize(e)
  <2>1. e.name = n
    BY Zenon DEF DiEntry
  <2>2. DiSize(e)
    BY <1>3, DiSizeOfFile
  <2> QED BY <2>1, <2>2
<1>6. Append(entries, e) \in Seq(D!Entry)
  <2> HIDE DEF e
  <2> QED BY <1>1, <1>4, DiAppend
<1> HIDE DEF e
<1>7. CASE ~D!Fits(n) /\ entries' = entries
  BY <1>1, <1>2, <1>3, <1>7, DiOne
<1>8. CASE entries' = D!Append1(n, world[place][n])
  <2>1. entries' = Append(entries, e) /\ pc' = "read" /\ order' = order /\ result' \in DiErrors
    BY <1>1, <1>3, <1>4, <1>8
  <2> QED BY <1>2, <1>3, <1>4, <1>5, <1>6, <2>1, DiOne
<1> QED BY <1>2, <1>7, <1>8

LEMMA DiReadAmiga4 ==
    ASSUME D!InOrder, D!Reading, D!ReadAmiga4
    PROVE  D!InOrder'
<1>1. /\ pc = "read" /\ entries \in Seq(D!Entry) /\ result \in DiErrors
      /\ \A n \in D!Next1 : n \in D!Names /\ n \notin seen
      /\ \A n \in D!Names : world[place][n].size \in Sizes \cup {0}
  BY DiReading
<1>2. PICK n \in D!Next1 :
         /\ seen' = seen \cup {n}
         /\ \/ ~D!Fits(n) /\ entries' = entries
            \/ entries' = Append(entries, [name |-> n, set |-> TRUE,
                                           size |-> D!Resolved(world[place][n], D!IsLink(world[place][n]))])
  BY Zenon DEF D!ReadAmiga4
<1>3. UNCHANGED <<batch, pc, result, order>>
  BY DEF D!ReadAmiga4
<1> DEFINE asLink == D!IsLink(world[place][n])
           e == DiEntry(n, TRUE, D!Resolved(world[place][n], asLink))
<1>4. asLink \in BOOLEAN
  BY DEF D!IsLink
<1>5. e \in D!Entry
  <2>1. n \in D!Names /\ world[place][n].size \in Sizes \cup {0}
    BY <1>1
  <2> HIDE DEF asLink
  <2> QED BY <1>4, <2>1, DiEntries
<1>6. e.name = n /\ DiSize(e)
  <2>1. e.name = n
    BY Zenon DEF DiEntry
  <2>2. D!IsLink(world[place][n]) => asLink
    OBVIOUS
  <2>3. DiSize(e)
    <3> HIDE DEF asLink
    <3> QED BY <1>4, <2>2, DiSizeOfFile
  <2> QED BY <2>1, <2>3
<1>7. Append(entries, e) \in Seq(D!Entry)
  <2> HIDE DEF e
  <2> QED BY <1>1, <1>5, DiAppend
<1>8. e = [name |-> n, set |-> TRUE,
           size |-> D!Resolved(world[place][n], D!IsLink(world[place][n]))]
  BY DEF DiEntry
<1> HIDE DEF e, asLink
<1>9. CASE ~D!Fits(n) /\ entries' = entries
  BY <1>1, <1>2, <1>3, <1>9, DiOne
<1>10. CASE entries' = Append(entries, e)
  <2>1. entries' = Append(entries, e) /\ pc' = "read" /\ order' = order /\ result' \in DiErrors
    BY <1>1, <1>3, <1>10
  <2> QED BY <1>2, <1>3, <1>5, <1>6, <1>7, <2>1, DiOne
<1> QED BY <1>2, <1>8, <1>9, <1>10

\* The buffer of ExAll().
LEMMA DiFillBuffer ==
    ASSUME D!InOrder, D!Reading, D!FillBuffer
    PROVE  D!InOrder'
<1>1. /\ pc = "read" /\ entries \in Seq(D!Entry) /\ seen \subseteq D!Names /\ result \in DiErrors
      /\ UNCHANGED <<platform, world, pattern, single, handle, place, steady, changed, opened,
                     lost, opens, changes>>
      /\ opened = 1 => DiRight(entries, batch.names, seen)
      /\ \A n \in D!Next1 : n \in D!Names /\ n \notin seen
      /\ \A n \in D!Names : world[place][n] \in D!DiskNodes
  BY DiReading
<1>2. batch.names = <<>> /\ UNCHANGED <<entries, pc, result, order>>
  BY DEF D!FillBuffer
<1>0. PICK n \in 1 .. MaxBatch : \E b \in [1 .. n -> D!Next1] :
         /\ \A i, j \in 1 .. n : i # j => b[i] # b[j]
         /\ batch' = [names |-> b, first |-> world[place][b[1]]]
         /\ seen' = seen \cup {b[i] : i \in 1 .. n}
  BY DEF D!FillBuffer
<1>3. PICK b \in [1 .. n -> D!Next1] :
         /\ \A i, j \in 1 .. n : i # j => b[i] # b[j]
         /\ batch' = [names |-> b, first |-> world[place][b[1]]]
         /\ seen' = seen \cup {b[i] : i \in 1 .. n}
  BY <1>0
<1>4. n \in Nat /\ 1 \in 1 .. n /\ DOMAIN b = 1 .. n
  BY FileAssumption
<1>5. DiRange(b) = {b[i] : i \in 1 .. n} /\ \A m \in DiRange(b) : m \in D!Names /\ m \notin seen
  BY <1>1, <1>4 DEF DiRange
<1>6. batch'.names = b /\ batch' \in [names : Seq(D!Names), first : D!DiskNodes]
  <2>1. b \in [1 .. n -> D!Names]
    BY <1>1
  <2>2. b \in Seq(D!Names)
    BY <1>4, <2>1, SeqDef
  <2>3. world[place][b[1]] \in D!DiskNodes
    BY <1>1, <1>4, <2>1
  <2> QED BY <1>3, <2>2, <2>3
<1>7. ASSUME opened = 1
      PROVE  DiRight(entries, batch'.names, seen')
  <2>1. DiRight(entries, batch.names, seen) /\ DiRange(batch.names) = {}
    BY <1>1, <1>2, <1>7 DEF DiRange
  <2>2. seen' = seen \cup DiRange(b)
    BY <1>3, <1>5
  <2>3. \A i, j \in DOMAIN b : b[i] = b[j] => i = j
    BY <1>3, <1>4
  <2>4. DiNames(entries) \cap DiRange(b) = {} /\ seen' \ DiRange(b) \subseteq seen \ DiRange(batch.names)
    BY <1>5, <2>1, <2>2 DEF DiRight
  <2> QED BY <1>6, <2>1, <2>2, <2>3, <2>4 DEF DiRight
<1>8. seen' \subseteq D!Names
  BY <1>1, <1>3, <1>5
<1>9. entries' = entries /\ pc' = "read" /\ order' = order /\ result' \in DiErrors
  BY <1>1, <1>2
<1> QED BY <1>1, <1>6, <1>7, <1>8, <1>9, DiStep

LEMMA DiReadBuffer ==
    ASSUME D!InOrder, D!Reading, D!ReadBuffer
    PROVE  D!InOrder'
<1> DEFINE b == batch.names
           n == Head(b)
           node == world[place][n]
           asLink == D!IsLink(batch.first)
           left == [batch EXCEPT !.names = Tail(@)]
           e == DiEntry(n, TRUE, D!Resolved(node, asLink))
           f == DiEntry(n, FALSE, 0)
<1>1. /\ pc = "read" /\ entries \in Seq(D!Entry) /\ seen \subseteq D!Names /\ result \in DiErrors
      /\ batch \in [names : Seq(D!Names), first : D!DiskNodes]
      /\ UNCHANGED <<platform, world, pattern, single, handle, place, steady, changed, opened,
                     lost, opens, changes>>
      /\ opened = 1 => DiRight(entries, batch.names, seen)
      /\ \A m \in D!Names : world[place][m].size \in Sizes \cup {0}
  BY DiReading
<1>2. platform = "amiga3" /\ b # <<>> /\ UNCHANGED <<seen, pc, order>>
  BY DEF D!ReadBuffer
<1>3. b \in Seq(D!Names) /\ left.names = Tail(b) /\ left = [names |-> Tail(b), first |-> batch.first]
      /\ batch.first \in D!DiskNodes
  <2>1. batch = [names |-> batch.names, first |-> batch.first]
        /\ batch.names \in Seq(D!Names) /\ batch.first \in D!DiskNodes
    BY <1>1
  <2>2. \A x, y, z : [[names |-> x, first |-> y] EXCEPT !.names = z] = [names |-> z, first |-> y]
    OBVIOUS
  <2>3. left = [[names |-> batch.names, first |-> batch.first] EXCEPT !.names = Tail(b)]
    BY <2>1
  <2>4. left = [names |-> Tail(b), first |-> batch.first]
    BY <2>2, <2>3
  <2> QED BY <2>1, <2>4
<1>4. /\ Tail(b) \in Seq(D!Names) /\ n \in D!Names /\ n \in DiRange(b)
      /\ DiRange(b) \subseteq DiRange(Tail(b)) \cup {n}
      /\ (\A i, j \in DOMAIN b : b[i] = b[j] => i = j) =>
            /\ \A i, j \in DOMAIN Tail(b) : Tail(b)[i] = Tail(b)[j] => i = j
            /\ DiRange(Tail(b)) \subseteq DiRange(b) /\ n \notin DiRange(Tail(b))
  <2> HIDE DEF b
  <2> QED BY <1>2, <1>3, DiTail
<1>5. \/ ~D!Fits(n) /\ batch' = left /\ UNCHANGED <<entries, result>>
      \/ /\ entries' = Append(entries, [name |-> n, set |-> FALSE, size |-> 0])
         /\ batch' = D!NoBatch /\ result' = "KErrInUse"
      \/ /\ entries' = Append(entries, [name |-> n, set |-> TRUE, size |-> D!Resolved(node, asLink)])
         /\ batch' = left /\ result' = IF asLink THEN "none" ELSE result
  BY Zenon DEF D!ReadBuffer
<1>6. e \in D!Entry /\ f \in D!Entry /\ e.name = n /\ f.name = n /\ f.set = FALSE
      /\ DiSize(e) /\ DiSize(f)
      /\ f = [name |-> n, set |-> FALSE, size |-> 0]
      /\ e = [name |-> n, set |-> TRUE, size |-> D!Resolved(node, asLink)]
  <2>1. asLink \in BOOLEAN /\ node.size \in Sizes \cup {0}
    BY <1>1, <1>4 DEF D!IsLink
  <2>2. DiSize(e)
    <3> HIDE DEF asLink, n
    <3> QED BY <1>2, <2>1, DiSizeOfFile DEF n
  <2>3. e.name = n /\ f.name = n /\ f.set = FALSE
      /\ f = [name |-> n, set |-> FALSE, size |-> 0]
      /\ e = [name |-> n, set |-> TRUE, size |-> D!Resolved(node, asLink)]
    BY Zenon DEF DiEntry
  <2>4. DiSize(f)
    BY <2>3, Zenon DEF DiSize
  <2>5. e \in D!Entry /\ f \in D!Entry
    <3> HIDE DEF asLink, n, node
    <3> QED BY <1>4, <2>1, DiEntries
  <2> QED BY <2>2, <2>3, <2>4, <2>5
<1>7. left \in [names : Seq(D!Names), first : D!DiskNodes]
  <2> HIDE DEF b, left
  <2> QED BY <1>3, <1>4
<1>8. opened = 1 => DiRight(entries, b, seen)
  BY <1>1
<1>9. seen' = seen /\ pc' = "read" /\ order' = order /\ seen' \subseteq D!Names
  BY <1>1, <1>2
<1> HIDE DEF b, n, node, asLink, left, e, f
<1>10. CASE ~D!Fits(n) /\ batch' = left /\ UNCHANGED <<entries, result>>
  <2>1. ASSUME opened = 1
        PROVE  DiRight(entries, batch'.names, seen')
    <3>1. batch'.names = Tail(b)
      BY <1>3, <1>10
    <3>2. DiRight(entries, b, seen)
      BY <1>8, <2>1
    <3>3. /\ \A i, j \in DOMAIN Tail(b) : Tail(b)[i] = Tail(b)[j] => i = j
          /\ DiRange(Tail(b)) \subseteq DiRange(b)
      BY <1>4, <3>2 DEF DiRight
    <3>4. \A m \in seen \ DiRange(Tail(b)) : m \in seen \ DiRange(b) \/ ~D!Fits(m)
      BY <1>4, <1>10
    <3> QED BY <1>9, <3>1, <3>2, <3>3, <3>4 DEF DiRight
  <2>2. entries' = entries /\ result' \in DiErrors /\ batch' \in [names : Seq(D!Names), first : D!DiskNodes]
    BY <1>1, <1>7, <1>10
  <2> QED BY <1>1, <1>9, <2>1, <2>2, DiStep
<1>11. CASE entries' = Append(entries, f) /\ batch' = D!NoBatch /\ result' = "KErrInUse"
  <2>1. ASSUME opened = 1
        PROVE  DiRight(Append(entries, f), batch'.names, seen')
    <3>1. batch'.names = <<>> /\ DiRange(<<>>) = {}
      BY <1>11, DiNodes DEF DiRange
    <3>2. DiRight(entries, b, seen)
      BY <1>8, <2>1
    <3>3. f.name \notin DiNames(entries) /\ f.name \in seen
      BY <1>4, <1>6, <3>2 DEF DiRight
    <3>4. /\ DiRange(<<>>) \subseteq DiRange(b) /\ f.name \notin DiRange(<<>>)
          /\ \A m \in DiRange(b) \ DiRange(<<>>) : m = f.name \/ (platform = "amiga3" /\ ~f.set)
          /\ \A i, j \in DOMAIN <<>> : <<>>[i] = <<>>[j] => i = j
      BY <1>2, <1>6, <3>1
    <3>5. seen \subseteq seen /\ seen \subseteq seen \cup {f.name}
      OBVIOUS
    <3> QED BY <1>1, <1>6, <1>9, <3>1, <3>2, <3>3, <3>4, <3>5, DiAdded
  <2>2. Append(entries, f) \in Seq(D!Entry) /\ result' \in DiErrors
        /\ batch' \in [names : Seq(D!Names), first : D!DiskNodes]
    BY <1>1, <1>6, <1>11, DiAppend, DiNodes DEF DiErrors
  <2> QED BY <1>1, <1>9, <1>11, <2>1, <2>2, DiStep
<1>12. CASE /\ entries' = Append(entries, e) /\ batch' = left
            /\ result' = IF asLink THEN "none" ELSE result
  <2>1. ASSUME opened = 1
        PROVE  DiRight(Append(entries, e), batch'.names, seen')
    <3> DEFINE c == Tail(b)
    <3>1. batch'.names = c
      BY <1>3, <1>12
    <3>2. DiRight(entries, b, seen)
      BY <1>8, <2>1
    <3>3. e.name \notin DiNames(entries) /\ e.name \in seen
      BY <1>4, <1>6, <3>2 DEF DiRight
    <3>4. /\ DiRange(c) \subseteq DiRange(b) /\ e.name \notin DiRange(c)
          /\ \A m \in DiRange(b) \ DiRange(c) : m = e.name
          /\ \A i, j \in DOMAIN c : c[i] = c[j] => i = j
      BY <1>4, <1>6, <3>2 DEF DiRight
    <3>5. seen \subseteq seen /\ seen \subseteq seen \cup {e.name}
      OBVIOUS
    <3> HIDE DEF c
    <3> QED BY <1>1, <1>6, <1>9, <3>1, <3>2, <3>3, <3>4, <3>5, DiAdded
  <2>2. Append(entries, e) \in Seq(D!Entry) /\ result' \in DiErrors
        /\ batch' \in [names : Seq(D!Names), first : D!DiskNodes]
    BY <1>1, <1>6, <1>7, <1>12, DiAppend DEF DiErrors
  <2> QED BY <1>1, <1>9, <1>12, <2>1, <2>2, DiStep
<1> QED BY <1>5, <1>6, <1>10, <1>11, <1>12

LEMMA DiReadEnds ==
    ASSUME D!InOrder, D!Reading, D!EndOfDirectory \/ D!ReadingFails
    PROVE  D!InOrder'
<1>1. /\ pc = "read" /\ entries \in Seq(D!Entry) /\ seen \subseteq D!Names /\ result \in DiErrors
      /\ batch \in [names : Seq(D!Names), first : D!DiskNodes]
      /\ UNCHANGED <<platform, world, pattern, single, handle, place, steady, changed, opened,
                     lost, opens, changes>>
      /\ opened = 1 => DiRight(entries, batch.names, seen)
  BY DiReading
<1>2. UNCHANGED <<seen, batch>>
  BY DEF D!EndOfDirectory, D!ReadingFails
<1>3. PICK error \in DiErrors :
         /\ D!Returns(entries, error)
         /\ error = "KErrNone" => steady \subseteq seen' /\ batch'.names = <<>>
  <2>1. CASE D!EndOfDirectory
    <3> DEFINE error == IF result = "none" THEN "KErrNone" ELSE result
    <3>1. error \in DiErrors
      BY <1>1 DEF DiErrors
    <3>2. D!Returns(entries, error) /\ steady \subseteq seen /\ batch.names = <<>>
      BY <2>1 DEF D!EndOfDirectory, D!Ended
    <3> HIDE DEF error
    <3> QED BY <1>2, <3>1, <3>2
  <2>2. CASE D!ReadingFails
    <3> DEFINE error == IF platform = "unix" THEN "KErrNotFound" ELSE "KErrGeneral"
    <3>1. error \in DiErrors /\ error # "KErrNone"
      BY DEF DiErrors
    <3>2. D!Returns(entries, error)
      BY <2>2 DEF D!ReadingFails
    <3> HIDE DEF error
    <3> QED BY <3>1, <3>2
  <2> QED BY <2>1, <2>2
<1>4. seen' \subseteq D!Names /\ batch' \in [names : Seq(D!Names), first : D!DiskNodes]
      /\ (opened = 1 => DiRight(entries, batch'.names, seen'))
  BY <1>1, <1>2
<1> QED BY <1>1, <1>3, <1>4, DiStep

LEMMA DiInit ==
    ASSUME D!Init
    PROVE  D!InOrder
<1>1. /\ platform \in Platforms /\ world \in Worlds
      /\ pattern = [at |-> "cwd", last |-> ""]
      /\ entries = <<>> /\ single = FALSE /\ handle = "none" /\ place = "cwd"
      /\ batch = D!NoBatch /\ seen = {} /\ steady = {} /\ changed = {}
      /\ pc = "idle" /\ result = "none" /\ order = "unread"
      /\ opened = 0 /\ lost = 0 /\ opens = 0
  BY DEF D!Init
<1>2. world \in [D!Places -> [D!Names -> D!DiskNodes]]
  <2>1. PICK x \in {File(1), Link(1), Other("busy")}, y \in {File(5), Other("dead")} :
          world = [root |-> [a |-> File(1), b |-> Nothing, d |-> Nothing],
                   cwd  |-> [a |-> File(5), b |-> Nothing, d |-> Other("dir")],
                   sub  |-> [a |-> x, b |-> y, d |-> Nothing]]
    <3> DEFINE Of(x, y) == [root |-> [a |-> File(1), b |-> Nothing, d |-> Nothing],
                            cwd  |-> [a |-> File(5), b |-> Nothing, d |-> Other("dir")],
                            sub  |-> [a |-> x, b |-> y, d |-> Nothing]]
    <3>1. world \in {Of(x, y) : x \in {File(1), Link(1), Other("busy")}, y \in {File(5), Other("dead")}}
      <4>1. Worlds = {Of(x, y) : x \in {File(1), Link(1), Other("busy")}, y \in {File(5), Other("dead")}}
        BY DEF Worlds
      <4>2. world \in Worlds
        BY <1>1
      <4> HIDE DEF Of
      <4> QED BY ONLY <4>1, <4>2
    <3>2. \E x \in {File(1), Link(1), Other("busy")}, y \in {File(5), Other("dead")} : world = Of(x, y)
      <4> HIDE DEF Of
      <4> QED BY <3>1
    <3> QED BY <3>2, Zenon
  <2>2. /\ File(1) \in D!DiskNodes /\ File(5) \in D!DiskNodes /\ Link(1) \in D!DiskNodes
        /\ Nothing \in D!DiskNodes /\ Other("dir") \in D!DiskNodes /\ Other("busy") \in D!DiskNodes
        /\ Other("dead") \in D!DiskNodes
    <3>1. 1 \in Sizes /\ 5 \in Sizes
      BY FileAssumption
    <3> QED BY <3>1 DEF File, Link, Nothing, Other, D!DiskNodes, D!None, D!Dir
  <2>3. x \in D!DiskNodes /\ y \in D!DiskNodes
    BY <2>2
  <2>4. \A u, v, w \in D!DiskNodes : [a |-> u, b |-> v, d |-> w] \in [D!Names -> D!DiskNodes]
    BY DEF D!Names
  <2>5. \A u, v, w \in [D!Names -> D!DiskNodes] :
          [root |-> u, cwd |-> v, sub |-> w] \in [D!Places -> [D!Names -> D!DiskNodes]]
    BY DEF D!Places
  <2> QED BY <2>1, <2>2, <2>3, <2>4, <2>5
<1>3. D!Typed
  <2>1. [at |-> "cwd", last |-> ""] \in [at : D!Places, last : {""}] /\ "cwd" \in D!Places
    BY DEF D!Places
  <2>2. batch \in [names : Seq(D!Names), first : D!DiskNodes]
    BY <1>1, DiNodes
  <2>3. entries \in Seq(D!Entry) /\ 0 \in Nat
    <3>1. <<>> \in Seq(D!Entry) /\ 0 \in Nat
      OBVIOUS
    <3> QED BY ONLY <1>1, <3>1
  <2> QED BY <1>1, <1>2, <2>1, <2>2, <2>3 DEF D!Typed, D!TypeOK
<1>4. D!OpensInOrder /\ D!ReadsTheDirectory /\ D!SeenIsListed /\ D!ListedOnce
      /\ D!SizesAreTheirs /\ D!SmallerFirst /\ D!HandlesAreKept
  <2>1. opened <= opens /\ ~(lost > 0) /\ opened # 1
    <3>1. opened = 0 /\ lost = 0 /\ opens = 0
      BY <1>1
    <3> QED BY ONLY <3>1
  <2> QED BY <1>1, <2>1 DEF D!OpensInOrder, D!ReadsTheDirectory, D!SeenIsListed, D!ListedOnce,
                            D!SizesAreTheirs, D!SmallerFirst, D!HandlesAreKept
<1> QED BY <1>3, <1>4 DEF D!InOrder

LEMMA DiNext ==
    ASSUME D!InOrder, [D!Next]_(ofDirectory)
    PROVE  D!InOrder'
<1>1. CASE UNCHANGED ofDirectory
  <2>1. UNCHANGED <<platform, world, pattern, entries, single, handle, place, batch, seen, pc,
                    result, order, steady, changed, opened, lost, opens>>
    BY <1>1, Zenon DEF ofDirectory
  <2>2. D!Typed'
    BY <2>1, Zenon DEF D!InOrder, D!Typed, D!TypeOK
  <2>3. D!OpensInOrder' /\ D!ReadsTheDirectory'
    BY <2>1, Zenon DEF D!InOrder, D!OpensInOrder, D!ReadsTheDirectory, D!Wild
  <2>4. D!SeenIsListed'
    <3>1. /\ D!InEntries' = D!InEntries /\ D!InBatch' = D!InBatch /\ D!CutShort' = D!CutShort
          /\ \A m : D!Fits(m)' <=> D!Fits(m)
      BY <2>1, Zenon DEF D!InEntries, D!InBatch, D!CutShort, D!Fits, D!Wild
    <3>2. D!SeenIsListed
      BY DEF D!InOrder
    <3> QED BY <2>1, <3>1, <3>2 DEF D!SeenIsListed
  <2>5. D!ListedOnce' /\ D!SizesAreTheirs'
    BY <2>1, Zenon DEF D!InOrder, D!ListedOnce, D!SizesAreTheirs, D!IsLink
  <2>6. D!SmallerFirst' /\ D!HandlesAreKept'
    BY <2>1, Zenon DEF D!InOrder, D!SmallerFirst, D!HandlesAreKept, D!DifferencesFit
  <2> QED BY <2>2, <2>3, <2>4, <2>5, <2>6, Zenon DEF D!InOrder
<1>2. CASE D!Reading
  <2>1. \/ D!ReadUnix \/ D!ReadWindows \/ D!ReadAmiga4 \/ D!FillBuffer \/ D!ReadBuffer
        \/ D!EndOfDirectory \/ D!ReadingFails
    BY <1>2 DEF D!Reading
  <2> QED BY <1>2, <2>1, DiReadUnix, DiReadWindows, DiReadAmiga4, DiFillBuffer, DiReadBuffer, DiReadEnds
<1>3. CASE D!Change \/ D!Open \/ D!OpenDirectory \/ D!OpenRemote \/ D!Close \/ D!Read
  BY <1>3, DiChange, DiOpen, DiOpenDirectory, DiOpenRemote, DiClose, DiRead
<1> QED BY <1>1, <1>2, <1>3 DEF D!Next

\* What is asked of a listing follows.
LEMMA DiTimes ==
    ASSUME D!Typed, D!ListedOnce, opened = 1, NEW n \in D!Names
    PROVE  D!Times(n) <= 1 /\ (n \in D!InEntries => D!Times(n) = 1)
<1> DEFINE S == {i \in DOMAIN entries : entries[i].name = n}
<1>1. D!Times(n) = Cardinality(S)
  BY Zenon DEF D!Times, D!Cardinality, Cardinality
<1>2. \A i, j \in S : i = j
  BY DEF D!ListedOnce
<1>3. CASE S = {}
  <2>1. n \notin D!InEntries
    BY <1>3 DEF D!InEntries
  <2>2. Cardinality(S) = 0
    BY <1>3, FS_EmptySet
  <2> QED BY <1>1, <2>1, <2>2
<1>4. CASE S # {}
  <2>1. PICK i \in S : TRUE
    BY <1>4
  <2> HIDE DEF S
  <2>2. S = {i}
    BY <1>2, <2>1
  <2>3. Cardinality(S) = 1
    BY <2>2, FS_Singleton
  <2> QED BY <1>1, <2>3
<1> QED BY <1>3, <1>4

LEMMA DiShows ==
    ASSUME D!InOrder
    PROVE  D!TypeOK /\ D!ListingIsRight /\ D!HandlesAreKept
<1>1. /\ D!Typed /\ D!OpensInOrder /\ D!ReadsTheDirectory /\ D!SeenIsListed /\ D!ListedOnce
      /\ D!SizesAreTheirs /\ D!SmallerFirst /\ D!HandlesAreKept
  BY DEF D!InOrder
<1>2. (handle = "open" /\ pc = "idle" /\ ~single) =>
          \/ ~D!Wild(pattern) /\ pattern.last # "" /\ place = "sub"
          \/ place = pattern.at
          \/ platform = "unix" /\ pattern.at = "root"
  BY <1>1 DEF D!ReadsTheDirectory
<1>3. opened = 1 => \A n \in D!Names : D!Times(n) <= 1
  BY <1>1, DiTimes
<1>4. (opened = 1 /\ pc = "idle" /\ handle = "open" /\ result = "KErrNone" /\ order # "unread") =>
          \A n \in steady : D!Fits(n) => D!Times(n) = 1 \/ D!CutShort
  <2> SUFFICES ASSUME opened = 1, pc = "idle", handle = "open", result = "KErrNone", order # "unread",
                      NEW n \in steady, D!Fits(n), ~D!CutShort
               PROVE  D!Times(n) = 1
    OBVIOUS
  <2>1. steady \subseteq seen /\ batch.names = <<>>
    BY <1>1 DEF D!SeenIsListed
  <2>2. n \in seen \ D!InBatch
    BY <2>1 DEF D!InBatch
  <2>3. n \in D!InEntries
    BY <1>1, <2>2 DEF D!SeenIsListed
  <2>4. n \in D!Names
    BY <1>1, <2>1, DiTyped
  <2> QED BY <1>1, <2>3, <2>4, DiTimes
<1>5. D!TypeOK
  BY <1>1 DEF D!Typed
<1>6. D!ListingIsRight
  BY <1>1, <1>2, <1>3, <1>4, Zenon DEF D!ListingIsRight, D!SizesAreTheirs, D!SmallerFirst
<1> QED BY <1>1, <1>5, <1>6

--------------------------------------------------------------------------------
(***************************************************************************)
(* StdPool.  What its operations do to the lists.                          *)
(***************************************************************************)
ListsAreRight == Represents(link, items) /\ CountsAgree /\ off \subseteq Nodes

LEMMA PoLists ==
    ListsAreRight <=> TypeOK /\ Linked
BY DEF ListsAreRight, Represents, CountsAgree, TypeOK, Linked, Links, Arrangements

LEMMA PoCount ==
    ASSUME ListsAreRight, Represents(link', items'), NEW l \in Lists, NEW d \in Int,
           NEW v, items' = With(items, l, v), Len(items'[l]) = Len(items[l]) + d,
           Counted(l, d)
    PROVE  CountsAgree'
<1>1. /\ items \in [Lists -> Seq(Nodes)] /\ items' \in [Lists -> Seq(Nodes)]
      /\ count \in [Lists -> Nat] /\ \A q \in Lists : count[q] = Len(items[q])
  BY DEF ListsAreRight, Represents, Arrangements, CountsAgree
<1>2. ASSUME NEW q \in Lists PROVE count'[q] = Len(items'[q]) /\ Len(items'[q]) \in Nat
  <2>1. CASE q = l
    BY <1>1, <2>1 DEF Counted
  <2>2. CASE q # l
    BY <1>1, <2>2 DEF Counted, With
  <2> QED BY <2>1, <2>2
<1>3. count' \in [Lists -> Nat]
  <2>1. count' = [q \in Lists |-> count'[q]]
    BY <1>1 DEF Counted
  <2> QED BY <2>1, <1>2
<1> QED BY <1>2, <1>3 DEF CountsAgree

LEMMA PoMembers ==
    ASSUME ListsAreRight, NEW l \in Lists
    PROVE  /\ items[l] \in Seq(Nodes) /\ Len(items[l]) \in Nat /\ DOMAIN items[l] = 1 .. Len(items[l])
           /\ Members(l) = {items[l][i] : i \in 1 .. Len(items[l])}
           /\ Members(l) \subseteq Nodes
<1>1. items[l] \in Seq(Nodes)
  BY DEF ListsAreRight, Represents, Arrangements
<1>2. Len(items[l]) \in Nat /\ DOMAIN items[l] = 1 .. Len(items[l])
      /\ \A i \in 1 .. Len(items[l]) : items[l][i] \in Nodes
  BY <1>1, LenProperties, ElementOfSeq
<1> QED BY <1>1, <1>2 DEF Members, Places

LEMMA PoAdd ==
    ASSUME ListsAreRight, NEW l \in Lists, NEW n \in Nodes, addTail(l, n)
    PROVE  /\ ListsAreRight'
           /\ Members(l)' = Members(l) \cup {n}
           /\ \A m \in Lists \ {l} : Members(m)' = Members(m)
<1> DEFINE i == Len(items[l]) + 1
<1>1. /\ items[l] \in Seq(Nodes) /\ Len(items[l]) \in Nat /\ i \in 1 .. Len(items[l]) + 1
      /\ DOMAIN items[l] = 1 .. Len(items[l]) /\ i - 1 = Len(items[l])
      /\ Represents(link, items) /\ items \in [Lists -> Seq(Nodes)]
  BY PoMembers, ItemsTyped DEF ListsAreRight
<1>2. OnNone(items, n)
  BY FreshOnNone DEF addTail
<1>3. /\ link' = Inserted(link, Cell(l, items[l], i - 1), n, Cell(l, items[l], i))
      /\ items' = With(items, l, InsertAt(items[l], i, n))
      /\ Counted(l, 1) /\ off' = off \ {n}
  BY <1>1, Ends DEF addTail, Added, With
<1> HIDE DEF i
<1>4. Represents(link', items') /\ Len(items'[l]) = Len(items[l]) + 1
  BY <1>1, <1>2, <1>3, InsertNode
<1>5. CountsAgree'
  BY <1>3, <1>4, PoCount
<1>6. ListsAreRight'
  BY <1>3, <1>4, <1>5 DEF ListsAreRight
<1>7. Members(l)' = Members(l) \cup {n}
  <2> DEFINE t == items'[l]
  <2>1. t = InsertAt(items[l], i, n)
    BY <1>1, <1>3 DEF With
  <2>2. \A j \in 1 .. Len(items[l]) + 1 : t[j] = IF j < i THEN items[l][j] ELSE n
    <3>1. \A j \in 1 .. Len(items[l]) + 1 :
             /\ j < i => InsertAt(items[l], i, n)[j] = items[l][j]
             /\ j = i => InsertAt(items[l], i, n)[j] = n
      BY <1>1, InsertAtFacts
    <3>2. \A j \in 1 .. Len(items[l]) + 1 : j < i \/ j = i
      BY <1>1
    <3> QED BY <2>1, <3>1, <3>2
  <2>3. Members(l)' = {t[j] : j \in 1 .. Len(items[l]) + 1}
    <3>1. Members(l)' = {t[j] : j \in DOMAIN t}
      BY DEF Members, Places
    <3>2. t \in Seq(Nodes) /\ Len(t) = Len(items[l]) + 1
      BY <1>4 DEF Represents, Arrangements
    <3>3. DOMAIN t = 1 .. Len(items[l]) + 1
      BY <3>2, LenProperties
    <3> QED BY <3>1, <3>3
  <2>4. Members(l) = {items[l][j] : j \in 1 .. Len(items[l])}
    BY PoMembers
  <2>5. /\ \A j \in 1 .. Len(items[l]) : j \in 1 .. Len(items[l]) + 1 /\ j < i
        /\ i \in 1 .. Len(items[l]) + 1 /\ ~(i < i)
        /\ \A j \in 1 .. Len(items[l]) + 1 : j < i => j \in 1 .. Len(items[l])
    BY <1>1
  <2> HIDE DEF t
  <2> QED BY <2>2, <2>3, <2>4, <2>5
<1>8. \A m \in Lists \ {l} : Members(m)' = Members(m)
  BY <1>1, <1>3 DEF Members, Places, With
<1> QED BY <1>6, <1>7, <1>8

LEMMA PoTake ==
    ASSUME ListsAreRight, NEW l \in Lists, items[l] # <<>>, NEW n, n = items[l][1],
           link' = Cleared(Bypassed(link, n), n), TakenOff(l, 1, n)
    PROVE  /\ ListsAreRight'
           /\ n \in Members(l) /\ Members(l)' = Members(l) \ {n}
           /\ \A m \in Lists \ {l} : Members(m)' = Members(m)
<1> DEFINE k == Bypassed(link, n)
<1>1. /\ items[l] \in Seq(Nodes) /\ Len(items[l]) \in Nat /\ 1 \in 1 .. Len(items[l])
      /\ DOMAIN items[l] = 1 .. Len(items[l])
      /\ Represents(link, items) /\ items \in [Lists -> Seq(Nodes)]
  <2>1. items[l] \in Seq(Nodes) /\ DOMAIN items[l] = 1 .. Len(items[l]) /\ Len(items[l]) \in Nat
        /\ Represents(link, items) /\ items \in [Lists -> Seq(Nodes)]
    BY PoMembers, ItemsTyped DEF ListsAreRight
  <2> QED BY <2>1
<1>2. items' = With(items, l, RemoveAt(items[l], 1)) /\ Counted(l, -1) /\ off' = off \cup {n}
  BY DEF TakenOff, With
<1>3. /\ Represents(k, items') /\ Len(items'[l]) = Len(items[l]) - 1
      /\ n \in Nodes /\ OnNone(items', n)
  <2>1. PICK i \in 1 .. Len(items[l]) : i = 1
    BY <1>1
  <2>2. n = items[l][i] /\ items' = With(items, l, RemoveAt(items[l], i))
    BY <1>2, <2>1
  <2>3. k = Bypassed(link, n)
    OBVIOUS
  <2>4. Represents(link, items)
    BY <1>1
  <2> HIDE DEF k
  <2> QED BY <2>2, <2>3, <2>4, RemoveNode
<1>4. link' = Cleared(k, n)
  OBVIOUS
<1> HIDE DEF k
<1>5. Represents(link', items')
  BY <1>3, <1>4, ClearNode
<1>6. CountsAgree'
  <2>1. Len(items'[l]) = Len(items[l]) + -1 /\ -1 \in Int
    <3>1. Len(items[l]) \in Nat /\ Len(items'[l]) = Len(items[l]) - 1
      BY <1>1, <1>3
    <3> QED BY ONLY <3>1
  <2> QED BY <1>2, <1>5, <2>1, PoCount
<1>7. ListsAreRight'
  BY <1>2, <1>3, <1>5, <1>6 DEF ListsAreRight
<1>8. n \in Members(l) /\ Members(l)' = Members(l) \ {n}
  <2> DEFINE t == items'[l]
  <2>1. t = RemoveAt(items[l], 1)
    BY <1>1, <1>2 DEF With
  <2>2. \A j \in 1 .. Len(items[l]) - 1 : t[j] = items[l][j + 1]
    <3>1. \A j \in 1 .. Len(items[l]) - 1 : j >= 1 => RemoveAt(items[l], 1)[j] = items[l][j + 1]
      BY <1>1, RemoveAtFacts
    <3> QED BY <1>1, <2>1, <3>1
  <2>3. Members(l)' = {t[j] : j \in 1 .. Len(items[l]) - 1}
    <3>1. Members(l)' = {t[j] : j \in DOMAIN t}
      BY DEF Members, Places
    <3>2. t \in Seq(Nodes) /\ Len(t) = Len(items[l]) - 1
      BY <1>3, <1>5 DEF Represents, Arrangements
    <3>3. DOMAIN t = 1 .. Len(items[l]) - 1
      BY <3>2, LenProperties
    <3> QED BY <3>1, <3>3
  <2>4. Members(l) = {items[l][j] : j \in 1 .. Len(items[l])}
    BY PoMembers
  <2>5. \A i, j \in 1 .. Len(items[l]) : items[l][i] = items[l][j] => i = j
    BY <1>1 DEF Represents, Distinct
  <2>6. \A j \in 1 .. Len(items[l]) - 1 : j + 1 \in 1 .. Len(items[l]) /\ j + 1 # 1
    BY <1>1
  <2>7. \A j \in 1 .. Len(items[l]) : j # 1 => j - 1 \in 1 .. Len(items[l]) - 1 /\ (j - 1) + 1 = j
    BY <1>1
  <2> HIDE DEF t
  <2>8. Members(l)' \subseteq Members(l) \ {n}
    BY <1>1, <2>2, <2>3, <2>4, <2>5, <2>6
  <2>9. Members(l) \ {n} \subseteq Members(l)'
    <3> SUFFICES ASSUME NEW j \in 1 .. Len(items[l]), items[l][j] # n
                 PROVE  items[l][j] \in Members(l)'
      BY <2>4
    <3>1. j - 1 \in 1 .. Len(items[l]) - 1 /\ (j - 1) + 1 = j
      BY <2>7
    <3>2. t[j - 1] = items[l][j]
      BY <2>2, <3>1
    <3> QED BY <2>3, <3>1, <3>2
  <2> QED BY <1>1, <2>4, <2>8, <2>9
<1>9. \A m \in Lists \ {l} : Members(m)' = Members(m)
  BY <1>1, <1>2 DEF Members, Places, With
<1> QED BY <1>7, <1>8, <1>9

LEMMA PoReset ==
    ASSUME ListsAreRight, NEW l \in Lists, Reset(l)
    PROVE  /\ ListsAreRight'
           /\ Members(l)' = {}
           /\ \A m \in Lists \ {l} : Members(m)' = Members(m)
<1>1. Represents(link, items) /\ link' = Emptied(link, l)
      /\ items' = With(items, l, <<>>) /\ items \in [Lists -> Seq(Nodes)]
      /\ count' = [count EXCEPT ![l] = 0] /\ off' = off
      /\ count \in [Lists -> Nat] /\ \A q \in Lists : count[q] = Len(items[q])
  BY ItemsTyped DEF ListsAreRight, CountsAgree, Reset, With
<1>2. Represents(link', items') /\ Len(items'[l]) = 0
  BY <1>1, EmptyList
<1>3. ASSUME NEW q \in Lists PROVE count'[q] = Len(items'[q])
  <2>1. CASE q = l
    BY <1>1, <1>2, <2>1
  <2>2. CASE q # l
    BY <1>1, <2>2 DEF With
  <2> QED BY <2>1, <2>2
<1>4. ListsAreRight'
  BY <1>1, <1>2, <1>3 DEF ListsAreRight, CountsAgree
<1>5. items'[l] = <<>> /\ \A m \in Lists \ {l} : items'[m] = items[m]
  BY <1>1 DEF With
<1> QED BY <1>4, <1>5 DEF Members, Places

\* The first node of a list, or Null.
LEMMA PoHead ==
    ASSUME ListsAreRight, NEW l \in Lists
    PROVE  /\ getHead(l) = Null <=> items[l] = <<>>
           /\ link.next[HeadOf(l)] = TailOf(l) <=> items[l] = <<>>
           /\ items[l] # <<>> =>
                /\ getHead(l) = items[l][1] /\ link.next[HeadOf(l)] = items[l][1]
                /\ items[l][1] \in Nodes /\ link.prev[items[l][1]] = HeadOf(l)
           /\ items[l] = <<>> => Members(l) = {}
<1>1. /\ Represents(link, items) /\ items[l] \in Seq(Nodes) /\ Len(items[l]) \in Nat
  BY PoMembers DEF ListsAreRight
<1>2. link.next[HeadOf(l)] = Cell(l, items[l], 1) /\ HeadOf(l) = Cell(l, items[l], 0)
  BY <1>1, Ends
<1>3. CASE items[l] = <<>>
  <2>1. Cell(l, items[l], 1) = TailOf(l)
    BY <1>3 DEF Cell
  <2>2. Members(l) = {}
    BY <1>3 DEF Members, Places
  <2> QED BY <1>2, <1>3, <2>1, <2>2 DEF getHead
<1>4. CASE items[l] # <<>>
  <2>1. 1 \in 1 .. Len(items[l]) /\ 1 # Len(items[l]) + 1 /\ 0 \in 0 .. Len(items[l]) /\ 0 + 1 = 1
        /\ 1 # 0
    BY <1>1, <1>4
  <2>2. Cell(l, items[l], 1) = items[l][1] /\ items[l][1] \in Nodes
    BY <1>1, <2>1, ElementOfSeq DEF Cell
  <2>3. items[l][1] # TailOf(l) /\ items[l][1] # Null
    BY <2>2, DummyCells, ListAssumption DEF Cells
  <2>4. link.prev[items[l][1]] = HeadOf(l)
    BY <1>1, <1>2, <2>1, <2>2, ChainStep
  <2> QED BY <1>2, <1>4, <2>2, <2>3, <2>4 DEF getHead
<1> QED BY <1>3, <1>4

--------------------------------------------------------------------------------
(***************************************************************************)
(* What the pool has.                                                      *)
(***************************************************************************)
Owned == UNION {InBlock(b) : b \in live}

LEMMA PoParts ==
    ASSUME PoolInOrder
    PROVE  /\ ListsAreRight
           /\ pool \in [created : BOOLEAN, num : Nat, extensible : BOOLEAN]
           /\ running \in [func : {"none", "Create", "GetNode", "freeNodes", "freeBuffers"},
                           todo : Seq(Nodes)]
           /\ live \subseteq Blocks
           /\ m_oBuffers \in Lists /\ m_oNodes \in Lists /\ m_oBuffers # m_oNodes
           /\ Free \subseteq Nodes
           /\ running.func \in {"none", "Create", "GetNode", "freeNodes", "freeBuffers"}
           /\ running.todo \in Seq(Nodes)
<1>1. ListsAreRight
  BY PoLists DEF PoolInOrder, PoolTyped
<1> QED BY <1>1, PoMembers, PoolAssumption DEF PoolInOrder, PoolTyped, Free

LEMMA PoBlocks ==
    /\ \A b \in Blocks : /\ b \in Seq(Nodes) /\ Len(b) \in Nat /\ Len(b) >= 1 /\ b[1] \in Nodes
                         /\ InBlock(b) \subseteq Nodes /\ b[1] \notin InBlock(b)
    /\ \A b, c \in Blocks : /\ b[1] = c[1] => b = c
                            /\ b # c => InBlock(b) \cap InBlock(c) = {}
                            /\ b[1] \notin InBlock(c)
<1>1. ASSUME NEW b \in Blocks
      PROVE  /\ b \in Seq(Nodes) /\ Len(b) \in Nat /\ Len(b) >= 1 /\ DOMAIN b = 1 .. Len(b)
             /\ 1 \in DOMAIN b /\ \A i \in 2 .. Len(b) : i \in DOMAIN b /\ i # 1
             /\ \A i \in DOMAIN b : b[i] \in Nodes
  <2>1. b \in Seq(Nodes) /\ b # <<>>
    BY PoolAssumption
  <2>2. Len(b) \in Nat /\ DOMAIN b = 1 .. Len(b) /\ Len(b) # 0
    BY <2>1, LenProperties
  <2>3. \A i \in DOMAIN b : b[i] \in Nodes
    BY <2>1, <2>2, ElementOfSeq
  <2> QED BY <2>1, <2>2, <2>3
<1>2. ASSUME NEW b \in Blocks, NEW c \in Blocks
      PROVE  /\ b[1] = c[1] => b = c
             /\ b # c => InBlock(b) \cap InBlock(c) = {}
             /\ b[1] \notin InBlock(c)
  <2>1. \A i \in DOMAIN b, j \in DOMAIN c : b[i] = c[j] => b = c /\ i = j
    BY PoolAssumption
  <2>2. b[1] = c[1] => b = c
    BY <1>1, <2>1
  <2>3. b[1] \notin InBlock(c)
    BY <1>1, <2>1 DEF InBlock
  <2>4. b # c => InBlock(b) \cap InBlock(c) = {}
    BY <1>1, <2>1 DEF InBlock
  <2> QED BY <2>2, <2>3, <2>4
<1>3. ASSUME NEW b \in Blocks PROVE InBlock(b) \subseteq Nodes
  BY <1>1 DEF InBlock
<1> QED BY <1>1, <1>2, <1>3

LEMMA PoTail ==
    ASSUME NEW b \in Blocks
    PROVE  /\ Tail(b) \in Seq(Nodes)
           /\ {Tail(b)[i] : i \in DOMAIN Tail(b)} = InBlock(b)
           /\ \A i, j \in DOMAIN Tail(b) : Tail(b)[i] = Tail(b)[j] => i = j
<1>1. b \in Seq(Nodes) /\ b # <<>> /\ Len(b) \in Nat /\ DOMAIN b = 1 .. Len(b)
  BY PoolAssumption, LenProperties
<1>2. /\ Tail(b) \in Seq(Nodes) /\ Len(Tail(b)) = Len(b) - 1
      /\ \A i \in 1 .. Len(Tail(b)) : Tail(b)[i] = b[i + 1]
  BY <1>1, HeadTailProperties
<1>3. DOMAIN Tail(b) = 1 .. Len(b) - 1
  BY <1>2, LenProperties
<1>4. \A i, j \in 1 .. Len(b) : b[i] = b[j] => i = j
  BY <1>1, PoolAssumption
<1>5. /\ \A i \in 1 .. Len(b) - 1 : i + 1 \in 2 .. Len(b) /\ i + 1 \in 1 .. Len(b)
      /\ \A i \in 2 .. Len(b) : i - 1 \in 1 .. Len(b) - 1 /\ (i - 1) + 1 = i
      /\ \A i, j \in 1 .. Len(b) - 1 : i + 1 = j + 1 => i = j
  BY <1>1
<1>6. \A i \in DOMAIN Tail(b) : Tail(b)[i] = b[i + 1]
  BY <1>2, <1>3
<1>7. \A i, j \in DOMAIN Tail(b) : Tail(b)[i] = Tail(b)[j] => i = j
  BY <1>3, <1>4, <1>5, <1>6
<1>8. {Tail(b)[i] : i \in DOMAIN Tail(b)} \subseteq InBlock(b)
  BY <1>3, <1>5, <1>6 DEF InBlock
<1>9. InBlock(b) \subseteq {Tail(b)[i] : i \in DOMAIN Tail(b)}
  <2> SUFFICES ASSUME NEW i \in 2 .. Len(b) PROVE b[i] \in {Tail(b)[j] : j \in DOMAIN Tail(b)}
    BY DEF InBlock
  <2>1. i - 1 \in DOMAIN Tail(b) /\ Tail(b)[i - 1] = b[i]
    BY <1>3, <1>5, <1>6
  <2> QED BY <2>1
<1> QED BY <1>2, <1>7, <1>8, <1>9

\* What is left to show of a step.
LEMMA PoKeeps ==
    ASSUME PoolInOrder, ListsAreRight',
           pool' \in [created : BOOLEAN, num : Nat, extensible : BOOLEAN],
           running' \in [func : {"none", "Create", "GetNode", "freeNodes", "freeBuffers"},
                         todo : Seq(Nodes)],
           live' \subseteq Blocks, EveryItemOnce', NoFreedLink', CallsAreInOrder'
    PROVE  PoolInOrder'
<1>1. TypeOK' /\ Linked'
  BY PoLists, PTL
<1> QED BY <1>1 DEF PoolInOrder, PoolTyped

\* The caller writes where the links of an item were.
LEMMA PoDirty ==
    ASSUME ListsAreRight, NEW n \in Nodes, \A l \in Lists : n \notin Members(l),
           link' = [link EXCEPT !.prev[n] = Garbage, !.next[n] = Garbage],
           items' = items
    PROVE  Represents(link', items')
<1>1. /\ link \in Links /\ items \in Arrangements /\ Distinct(items)
      /\ \A m \in Lists : Chain(link, m, items[m])
  BY DEF ListsAreRight, Represents
<1>2. /\ link' \in Links
      /\ link'.next = [link.next EXCEPT ![n] = Garbage]
      /\ link'.prev = [link.prev EXCEPT ![n] = Garbage]
  BY <1>1 DEF Links, Pointers
<1>3. \A x \in Cells : x # n => link'.next[x] = link.next[x] /\ link'.prev[x] = link.prev[x]
  BY <1>1, <1>2 DEF Links
<1>4. OnNone(items, n)
  BY DEF OnNone, Members, Places
<1>5. ASSUME NEW m \in Lists PROVE Chain(link', m, items[m])
  <2>1. items[m] \in Seq(Nodes) /\ Len(items[m]) \in Nat
    BY <1>1 DEF Arrangements
  <2>2. link'.prev[HeadOf(m)] = Null /\ link'.next[TailOf(m)] = Null
    BY <1>1, <1>3, DummyCells DEF Chain
  <2>3. ASSUME NEW j \in 0 .. Len(items[m])
        PROVE  /\ link'.next[Cell(m, items[m], j)] = Cell(m, items[m], j + 1)
               /\ link'.prev[Cell(m, items[m], j + 1)] = Cell(m, items[m], j)
    <3>1. j + 1 \in 0 .. Len(items[m]) + 1 /\ j \in 0 .. Len(items[m]) + 1
      BY <2>1
    <3>2. Cell(m, items[m], j) \in Cells /\ Cell(m, items[m], j + 1) \in Cells
      BY <3>1, <2>1, CellInCells
    <3>3. Cell(m, items[m], j) # n /\ Cell(m, items[m], j + 1) # n
      BY <3>1, <1>1, <1>4, NotOnNone
    <3>4. /\ link.next[Cell(m, items[m], j)] = Cell(m, items[m], j + 1)
          /\ link.prev[Cell(m, items[m], j + 1)] = Cell(m, items[m], j)
      BY <1>1 DEF Chain
    <3> QED BY <3>2, <3>3, <3>4, <1>3
  <2> QED BY <2>2, <2>3 DEF Chain
<1> QED BY <1>1, <1>2, <1>5 DEF Represents

LEMMA PoStill ==
    ASSUME ListsAreRight, UNCHANGED vars
    PROVE  ListsAreRight' /\ \A l \in Lists : Members(l)' = Members(l)
BY DEF ListsAreRight, CountsAgree, vars, Members, Places

LEMMA PoExtend ==
    ASSUME PoolInOrder, NEW func \in {"Create", "GetNode"}, NEW num, Extend(func, num),
           running.todo = <<>>, held' = held,
           running.func \notin {"freeNodes", "freeBuffers"},
           pool' \in [created : BOOLEAN, num : Nat, extensible : BOOLEAN], pool'.created
    PROVE  PoolInOrder'
<1>0. /\ PoolInOrder /\ ListsAreRight /\ Free \subseteq Nodes /\ live \subseteq Blocks
      /\ m_oBuffers \in Lists /\ m_oNodes \in Lists /\ m_oBuffers # m_oNodes
  BY PoParts
<1>1. PICK b \in Blocks \ live :
        /\ addTail(m_oBuffers, b[1])
        /\ live' = live \cup {b}
        /\ running' = [func |-> func, todo |-> Tail(b)]
  BY DEF Extend
<1>2. b[1] \in Nodes
  BY PoBlocks
<1>3. /\ ListsAreRight'
      /\ Members(m_oBuffers)' = Members(m_oBuffers) \cup {b[1]}
      /\ Members(m_oNodes)' = Members(m_oNodes)
  BY <1>0, <1>1, <1>2, PoAdd
<1>4. /\ Tail(b) \in Seq(Nodes)
      /\ {Tail(b)[i] : i \in DOMAIN Tail(b)} = InBlock(b)
      /\ \A i, j \in DOMAIN Tail(b) : Tail(b)[i] = Tail(b)[j] => i = j
  BY PoTail
<1>5. /\ ToAdd' = InBlock(b) /\ ToAdd = {} /\ Free' = Free
      /\ Owned' = Owned \cup InBlock(b)
      /\ running'.func = func /\ running'.todo = Tail(b)
  <2>1. running'.func = func /\ running'.todo = Tail(b)
    BY <1>1
  <2>2. ToAdd' = InBlock(b)
    BY <2>1, <1>4 DEF ToAdd
  <2>3. ToAdd = {}
    BY DEF ToAdd
  <2>4. Owned' = Owned \cup InBlock(b)
    BY <1>1 DEF Owned
  <2> QED BY <1>3, <2>1, <2>2, <2>3, <2>4 DEF Free
<1>6. /\ Free \cup held = Owned /\ Free \cap held = {}
      /\ Free \subseteq Owned /\ Members(m_oBuffers) = {c[1] : c \in live}
  BY <1>0, <1>5 DEF PoolInOrder, EveryItemOnce, NoFreedLink, Owned
<1>7. Owned \cap InBlock(b) = {}
  BY <1>0, PoBlocks DEF Owned
<1>8. EveryItemOnce'
  <2>1. Free' \cup held' \cup ToAdd' = Owned'
    BY <1>5, <1>6
  <2>2. Free' \cap held' = {} /\ Free' \cap ToAdd' = {} /\ held' \cap ToAdd' = {}
    BY <1>5, <1>6, <1>7
  <2> QED BY <2>1, <2>2 DEF EveryItemOnce, Owned
<1>9. NoFreedLink'
  <2>1. Free' \subseteq Owned'
    BY <1>5, <1>6
  <2>2. Members(m_oBuffers)' = {c[1] : c \in live'}
    BY <1>1, <1>3, <1>6
  <2>3. running' # Idle
    BY <1>5 DEF Idle
  <2> QED BY <2>1, <2>2, <2>3 DEF NoFreedLink, Owned
<1>10. CallsAreInOrder'
  <2>1. running'.func \in {"Create", "GetNode"}
    BY <1>5
  <2> QED BY <2>1, <1>4, <1>5 DEF CallsAreInOrder
<1>11. /\ live' \subseteq Blocks
       /\ running' \in [func : {"none", "Create", "GetNode", "freeNodes", "freeBuffers"},
                         todo : Seq(Nodes)]
  BY <1>0, <1>1, <1>4
<1> QED BY <1>3, <1>8, <1>9, <1>10, <1>11, PoKeeps

\* A step that moves no node, and with it no item.
LEMMA PoQuiet ==
    ASSUME PoolInOrder, UNCHANGED <<vars, live, held>>, running'.todo = running.todo,
           pool' \in [created : BOOLEAN, num : Nat, extensible : BOOLEAN],
           running' \in [func : {"none", "Create", "GetNode", "freeNodes", "freeBuffers"},
                         todo : Seq(Nodes)],
           running.func \in {"freeNodes", "freeBuffers"} =>
               running'.func \in {"freeNodes", "freeBuffers"} \/ live = {},
           running'.func \notin {"Create", "GetNode"} => running.todo = <<>>,
           running'.func \in {"freeNodes", "freeBuffers"} => held = {},
           running'.func = "freeBuffers" => Free = {},
           ~pool'.created => live = {} /\ held = {} /\ ~pool'.extensible
    PROVE  PoolInOrder'
<1>0. /\ PoolInOrder /\ ListsAreRight /\ live \subseteq Blocks
      /\ m_oBuffers \in Lists /\ m_oNodes \in Lists
  BY PoParts
<1>1. ListsAreRight' /\ Free' = Free /\ Members(m_oBuffers)' = Members(m_oBuffers)
  BY <1>0, PoStill DEF Free
<1>2. ToAdd' = ToAdd /\ Owned' = Owned
  BY DEF ToAdd, Owned
<1>3. EveryItemOnce'
  <2>1. Free' \cap held' = {} /\ Free' \cap ToAdd' = {} /\ held' \cap ToAdd' = {}
    BY <1>0, <1>1, <1>2 DEF PoolInOrder, EveryItemOnce
  <2>2. ASSUME running'.func \notin {"freeNodes", "freeBuffers"}
        PROVE  Free' \cup held' \cup ToAdd' = Owned'
    <3>1. CASE running.func \notin {"freeNodes", "freeBuffers"}
      BY <3>1, <1>0, <1>1, <1>2 DEF PoolInOrder, EveryItemOnce, Owned
    <3>2. CASE running.func \in {"freeNodes", "freeBuffers"}
      <4>1. Owned = {} /\ Free \subseteq Owned
        BY <3>2, <2>2, <1>0 DEF Owned, PoolInOrder, NoFreedLink
      <4>2. running.todo = <<>> /\ held = {}
        BY <3>2, <1>0 DEF PoolInOrder, CallsAreInOrder
      <4>3. ToAdd = {}
        BY <4>2 DEF ToAdd
      <4> QED BY <4>1, <4>2, <4>3, <1>1, <1>2
    <3> QED BY <3>1, <3>2
  <2> QED BY <2>1, <2>2 DEF EveryItemOnce, Owned
<1>4. NoFreedLink'
  <2>1. Free' \subseteq Owned'
    BY <1>0, <1>1, <1>2 DEF PoolInOrder, NoFreedLink, Owned
  <2>2. Members(m_oBuffers)' = {c[1] : c \in live'}
    BY <1>0, <1>1 DEF PoolInOrder, NoFreedLink
  <2> QED BY <2>1, <2>2 DEF NoFreedLink, Owned
<1>5. CallsAreInOrder'
  BY <1>0, <1>1 DEF PoolInOrder, CallsAreInOrder
<1> QED BY <1>0, <1>1, <1>3, <1>4, <1>5, PoKeeps

LEMMA PoInit ==
    ASSUME PInit
    PROVE  PoolInOrder
<1>1. ListInv
  BY InitHolds DEF PInit
<1>2. TypeOK /\ Linked
  BY <1>1, InvType, InvLinked
<1>3. /\ items = [l \in Lists |-> <<>>] /\ pool = Unused /\ running = Idle
      /\ live = {} /\ held = {}
  BY DEF PInit, Init
<1>4. Free = {} /\ Members(m_oBuffers) = {} /\ ToAdd = {}
  <2>1. m_oBuffers \in Lists /\ m_oNodes \in Lists
    BY PoolAssumption
  <2>2. items[m_oBuffers] = <<>> /\ items[m_oNodes] = <<>> /\ running.todo = <<>>
    BY <1>3, <2>1 DEF Idle
  <2> QED BY <2>2 DEF Free, Members, Places, ToAdd
<1>5. PoolTyped
  BY <1>2, <1>3 DEF PoolTyped, Unused, Idle
<1>6. EveryItemOnce /\ NoFreedLink
  BY <1>3, <1>4 DEF EveryItemOnce, NoFreedLink
<1>7. CallsAreInOrder
  BY <1>3, <1>4 DEF CallsAreInOrder, Idle, Unused
<1> QED BY <1>2, <1>5, <1>6, <1>7 DEF PoolInOrder

LEMMA PoCreate ==
    ASSUME PoolInOrder, NEW b \in Blocks, NEW extensible \in BOOLEAN,
           Create(Len(b) - 1, extensible)
    PROVE  PoolInOrder'
<1> DEFINE num == Len(b) - 1
<1>1. num \in Nat
  BY PoBlocks
<1> HIDE DEF num
<1>2. /\ running = Idle /\ ~pool.created /\ held' = held
      /\ pool' = [created |-> TRUE, num |-> num, extensible |-> extensible]
  BY DEF Create, num
<1>3. /\ pool' \in [created : BOOLEAN, num : Nat, extensible : BOOLEAN] /\ pool'.created
      /\ running.func = "none" /\ running.todo = <<>>
  BY <1>1, <1>2 DEF Idle
<1>4. CASE Extend("Create", num)
  BY <1>2, <1>3, <1>4, PoExtend
<1>5. CASE NoMemory
  BY <1>2, <1>3, <1>5, PoQuiet, PoParts DEF NoMemory
<1> QED BY <1>4, <1>5 DEF Create, num

LEMMA PoAddItem ==
    ASSUME PoolInOrder, AddItem
    PROVE  PoolInOrder'
<1>0. /\ PoolInOrder /\ ListsAreRight /\ Free \subseteq Nodes /\ live \subseteq Blocks
      /\ m_oBuffers \in Lists /\ m_oNodes \in Lists /\ m_oBuffers # m_oNodes
      /\ running.todo \in Seq(Nodes)
      /\ running \in [func : {"none", "Create", "GetNode", "freeNodes", "freeBuffers"},
                       todo : Seq(Nodes)]
  BY PoParts
<1> DEFINE t == running.todo
           n == Head(t)
<1>1. /\ t # <<>> /\ t \in Seq(Nodes) /\ Len(t) \in Nat /\ DOMAIN t = 1 .. Len(t)
      /\ addTail(m_oNodes, n) /\ UNCHANGED <<pool, live, held>>
      /\ running' = [running EXCEPT !.todo = Tail(@)]
      /\ \A i, j \in DOMAIN t : t[i] = t[j] => i = j
  BY <1>0, LenProperties DEF AddItem, PoolInOrder, CallsAreInOrder
<1>2. /\ running'.todo = Tail(t) /\ running'.func = running.func
      /\ running' \in [func : {"none", "Create", "GetNode", "freeNodes", "freeBuffers"},
                        todo : Seq(Nodes)]
      /\ running.func \in {"Create", "GetNode"}
  <2>1. Tail(t) \in Seq(Nodes)
    BY <1>1, HeadTailProperties
  <2> QED BY <2>1, <1>0, <1>1 DEF PoolInOrder, CallsAreInOrder
<1> HIDE DEF t
<1>3. /\ n = t[1] /\ n \in Nodes /\ Tail(t) \in Seq(Nodes) /\ Len(Tail(t)) = Len(t) - 1
      /\ \A i \in 1 .. Len(Tail(t)) : Tail(t)[i] = t[i + 1]
      /\ 1 \in 1 .. Len(t)
  BY <1>1, HeadTailProperties
<1> HIDE DEF n
<1>4. /\ DOMAIN Tail(t) = 1 .. Len(t) - 1
      /\ \A i \in 1 .. Len(t) - 1 : Tail(t)[i] = t[i + 1] /\ i + 1 \in 1 .. Len(t) /\ i + 1 # 1
      /\ \A i \in 1 .. Len(t) : i # 1 => i - 1 \in 1 .. Len(t) - 1 /\ (i - 1) + 1 = i
      /\ \A i, j \in 1 .. Len(t) - 1 : i + 1 = j + 1 => i = j
  BY <1>1, <1>3
<1>5. /\ ToAdd = {t[i] : i \in 1 .. Len(t)}
      /\ ToAdd' = {Tail(t)[i] : i \in 1 .. Len(t) - 1}
  BY <1>1, <1>2, <1>4 DEF ToAdd, t
<1>6. ToAdd = ToAdd' \cup {n} /\ n \notin ToAdd'
  <2>1. ToAdd' \subseteq ToAdd /\ n \in ToAdd /\ n \notin ToAdd'
    BY <1>1, <1>3, <1>4, <1>5
  <2>2. ASSUME NEW i \in 1 .. Len(t) PROVE t[i] = n \/ t[i] \in ToAdd'
    <3>1. CASE i = 1
      BY <3>1, <1>3
    <3>2. CASE i # 1
      BY <3>2, <1>4, <1>5
    <3> QED BY <3>1, <3>2
  <2> QED BY <2>1, <2>2, <1>5
<1>7. \A i, j \in DOMAIN Tail(t) : Tail(t)[i] = Tail(t)[j] => i = j
  BY <1>1, <1>4
<1>8. /\ ListsAreRight' /\ Free' = Free \cup {n}
      /\ Members(m_oBuffers)' = Members(m_oBuffers)
  BY <1>0, <1>1, <1>3, PoAdd DEF Free
<1>9. /\ Free \cup held \cup ToAdd = Owned /\ Owned' = Owned /\ held' = held
      /\ Free \cap held = {} /\ Free \cap ToAdd = {} /\ held \cap ToAdd = {}
  <2>1. running.func \notin {"freeNodes", "freeBuffers"}
    BY <1>2
  <2> QED BY <2>1, <1>0, <1>1 DEF PoolInOrder, EveryItemOnce, Owned
<1>10. EveryItemOnce'
  <2>1. Free' \cup held' \cup ToAdd' = Owned'
    BY <1>6, <1>8, <1>9
  <2>2. Free' \cap held' = {} /\ Free' \cap ToAdd' = {} /\ held' \cap ToAdd' = {}
    BY <1>6, <1>8, <1>9
  <2> QED BY <2>1, <2>2 DEF EveryItemOnce, Owned
<1>11. NoFreedLink'
  <2>1. Free' \subseteq Owned'
    BY <1>6, <1>8, <1>9
  <2>2. Members(m_oBuffers)' = {c[1] : c \in live'}
    BY <1>0, <1>1, <1>8 DEF PoolInOrder, NoFreedLink
  <2>3. running' # Idle
    BY <1>2 DEF Idle
  <2> QED BY <2>1, <2>2, <2>3 DEF NoFreedLink, Owned
<1>12. CallsAreInOrder'
  <2>1. /\ running'.func \in {"Create", "GetNode"} /\ pool' = pool /\ live' = live
        /\ held' = held
    BY <1>1, <1>2
  <2> QED BY <2>1, <1>0, <1>2, <1>7 DEF PoolInOrder, CallsAreInOrder
<1> QED BY <1>0, <1>1, <1>2, <1>8, <1>10, <1>11, <1>12, PoKeeps, PoParts

LEMMA PoCreateReturns ==
    ASSUME PoolInOrder, CreateReturns \/ GetNodeFails
    PROVE  PoolInOrder'
<1>1. /\ running.todo = <<>> /\ running.func \in {"Create", "GetNode"}
      /\ running' = Idle /\ UNCHANGED <<vars, pool, live, held>>
  BY DEF CreateReturns, GetNodeFails
<1>2. ~pool.created => live = {} /\ held = {} /\ ~pool.extensible
  BY DEF PoolInOrder, CallsAreInOrder
<1>3. /\ pool' \in [created : BOOLEAN, num : Nat, extensible : BOOLEAN]
      /\ running' \in [func : {"none", "Create", "GetNode", "freeNodes", "freeBuffers"},
                         todo : Seq(Nodes)]
      /\ running'.todo = <<>> /\ running'.func = "none"
  <2>1. <<>> \in Seq(Nodes)
    OBVIOUS
  <2> QED BY <1>1, <2>1, PoParts DEF Idle
<1> QED BY <1>1, <1>2, <1>3, PoQuiet

LEMMA PoGetNode ==
    ASSUME PoolInOrder, GetNode
    PROVE  PoolInOrder'
<1>0. /\ PoolInOrder /\ ListsAreRight /\ Free \subseteq Nodes /\ live \subseteq Blocks
      /\ m_oBuffers \in Lists /\ m_oNodes \in Lists /\ m_oBuffers # m_oNodes
  BY PoParts
<1> DEFINE n == getHead(m_oNodes)
<1>1. /\ running.func \in {"none", "GetNode"} /\ running.todo = <<>> /\ running' = Idle
      /\ n # Null /\ remove(m_oNodes, 1) /\ held' = held \cup {n}
      /\ UNCHANGED <<pool, live>>
  BY DEF GetNode, HandOut
<1>2. items[m_oNodes] # <<>> /\ n = items[m_oNodes][1]
  BY <1>0, <1>1, PoHead
<1>3. /\ ListsAreRight' /\ n \in Free /\ Free' = Free \ {n}
      /\ Members(m_oBuffers)' = Members(m_oBuffers)
  <2>1. link' = Cleared(Bypassed(link, n), n) /\ TakenOff(m_oNodes, 1, n)
    BY <1>1, <1>2 DEF remove
  <2> HIDE DEF n
  <2> QED BY <1>0, <1>2, <2>1, PoTake DEF Free
<1> HIDE DEF n
<1>4. /\ running'.func = "none" /\ running'.todo = <<>> /\ ToAdd = {} /\ ToAdd' = {}
      /\ running' \in [func : {"none", "Create", "GetNode", "freeNodes", "freeBuffers"},
                        todo : Seq(Nodes)]
  <2>1. running'.func = "none" /\ running'.todo = <<>> /\ <<>> \in Seq(Nodes)
    BY <1>1 DEF Idle
  <2> QED BY <2>1, <1>1 DEF ToAdd, Idle
<1>5. /\ Free \cup held = Owned /\ Owned' = Owned /\ Free \cap held = {}
  BY <1>0, <1>1, <1>4 DEF PoolInOrder, EveryItemOnce, Owned
<1>6. EveryItemOnce'
  <2>1. Free' \cup held' \cup ToAdd' = Owned'
    BY <1>1, <1>3, <1>4, <1>5
  <2>2. Free' \cap held' = {} /\ Free' \cap ToAdd' = {} /\ held' \cap ToAdd' = {}
    BY <1>1, <1>3, <1>4, <1>5
  <2> QED BY <2>1, <2>2 DEF EveryItemOnce, Owned
<1>7. pool.created
  <2>1. SUFFICES ASSUME ~pool.created PROVE FALSE
    OBVIOUS
  <2>2. live = {} /\ n \in Owned
    BY <2>1, <1>0, <1>3, <1>5 DEF PoolInOrder, CallsAreInOrder
  <2> QED BY <2>2 DEF Owned
<1>8. NoFreedLink'
  <2>1. Free' \subseteq Owned'
    BY <1>3, <1>5
  <2>2. Members(m_oBuffers)' = {c[1] : c \in live'}
    BY <1>0, <1>1, <1>3 DEF PoolInOrder, NoFreedLink
  <2>3. pool'.created
    BY <1>1, <1>7
  <2> QED BY <2>1, <2>2, <2>3 DEF NoFreedLink, Owned
<1>9. CallsAreInOrder'
  BY <1>1, <1>4, <1>7 DEF CallsAreInOrder
<1> QED BY <1>0, <1>1, <1>3, <1>4, <1>6, <1>8, <1>9, PoKeeps, PoParts

LEMMA PoGetNodeExtends ==
    ASSUME PoolInOrder, GetNodeExtends
    PROVE  PoolInOrder'
<1>0. /\ pool \in [created : BOOLEAN, num : Nat, extensible : BOOLEAN]
      /\ running \in [func : {"none", "Create", "GetNode", "freeNodes", "freeBuffers"},
                       todo : Seq(Nodes)]
  BY PoParts
<1>1. /\ running = Idle /\ pool.extensible /\ UNCHANGED <<pool, held>>
  BY DEF GetNodeExtends
<1>2. pool.created
  BY <1>1 DEF PoolInOrder, CallsAreInOrder
<1>3. running.func = "none" /\ running.todo = <<>>
  BY <1>1 DEF Idle
<1>4. CASE Extend("GetNode", pool.num)
  BY <1>0, <1>1, <1>2, <1>3, <1>4, PoExtend
<1>5. CASE NoMemory
  BY <1>0, <1>1, <1>2, <1>3, <1>5, PoQuiet DEF NoMemory
<1> QED BY <1>4, <1>5 DEF GetNodeExtends

LEMMA PoItems ==
    ASSUME PoolInOrder
    PROVE  /\ held \subseteq Owned /\ Owned \subseteq Nodes /\ Free \subseteq Owned
           /\ Owned \cap Members(m_oBuffers) = {} /\ Free \cap held = {}
           /\ \A l \in Lists, n \in held : n \notin Members(l)
           /\ Members(m_oBuffers) = {b[1] : b \in live}
<1>1. live \subseteq Blocks
  BY PoParts
<1>2. held \subseteq Owned
  <2>1. CASE running.func \in {"freeNodes", "freeBuffers"}
    BY <2>1 DEF PoolInOrder, CallsAreInOrder
  <2>2. CASE running.func \notin {"freeNodes", "freeBuffers"}
    BY <2>2 DEF PoolInOrder, EveryItemOnce, Owned
  <2> QED BY <2>1, <2>2
<1>3. Free \subseteq Owned /\ Free \cap held = {} /\ Members(m_oBuffers) = {b[1] : b \in live}
  BY DEF PoolInOrder, NoFreedLink, EveryItemOnce, Owned
<1>4. Owned \subseteq Nodes
  BY <1>1, PoBlocks DEF Owned
<1>5. Owned \cap Members(m_oBuffers) = {}
  <2> SUFFICES ASSUME NEW b \in live, NEW c \in live, b[1] \in InBlock(c) PROVE FALSE
    BY <1>3 DEF Owned
  <2> QED BY <1>1, PoBlocks
<1>6. \A l \in Lists, n \in held : n \notin Members(l)
  BY <1>2, <1>3, <1>5, PoolAssumption DEF Free
<1> QED BY <1>2, <1>3, <1>4, <1>5, <1>6

LEMMA PoScribble ==
    ASSUME PoolInOrder, NEW n \in held, Scribble(n)
    PROVE  PoolInOrder'
<1>0. /\ PoolInOrder /\ ListsAreRight
      /\ live \subseteq Blocks
      /\ pool \in [created : BOOLEAN, num : Nat, extensible : BOOLEAN]
      /\ running \in [func : {"none", "Create", "GetNode", "freeNodes", "freeBuffers"},
                       todo : Seq(Nodes)]
  BY PoParts
<1>1. /\ UNCHANGED <<count, items, off, pool, running, live, held>>
      /\ link' = [link EXCEPT !.prev[n] = Garbage, !.next[n] = Garbage]
  BY DEF Scribble
<1>2. n \in Nodes /\ \A l \in Lists : n \notin Members(l)
  BY PoItems
<1>3. Represents(link', items')
  BY <1>0, <1>1, <1>2, PoDirty
<1>4. ListsAreRight'
  BY <1>0, <1>1, <1>3 DEF ListsAreRight, CountsAgree
<1>5. Free' = Free /\ Members(m_oBuffers)' = Members(m_oBuffers) /\ ToAdd' = ToAdd
  BY <1>1 DEF Free, Members, Places, ToAdd
<1>6. EveryItemOnce'
  BY <1>0, <1>1, <1>5 DEF PoolInOrder, EveryItemOnce
<1>7. NoFreedLink'
  BY <1>0, <1>1, <1>5 DEF PoolInOrder, NoFreedLink
<1>8. CallsAreInOrder'
  BY <1>0, <1>1, <1>5 DEF PoolInOrder, CallsAreInOrder
<1> QED BY <1>0, <1>1, <1>4, <1>6, <1>7, <1>8, PoKeeps

LEMMA PoReleaseNode ==
    ASSUME PoolInOrder, NEW n \in held, ReleaseNode(n)
    PROVE  PoolInOrder'
<1>0. /\ PoolInOrder /\ ListsAreRight
      /\ live \subseteq Blocks
      /\ pool \in [created : BOOLEAN, num : Nat, extensible : BOOLEAN]
      /\ running \in [func : {"none", "Create", "GetNode", "freeNodes", "freeBuffers"},
                       todo : Seq(Nodes)]
      /\ m_oBuffers \in Lists /\ m_oNodes \in Lists /\ m_oBuffers # m_oNodes
  BY PoParts
<1>1. /\ UNCHANGED <<pool, running, live>> /\ running = Idle /\ held' = held \ {n}
      /\ addTail(m_oNodes, n)
  BY DEF ReleaseNode, PutBack
<1>2. n \in Nodes /\ n \in Owned /\ Free \subseteq Owned /\ Free \cap held = {}
  BY PoItems
<1>3. /\ ListsAreRight' /\ Free' = Free \cup {n}
      /\ Members(m_oBuffers)' = Members(m_oBuffers)
  BY <1>0, <1>1, <1>2, PoAdd DEF Free
<1>4. /\ ToAdd = {} /\ ToAdd' = {} /\ running.todo = <<>> /\ running.func = "none"
      /\ Owned' = Owned
  BY <1>1 DEF ToAdd, Idle, Owned
<1>5. Free \cup held = Owned
  BY <1>0, <1>4 DEF PoolInOrder, EveryItemOnce, Owned
<1>6. EveryItemOnce'
  <2>1. Free' \cup held' \cup ToAdd' = Owned'
    BY <1>1, <1>3, <1>4, <1>5, <1>2
  <2>2. Free' \cap held' = {} /\ Free' \cap ToAdd' = {} /\ held' \cap ToAdd' = {}
    BY <1>1, <1>2, <1>3, <1>4
  <2> QED BY <2>1, <2>2 DEF EveryItemOnce, Owned
<1>7. pool.created
  BY <1>0 DEF PoolInOrder, CallsAreInOrder
<1>8. NoFreedLink'
  <2>1. Free' \subseteq Owned'
    BY <1>2, <1>3, <1>4
  <2>2. Members(m_oBuffers)' = {c[1] : c \in live'}
    BY <1>0, <1>1, <1>3 DEF PoolInOrder, NoFreedLink
  <2> QED BY <2>1, <2>2, <1>1, <1>7 DEF NoFreedLink, Owned
<1>9. CallsAreInOrder'
  BY <1>1, <1>4, <1>7 DEF CallsAreInOrder
<1> QED BY <1>0, <1>1, <1>3, <1>6, <1>8, <1>9, PoKeeps

LEMMA PoCloseItems ==
    ASSUME PoolInOrder, NEW a_bFreeNodes \in BOOLEAN, CloseItems(a_bFreeNodes)
    PROVE  PoolInOrder'
<1>0. /\ PoolInOrder /\ ListsAreRight
      /\ live \subseteq Blocks
      /\ pool \in [created : BOOLEAN, num : Nat, extensible : BOOLEAN]
      /\ m_oBuffers \in Lists /\ m_oNodes \in Lists /\ m_oBuffers # m_oNodes
  BY PoParts
<1>1. /\ running = Idle /\ held' = {} /\ UNCHANGED <<pool, live>>
  BY DEF CloseItems
<1>2. /\ ListsAreRight' /\ running'.func \in {"freeNodes", "freeBuffers"}
      /\ running'.todo = <<>>
      /\ running' \in [func : {"none", "Create", "GetNode", "freeNodes", "freeBuffers"},
                        todo : Seq(Nodes)]
      /\ Free' \subseteq Free /\ (running'.func = "freeBuffers" => Free' = {})
      /\ Members(m_oBuffers)' = Members(m_oBuffers)
  <2>0. <<>> \in Seq(Nodes)
    OBVIOUS
  <2>1. CASE a_bFreeNodes
    <3>1. running' = [func |-> "freeNodes", todo |-> <<>>] /\ UNCHANGED vars
      BY <2>1 DEF CloseItems
    <3> QED BY <3>1, <2>0, <1>0, PoStill DEF Free
  <2>2. CASE ~a_bFreeNodes
    <3>1. running' = [func |-> "freeBuffers", todo |-> <<>>] /\ Reset(m_oNodes)
      BY <2>2 DEF CloseItems
    <3> QED BY <3>1, <2>0, <1>0, PoReset DEF Free
  <2> QED BY <2>1, <2>2
<1>3. ToAdd' = {} /\ Owned' = Owned
  BY <1>1, <1>2 DEF ToAdd, Owned
<1>4. EveryItemOnce'
  BY <1>1, <1>2, <1>3 DEF EveryItemOnce
<1>5. NoFreedLink'
  <2>1. Free' \subseteq Owned'
    BY <1>2, <1>3, PoItems
  <2>2. Members(m_oBuffers)' = {c[1] : c \in live'}
    BY <1>0, <1>1, <1>2 DEF PoolInOrder, NoFreedLink
  <2>3. running' # Idle
    BY <1>2 DEF Idle
  <2> QED BY <2>1, <2>2, <2>3 DEF NoFreedLink, Owned
<1>6. CallsAreInOrder'
  <2>1. ~pool'.created => live' = {} /\ held' = {} /\ ~pool'.extensible
    BY <1>0, <1>1 DEF PoolInOrder, CallsAreInOrder
  <2> QED BY <2>1, <1>1, <1>2 DEF CallsAreInOrder
<1> QED BY <1>0, <1>1, <1>2, <1>4, <1>5, <1>6, PoKeeps

\* remHead() of a list that is right.
LEMMA PoRemHead ==
    ASSUME ListsAreRight, NEW l \in Lists, remHead(l)
    PROVE  /\ ListsAreRight'
           /\ getHead(l) \in Members(l) /\ Members(l)' = Members(l) \ {getHead(l)}
           /\ \A m \in Lists \ {l} : Members(m)' = Members(m)
<1> DEFINE n == link.next[HeadOf(l)]
<1>1. /\ n # TailOf(l) /\ TakenOff(l, 1, n)
      /\ link' = Cleared(Joined(link, HeadOf(l), link.next[n]), n)
  BY DEF remHead
<1>2. /\ items[l] # <<>> /\ getHead(l) = n /\ n = items[l][1] /\ link.prev[n] = HeadOf(l)
  BY <1>1, PoHead
<1>3. link' = Cleared(Bypassed(link, n), n)
  BY <1>1, <1>2 DEF Bypassed
<1> HIDE DEF n
<1> QED BY <1>1, <1>2, <1>3, PoTake

LEMMA PoFreeNode ==
    ASSUME PoolInOrder, FreeNode
    PROVE  PoolInOrder'
<1>0. /\ PoolInOrder /\ ListsAreRight
      /\ live \subseteq Blocks
      /\ pool \in [created : BOOLEAN, num : Nat, extensible : BOOLEAN]
      /\ running \in [func : {"none", "Create", "GetNode", "freeNodes", "freeBuffers"},
                       todo : Seq(Nodes)]
      /\ m_oBuffers \in Lists /\ m_oNodes \in Lists /\ m_oBuffers # m_oNodes
  BY PoParts
<1>1. /\ UNCHANGED <<pool, live, held>> /\ running.func = "freeNodes"
      /\ held = {} /\ running.todo = <<>>
      /\ (~pool.created => live = {} /\ held = {} /\ ~pool.extensible)
  BY DEF FreeNode, PoolInOrder, CallsAreInOrder
<1>2. CASE remHead(m_oNodes) /\ UNCHANGED running
  <2>1. /\ ListsAreRight' /\ Free' \subseteq Free
        /\ Members(m_oBuffers)' = Members(m_oBuffers)
    BY <1>0, <1>2, PoRemHead DEF Free
  <2>2. ToAdd' = {} /\ Owned' = Owned
    BY <1>1, <1>2 DEF ToAdd, Owned
  <2>3. EveryItemOnce'
    BY <1>1, <1>2, <2>2 DEF EveryItemOnce
  <2>4. NoFreedLink'
    <3>1. Free' \subseteq Owned'
      BY <2>1, <2>2, PoItems
    <3>2. Members(m_oBuffers)' = {c[1] : c \in live'}
      BY <1>0, <1>1, <2>1 DEF PoolInOrder, NoFreedLink
    <3>3. running' # Idle
      BY <1>1, <1>2 DEF Idle
    <3> QED BY <3>1, <3>2, <3>3 DEF NoFreedLink, Owned
  <2>5. CallsAreInOrder'
    BY <1>1, <1>2 DEF CallsAreInOrder
  <2> QED BY <1>0, <1>1, <1>2, <2>1, <2>3, <2>4, <2>5, PoKeeps
<1>3. CASE /\ getHead(m_oNodes) = Null
           /\ running' = [running EXCEPT !.func = "freeBuffers"]
           /\ UNCHANGED vars
  <2>1. Free = {}
    BY <1>0, <1>3, PoHead DEF Free
  <2>2. /\ running'.func = "freeBuffers" /\ running'.todo = running.todo
        /\ running' \in [func : {"none", "Create", "GetNode", "freeNodes", "freeBuffers"},
                          todo : Seq(Nodes)]
    BY <1>0, <1>3
  <2> QED BY <1>0, <1>1, <1>3, <2>1, <2>2, PoQuiet
<1> QED BY <1>2, <1>3 DEF FreeNode

LEMMA PoFreeBuffer ==
    ASSUME PoolInOrder, FreeBuffer
    PROVE  PoolInOrder'
<1>0. /\ PoolInOrder /\ ListsAreRight
      /\ live \subseteq Blocks
      /\ pool \in [created : BOOLEAN, num : Nat, extensible : BOOLEAN]
      /\ running \in [func : {"none", "Create", "GetNode", "freeNodes", "freeBuffers"},
                       todo : Seq(Nodes)]
      /\ m_oBuffers \in Lists /\ m_oNodes \in Lists /\ m_oBuffers # m_oNodes
  BY PoParts
<1> DEFINE h == getHead(m_oBuffers)
<1>1. /\ UNCHANGED <<pool, running, held>> /\ running.func = "freeBuffers"
      /\ remHead(m_oBuffers) /\ live' = {b \in live : b[1] # h}
      /\ held = {} /\ running.todo = <<>> /\ Free = {}
      /\ (~pool.created => live = {} /\ ~pool.extensible)
  BY DEF FreeBuffer, Freed, PoolInOrder, CallsAreInOrder
<1>2. /\ ListsAreRight' /\ Free' = {}
      /\ Members(m_oBuffers)' = Members(m_oBuffers) \ {h}
  BY <1>0, <1>1, PoRemHead DEF Free
<1> HIDE DEF h
<1>3. ToAdd' = {}
  BY <1>1 DEF ToAdd
<1>4. EveryItemOnce'
  BY <1>1, <1>2, <1>3 DEF EveryItemOnce
<1>5. NoFreedLink'
  <2>1. Members(m_oBuffers)' = {c[1] : c \in live'}
    BY <1>0, <1>1, <1>2 DEF PoolInOrder, NoFreedLink
  <2>2. running' # Idle
    BY <1>1 DEF Idle
  <2> QED BY <2>1, <2>2, <1>2 DEF NoFreedLink
<1>6. CallsAreInOrder'
  BY <1>1, <1>2 DEF CallsAreInOrder
<1>7. live' \subseteq Blocks
  BY <1>0, <1>1
<1> QED BY <1>0, <1>1, <1>2, <1>4, <1>5, <1>6, <1>7, PoKeeps

LEMMA PoCloseReturns ==
    ASSUME PoolInOrder, CloseReturns
    PROVE  PoolInOrder'
<1>0. /\ PoolInOrder /\ ListsAreRight
      /\ m_oBuffers \in Lists
  BY PoParts
<1>1. /\ running.func = "freeBuffers" /\ getHead(m_oBuffers) = Null
      /\ pool' = Unused /\ running' = Idle /\ UNCHANGED <<vars, live, held>>
      /\ running.todo = <<>> /\ held = {}
  BY DEF CloseReturns, PoolInOrder, CallsAreInOrder
<1>2. live = {}
  <2>1. Members(m_oBuffers) = {}
    BY <1>0, <1>1, PoHead
  <2> QED BY <2>1, PoItems
<1>3. /\ pool' \in [created : BOOLEAN, num : Nat, extensible : BOOLEAN]
      /\ running' \in [func : {"none", "Create", "GetNode", "freeNodes", "freeBuffers"},
                         todo : Seq(Nodes)]
      /\ running'.todo = running.todo /\ running'.func = "none"
      /\ ~pool'.created /\ ~pool'.extensible
  <2>1. <<>> \in Seq(Nodes)
    OBVIOUS
  <2> QED BY <1>1, <2>1 DEF Idle, Unused
<1> QED BY <1>1, <1>2, <1>3, PoQuiet

LEMMA PoNext ==
    ASSUME PoolInOrder, [PNext]_pvars
    PROVE  PoolInOrder'
<1>1. CASE UNCHANGED pvars
  <2>1. UNCHANGED <<vars, pool, running, live, held>>
    BY <1>1 DEF pvars
  <2>2. CallsAreInOrder /\ pool' = pool /\ running' = running
    BY <2>1 DEF PoolInOrder
  <2> QED BY <2>1, <2>2, PoQuiet, PoParts DEF CallsAreInOrder
<1>2. ASSUME NEW num \in {Len(b) - 1 : b \in Blocks}, NEW extensible \in BOOLEAN,
             Create(num, extensible)
      PROVE  PoolInOrder'
  BY <1>2, PoCreate
<1>3. ASSUME NEW n \in held, Scribble(n) \/ ReleaseNode(n)
      PROVE  PoolInOrder'
  BY <1>3, PoScribble, PoReleaseNode
<1>4. ASSUME NEW a_bFreeNodes \in BOOLEAN, CloseItems(a_bFreeNodes)
      PROVE  PoolInOrder'
  BY <1>4, PoCloseItems
<1>5. CASE AddItem \/ CreateReturns \/ GetNode \/ GetNodeExtends \/ GetNodeFails
  BY <1>5, PoAddItem, PoCreateReturns, PoGetNode, PoGetNodeExtends
<1>6. CASE FreeNode \/ FreeBuffer \/ CloseReturns
  BY <1>6, PoFreeNode, PoFreeBuffer, PoCloseReturns
<1> QED BY <1>1, <1>2, <1>3, <1>4, <1>5, <1>6 DEF PNext

--------------------------------------------------------------------------------
(***************************************************************************)
(* MungWall.  The walk over the list: a recursive function has the values  *)
(* its definition gives it, by its least argument that has not.            *)
(***************************************************************************)
Farthest == Cardinality(Addresses)

LEMMA WaCardinality == \A S : W!Cardinality(S) = Cardinality(S)
BY Zenon DEF Cardinality, W!Cardinality

LEMMA WaFarthest == Farthest \in Nat /\ IsFiniteSet(Addresses) /\ NULL \notin Addresses
BY FileAssumption, FS_CardinalityType DEF Farthest

Onward(w, S) == S \cup ({w.arena[a].next : a \in S} \ {NULL})

ReachIn(w, limit) ==
    CHOOSE reach : reach = [n \in 0 .. limit |->
            IF n = 0 THEN {w.first} \ {NULL} ELSE Onward(w, reach[n - 1])]

LEMMA WaListFrom ==
    ASSUME NEW w
    PROVE  W!ListFrom(w) = ReachIn(w, Farthest)[Farthest]
BY Zenon DEF W!ListFrom, ReachIn, Farthest, Onward, Cardinality, W!Cardinality

LEMMA WaReach ==
    ASSUME NEW w, NEW limit \in Nat
    PROVE  ReachIn(w, limit) = [n \in 0 .. limit |->
             IF n = 0 THEN {w.first} \ {NULL} ELSE Onward(w, ReachIn(w, limit)[n - 1])]
<1> DEFINE A == {w.first} \ {NULL}
           Is(M, r) == r = [n \in 0 .. M |-> IF n = 0 THEN A ELSE Onward(w, r[n - 1])]
           T == {M \in Nat : ~ \E r : Is(M, r)}
<1>1. T = {}
  <2> SUFFICES ASSUME T # {} PROVE FALSE
    OBVIOUS
  <2>1. T \subseteq Nat
    OBVIOUS
  <2>2. PICK M \in T : \A j \in T : M <= j
    BY <2>1, Least
  <2>3. M \in Nat /\ ~ \E r : Is(M, r)
    OBVIOUS
  <2>4. CASE M = 0
    <3> DEFINE r == [n \in 0 .. M |-> A]
    <3>1. Is(M, r)
      BY <2>4
    <3> QED BY <2>3, <3>1
  <2>5. CASE M # 0
    <3>1. M - 1 \in Nat /\ ~(M <= M - 1)
      BY <2>3, <2>5
    <3>2. PICK q : Is(M - 1, q)
      BY <2>2, <3>1
    <3> DEFINE r == [n \in 0 .. M |-> IF n = M THEN Onward(w, q[M - 1]) ELSE q[n]]
    <3>3. ASSUME NEW n \in 0 .. M
          PROVE  r[n] = IF n = 0 THEN A ELSE Onward(w, r[n - 1])
      <4>1. CASE n = M
        <5>1. n - 1 \in 0 .. M /\ n - 1 # M
          BY <2>3, <2>5, <4>1
        <5>2. r[n - 1] = q[n - 1]
          BY <5>1
        <5> QED BY <2>5, <4>1, <5>2
      <4>2. CASE n # M
        <5>1. n \in 0 .. M - 1 /\ (n # 0 => n - 1 \in 0 .. M /\ n - 1 # M)
          BY <2>3, <4>2
        <5>2. q[n] = IF n = 0 THEN A ELSE Onward(w, q[n - 1])
          BY <3>2, <5>1
        <5>3. r[n] = q[n] /\ (n # 0 => r[n - 1] = q[n - 1])
          BY <4>2, <5>1
        <5> QED BY <5>2, <5>3
      <4> QED BY <4>1, <4>2
    <3>4. r = [n \in 0 .. M |-> r[n]]
      OBVIOUS
    <3> HIDE DEF r
    <3>5. Is(M, r)
      BY <3>3, <3>4
    <3> QED BY <2>3, <3>5
  <2> QED BY <2>4, <2>5
<1>2. PICK r : Is(limit, r)
  BY <1>1
<1>3. ReachIn(w, limit) = CHOOSE q : Is(limit, q)
  BY Zenon DEF ReachIn
<1> HIDE DEF Is
<1>4. Is(limit, ReachIn(w, limit))
  BY <1>2, <1>3, Zenon
<1> QED BY <1>4 DEF Is

\* A walk stays among the blocks no link leaves, and begins with the first.
LEMMA WaWalk ==
    ASSUME NEW w, NEW blocks, W!Closed(w, blocks)
    PROVE  /\ W!ListFrom(w) \subseteq blocks
           /\ w.first # NULL => w.first \in W!ListFrom(w)
<1> DEFINE r == ReachIn(w, Farthest)
           T == {n \in 0 .. Farthest : ~(r[n] \subseteq blocks)}
           U == {n \in 0 .. Farthest : w.first # NULL /\ w.first \notin r[n]}
<1>0. Farthest \in Nat
  BY WaFarthest
<1>1. \A n \in 0 .. Farthest :
        r[n] = IF n = 0 THEN {w.first} \ {NULL} ELSE Onward(w, r[n - 1])
  <2>1. r = [n \in 0 .. Farthest |->
              IF n = 0 THEN {w.first} \ {NULL} ELSE Onward(w, r[n - 1])]
    BY <1>0, WaReach
  <2> HIDE DEF r
  <2> QED BY <2>1, Zenon
<1>2. W!ListFrom(w) = r[Farthest] /\ Farthest \in 0 .. Farthest
  BY <1>0, WaListFrom
<1> HIDE DEF r
<1>3. \A S : S \subseteq blocks => Onward(w, S) \subseteq blocks
  BY DEF W!Closed, Onward
<1>4. {w.first} \ {NULL} \subseteq blocks
  BY DEF W!Closed
<1>5. T = {}
  <2> SUFFICES ASSUME T # {} PROVE FALSE
    OBVIOUS
  <2>1. T \subseteq Nat
    OBVIOUS
  <2>2. PICK n \in T : \A j \in T : n <= j
    BY <2>1, Least
  <2>3. n \in 0 .. Farthest /\ ~(r[n] \subseteq blocks)
    OBVIOUS
  <2>4. n # 0
    BY <1>1, <1>4, <2>3
  <2>5. n - 1 \in 0 .. Farthest /\ ~(n <= n - 1)
    BY <1>0, <2>3, <2>4
  <2>6. r[n - 1] \subseteq blocks
    BY <2>2, <2>5
  <2> QED BY <1>1, <1>3, <2>3, <2>4, <2>6
<1>6. U = {}
  <2> SUFFICES ASSUME U # {} PROVE FALSE
    OBVIOUS
  <2>1. U \subseteq Nat
    OBVIOUS
  <2>2. PICK n \in U : \A j \in U : n <= j
    BY <2>1, Least
  <2>3. n \in 0 .. Farthest /\ w.first # NULL /\ w.first \notin r[n]
    OBVIOUS
  <2>4. n # 0
    BY <1>1, <2>3
  <2>5. n - 1 \in 0 .. Farthest /\ ~(n <= n - 1)
    BY <1>0, <2>3, <2>4
  <2>6. w.first \in r[n - 1]
    BY <2>2, <2>3, <2>5
  <2> QED BY <1>1, <2>3, <2>4, <2>6 DEF Onward
<1> QED BY <1>2, <1>5, <1>6

--------------------------------------------------------------------------------
(***************************************************************************)
(* What New() and Free() do to the list.                                   *)
(***************************************************************************)
LEMMA WaFinite ==
    ASSUME NEW w, W!Whole(w)
    PROVE  /\ IsFiniteSet(DOMAIN w.arena) /\ w.numNews = Cardinality(DOMAIN w.arena)
           /\ Cardinality(DOMAIN w.arena) \in Nat
           /\ Cardinality(DOMAIN w.arena) <= Cardinality(Addresses)
           /\ Cardinality(Addresses) \in Nat
           /\ w.first \in Addresses \cup {NULL}
<1>1. DOMAIN w.arena \in SUBSET Addresses /\ w.numNews = Cardinality(DOMAIN w.arena)
  BY WaCardinality DEF W!Whole
<1>2. IsFiniteSet(Addresses)
  BY WaFarthest
<1>3. w.first \in Addresses \cup {NULL}
  BY DEF W!Whole, W!Closed
<1> QED BY <1>1, <1>2, <1>3, FS_Subset, FS_CardinalityType

LEMMA WaNewIn ==
    ASSUME NEW w, W!Whole(w), NEW a \in Addresses \ DOMAIN w.arena, NEW size \in BlockSizes
    PROVE  W!Whole(W!NewIn(w, a, size))
<1> DEFINE v == W!NewIn(w, a, size)
           e == [prev |-> NULL, next |-> w.first, size |-> size, walls |-> {}]
           Given == DOMAIN w.arena
<1>0. a \in Addresses /\ a \notin Given /\ a # NULL /\ NULL \notin Addresses
  BY WaFarthest
<1>1. v.first = a /\ v.numNews = w.numNews + 1
  BY DEF W!NewIn
<1>2. /\ DOMAIN v.arena = Given \cup {a} /\ v.arena[a] = e
      /\ \A b \in Given : v.arena[b] = IF b = w.first THEN [w.arena[b] EXCEPT !.prev = a]
                                   ELSE w.arena[b]
  <2>1. v.arena = W!With([b \in Given |-> IF b = w.first THEN [w.arena[b] EXCEPT !.prev = a]
                                      ELSE w.arena[b]], a, e)
    BY DEF W!NewIn
  <2> QED BY <2>1, <1>0 DEF W!With
<1> HIDE DEF v
<1>3. /\ Given \subseteq Addresses /\ w.first \in Addresses \cup {NULL}
      /\ \A b \in Given : w.arena[b] \in W!Arenas
  BY WaFinite DEF W!Whole
<1>4. /\ e \in W!Arenas /\ e.prev = NULL /\ e.next = w.first
      /\ \A b \in Given : [w.arena[b] EXCEPT !.prev = a] \in W!Arenas
      /\ \A b \in Given : [w.arena[b] EXCEPT !.prev = a].prev = a
                      /\ [w.arena[b] EXCEPT !.prev = a].next = w.arena[b].next
  <2>1. e \in W!Arenas /\ e.prev = NULL /\ e.next = w.first
    BY <1>3 DEF W!Arenas
  <2>2. ASSUME NEW b \in Given
        PROVE  /\ [w.arena[b] EXCEPT !.prev = a] \in W!Arenas
               /\ [w.arena[b] EXCEPT !.prev = a].prev = a
               /\ [w.arena[b] EXCEPT !.prev = a].next = w.arena[b].next
    <3>1. w.arena[b] \in W!Arenas
      BY <1>3
    <3> QED BY <3>1, <1>0 DEF W!Arenas
  <2> QED BY <2>1, <2>2
<1> HIDE DEF e
<1>5. /\ \A b \in Given : v.arena[b] \in W!Arenas /\ v.arena[b].next = w.arena[b].next
      /\ \A b \in Given : b # w.first => v.arena[b].prev = w.arena[b].prev
      /\ \A b \in Given : b = w.first => v.arena[b].prev = a
      /\ v.arena[a].prev = NULL /\ v.arena[a].next = w.first
  BY <1>2, <1>3, <1>4
<1>6. DOMAIN v.arena \subseteq Addresses /\ \A b \in DOMAIN v.arena : v.arena[b] \in W!Arenas
  BY <1>0, <1>2, <1>3, <1>4, <1>5
<1>7. v.numNews = W!Cardinality(DOMAIN v.arena)
  <2>1. Cardinality(Given \cup {a}) = Cardinality(Given) + 1 /\ w.numNews = Cardinality(Given)
    BY <1>0, WaFinite, FS_AddElement
  <2>2. v.numNews = Cardinality(DOMAIN v.arena)
    BY <1>1, <1>2, <2>1
  <2> QED BY <2>2, WaCardinality
<1>8. PICK S \in SUBSET Addresses : W!Closed(w, S)
  BY DEF W!Whole
<1> DEFINE R == S \cup {a}
<1>9. W!Closed(v, R)
  <2>1. /\ S \subseteq Given /\ a \notin S /\ NULL \notin S /\ w.first \in S \cup {NULL}
        /\ \A b \in S : /\ b = w.first <=> w.arena[b].prev = NULL
                        /\ w.arena[b].prev # NULL =>
                             w.arena[b].prev \in S /\ w.arena[w.arena[b].prev].next = b
                        /\ w.arena[b].next # NULL =>
                             w.arena[b].next \in S /\ w.arena[w.arena[b].next].prev = b
    BY <1>0, <1>3, <1>8 DEF W!Closed
  <2>2. R \subseteq DOMAIN v.arena /\ v.first \in R \cup {NULL}
    BY <1>1, <1>2, <2>1
  <2>3. ASSUME NEW b \in S
        PROVE  /\ b = v.first <=> v.arena[b].prev = NULL
               /\ v.arena[b].prev # NULL =>
                    v.arena[b].prev \in R /\ v.arena[v.arena[b].prev].next = b
               /\ v.arena[b].next # NULL =>
                    v.arena[b].next \in R /\ v.arena[v.arena[b].next].prev = b
    <3>1. b \in Given /\ b # v.first /\ v.arena[b].prev # NULL
      BY <1>0, <1>1, <1>5, <2>1
    <3>2. v.arena[b].prev \in R /\ v.arena[v.arena[b].prev].next = b
      <4>1. CASE b = w.first
        BY <4>1, <3>1, <1>5
      <4>2. CASE b # w.first
        BY <4>2, <3>1, <1>5, <2>1
      <4> QED BY <4>1, <4>2
    <3>3. v.arena[b].next # NULL =>
            v.arena[b].next \in R /\ v.arena[v.arena[b].next].prev = b
      <4> SUFFICES ASSUME w.arena[b].next # NULL
                   PROVE  w.arena[b].next \in S /\ v.arena[w.arena[b].next].prev = b
        BY <3>1, <1>5
      <4>1. w.arena[b].next \in S /\ w.arena[w.arena[b].next].prev = b
        BY <2>1
      <4>2. w.arena[b].next # w.first
        BY <4>1, <2>1
      <4> QED BY <4>1, <4>2, <2>1, <1>5
    <3> QED BY <3>1, <3>2, <3>3
  <2>4. /\ a = v.first /\ v.arena[a].prev = NULL
        /\ v.arena[a].next # NULL =>
             v.arena[a].next \in R /\ v.arena[v.arena[a].next].prev = a
    BY <1>1, <1>5, <2>1
  <2> QED BY <2>2, <2>3, <2>4 DEF W!Closed
<1>10. R \in SUBSET Addresses
  BY <1>0
<1> HIDE DEF R
<1> QED BY <1>6, <1>7, <1>9, <1>10 DEF W!Whole, v

LEMMA WaUnlinked ==
    ASSUME NEW w, W!Whole(w), NEW a \in W!ListFrom(w)
    PROVE  /\ a \in DOMAIN w.arena /\ W!Whole(W!Unlinked(w, a))
           /\ a = w.first => W!Unlinked(w, a).first = w.arena[a].next
<1> DEFINE v == W!Unlinked(w, a)
           e == w.arena[a]
           Given == DOMAIN w.arena
<1>0. NULL \notin Addresses
  BY WaFarthest
<1>1. PICK S \in SUBSET Addresses : W!Closed(w, S)
  BY DEF W!Whole
<1>2. /\ S \subseteq Given /\ a \in S /\ NULL \notin S /\ w.first \in S \cup {NULL}
      /\ \A b \in S : /\ b = w.first <=> w.arena[b].prev = NULL
                      /\ w.arena[b].prev # NULL =>
                           w.arena[b].prev \in S /\ w.arena[w.arena[b].prev].next = b
                      /\ w.arena[b].next # NULL =>
                           w.arena[b].next \in S /\ w.arena[w.arena[b].next].prev = b
  BY <1>0, <1>1, WaWalk DEF W!Closed
<1>3. /\ v.first = (IF w.first = a THEN e.next ELSE w.first)
      /\ v.numNews = w.numNews - 1
      /\ DOMAIN v.arena = Given \ {a}
      /\ \A b \in Given \ {a} :
           v.arena[b] = [w.arena[b] EXCEPT !.next = IF b = e.prev THEN e.next ELSE @,
                                           !.prev = IF b = e.next THEN e.prev ELSE @]
  BY DEF W!Unlinked
<1>4. /\ Given \subseteq Addresses /\ e \in W!Arenas
      /\ \A b \in Given : w.arena[b] \in W!Arenas
  BY <1>2 DEF W!Whole
<1> HIDE DEF v
<1>5. ASSUME NEW b \in Given \ {a}
      PROVE  /\ v.arena[b] \in W!Arenas
             /\ v.arena[b].next = IF b = e.prev THEN e.next ELSE w.arena[b].next
             /\ v.arena[b].prev = IF b = e.next THEN e.prev ELSE w.arena[b].prev
  <2>1. /\ w.arena[b] \in W!Arenas
        /\ v.arena[b] = [w.arena[b] EXCEPT
               !.next = IF b = e.prev THEN e.next ELSE w.arena[b].next,
               !.prev = IF b = e.next THEN e.prev ELSE w.arena[b].prev]
    BY <1>3, <1>4
  <2>2. e.next \in Addresses \cup {NULL} /\ e.prev \in Addresses \cup {NULL}
    BY <1>4 DEF W!Arenas
  <2> HIDE DEF e
  <2> QED BY <2>1, <2>2 DEF W!Arenas
<1>6. DOMAIN v.arena \subseteq Addresses /\ \A b \in DOMAIN v.arena : v.arena[b] \in W!Arenas
  BY <1>3, <1>4, <1>5
<1>7. v.numNews = W!Cardinality(DOMAIN v.arena)
  <2>1. Cardinality(Given \ {a}) = Cardinality(Given) - 1 /\ w.numNews = Cardinality(Given)
    BY <1>2, WaFinite, FS_RemoveElement
  <2>2. v.numNews = Cardinality(DOMAIN v.arena)
    BY <1>3, <2>1
  <2> QED BY <2>2, WaCardinality
<1> DEFINE R == S \ {a}
<1>8. W!Closed(v, R)
  <2>1. R \subseteq DOMAIN v.arena
    BY <1>2, <1>3
  <2>2. v.first \in R \cup {NULL}
    <3>1. CASE w.first = a
      <4>1. e.prev = NULL /\ v.first = e.next
        BY <1>2, <1>3, <3>1
      <4>2. e.next # NULL => e.next \in S /\ w.arena[e.next].prev = a
        BY <1>2
      <4>3. e.next # NULL => e.next # a
        BY <4>1, <4>2, <1>2
      <4> QED BY <4>1, <4>2, <4>3
    <3>2. CASE w.first # a
      BY <3>2, <1>2, <1>3
    <3> QED BY <3>1, <3>2
  <2>3. ASSUME NEW b \in R PROVE b = v.first <=> v.arena[b].prev = NULL
    <3>0. b \in S /\ b # a /\ b \in Given \ {a} /\ b # NULL
      BY <1>2
    <3>1. CASE w.first = a
      <4>1. e.prev = NULL /\ v.first = e.next /\ w.arena[b].prev # NULL
        BY <1>2, <1>3, <3>0, <3>1
      <4> QED BY <4>1, <3>0, <1>5
    <3>2. CASE w.first # a
      <4>1. e.prev # NULL /\ v.first = w.first
        BY <1>2, <1>3, <3>2
      <4>2. b = e.next => w.arena[b].prev = a /\ b # w.first /\ a # NULL
        BY <1>2, <3>0
      <4> QED BY <4>1, <4>2, <3>0, <1>2, <1>5
    <3> QED BY <3>1, <3>2
  <2>4. ASSUME NEW b \in R, v.arena[b].prev # NULL
        PROVE  v.arena[b].prev \in R /\ v.arena[v.arena[b].prev].next = b
    <3>0. b \in S /\ b # a /\ b \in Given \ {a} /\ b # NULL
      BY <1>2
    <3>1. CASE b = e.next
      <4>1. v.arena[b].prev = e.prev /\ e.prev # NULL
        BY <3>0, <3>1, <1>5, <2>4
      <4>2. e.prev \in S /\ w.arena[e.prev].next = a
        BY <4>1, <1>2
      <4>3. e.prev # a
        BY <3>0, <3>1, <4>2
      <4> QED BY <4>1, <4>2, <4>3, <3>1, <1>2, <1>5
    <3>2. CASE b # e.next
      <4> DEFINE p == w.arena[b].prev
      <4>1. v.arena[b].prev = p /\ p # NULL
        BY <3>0, <3>2, <1>5, <2>4
      <4>2. p \in S /\ w.arena[p].next = b
        BY <4>1, <3>0, <1>2
      <4>3. p # a
        BY <3>2, <4>2
      <4>4. p # e.prev
        <5> SUFFICES ASSUME p = e.prev PROVE FALSE
          OBVIOUS
        <5>1. w.arena[p].next = a
          BY <4>1, <1>2
        <5> QED BY <5>1, <4>2, <3>0
      <4> HIDE DEF p
      <4> QED BY <4>1, <4>2, <4>3, <4>4, <1>2, <1>5
    <3> QED BY <3>1, <3>2
  <2>5. ASSUME NEW b \in R, v.arena[b].next # NULL
        PROVE  v.arena[b].next \in R /\ v.arena[v.arena[b].next].prev = b
    <3>0. b \in S /\ b # a /\ b \in Given \ {a} /\ b # NULL
      BY <1>2
    <3>1. CASE b = e.prev
      <4>1. v.arena[b].next = e.next /\ e.next # NULL
        BY <3>0, <3>1, <1>5, <2>5
      <4>2. e.next \in S /\ w.arena[e.next].prev = a
        BY <4>1, <1>2
      <4>3. e.next # a
        BY <3>0, <3>1, <4>2
      <4> QED BY <4>1, <4>2, <4>3, <3>1, <1>2, <1>5
    <3>2. CASE b # e.prev
      <4> DEFINE p == w.arena[b].next
      <4>1. v.arena[b].next = p /\ p # NULL
        BY <3>0, <3>2, <1>5, <2>5
      <4>2. p \in S /\ w.arena[p].prev = b
        BY <4>1, <3>0, <1>2
      <4>3. p # a
        BY <3>2, <4>2
      <4>4. p # e.next
        <5> SUFFICES ASSUME p = e.next PROVE FALSE
          OBVIOUS
        <5>1. w.arena[p].prev = a
          BY <4>1, <1>2
        <5> QED BY <5>1, <4>2, <3>0
      <4> HIDE DEF p
      <4> QED BY <4>1, <4>2, <4>3, <4>4, <1>2, <1>5
    <3> QED BY <3>1, <3>2
  <2> QED BY <2>1, <2>2, <2>3, <2>4, <2>5 DEF W!Closed
<1>10. R \in SUBSET Addresses
  BY <1>1
<1>11. a = w.first => v.first = w.arena[a].next
  BY <1>3
<1> HIDE DEF R
<1> QED BY <1>2, <1>6, <1>7, <1>8, <1>10, <1>11 DEF W!Whole, v

LEMMA WaFreeOf ==
    ASSUME NEW w, W!Whole(w), NEW a
    PROVE  /\ W!Whole(W!FreeOf(w, a).wall)
           /\ a # NULL /\ a = w.first => /\ a \in DOMAIN w.arena
                                        /\ W!FreeOf(w, a).wall.first = w.arena[a].next
           /\ W!FreeOf(w, a).report \in
                [kind : {"none", "invalid", "overwritten", "cleaned", "leaked"},
                 walls : SUBSET W!Walls, blocks : SUBSET Addresses]
<1>0. W!NoReport = [kind |-> "none", walls |-> {}, blocks |-> {}]
  BY DEF W!NoReport
<1>1. CASE w.first = NULL \/ a = NULL
  <2>1. W!FreeOf(w, a) = [wall |-> w, report |-> W!NoReport]
    BY <1>1 DEF W!FreeOf
  <2> QED BY <1>0, <1>1, <2>1
<1>2. CASE ~(w.first = NULL \/ a = NULL) /\ a \notin W!ListFrom(w)
  <2>1. W!FreeOf(w, a) = [wall |-> w, report |-> [W!NoReport EXCEPT !.kind = "invalid"]]
    BY <1>2, Zenon DEF W!FreeOf
  <2>2. a # w.first
    BY <1>2, WaWalk DEF W!Whole
  <2>3. [W!NoReport EXCEPT !.kind = "invalid"] \in
                [kind : {"none", "invalid", "overwritten", "cleaned", "leaked"},
                 walls : SUBSET W!Walls, blocks : SUBSET Addresses]
    BY <1>0
  <2> QED BY <2>1, <2>2, <2>3
<1>3. CASE ~(w.first = NULL \/ a = NULL) /\ a \in W!ListFrom(w)
  <2>1. W!FreeOf(w, a) = [wall |-> W!Unlinked(w, a),
          report |-> IF W!OverWrites(w, a) = {} THEN W!NoReport
                     ELSE [kind |-> "overwritten", walls |-> W!OverWrites(w, a),
                           blocks |-> {a}]]
    BY <1>3, Zenon DEF W!FreeOf
  <2>2. /\ a \in DOMAIN w.arena /\ W!Whole(W!Unlinked(w, a))
        /\ a = w.first => W!Unlinked(w, a).first = w.arena[a].next
    BY <1>3, WaUnlinked
  <2>3. W!OverWrites(w, a) \in SUBSET W!Walls /\ a \in Addresses
    BY <2>2 DEF W!OverWrites, W!Whole, W!Arenas
  <2> QED BY <1>0, <2>1, <2>2, <2>3
<1> QED BY <1>1, <1>2, <1>3

--------------------------------------------------------------------------------
(***************************************************************************)
(* The destructor.                                                         *)
(***************************************************************************)
Later(s) ==
    IF s.at = NULL THEN s
    ELSE [wall |-> W!FreeOf(s.wall, s.at).wall, at |-> s.wall.arena[s.at].next]

FreedIn(w, limit) ==
    CHOOSE freed : freed = [n \in 0 .. limit |->
            IF n = 0 THEN [wall |-> w, at |-> w.first] ELSE Later(freed[n - 1])]

LEMMA WaAllFreed ==
    ASSUME NEW w
    PROVE  W!AllFreed(w) = FreedIn(w, Farthest)[Farthest].wall
BY Zenon DEF W!AllFreed, FreedIn, Farthest, Later, Cardinality, W!Cardinality

LEMMA WaFreed ==
    ASSUME NEW w, NEW limit \in Nat
    PROVE  FreedIn(w, limit) = [n \in 0 .. limit |->
             IF n = 0 THEN [wall |-> w, at |-> w.first] ELSE Later(FreedIn(w, limit)[n - 1])]
<1> DEFINE A == [wall |-> w, at |-> w.first]
           Is(M, r) == r = [n \in 0 .. M |-> IF n = 0 THEN A ELSE Later(r[n - 1])]
           T == {M \in Nat : ~ \E r : Is(M, r)}
<1> HIDE DEF A
<1>1. T = {}
  <2> SUFFICES ASSUME T # {} PROVE FALSE
    OBVIOUS
  <2>1. T \subseteq Nat
    OBVIOUS
  <2>2. PICK M \in T : \A j \in T : M <= j
    BY <2>1, Least
  <2>3. M \in Nat /\ ~ \E r : Is(M, r)
    OBVIOUS
  <2>4. CASE M = 0
    <3> DEFINE r == [n \in 0 .. M |-> A]
    <3>1. Is(M, r)
      BY <2>4
    <3> QED BY <2>3, <3>1
  <2>5. CASE M # 0
    <3>1. M - 1 \in Nat /\ ~(M <= M - 1)
      BY <2>3, <2>5
    <3>2. PICK q : Is(M - 1, q)
      BY <2>2, <3>1
    <3> DEFINE r == [n \in 0 .. M |-> IF n = M THEN Later(q[M - 1]) ELSE q[n]]
    <3>3. ASSUME NEW n \in 0 .. M
          PROVE  r[n] = IF n = 0 THEN A ELSE Later(r[n - 1])
      <4>1. CASE n = M
        <5>1. n - 1 \in 0 .. M /\ n - 1 # M
          BY <2>3, <2>5, <4>1
        <5>2. r[n - 1] = q[n - 1]
          BY <5>1
        <5> QED BY <2>5, <4>1, <5>2
      <4>2. CASE n # M
        <5>1. n \in 0 .. M - 1 /\ (n # 0 => n - 1 \in 0 .. M /\ n - 1 # M)
          BY <2>3, <4>2
        <5>2. q[n] = IF n = 0 THEN A ELSE Later(q[n - 1])
          BY <3>2, <5>1
        <5>3. r[n] = q[n] /\ (n # 0 => r[n - 1] = q[n - 1])
          BY <4>2, <5>1
        <5> QED BY <5>2, <5>3
      <4> QED BY <4>1, <4>2
    <3>4. r = [n \in 0 .. M |-> r[n]]
      OBVIOUS
    <3> HIDE DEF r
    <3>5. Is(M, r)
      BY <3>3, <3>4
    <3> QED BY <2>3, <3>5
  <2> QED BY <2>4, <2>5
<1>2. PICK r : Is(limit, r)
  BY <1>1
<1>3. FreedIn(w, limit) = CHOOSE q : Is(limit, q)
  BY Zenon DEF FreedIn, A
<1> HIDE DEF Is
<1>4. Is(limit, FreedIn(w, limit))
  BY <1>2, <1>3, Zenon
<1> QED BY <1>4 DEF Is, A

\* The block that is freed next is the first of the list.
LEMMA WaEmptied ==
    ASSUME NEW w, W!Whole(w)
    PROVE  W!Whole(W!AllFreed(w))
<1> DEFINE r == FreedIn(w, Farthest)
           Good(s) == W!Whole(s.wall) /\ s.at = s.wall.first
           T == {n \in 0 .. Farthest : ~Good(r[n])}
<1>0. Farthest \in Nat
  BY WaFarthest
<1>1. \A n \in 0 .. Farthest :
        r[n] = IF n = 0 THEN [wall |-> w, at |-> w.first] ELSE Later(r[n - 1])
  <2>1. r = [n \in 0 .. Farthest |->
              IF n = 0 THEN [wall |-> w, at |-> w.first] ELSE Later(r[n - 1])]
    BY <1>0, WaFreed
  <2> HIDE DEF r
  <2> QED BY <2>1, Zenon
<1>2. W!AllFreed(w) = r[Farthest].wall /\ Farthest \in 0 .. Farthest
  BY <1>0, WaAllFreed
<1> HIDE DEF r
<1>3. Good([wall |-> w, at |-> w.first])
  OBVIOUS
<1>4. ASSUME NEW s, Good(s) PROVE Good(Later(s))
  <2>1. CASE s.at = NULL
    BY <1>4, <2>1 DEF Later
  <2>2. CASE s.at # NULL
    <3>1. Later(s) = [wall |-> W!FreeOf(s.wall, s.at).wall, at |-> s.wall.arena[s.at].next]
      BY <2>2 DEF Later
    <3>2. /\ W!Whole(W!FreeOf(s.wall, s.at).wall)
          /\ W!FreeOf(s.wall, s.at).wall.first = s.wall.arena[s.at].next
      BY <1>4, <2>2, WaFreeOf
    <3> QED BY <3>1, <3>2
  <2> QED BY <2>1, <2>2
<1> HIDE DEF Good
<1>5. T = {}
  <2> SUFFICES ASSUME T # {} PROVE FALSE
    OBVIOUS
  <2>1. T \subseteq Nat
    OBVIOUS
  <2>2. PICK n \in T : \A j \in T : n <= j
    BY <2>1, Least
  <2>3. n \in 0 .. Farthest /\ ~Good(r[n])
    OBVIOUS
  <2>4. n # 0
    BY <1>1, <1>3, <2>3
  <2>5. n - 1 \in 0 .. Farthest /\ ~(n <= n - 1)
    BY <1>0, <2>3, <2>4
  <2>6. Good(r[n - 1])
    BY <2>2, <2>5
  <2> QED BY <1>1, <1>4, <2>3, <2>4, <2>6
<1> QED BY <1>2, <1>5 DEF Good

--------------------------------------------------------------------------------
LEMMA WaShows ==
    ASSUME W!WallInOrder
    PROVE  W!TypeOK /\ W!ListIsWhole /\ W!NewsAreCounted
<1>1. W!Wall = [arena |-> arena, first |-> first, numNews |-> numNews]
      /\ W!Live = DOMAIN arena
  BY DEF W!Wall, W!Live
<1>2. PICK S \in SUBSET Addresses : W!Closed(W!Wall, S)
  BY DEF W!WallInOrder, W!Whole
<1>3. W!ListFrom(W!Wall) \subseteq S
  BY <1>2, WaWalk
<1>4. W!ListIsWhole
  <2> SUFFICES ASSUME NEW a \in W!ListFrom(W!Wall)
               PROVE  /\ a \in W!Live
                      /\ a = first <=> arena[a].prev = NULL
                      /\ arena[a].prev # NULL =>
                             arena[a].prev \in W!Live /\ arena[arena[a].prev].next = a
                      /\ arena[a].next # NULL =>
                             arena[a].next \in W!Live /\ arena[arena[a].next].prev = a
    BY DEF W!ListIsWhole
  <2>1. a \in S
    BY <1>3
  <2> QED BY <1>1, <1>2, <2>1 DEF W!Closed
<1>5. W!NewsAreCounted
  BY <1>1 DEF W!WallInOrder, W!Whole, W!NewsAreCounted
<1> QED BY <1>4, <1>5 DEF W!WallInOrder

\* What is left to show of a step.
LEMMA WaBecome ==
    ASSUME NEW w, W!Whole(w), W!Become(w), enabled' \in BOOLEAN,
           profiled' \in [on : BOOLEAN, news : 0 .. W!MaxProfiled],
           report' \in [kind : {"none", "invalid", "overwritten", "cleaned", "leaked"},
                        walls : SUBSET W!Walls, blocks : SUBSET Addresses]
    PROVE  W!WallInOrder'
<1> DEFINE v == [arena |-> arena', first |-> first', numNews |-> numNews']
<1>1. v.arena = w.arena /\ v.first = w.first /\ v.numNews = w.numNews /\ W!Wall' = v
  BY DEF W!Become, W!Wall
<1>2. arena' = w.arena /\ first' = w.first /\ numNews' = w.numNews
  BY DEF W!Become
<1> HIDE DEF v
<1>3. W!Whole(v)
  BY <1>1 DEF W!Whole, W!Closed
<1>4. W!Live' = DOMAIN w.arena
  BY <1>2 DEF W!Live
<1>5. numNews' \in 0 .. W!Cardinality(Addresses)
  BY <1>2, WaFinite, WaCardinality
<1>6. W!TypeOK'
  <2>1. W!Live' \subseteq Addresses /\ \A a \in W!Live' : arena'[a] \in W!Arenas
    BY <1>2, <1>4 DEF W!Whole
  <2>2. first' \in Addresses \cup {NULL}
    BY <1>2, WaFinite
  <2> QED BY <1>5, <2>1, <2>2 DEF W!TypeOK
<1> QED BY <1>1, <1>3, <1>6 DEF W!WallInOrder

LEMMA WaParts ==
    ASSUME W!WallInOrder
    PROVE  /\ W!Whole(W!Wall) /\ W!Live = DOMAIN W!Wall.arena
           /\ W!Wall.arena = arena /\ W!Wall.first = first /\ W!Wall.numNews = numNews
           /\ enabled \in BOOLEAN /\ profiled \in [on : BOOLEAN, news : 0 .. W!MaxProfiled]
           /\ W!NoReport \in [kind : {"none", "invalid", "overwritten", "cleaned", "leaked"},
                              walls : SUBSET W!Walls, blocks : SUBSET Addresses]
           /\ W!ListFrom(W!Wall) \subseteq Addresses
<1>1. W!ListFrom(W!Wall) \subseteq Addresses
  <2>1. PICK S \in SUBSET Addresses : W!Closed(W!Wall, S)
    BY DEF W!WallInOrder, W!Whole
  <2> QED BY <2>1, WaWalk
<1> QED BY <1>1 DEF W!WallInOrder, W!TypeOK, W!Wall, W!Live, W!NoReport

LEMMA WaStays ==
    ASSUME W!WallInOrder, UNCHANGED <<arena, first, numNews>>
    PROVE  W!Become(W!Wall)
BY DEF W!Become, W!Wall

LEMMA WaProfile ==
    ASSUME profiled \in [on : BOOLEAN, news : 0 .. W!MaxProfiled], W!Profile
    PROVE  profiled' \in [on : BOOLEAN, news : 0 .. W!MaxProfiled]
<1>1. W!MaxProfiled = 2
  BY DEF W!MaxProfiled
<1>2. profiled' = [profiled EXCEPT !.news =
                      IF profiled.on /\ @ < W!MaxProfiled THEN @ + 1 ELSE @]
  BY DEF W!Profile
<1>3. (IF profiled.on /\ profiled.news < 2 THEN profiled.news + 1 ELSE profiled.news) \in 0 .. 2
  <2>1. profiled.news \in 0 .. 2
    BY <1>1
  <2>2. CASE profiled.on /\ profiled.news < 2
    BY <2>1, <2>2
  <2>3. CASE ~(profiled.on /\ profiled.news < 2)
    BY <2>1, <2>3
  <2> QED BY <2>2, <2>3
<1> QED BY <1>1, <1>2, <1>3

LEMMA WaNew ==
    ASSUME W!WallInOrder, W!New
    PROVE  W!WallInOrder'
<1>1. ASSUME NEW size \in BlockSizes, NEW a \in Addresses \ W!Live,
             W!Become(W!NewIn(W!Wall, a, size)), W!Profile, report' = W!NoReport,
             UNCHANGED enabled
      PROVE  W!WallInOrder'
  BY <1>1, WaParts, WaProfile, WaNewIn, WaBecome
<1>2. CASE W!Profile /\ report' = W!NoReport /\ UNCHANGED <<arena, first, numNews, enabled>>
  BY <1>2, WaParts, WaProfile, WaStays, WaBecome
<1>3. CASE report' = W!NoReport /\ UNCHANGED <<arena, first, numNews, enabled, profiled>>
  BY <1>3, WaParts, WaStays, WaBecome
<1> QED BY <1>1, <1>2, <1>3 DEF W!New

LEMMA WaFree ==
    ASSUME W!WallInOrder, W!Free
    PROVE  W!WallInOrder'
<1>1. PICK a \in Addresses \cup Early \cup {NULL} :
        /\ W!Become(W!FreeOf(W!Wall, a).wall) /\ report' = W!FreeOf(W!Wall, a).report
        /\ UNCHANGED <<enabled, profiled>>
  BY DEF W!Free
<1> QED BY <1>1, WaParts, WaFreeOf, WaBecome

LEMMA WaReNew ==
    ASSUME W!WallInOrder, W!ReNew
    PROVE  W!WallInOrder'
<1>1. ASSUME NEW a \in W!Live \cup Early, NEW size \in BlockSizes, NEW b \in Addresses \ W!Live,
             W!Become(W!FreeOf(W!NewIn(W!Wall, b, size), a).wall), W!Profile,
             report' = W!FreeOf(W!NewIn(W!Wall, b, size), a).report, UNCHANGED enabled
      PROVE  W!WallInOrder'
  <2>1. W!Whole(W!NewIn(W!Wall, b, size))
    BY WaParts, WaNewIn
  <2> QED BY <1>1, <2>1, WaParts, WaProfile, WaFreeOf, WaBecome
<1>2. ASSUME NEW a \in W!Live \cup Early,
             W!Become(W!FreeOf(W!Wall, a).wall), W!Profile,
             report' = W!FreeOf(W!Wall, a).report, UNCHANGED enabled
      PROVE  W!WallInOrder'
  BY <1>2, WaParts, WaProfile, WaFreeOf, WaBecome
<1> QED BY <1>1, <1>2 DEF W!ReNew

LEMMA WaOverRun ==
    ASSUME W!WallInOrder, W!OverRun
    PROVE  W!WallInOrder'
<1>1. PICK a \in W!Live, side \in W!Walls :
        /\ arena' = [arena EXCEPT ![a].walls = @ \cup {side}]
        /\ report' = W!NoReport
        /\ UNCHANGED <<first, numNews, enabled, profiled>>
  BY DEF W!OverRun
<1> DEFINE v == [arena |-> arena', first |-> first', numNews |-> numNews']
           w == W!Wall
<1>2. W!Become(v) /\ v.arena = arena' /\ v.first = w.first /\ v.numNews = w.numNews
  BY <1>1, WaParts DEF W!Become
<1> HIDE DEF v
<1>3. W!Whole(w) /\ w.arena = arena /\ a \in DOMAIN arena
  BY WaParts
<1> HIDE DEF w
<1>4. DOMAIN v.arena = DOMAIN w.arena
      /\ \A b \in DOMAIN w.arena :
           /\ v.arena[b] \in W!Arenas
           /\ v.arena[b].prev = w.arena[b].prev /\ v.arena[b].next = w.arena[b].next
  <2>1. \A b \in DOMAIN w.arena : w.arena[b] \in W!Arenas
    BY <1>3 DEF W!Whole
  <2>2. /\ DOMAIN v.arena = DOMAIN w.arena
        /\ v.arena[a] = [w.arena[a] EXCEPT !.walls = w.arena[a].walls \cup {side}]
        /\ \A b \in DOMAIN w.arena : b # a => v.arena[b] = w.arena[b]
    BY <1>1, <1>2, <1>3
  <2>3. /\ v.arena[a] \in W!Arenas
        /\ v.arena[a].prev = w.arena[a].prev /\ v.arena[a].next = w.arena[a].next
    BY <1>3, <2>1, <2>2 DEF W!Arenas
  <2> QED BY <2>1, <2>2, <2>3
<1>5. W!Whole(v)
  <2>1. PICK S \in SUBSET Addresses : W!Closed(w, S)
    BY <1>3 DEF W!Whole
  <2>2. W!Closed(v, S)
    BY <1>2, <1>4, <2>1 DEF W!Closed
  <2> QED BY <1>2, <1>3, <1>4, <2>2 DEF W!Whole
<1> QED BY <1>1, <1>2, <1>5, WaParts, WaBecome

LEMMA WaEnables ==
    ASSUME W!WallInOrder, W!EnableOutput \/ W!EnableProfiling
    PROVE  W!WallInOrder'
<1>1. CASE W!EnableOutput
  BY <1>1, WaParts, WaStays, WaBecome DEF W!EnableOutput
<1>2. CASE W!EnableProfiling
  <2>1. PICK enable \in BOOLEAN :
          /\ profiled' = [on |-> enable, news |-> IF enable THEN 0 ELSE profiled.news]
          /\ report' = W!NoReport
          /\ UNCHANGED <<arena, first, numNews, enabled>>
    BY <1>2 DEF W!EnableProfiling
  <2>2. profiled' \in [on : BOOLEAN, news : 0 .. W!MaxProfiled]
    BY <2>1, WaParts DEF W!MaxProfiled
  <2> QED BY <2>1, <2>2, WaParts, WaStays, WaBecome
<1> QED BY <1>1, <1>2

\* A wall without a list.
LEMMA WaForgets ==
    ASSUME NEW w, W!Whole(w), NEW v, v.arena = w.arena, v.numNews = w.numNews, v.first = NULL
    PROVE  W!Whole(v)
<1>1. W!Closed(v, {})
  BY DEF W!Closed
<1> QED BY <1>1 DEF W!Whole

LEMMA WaDestroy ==
    ASSUME W!WallInOrder, W!Destroy
    PROVE  W!WallInOrder'
<1> DEFINE w == IF enabled /\ numNews > Most THEN W!AllFreed(W!Wall) ELSE W!Wall
           v == [arena |-> w.arena, first |-> NULL, numNews |-> w.numNews]
<1>1. W!Whole(w)
  BY WaParts, WaEmptied
<1>2. W!Become(v)
  <2>1. arena' = w.arena /\ first' = NULL /\ numNews' = w.numNews
    <3>1. CASE enabled /\ numNews > Most
      BY <3>1 DEF W!Destroy, W!Become
    <3>2. CASE ~(enabled /\ numNews > Most)
      BY <3>2 DEF W!Destroy, W!Become
    <3> QED BY <3>1, <3>2
  <2> QED BY <2>1 DEF W!Become
<1> HIDE DEF w
<1>3. W!Whole(v)
  BY <1>1, WaForgets
<1>4. report' \in [kind : {"none", "invalid", "overwritten", "cleaned", "leaked"},
                   walls : SUBSET W!Walls, blocks : SUBSET Addresses]
  <2>1. report' = IF ~enabled \/ first = NULL THEN W!NoReport
                  ELSE [kind |-> IF numNews > Most THEN "cleaned" ELSE "leaked",
                        walls |-> {}, blocks |-> W!ListFrom(W!Wall)]
    BY DEF W!Destroy
  <2> QED BY <2>1, WaParts
<1>5. UNCHANGED <<enabled, profiled>>
  BY DEF W!Destroy
<1> HIDE DEF v
<1> QED BY <1>2, <1>3, <1>4, <1>5, WaParts, WaBecome

LEMMA WaNext ==
    ASSUME W!WallInOrder, [W!Next]_ofWall
    PROVE  W!WallInOrder'
<1>1. CASE UNCHANGED ofWall
  <2>1. UNCHANGED <<arena, first, numNews, enabled, profiled, report>>
    BY <1>1 DEF ofWall
  <2>2. report \in [kind : {"none", "invalid", "overwritten", "cleaned", "leaked"},
                    walls : SUBSET W!Walls, blocks : SUBSET Addresses]
    BY DEF W!WallInOrder, W!TypeOK
  <2> QED BY <2>1, <2>2, WaParts, WaStays, WaBecome
<1>2. CASE W!Next
  BY <1>2, WaNew, WaFree, WaReNew, WaOverRun, WaEnables, WaDestroy DEF W!Next
<1> QED BY <1>1, <1>2

LEMMA WaInit ==
    ASSUME W!Init
    PROVE  W!WallInOrder
<1>1. /\ arena = [a \in {} |-> NULL] /\ first = NULL /\ numNews = 0 /\ enabled = TRUE
      /\ profiled \in [on : BOOLEAN, news : {0}] /\ report = W!NoReport
  BY DEF W!Init
<1>2. DOMAIN arena = {} /\ W!Live = {}
  BY <1>1 DEF W!Live
<1>3. W!Cardinality({}) = 0 /\ 0 \in 0 .. W!Cardinality(Addresses)
  <2>1. Cardinality({}) = 0 /\ Cardinality(Addresses) \in Nat
    BY FS_EmptySet, WaFarthest, FS_CardinalityType
  <2> QED BY <2>1, WaCardinality
<1>4. W!TypeOK
  BY <1>1, <1>2, <1>3 DEF W!TypeOK, W!NoReport, W!MaxProfiled
<1>5. W!Wall.arena = arena /\ W!Wall.first = NULL /\ W!Wall.numNews = 0
  BY <1>1 DEF W!Wall
<1>6. W!Whole(W!Wall)
  <2>1. W!Closed(W!Wall, {})
    BY <1>5 DEF W!Closed
  <2> QED BY <1>2, <1>3, <1>5, <2>1 DEF W!Whole
<1> QED BY <1>4, <1>6 DEF W!WallInOrder

--------------------------------------------------------------------------------
(***************************************************************************)
(* One part runs, and the others wait.                                     *)
(***************************************************************************)
NamesFollow ==
    part = "names" => N!TypeOK /\ N!PartComesBack /\ (last = "none" => path = <<>>)

FilesFollow == part = "file" => F!InOrder

DirectoryFollows == part = "directory" => D!InOrder

PoolFollows == part = "pool" => PoolInOrder

WallFollows == part = "wall" => W!WallInOrder

\* RFile and Utils: for any number of objects that open, create, lock, write, move and
\* delete files in any order on any of the platforms, a file that create() has made was
\* not there before, one that is held exclusively is held once, and the error that is
\* returned is the one that the disk shows; and for paths of any length the part behind
\* the last separator, added again, makes the path.
THEOREM FilesStayTheirs == AllSpec => []FilesAreTheirs
<1>1. AllInit => NamesFollow /\ FilesFollow
  BY NaInit, FiInit DEF AllInit, NamesFollow, FilesFollow
<1>2. NamesFollow /\ [AllNext]_all => NamesFollow'
  <2> SUFFICES ASSUME NamesFollow, [AllNext]_all, part' = "names"
               PROVE  N!TypeOK' /\ N!PartComesBack' /\ (last' = "none" => path' = <<>>)
    BY DEF NamesFollow
  <2>1. part = "names" /\ [N!Next]_(ofNames)
    BY DEF all, AllNext
  <2> QED BY <2>1, NaNext DEF NamesFollow
<1>3. FilesFollow /\ [AllNext]_all => FilesFollow'
  <2> SUFFICES ASSUME FilesFollow, [AllNext]_all, part' = "file"
               PROVE  F!InOrder'
    BY DEF FilesFollow
  <2>1. part = "file" /\ [F!Next]_(ofFile)
    BY DEF all, AllNext
  <2> QED BY <2>1, FiNext DEF FilesFollow
<1>4. NamesFollow /\ FilesFollow => FilesAreTheirs
  <2>1. CASE part = "names"
    BY <2>1 DEF NamesFollow, FilesAreTheirs
  <2>2. CASE part = "file"
    BY <2>2, FiShows DEF FilesFollow, FilesAreTheirs
  <2>3. CASE part \notin {"names", "file"}
    BY <2>3 DEF FilesAreTheirs
  <2> QED BY <2>1, <2>2, <2>3
<1> QED BY <1>1, <1>2, <1>3, <1>4, PTL DEF AllSpec

\* RDir, RRemoteDir: for any sizes of files, any width of a TInt and of the buffer of ExAll(),
\* on any platform, with files that come and go while the directory is read.
THEOREM ListingsAreRight == AllSpec => []ListingIsRight
<1>1. AllInit => DirectoryFollows
  BY DiInit DEF AllInit, DirectoryFollows
<1>2. DirectoryFollows /\ [AllNext]_all => DirectoryFollows'
  <2> SUFFICES ASSUME DirectoryFollows, [AllNext]_all, part' = "directory"
               PROVE  D!InOrder'
    BY DEF DirectoryFollows
  <2>1. part = "directory" /\ [D!Next]_(ofDirectory)
    BY DEF all, AllNext
  <2> QED BY <2>1, DiNext DEF DirectoryFollows
<1>3. DirectoryFollows => ListingIsRight
  BY DiShows DEF DirectoryFollows, ListingIsRight
<1> QED BY <1>1, <1>2, <1>3, PTL DEF AllSpec

\* RStdPool and MungWall: for any blocks and any number of items, every item is free,
\* handed out or about to be added, and only one of these, and no link that the pool
\* follows leads into memory that was freed, although callers write over the links of
\* what they hold; and for any addresses every block that a walk over MungWall's list
\* meets is allocated and linked both ways, and ulNumNews is the number of blocks.
THEOREM MemoryStaysKept == AllSpec => []MemoryIsKept
<1>1. AllInit => PoolFollows /\ WallFollows
  BY PoInit, WaInit DEF AllInit, PoolFollows, WallFollows
<1>2. PoolFollows /\ [AllNext]_all => PoolFollows'
  <2> SUFFICES ASSUME PoolFollows, [AllNext]_all, part' = "pool"
               PROVE  PoolInOrder'
    BY DEF PoolFollows
  <2>1. part = "pool" /\ [PNext]_pvars
    BY DEF all, AllNext, ofPool, pvars, vars
  <2> QED BY <2>1, PoNext DEF PoolFollows
<1>3. WallFollows /\ [AllNext]_all => WallFollows'
  <2> SUFFICES ASSUME WallFollows, [AllNext]_all, part' = "wall"
               PROVE  W!WallInOrder'
    BY DEF WallFollows
  <2>1. part = "wall" /\ [W!Next]_ofWall
    BY DEF all, AllNext
  <2> QED BY <2>1, WaNext DEF WallFollows
<1>4. PoolFollows /\ WallFollows => MemoryIsKept
  <2>1. CASE part = "pool"
    BY <2>1 DEF PoolFollows, PoolInOrder, MemoryIsKept
  <2>2. CASE part = "wall"
    BY <2>2, WaShows DEF WallFollows, MemoryIsKept
  <2>3. CASE part \notin {"pool", "wall"}
    BY <2>3 DEF MemoryIsKept
  <2> QED BY <2>1, <2>2, <2>3
<1> QED BY <1>1, <1>2, <1>3, <1>4, PTL DEF AllSpec
================================================================================
