-------------------------------- MODULE Wildcard --------------------------------
(***************************************************************************)
(* RWildcard::Match(): a name against a pattern in which '*' stands for    *)
(* any characters.  One step is one turn of its loop; the pointers are     *)
(* offsets, and the terminators read as Nul.                               *)
(***************************************************************************)
EXTENDS Naturals, Sequences, FiniteSets

CONSTANTS
    Letters,        \* characters of names
    MaxName,        \* bound: characters of a name
    MaxPattern      \* bound: characters of a pattern

Nul == "nul"

VARIABLES
    pattern,    \* m_pccWildcard
    name,       \* a_pccFileName
    char, wild, \* Char and Wildcard
    result      \* "none", or what Match() has returned

vars == <<pattern, name, char, wild, result>>

Strings(set, max) == UNION {[1 .. n -> set] : n \in 0 .. max}

At(s, i) == IF i < Len(s) THEN s[i + 1] ELSE Nul

Init ==
    /\ pattern \in Strings(Letters \cup {"*"}, MaxPattern) /\ name \in Strings(Letters, MaxName)
    /\ char = 0 /\ wild = 0 /\ result = "none"

\* The type invariant.
TypeOK ==
    /\ char \in 0 .. Len(name) /\ wild \in 0 .. Len(pattern)
    /\ result \in {"none", "true", "false"}

\* '*' takes what comes before the next character that follows it in the pattern.
SkipTo(c) ==
    CHOOSE i \in char .. Len(name) :
        /\ i = Len(name) \/ At(name, i) = c
        /\ \A k \in char .. i - 1 : At(name, k) # c

\* How many characters are equal from there on.
Equal(i, j) ==
    CHOOSE n \in 0 .. Len(name) :
        /\ i + n <= Len(name) /\ j + n <= Len(pattern)
        /\ i + n = Len(name) \/ j + n = Len(pattern) \/ At(name, i + n) # At(pattern, j + n)
        /\ \A k \in 0 .. n - 1 : At(name, i + k) = At(pattern, j + k)

\* MUTANT: a difference does not end the loop.
NeverDiffer(c, w) == IF c = Nul /\ w = Nul THEN "true" ELSE "none"

\* What the characters at the first difference decide.
Verdict(c, w) ==
    IF c = Nul /\ w = Nul THEN "true"
    ELSE IF c # Nul /\ w = "*" THEN "none" ELSE "false"

Turn ==
    /\ result = "none"
    /\ LET star == At(pattern, wild) = "*"
           j    == IF star THEN wild + 1 ELSE wild
           i    == IF star THEN SkipTo(At(pattern, j)) ELSE char
           n    == Equal(i, j)
           c    == At(name, i + n)
           w    == At(pattern, j + n)
       IN /\ char' = i + n /\ wild' = j + n
          /\ result' = Verdict(c, w)
    /\ UNCHANGED <<pattern, name>>

Next == Turn

Spec == Init /\ [][Next]_vars /\ WF_vars(Turn)

--------------------------------------------------------------------------------
\* What a pattern stands for: '*' for any part of the name.
Stands ==
    LET from[i \in 0 .. Len(name), j \in 0 .. Len(pattern)] ==
            IF j = Len(pattern) THEN i = Len(name)
            ELSE IF At(pattern, j) = "*" THEN \E k \in i .. Len(name) : from[k, j + 1]
            ELSE i < Len(name) /\ At(name, i) = At(pattern, j) /\ from[i + 1, j + 1]
    IN from[0, 0]

Occurrences(c) == Cardinality({i \in DOMAIN name : name[i] = c})

\* Match() commits itself to the first place where the character behind a '*' is
\* found.  It never has to take that back if the character occurs once.
Committed ==
    \E j \in DOMAIN pattern :
        /\ pattern[j] = "*" /\ j < Len(pattern)
        /\ pattern[j + 1] = "*" \/ Occurrences(pattern[j + 1]) > 1

\* Match() tells nothing but matches, and all of them but for those that it has
\* committed itself out of, and but for a '*' that has nothing to stand for at the end.
MatchesAreRight ==
    /\ result = "true" => Stands
    /\ result = "false" => \/ ~Stands \/ Committed
                           \/ pattern # <<>> /\ pattern[Len(pattern)] = "*" /\ char = Len(name)
================================================================================
