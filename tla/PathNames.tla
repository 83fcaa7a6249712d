------------------------------- MODULE PathNames -------------------------------
(***************************************************************************)
(* The functions of Utils for the names of files, on a buffer that a path  *)
(* is put together in: addPart(), filePart(), Extension(), LocalisePath(), *)
(* NormalisePath(), TrimString() and the PROGDIR: prefix.                  *)
(* (On Amiga OS, addPart() is the system's.)                               *)
(***************************************************************************)
EXTENDS Naturals, Sequences, SequencesExt

CONSTANTS
    Chars,          \* the characters of names: of "/", "\\", ":", ".", " ", and letters
    MaxSource,      \* bound: characters of a part
    MaxSize,        \* bound: a_stDestSize
    MaxParts        \* bound: calls of addPart() on one buffer

Separators == {"/", "\\", ":"}
Blanks == {" ", "\t"}
Program == <<"p", "/">>         \* the directory that the program was started from

VARIABLES
    windows,        \* whether the code is compiled for Windows
    size,           \* of the buffer
    path,           \* what is in the buffer, without its terminator
    source, before, \* the part that addPart() was called for, and the buffer before
    last,           \* the last operation, "refused" if it was addPart() and failed
    parts

vars == <<windows, size, path, source, before, last, parts>>

Strings(max) == UNION {[1 .. n -> Chars] : n \in 0 .. max}

Init ==
    /\ windows \in BOOLEAN /\ size \in 1 .. MaxSize
    /\ path = <<>> /\ source = <<>> /\ before = <<>> /\ last = "none" /\ parts = 0

\* The type invariant.
TypeOK ==
    /\ path \in Seq(Chars \cup Separators \cup {"A"} \cup Range(Program))
    /\ last \in {"none", "addPart", "refused", "localise", "normalise", "trim", "progdir"}

--------------------------------------------------------------------------------
\* filePart(): what is behind the last separator.
FilePart(s) == SubSeq(s, SelectLastInSeq(s, LAMBDA c : c \in Separators) + 1, Len(s))

\* Extension(): what is behind the last dot, or NULL.
HasExtension(s) == \E i \in DOMAIN s : s[i] = "."
Extension(s) == SubSeq(s, SelectLastInSeq(s, LAMBDA c : c = ".") + 1, Len(s))

\* The size that addPart() asks for: there need not be room for the terminator of a
\* path that needs a '/', or of the first part.
Needed(s, t) == IF s = <<>> THEN Len(t) ELSE Len(s) + 1 + Len(t)

Joined(s, t) ==
    IF s = <<>> \/ Last(s) \in Separators THEN s \o t ELSE s \o <<"/">> \o t

addPart ==
    /\ parts < MaxParts /\ parts' = parts + 1
    /\ \E t \in Strings(MaxSource) :
         /\ source' = t /\ before' = path
         /\ IF Needed(path, t) <= size
            THEN path' = Joined(path, t) /\ last' = "addPart"
            ELSE UNCHANGED path /\ last' = "refused"
    /\ UNCHANGED <<windows, size>>

\* ResolveProgDirName(): the part is added to what is left of the program's name.  The
\* size passed is that of the whole buffer, which the directory is in already.
ResolveProgDirName ==
    /\ last = "none" /\ Len(Program) < size
    /\ \E t \in Strings(MaxSource) :
         /\ source' = t /\ before' = Program
         /\ IF Len(t) <= size
            THEN path' = Program \o t /\ last' = "progdir"
            ELSE UNCHANGED path /\ last' = "refused"
    /\ parts' = MaxParts
    /\ UNCHANGED <<windows, size>>

Replaced(s, from, to) == [i \in DOMAIN s |-> IF s[i] = from THEN to ELSE s[i]]

Upper(c) == IF c = "a" THEN "A" ELSE c

LocalisePath ==
    /\ path' = IF windows THEN Replaced(path, "/", "\\") ELSE Replaced(path, "\\", "/")
    /\ last' = "localise" /\ before' = path
    /\ UNCHANGED <<windows, size, source, parts>>

NormalisePath ==
    /\ LET s == Replaced(path, "\\", "/") IN
         path' = IF windows /\ Len(s) >= 2 THEN <<Upper(s[1])>> \o Tail(s) ELSE s
    /\ last' = "normalise" /\ before' = path
    /\ UNCHANGED <<windows, size, source, parts>>

\* TrimString(): the blanks in front go, then those behind; if there is nothing else,
\* the first character is not looked at, but it is gone by then.
Trimmed(s) ==
    LET first == SelectInSeq(s, LAMBDA c : c \notin Blanks)
        behind == SelectLastInSeq(s, LAMBDA c : c \notin Blanks)
    IN IF first = 0 THEN <<>> ELSE SubSeq(s, first, behind)

TrimString ==
    /\ path' = Trimmed(path) /\ last' = "trim" /\ before' = path
    /\ UNCHANGED <<windows, size, source, parts>>

Next == addPart \/ ResolveProgDirName \/ LocalisePath \/ NormalisePath \/ TrimString

Spec == Init /\ [][Next]_vars

--------------------------------------------------------------------------------
Plain(s) == \A i \in DOMAIN s : s[i] \notin Separators

\* A part that was added comes back, as what filePart() finds and with its own
\* extension, with one separator before it and the path before that as it was; one
\* that was refused has left no trace.  Making the path local or normal leaves its
\* parts where they are.
PartComesBack ==
    /\ last \in {"addPart", "progdir"} =>
          /\ Plain(source) =>
                /\ FilePart(path) = source
                /\ HasExtension(source) => HasExtension(path) /\ Extension(path) = Extension(source)
          /\ IsPrefix(before, path) /\ IsSuffix(source, path)
          /\ Len(path) - Len(before) - Len(source) = IF before = <<>> \/ Last(before) \in Separators THEN 0 ELSE 1
    /\ last = "refused" => path = before \/ path = <<>>
    /\ last \in {"localise", "normalise"} =>
          /\ \A i \in DOMAIN before : path[i] \in Separators <=> before[i] \in Separators
          /\ last = "normalise" => ~Contains(path, "\\")
================================================================================
