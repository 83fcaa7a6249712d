------------------------------- MODULE StringList -------------------------------
(***************************************************************************)
(* CStdStringList: Append() takes a string apart and keeps copies of its   *)
(* parts behind those that are there, in an array that is made anew each   *)
(* time.  An allocation that fails is to leave the list as it was.         *)
(*                                                                         *)
(* A part is what TLex finds (Lex, with ";" for whitespace); a copy is     *)
(* numbered, and the class has no constructor: here its memory was zero.   *)
(***************************************************************************)
EXTENDS Naturals, Sequences, SequencesExt

CONSTANTS
    Parts,          \* of strings
    MaxParts,       \* bound: parts of one string
    MaxCopies       \* bound: copies made

VARIABLES
    pc,         \* "idle", "copying" or "undefined"
    array,      \* m_ppcStrings: the numbers of the copies
    newArray,   \* Strings: what has been put into the new array
    parts,      \* of the string that is appended
    copies,     \* what each copy is of
    memory,     \* copies that are allocated
    kept,       \* the parts of all strings that Append() has returned KErrNone for
    early       \* a copy could not be made, and it was not the last

vars == <<pc, array, newArray, parts, copies, memory, kept, early>>

Init ==
    /\ pc = "idle" /\ array = <<>> /\ newArray = <<>> /\ parts = <<>>
    /\ copies = <<>> /\ memory = {} /\ kept = <<>> /\ early = FALSE

\* The type invariant.
TypeOK ==
    /\ pc \in {"idle", "copying", "undefined"}
    /\ memory \subseteq DOMAIN copies /\ ToSet(array) \subseteq DOMAIN copies
    /\ kept \in Seq(Parts)
    /\ pc = "copying" => IsPrefix(array, newArray) /\ Len(newArray) <= Len(array) + Len(parts)

Strings == UNION {[1 .. n -> Parts] : n \in 0 .. MaxParts}

\* Append(): the parts are counted and the new array is there, or it is not and that is all.
AppendString(s) ==
    /\ pc = "idle" /\ Len(copies) + Len(s) <= MaxCopies
    /\ pc' = "copying" /\ parts' = s /\ newArray' = array
    /\ UNCHANGED <<array, copies, memory, kept, early>>

\* The part that is copied next.
Copied == Len(newArray) - Len(array) + 1

\* DuplicateString().
Copy ==
    /\ pc = "copying" /\ Copied <= Len(parts)
    /\ copies' = Append(copies, parts[Copied])
    /\ newArray' = Append(newArray, Len(copies'))
    /\ memory' = memory \cup {Len(copies')}
    /\ UNCHANGED <<pc, array, parts, kept, early>>

\* The old array goes, and its strings stay.
Keep ==
    /\ pc = "copying" /\ Copied > Len(parts)
    /\ array' = newArray /\ kept' = kept \o parts
    /\ pc' = "idle" /\ newArray' = <<>> /\ parts' = <<>>
    /\ UNCHANGED <<copies, memory, early>>

\* What is freed of the new array.
NewOnes == ToSet(newArray) \ ToSet(array)

\* A copy cannot be made: those made before are freed, the missing one as NULL, and
\* what was never put behind it too.
Fail ==
    /\ pc = "copying" /\ Copied <= Len(parts)
    /\ memory' = memory \ NewOnes
    /\ early' = (early \/ Copied < Len(parts))
    /\ pc' = IF Copied < Len(parts) THEN "undefined" ELSE "idle"
    /\ newArray' = <<>> /\ parts' = <<>>
    /\ UNCHANGED <<array, copies, kept>>

Reset ==
    /\ pc = "idle" /\ array # <<>>
    /\ memory' = memory \ ToSet(array) /\ array' = <<>> /\ kept' = <<>>
    /\ UNCHANGED <<pc, newArray, parts, copies, early>>

Next == (\E s \in Strings : AppendString(s)) \/ Copy \/ Keep \/ Fail \/ Reset

Spec == Init /\ [][Next]_vars

--------------------------------------------------------------------------------
\* Between calls the list has the parts of all strings it was given and kept, in
\* their order, in memory that is allocated and is all that is: after a failure too,
\* unless a part was still to come when it happened.
ListIsKept ==
    /\ pc = "idle" => /\ [i \in DOMAIN array |-> copies[array[i]]] = kept
                      /\ memory = ToSet(array)
    /\ pc = "undefined" => early
================================================================================
