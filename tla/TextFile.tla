-------------------------------- MODULE TextFile --------------------------------
(***************************************************************************)
(* RTextFile: a file that Utils::LoadFile() has put into memory, whose line*)
(* ends open() overwrites so that GetLine() can hand out the lines in      *)
(* place.  Another program may write to the file meanwhile.                *)
(***************************************************************************)
EXTENDS Naturals, Sequences, SequencesExt

CONSTANTS
    MaxLength       \* bound: characters of a file

CR == "cr"

LF == "lf"

Nul == "nul"

One == "one"        \* 0x01, which stands for the LF of a CR LF

Contents == UNION {[1 .. n -> {"x", CR, LF, Nul, One}] : n \in 0 .. MaxLength}

VARIABLES
    pc,         \* "closed", "sized", "open" or "undefined"
    disk,       \* the file
    size,       \* Entry.iSize, and m_iSize
    loaded,     \* the file as it was read
    memory,     \* m_pcBuffer, with the terminator behind it
    pos,        \* m_pcBufferPtr as an offset
    lines,      \* what GetLine() has returned since open() or Rewind()
    atEnd,      \* it has returned NULL
    shrunk      \* the file became shorter while it was opened

vars == <<pc, disk, size, loaded, memory, pos, lines, atEnd, shrunk>>

\* The type invariant.
TypeOK ==
    /\ pc \in {"closed", "sized", "open", "undefined"}
    /\ disk \in Seq({"x", CR, LF, Nul, One})
    /\ pc = "open" => Len(memory) = size + 1 /\ pos \in 0 .. size

Init ==
    /\ pc = "closed" /\ disk \in Contents /\ size = 0 /\ loaded = <<>> /\ memory = <<>>
    /\ pos = 0 /\ lines = <<>> /\ atEnd = FALSE /\ shrunk = FALSE

\* GetFileInfo() in LoadFile().
Open ==
    /\ pc = "closed" /\ pc' = "sized" /\ size' = Len(disk)
    /\ UNCHANGED <<disk, loaded, memory, pos, lines, atEnd, shrunk>>

\* Another program cuts the file, or adds to it.
Write ==
    /\ pc = "sized" /\ ~shrunk /\ Len(disk) = size
    /\ \/ \E n \in 0 .. size - 1 : disk' = SubSeq(disk, 1, n)
       \/ size < MaxLength /\ \E c \in {"x", LF} : disk' = Append(disk, c)
    /\ shrunk' = (Len(disk') < size)
    /\ UNCHANGED <<pc, size, loaded, memory, pos, lines, atEnd>>

\* MUTANT: both characters of CR LF end a line.
MarkedTwice(s) == [i \in DOMAIN s |-> IF s[i] \in {CR, LF} THEN Nul ELSE s[i]]

\* Line ends become terminators, and the second character of CR LF becomes 0x01.
Marked(s) ==
    [i \in DOMAIN s |-> IF s[i] = LF /\ i > 1 /\ s[i - 1] = CR THEN One
                        ELSE IF s[i] \in {CR, LF} THEN Nul ELSE s[i]]

\* RFile::read() in LoadFile(): a number of bytes less than the size is no error, and
\* there is no buffer then, in which open() looks for lines if it is not zero.
Read ==
    /\ pc = "sized"
    /\ IF Len(disk) >= size
       THEN /\ pc' = "open" /\ loaded' = SubSeq(disk, 1, size)
            /\ memory' = Append(Marked(SubSeq(disk, 1, size)), Nul)
       ELSE /\ pc' = IF disk = <<>> THEN "closed" ELSE "undefined"
            /\ UNCHANGED <<loaded, memory>>
    /\ pos' = 0 /\ lines' = <<>> /\ atEnd' = FALSE
    /\ UNCHANGED <<disk, size, shrunk>>

\* GetFileInfo(), the allocation, RFile::open() or read() fails.
OpenFails ==
    /\ pc = "sized" /\ pc' = "closed"
    /\ UNCHANGED <<disk, size, loaded, memory, pos, lines, atEnd, shrunk>>

At(i) == memory[i + 1]

Past(i, c) == IF i < size /\ At(i) = c THEN i + 1 ELSE i

\* GetLine() up to the terminator, then over it and over 0x01.
GetLine ==
    /\ pc = "open" /\ ~atEnd
    /\ IF pos < size
       THEN LET end == CHOOSE j \in pos .. size :
                          At(j) = Nul /\ \A k \in pos .. j - 1 : At(k) # Nul
            IN /\ lines' = Append(lines, SubSeq(memory, pos + 1, end))
               /\ pos' = Past(Past(end, Nul), One)
               /\ atEnd' = FALSE
       ELSE atEnd' = TRUE /\ UNCHANGED <<lines, pos>>
    /\ UNCHANGED <<pc, disk, size, loaded, memory, shrunk>>

Rewind ==
    /\ pc = "open" /\ (atEnd \/ lines # <<>>)
    /\ pos' = 0 /\ lines' = <<>> /\ atEnd' = FALSE
    /\ UNCHANGED <<pc, disk, size, loaded, memory, shrunk>>

Close ==
    /\ pc = "open" /\ pc' = "closed"
    /\ memory' = <<>> /\ loaded' = <<>> /\ pos' = 0 /\ lines' = <<>> /\ atEnd' = FALSE
    /\ UNCHANGED <<disk, size, shrunk>>

Next == Open \/ Write \/ Read \/ OpenFails \/ GetLine \/ Rewind \/ Close

Spec == Init /\ [][Next]_vars

--------------------------------------------------------------------------------
\* The lines of a text, told a character at a time: CR LF, CR and LF each end one.
Told(a, c) ==
    IF c = LF /\ a.last = CR THEN [a EXCEPT !.last = LF]
    ELSE IF c \in {CR, LF} THEN [last |-> c, done |-> Append(a.done, a.line), line |-> <<>>]
    ELSE [a EXCEPT !.last = c, !.line = Append(@, c)]

LinesOf(s) ==
    LET a == FoldLeft(Told, [last |-> Nul, done |-> <<>>, line |-> <<>>], s)
    IN IF a.line = <<>> THEN a.done ELSE Append(a.done, a.line)

Ordinary == \A i \in DOMAIN loaded : loaded[i] \notin {Nul, One}

\* GetLine() gives the lines of the file one after another, the last one too if
\* nothing ends it, and all of them before NULL, however often it is rewound: of
\* a file without NUL and 0x01.
LinesAreTheFile ==
    (pc = "open" /\ Ordinary) =>
        /\ IsPrefix(lines, LinesOf(loaded))
        /\ atEnd => lines = LinesOf(loaded)

\* open() and GetLine() stay in the buffer, unless the file became shorter meanwhile.
StaysInBuffer == pc = "undefined" => shrunk
================================================================================
