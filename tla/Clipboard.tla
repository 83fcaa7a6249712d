------------------------------- MODULE Clipboard -------------------------------
(***************************************************************************)
(* RClipboard on Amiga OS 3 and 4, Qt and Windows: one object that copies  *)
(* text to the clipboard of the system, through a buffer that its client   *)
(* fills, and reads what is there line by line, while other programs copy  *)
(* as well.  On Windows they are kept out while the clipboard is open; the *)
(* text read is the system's own memory there, and a copy of it elsewhere. *)
(*                                                                         *)
(* The client calls each function when the comments of the code allow it,  *)
(* and closes the clipboard when it has ended what it began.               *)
(***************************************************************************)
EXTENDS Naturals, Sequences, SequencesExt

CONSTANTS
    Platforms,      \* of "amiga3", "amiga4", "qt", "windows"
    MaxText,        \* bound: characters of the first text
    MaxCopy,        \* bound: characters of one that is copied
    MaxTexts        \* bound: texts copied by anyone

CR == "cr"

LF == "lf"

Characters == {"x", CR, LF}

\* What is in memory that nobody has written to.
Garbage == "?"

\* No buffer, and no text.
NULL == <<"NULL">>

\* The memory of a copy that SetDataEnd() has unlocked, and given to the clipboard.
Unlocked == <<"unlocked">>

VARIABLES
    platform,
    holder,     \* who has the clipboard open: "nobody", "us" or "another"
    text,       \* of the clipboard, or NULL
    begun,      \* the client is between SetDataStart() and SetDataEnd()
    buffer,     \* what m_pcSetData points to, or NULL
    used,       \* what the client has appended to it
    data,       \* m_pccGetData, or NULL
    pos,        \* m_pccCurrentGetData as an offset
    lines,      \* what GetNextLine() has returned: the line and hasEOL
    atEnd,      \* it has returned NULL
    gone,       \* data is memory that is not allocated any more
    ours,       \* the last text that this program has copied and nobody has replaced, or NULL
    texts

clip == <<holder, text, ours, texts>>
writing == <<begun, buffer, used>>
reading == <<data, pos, lines, atEnd, gone>>
vars == <<platform, clip, writing, reading>>

Texts(most) == UNION {[1 .. n -> Characters] : n \in 0 .. most}

Init ==
    /\ platform \in Platforms /\ holder = "nobody" /\ text \in Texts(MaxText) \cup {NULL}
    /\ begun = FALSE /\ buffer = NULL /\ used = <<>> /\ ours = NULL /\ texts = 0
    /\ data = NULL /\ pos = 0 /\ lines = <<>> /\ atEnd = FALSE /\ gone = FALSE

\* The type invariant.
TypeOK ==
    /\ holder \in {"nobody", "us", "another"}
    /\ holder = "another" => platform = "windows"
    /\ begun => buffer \notin {NULL, Unlocked} /\ Len(used) <= Len(buffer)
    /\ data # NULL => pos \in 0 .. Len(data)

--------------------------------------------------------------------------------
\* open() and close().
Open ==
    /\ holder = "nobody" /\ holder' = "us"
    /\ UNCHANGED <<platform, text, ours, texts, writing, reading>>

Close ==
    /\ holder = "us" /\ ~begun /\ data = NULL /\ holder' = "nobody"
    /\ UNCHANGED <<platform, text, ours, texts, writing, reading>>

\* Another program opens and closes the clipboard, and copies to it.
AnotherOpens ==
    /\ platform = "windows" /\ holder \in {"nobody", "another"}
    /\ holder' = IF holder = "nobody" THEN "another" ELSE "nobody"
    /\ UNCHANGED <<platform, text, ours, texts, writing, reading>>

AnotherCopies ==
    /\ texts < MaxTexts /\ texts' = texts + 1
    /\ platform = "windows" => holder = "another"
    /\ text' \in Texts(MaxCopy) \cup {NULL} /\ ours' = NULL
    /\ UNCHANGED <<platform, holder, writing, reading>>

--------------------------------------------------------------------------------
\* EmptyClipboard() frees what the clipboard has, also under a reader.
Emptied ==
    IF platform = "windows"
    THEN text' = NULL /\ ours' = NULL /\ gone' = (gone \/ data # NULL)
    ELSE UNCHANGED <<text, ours, gone>>

\* SetDataStart(), for n characters; there may be no memory for them, which is found
\* out when the clipboard is empty already, and leaves m_pcSetData as it is on Windows.
SetDataStart(n) ==
    /\ holder = "us" /\ ~begun /\ texts < MaxTexts /\ texts' = texts + 1
    /\ \/ begun' = TRUE /\ buffer' = [i \in 1 .. n |-> Garbage]
       \/ begun' = FALSE /\ buffer' = NULL
       \/ begun' = FALSE /\ buffer' = buffer /\ platform = "windows"
    /\ used' = <<>>
    /\ Emptied
    /\ UNCHANGED <<platform, holder, data, pos, lines, atEnd>>

\* AppendData(), of one character behind the others.  The client calls it and
\* SetDataEnd() as the comments say; the assertions, that m_pcSetData is not NULL, let
\* it append on Windows also when the memory is the clipboard's.
AppendData(c) ==
    /\ begun /\ Len(used) < Len(buffer)
    /\ used' = Append(used, c)
    /\ buffer' = [buffer EXCEPT ![Len(used')] = c]
    /\ UNCHANGED <<platform, begun, clip, reading>>

\* SetDataEnd(): the whole of the buffer goes to the clipboard, or the system does not
\* take it, of which the client is told nothing.  Windows keeps m_pcSetData.
SetDataEnd ==
    /\ begun /\ begun' = FALSE /\ used' = <<>>
    /\ buffer' = IF platform = "windows" THEN Unlocked ELSE NULL
    /\ \/ text' = buffer /\ ours' = used
       \/ UNCHANGED <<text, ours>>
    /\ UNCHANGED <<platform, holder, texts, reading>>

--------------------------------------------------------------------------------
\* GetDataStart(); on Qt there is always a text, elsewhere there may be none, or it
\* cannot be read.
GetDataStart ==
    /\ holder = "us" /\ data = NULL
    /\ \/ text # NULL /\ data' = text
       \/ text = NULL /\ platform = "qt" /\ data' = <<>>
    /\ pos' = 0 /\ lines' = <<>> /\ atEnd' = FALSE /\ gone' = FALSE
    /\ UNCHANGED <<platform, clip, writing>>

Is(i, c) == i < Len(data) /\ data[i + 1] = c

Behind(i, c) == IF Is(i, c) THEN i + 1 ELSE i

\* Where the line ends that begins at the current position.
EndOfLine ==
    CHOOSE j \in pos .. Len(data) :
        /\ j = Len(data) \/ Is(j, CR) \/ Is(j, LF)
        /\ \A k \in pos .. j - 1 : ~Is(k, CR) /\ ~Is(k, LF)

\* GetNextLine(): a line and what ends it, CR, LF or both.
GetNextLine ==
    /\ data # NULL /\ ~atEnd /\ ~gone
    /\ LET next == Behind(Behind(EndOfLine, CR), LF)
       IN IF next = pos
          THEN atEnd' = TRUE /\ UNCHANGED <<pos, lines>>
          ELSE /\ pos' = next /\ UNCHANGED atEnd
               /\ lines' = Append(lines, [line |-> SubSeq(data, pos + 1, EndOfLine),
                                          hasEOL |-> next > EndOfLine])
    /\ UNCHANGED <<platform, clip, writing, data, gone>>

\* Of memory that is gone, anything can be read.
GetGarbage ==
    /\ data # NULL /\ ~atEnd /\ gone /\ Len(lines) < MaxCopy
    /\ \/ atEnd' = TRUE /\ UNCHANGED lines
       \/ lines' = Append(lines, [line |-> <<Garbage>>, hasEOL |-> TRUE]) /\ UNCHANGED atEnd
    /\ UNCHANGED <<platform, clip, writing, data, pos, gone>>

GetDataEnd ==
    /\ data # NULL /\ data' = NULL
    /\ pos' = 0 /\ lines' = <<>> /\ atEnd' = FALSE /\ gone' = FALSE
    /\ UNCHANGED <<platform, clip, writing>>

Next ==
    \/ Open \/ Close \/ AnotherOpens \/ AnotherCopies
    \/ \E n \in 0 .. MaxCopy : SetDataStart(n)
    \/ \E c \in Characters : AppendData(c)
    \/ SetDataEnd \/ GetDataStart \/ GetNextLine \/ GetGarbage \/ GetDataEnd

Spec == Init /\ [][Next]_vars

--------------------------------------------------------------------------------
\* A text told from its end: each line with what ends it, and CR LF is one end.
Told(c, a) ==
    IF c = CR /\ a # <<>> /\ a[1] = [line |-> <<>>, ends |-> LF] THEN <<[line |-> <<>>, ends |-> CR]>> \o Tail(a)
    ELSE IF c \in {CR, LF} THEN <<[line |-> <<>>, ends |-> c]>> \o a
    ELSE IF a = <<>> THEN <<[line |-> <<c>>, ends |-> "nothing"]>>
    ELSE <<[a[1] EXCEPT !.line = <<c>> \o @]>> \o Tail(a)

LinesOf(s) ==
    LET a == FoldRight(Told, s, <<>>)
    IN [i \in DOMAIN a |-> [line |-> a[i].line, hasEOL |-> a[i].ends # "nothing"]]

\* The lines read are those of the text that was on the clipboard at the beginning,
\* with any line ends, whoever copies in the meantime: but this program itself on
\* Windows, where that frees the text it reads.
LinesAreTheText ==
    data # NULL /\ ~gone => /\ IsPrefix(lines, LinesOf(data))
                            /\ atEnd => lines = LinesOf(data)

\* What this program has copied last is on the clipboard until someone else copies,
\* with garbage behind it if it was less than SetDataStart() was told.
CopyIsThere ==
    ours # NULL => /\ IsPrefix(ours, text)
                   /\ \A i \in Len(ours) + 1 .. Len(text) : text[i] = Garbage
================================================================================
