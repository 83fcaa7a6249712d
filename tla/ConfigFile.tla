------------------------------- MODULE ConfigFile -------------------------------
(***************************************************************************)
(* RConfigFile: a file of sections, subsections, groups and keys, which    *)
(* Parse() puts into a tree of CSection and CKey nodes and GetString()     *)
(* goes through once more on its own.                                      *)
(*                                                                         *)
(* A line is what it looks like without the whitespace around it, how much *)
(* of that there is in front, and whether a newline ends it; a value is a  *)
(* number of words.  A node of the tree is the line it comes from.         *)
(***************************************************************************)
EXTENDS Naturals, Sequences, SequencesExt, FiniteSets, FiniteSetsExt

CONSTANTS
    Names,          \* names of sections and keys
    Lines,          \* lines of files: [kind, name, words, indent]
    MaxLines        \* bound: lines of a file

VARIABLES
    pc,             \* "closed", "parsing", "open"
    file,           \* the lines of the file
    ended,          \* a newline ends the last of them
    at,             \* the line that is parsed next
    section, subSection, group,     \* Section, SubSection and Group: 0 is NULL
    parents,        \* of each line with a node in the tree: the node it is in, or 0
    values,         \* of each key in the tree: the words of its value
    buffered,       \* m_pcBuffer is allocated
    result          \* what open() returned

tree == <<parents, values>>
vars == <<pc, file, ended, at, section, subSection, group, tree, buffered, result>>

\* The type invariant.
TypeOK ==
    /\ pc \in {"closed", "parsing", "open"}
    /\ at \in 1 .. MaxLines + 1
    /\ {section, subSection, group} \subseteq 0 .. Len(file)
    /\ DOMAIN values \subseteq DOMAIN parents /\ DOMAIN parents \subseteq DOMAIN file
    /\ result \in {"KErrNone", "KErrNotFound", "KErrNoMemory", "KErrEof"}

Empty == [l \in {} |-> 0]

Init ==
    /\ pc = "closed" /\ file = <<>> /\ ended = TRUE /\ at = 1
    /\ section = 0 /\ subSection = 0 /\ group = 0
    /\ parents = Empty /\ values = Empty /\ buffered = FALSE /\ result = "KErrNone"

--------------------------------------------------------------------------------
(***************************************************************************)
(* open(): GetFileInfo(), RFile::open() and read() may fail.               *)
(***************************************************************************)
Freed ==
    /\ pc' = "closed" /\ file' = <<>> /\ ended' = TRUE /\ at' = 1
    /\ parents' = Empty /\ values' = Empty /\ buffered' = FALSE
    /\ section' = 0 /\ subSection' = 0 /\ group' = 0

Open(lines, newline) ==
    /\ pc = "closed" /\ pc' = "parsing" /\ buffered' = TRUE
    /\ file' = lines /\ ended' = (newline \/ lines = <<>>)
    /\ UNCHANGED <<at, section, subSection, group, tree, result>>

OpenFails(error) ==
    /\ pc = "closed" /\ result' = error /\ Freed

Close == pc = "open" /\ Freed /\ UNCHANGED result

--------------------------------------------------------------------------------
(***************************************************************************)
(* Parse(), a line at a time.                                              *)
(***************************************************************************)
Line == file[at]

\* Without a newline at the end LFIndex is 0, and StripDags() leaves nothing.
Seen(l) == l < Len(file) \/ ended

\* Characters of the line without the whitespace around it: a name is one, and so are
\* the '=' and each word and each space between words.
Length(line) == IF line.words = 0 THEN 2 ELSE 2 + 2 * line.words - 1

\* TLex is given the line from its beginning, but its length without whitespace: it
\* finds the value if that begins before the end, cut off by the indentation.
FindsValue(line) == line.words > 0 /\ line.indent + 2 < Length(line)

Put(parent) == parents' = [l \in DOMAIN parents \cup {at} |-> IF l = at THEN parent ELSE parents[l]]

Onward ==
    /\ at' = at + 1
    /\ UNCHANGED <<pc, file, ended, buffered, result>>

NewSection ==
    /\ pc = "parsing" /\ at <= Len(file) /\ Seen(at) /\ Line.kind = "section"
    /\ section' = at /\ subSection' = 0 /\ group' = 0
    /\ Put(0) /\ UNCHANGED values /\ Onward

\* MUTANT: the group of the subsection before goes on.
NewSubSectionInGroup ==
    /\ pc = "parsing" /\ at <= Len(file) /\ Seen(at) /\ Line.kind = "subsection"
    /\ IF section # 0 THEN Put(section) /\ subSection' = at ELSE UNCHANGED <<parents, subSection>>
    /\ UNCHANGED <<section, group, values>> /\ Onward

NewSubSection ==
    /\ pc = "parsing" /\ at <= Len(file) /\ Seen(at) /\ Line.kind = "subsection"
    /\ IF section # 0 THEN Put(section) /\ subSection' = at /\ group' = 0
       ELSE UNCHANGED <<parents, subSection, group>>
    /\ UNCHANGED <<section, values>> /\ Onward

NewGroup ==
    /\ pc = "parsing" /\ at <= Len(file) /\ Seen(at) /\ Line.kind = "group"
    /\ IF subSection # 0 THEN Put(subSection) /\ group' = at ELSE UNCHANGED <<parents, group>>
    /\ UNCHANGED <<section, subSection, values>> /\ Onward

\* The value goes on to the end of the line.
NewKey ==
    /\ pc = "parsing" /\ at <= Len(file) /\ Seen(at) /\ Line.kind = "key"
    /\ IF FindsValue(Line) /\ subSection # 0
       THEN /\ Put(IF group # 0 THEN group ELSE subSection)
            /\ values' = [l \in DOMAIN values \cup {at} |-> IF l = at THEN Line.words ELSE values[l]]
       ELSE UNCHANGED tree
    /\ UNCHANGED <<section, subSection, group>> /\ Onward

Ignored ==
    /\ pc = "parsing" /\ at <= Len(file) /\ (Line.kind = "comment" \/ ~Seen(at))
    /\ UNCHANGED <<section, subSection, group, tree>> /\ Onward

\* A node cannot be allocated: open() closes the file again.
OutOfMemory ==
    /\ pc = "parsing" /\ at <= Len(file) /\ Line.kind # "comment"
    /\ result' = "KErrNoMemory" /\ Freed

Parsed ==
    /\ pc = "parsing" /\ at > Len(file)
    /\ pc' = "open" /\ result' = "KErrNone"
    /\ UNCHANGED <<file, ended, at, section, subSection, group, tree, buffered>>

Files == UNION {[1 .. n -> Lines] : n \in 0 .. MaxLines}

Next ==
    \/ pc = "closed" /\ \E lines \in Files, newline \in BOOLEAN : Open(lines, newline)
    \/ \E error \in {"KErrNotFound", "KErrNoMemory", "KErrEof"} : OpenFails(error)
    \/ NewSection \/ NewSubSection \/ NewGroup \/ NewKey \/ Ignored
    \/ OutOfMemory \/ Parsed \/ Close

Spec == Init /\ [][Next]_vars

--------------------------------------------------------------------------------
(***************************************************************************)
(* The tree, and GetString() through the buffer.  Found is the line, 0 is  *)
(* NULL.                                                                   *)
(***************************************************************************)
Children(node, kind) == {l \in DOMAIN parents : parents[l] = node /\ file[l].kind = kind}

\* FindSection() and FindKey().
Find(node, kind, name) ==
    LET ls == {l \in Children(node, kind) : file[l].name = name} IN IF ls = {} THEN 0 ELSE Min(ls)

\* FindNextKey().
FindNext(key, name) ==
    LET ls == {l \in Children(parents[key], "key") : l > key /\ file[l].name = name}
    IN IF ls = {} THEN 0 ELSE Min(ls)

FindInTree(s, b, k) ==
    LET found == Find(0, "section", s)
        below == IF found = 0 THEN 0 ELSE Find(found, "subsection", b)
    IN IF below = 0 THEN 0 ELSE Find(below, "key", k)

\* The lines of the first section of that name, and in it of the first subsection: a
\* last line without a newline is no heading.
From(ls) == IF ls = {} THEN Len(file) + 1 ELSE Min(ls)

Of(kind, after) == {l \in DOMAIN file : l > after /\ Seen(l) /\ file[l].kind = kind}

GetString(s, b, k) ==
    LET first  == From({l \in Of("section", 0) : file[l].name = s})
        below  == From({l \in Of("subsection", first) : file[l].name = b})
        end    == Min({From(Of("section", first)), From(Of("subsection", below))})
        inside == {l \in below + 1 .. end - 1 : l \in DOMAIN file /\ file[l].kind = "key"
                                                  /\ file[l].name = k /\ file[l].words > 0}
    IN From(inside) % (Len(file) + 1)

--------------------------------------------------------------------------------
LastOf(kind, l) == LET ls == {m \in 1 .. l - 1 : file[m].kind = kind} IN IF ls = {} THEN 0 ELSE Max(ls)

\* The heading that a line belongs to: of its own rank there is none in between.
Above(l) ==
    LET s == LastOf("section", l)
        b == LastOf("subsection", l)
        g == LastOf("group", l)
    IN CASE file[l].kind = "section"    -> {0}
         [] file[l].kind = "subsection" -> {s} \ {0}
         [] file[l].kind = "group"      -> IF s > 0 /\ b > s THEN {b} ELSE {}
         [] file[l].kind = "key"        -> IF ~(s > 0 /\ b > s) THEN {} ELSE IF g > b THEN {g} ELSE {b}
         [] OTHER                       -> {}

\* The last line is Parse()'s too if a newline ends it, and an indented key is as long
\* as its value is longer than the indentation.
Readable(l) == Seen(l) /\ (file[l].kind = "key" => FindsValue(file[l]))

\* What open() has read is the file: each heading and key that has its place stands
\* there once, with all of its value, and nothing else does.
TreeIsTheFile ==
    pc = "open" =>
        /\ DOMAIN parents = {l \in DOMAIN file : Readable(l) /\ Above(l) # {}}
        /\ \A l \in DOMAIN parents : parents[l] \in Above(l)
        /\ \A l \in DOMAIN values : values[l] = file[l].words

\* GetString() and the tree give the same key for a name, in a file without groups
\* whose lines are not indented and all end.
ReadersAgree ==
    (/\ pc = "open" /\ ended
     /\ \A l \in DOMAIN file : file[l].kind # "group" /\ file[l].indent = 0)
    => \A s, b, k \in Names : GetString(s, b, k) = FindInTree(s, b, k)

\* Enumerating a node's keys of a name gives each of them, in the order of the file.
EveryKeyIsFound ==
    pc = "open" =>
        \A key \in DOMAIN values :
            LET next == FindNext(key, file[key].name)
            IN /\ Find(parents[key], "key", file[key].name) <= key
               /\ next # 0 => parents[next] = parents[key] /\ next > key
               /\ \A l \in DOMAIN values :
                     parents[l] = parents[key] /\ file[l].name = file[key].name /\ l > key
                     => next \in key + 1 .. l
================================================================================
