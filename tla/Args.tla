--------------------------------- MODULE Args ---------------------------------
(***************************************************************************)
(* RArgs: the arguments of a program given to the options of its template, *)
(* as ReadArgs() of Amiga OS does.  readArgs() is the library's own, for   *)
(* the other systems; on Amiga OS the library makes the command line that  *)
(* it has ReadArgs() read.                                                 *)
(*                                                                         *)
(* The words come apart in Lex.  An argument is its position in argv.      *)
(***************************************************************************)
EXTENDS Integers, Sequences, SequencesExt, FiniteSets, FiniteSetsExt

CONSTANTS
    Templates,      \* sequences of options
    Words,          \* what arguments are: names of options, others, and ""
    MaxWords,       \* bound: arguments
    NumNewArgs,     \* NUM_NEW_ARGS
    MaxOpens        \* bound: calls of open()

VARIABLES
    pc,         \* "closed", "magic", "switches", "others", "open"
    template,   \* a_pccTemplate
    words,      \* a_ppcArgV without the name of the program
    unused,     \* ArgV: positions that have not been taken
    index,      \* the option that is next
    args,       \* m_pstArgs, but for the magic option: 0 if there is no argument
    magic,      \* the list at the magic option
    room,       \* m_iNumMagicArgs
    magicOption,    \* m_iMagicOption: 0 if there is none
    result,     \* what open() returned
    command,    \* on Amiga OS, the buffer for the command line and what is written to it
    opens       \* calls of open()

vars == <<pc, template, words, unused, index, args, magic, room, magicOption, result, command,
          opens>>

Errors == {"KErrNone", "KErrNotFound", "KErrNoMemory"}

\* The type invariant.
TypeOK ==
    /\ pc \in {"closed", "magic", "switches", "others", "open"}
    /\ unused \subseteq DOMAIN words
    /\ \A i \in DOMAIN args : args[i] \in 0 .. Len(words)
    /\ ToSet(magic) \subseteq DOMAIN words
    /\ magicOption \in 0 .. Len(args)
    /\ result \in Errors

Init ==
    /\ pc = "closed" /\ template = <<>> /\ words = <<>> /\ unused = {} /\ index = 1
    /\ args = <<>> /\ magic = <<>> /\ room = 0 /\ magicOption = 0 /\ result = "KErrNone"
    /\ command = [size |-> 0, used |-> 0] /\ opens = 0

--------------------------------------------------------------------------------
(***************************************************************************)
(* ExtractOption(): the last modifier is the type, unless one is M.  The   *)
(* name ends at the last slash that was looked at.                         *)
(***************************************************************************)
Type(option) ==
    IF "M" \in ToSet(option.modifiers) THEN "M"
    ELSE IF option.modifiers = <<>> THEN "" ELSE Last(option.modifiers)

\* _stricmp() with the name, to which a modifier may stick.
IsNamed(option, word) == option.name = word /\ Len(option.modifiers) = 1

Option == template[index]

\* The arguments that are no empty strings.
Usable == {i \in unused : words[i] # ""}

--------------------------------------------------------------------------------
Open(t, ws) ==
    /\ pc = "closed" /\ opens < MaxOpens /\ command.size = 0
    /\ opens' = opens + 1
    /\ template' = t /\ words' = ws /\ unused' = DOMAIN ws
    /\ args' = [i \in DOMAIN t |-> 0]
    /\ pc' = "magic" /\ index' = 1
    /\ UNCHANGED <<magic, room, magicOption, result, command>>

\* FindMagicOption().
FindMagicOption ==
    /\ pc = "magic" /\ pc' = "switches"
    /\ magicOption' = LET ms == {i \in DOMAIN template : Type(template[i]) = "M"}
                      IN IF ms = {} THEN magicOption ELSE Min(ms)
    /\ UNCHANGED <<template, words, unused, index, args, magic, room, result, command, opens>>

\* The first pass is for switches.
Switch ==
    /\ pc = "switches"
    /\ LET at == {i \in unused : Type(Option) = "S" /\ IsNamed(Option, words[i])}
       IN IF at = {} THEN UNCHANGED <<args, unused>>
          ELSE /\ args' = [args EXCEPT ![index] = Min(at)]
               /\ unused' = unused \ {Min(at)}
    /\ IF index = Len(template) THEN pc' = "others" /\ index' = 1
       ELSE pc' = pc /\ index' = index + 1
    /\ UNCHANGED <<template, words, magic, room, magicOption, result, command, opens>>

\* On to the next option, or open() ends.
Advance ==
    /\ IF index = Len(template) THEN pc' = "open" /\ result' = "KErrNone" ELSE pc' = pc /\ result' = result
    /\ index' = index + 1
    /\ UNCHANGED <<template, words, magicOption, command, opens>>

\* What close() resets; the rest is the caller's.
Closed ==
    /\ pc' = "closed" /\ args' = <<>> /\ magic' = <<>> /\ room' = 0 /\ magicOption' = 0
    /\ template' = <<>> /\ words' = <<>> /\ unused' = {} /\ index' = 1
    /\ UNCHANGED <<command, opens>>

Fail(error) == Closed /\ result' = error

\* A keyword takes the argument behind it, whatever that is.
Keyword ==
    /\ pc = "others" /\ Type(Option) = "K"
    /\ LET at == {i \in Usable : IsNamed(Option, words[i])}
           i  == Min(at)
       IN IF at = {} THEN Advance /\ UNCHANGED <<unused, args, magic, room>>
          ELSE IF i = Len(words) THEN Fail("KErrNotFound")
          ELSE /\ args' = [args EXCEPT ![index] = IF i + 1 \in unused THEN i + 1 ELSE 0]
               /\ unused' = unused \ {i, i + 1}
               /\ Advance /\ UNCHANGED <<magic, room>>

\* Switches have had their turn in the first pass.
Skip ==
    /\ pc = "others" /\ Type(Option) \notin {"K", "A", "", "M"}
    /\ Advance /\ UNCHANGED <<unused, args, magic, room>>

\* The first argument that is left is for an option without a keyword.
Positional ==
    /\ pc = "others" /\ Type(Option) \in {"A", ""} /\ Usable # {}
    /\ args' = [args EXCEPT ![index] = Min(Usable)]
    /\ unused' = unused \ {Min(Usable)}
    /\ Advance /\ UNCHANGED <<magic, room>>

Absent ==
    /\ pc = "others" /\ Type(Option) = "" /\ Usable = {}
    /\ Advance /\ UNCHANGED <<unused, args, magic, room>>

\* A required option steals the last of the magic option's; that ends the reading.
Steal ==
    /\ pc = "others" /\ Type(Option) = "A" /\ Usable = {}
    /\ IF magic = <<>> THEN Fail("KErrNotFound")
       ELSE /\ args' = [args EXCEPT ![index] = Last(magic)]
            /\ magic' = Front(magic)
            /\ pc' = "open" /\ result' = "KErrNone"
            /\ UNCHANGED <<template, words, unused, index, room, magicOption, command, opens>>

\* The list grows by NUM_NEW_ARGS when only its terminator has room.
Grow(n) == IF n = 0 THEN room ELSE IF room = 0 THEN NumNewArgs
           ELSE IF Len(magic) >= room - 1 THEN room + NumNewArgs ELSE room

\* The magic option takes one argument after another, all that are left.
Magic ==
    /\ pc = "others" /\ Type(Option) = "M"
    /\ IF Usable = {} THEN Advance /\ UNCHANGED <<unused, args, magic, room>>
       ELSE /\ room' = Grow(Cardinality(Usable))
            /\ magic' = Append(magic, Min(Usable))
            /\ unused' = unused \ {Min(Usable)}
            /\ UNCHANGED <<pc, template, words, index, args, magicOption, result, command, opens>>

\* One of the allocations fails.
OutOfMemory == pc \in {"switches", "others"} /\ Fail("KErrNoMemory")

Close ==
    /\ pc = "open" /\ Closed /\ result' = "KErrNone"

--------------------------------------------------------------------------------
(***************************************************************************)
(* The buffers on Amiga OS.  An argument has a length and spaces or none, a*)
(* tooltype has a length and a number of '='.                              *)
(***************************************************************************)
Total(f(_), s) == FoldLeft(LAMBDA n, x : n + f(x), 0, s)

\* From the arguments of main(): quotes for one with spaces, a space between two,
\* the newline and the terminator.
FromMain(given) ==
    /\ pc = "closed" /\ opens = 0
    /\ command' = [size |-> 2 + Total(LAMBDA a : a.length + 3, given),
                   used |-> Total(LAMBDA a : a.length + IF a.spaces THEN 2 ELSE 0, given)
                               + (IF given = <<>> THEN 0 ELSE Len(given) - 1) + 2]
    /\ UNCHANGED <<pc, template, words, unused, index, args, magic, room, magicOption, result, opens>>

\* From tooltypes: a quote behind each '=' and one at the end, a space, the terminator
\* that the next one overwrites.
FromToolTypes(types) ==
    /\ pc = "closed" /\ opens = 0
    /\ command' = [size |-> 1 + Total(LAMBDA t : t.length + 3, types),
                   used |-> 1 + Total(LAMBDA t : t.length + t.equals
                                        + (IF t.equals > 0 THEN 1 ELSE 0) + 1, types)]
    /\ UNCHANGED <<pc, template, words, unused, index, args, magic, room, magicOption, result, opens>>

Given == UNION {[1 .. n -> [length : 1 .. 2, spaces : BOOLEAN]] : n \in 0 .. 2}

\* Tooltypes of one '=' at most.
ToolTypes == UNION {[1 .. n -> [length : 1 .. 2, equals : 0 .. 1]] : n \in 0 .. 2}

Lists == UNION {[1 .. n -> Words] : n \in 0 .. MaxWords}

Next ==
    \/ pc = "closed" /\ \E t \in Templates, ws \in Lists : Open(t, ws)
    \/ FindMagicOption \/ Switch \/ Skip \/ Keyword \/ Positional \/ Absent \/ Steal \/ Magic
    \/ OutOfMemory \/ Close
    \/ \E given \in Given : FromMain(given)
    \/ \E types \in ToolTypes : FromToolTypes(types)

Spec == Init /\ [][Next]_vars

--------------------------------------------------------------------------------
Taken == {args[i] : i \in DOMAIN args} \ {0}

\* Each argument is used once: by one option, or once in the magic option's list,
\* and those in the list are in the order of the command line.
UsedOnce ==
    /\ \A i, j \in DOMAIN args : i # j /\ args[i] # 0 => args[i] # args[j]
    /\ Taken \cap ToSet(magic) = {}
    /\ (Taken \cup ToSet(magic)) \cap unused = {}
    /\ \A i, j \in DOMAIN magic : i < j => magic[i] < magic[j]

Required == {i \in DOMAIN template : Type(template[i]) = "A"}

\* The same of a template with one required option behind the magic one.
OneRequiredIsGiven ==
    (/\ pc = "open"
     /\ Cardinality({i \in Required : magicOption # 0 /\ i > magicOption}) <= 1)
    => \A i \in Required : args[i] # 0

\* The magic option's list and its terminator fit into what is allocated, and so does
\* the command line.
BuffersHold ==
    /\ magic # <<>> => Len(magic) < room
    /\ command.used <= command.size
================================================================================
