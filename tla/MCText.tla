-------------------------------- MODULE MCText ---------------------------------
(***************************************************************************)
(* What reads and measures text, for TLC: the lexer, the arguments, the    *)
(* configuration file, the text file, the wildcards, the calendar, the     *)
(* checksum, the string list and the clipboard.  One part runs at a time,  *)
(* with the variables of its module; the others of the modules are 0.      *)
(***************************************************************************)
EXTENDS Naturals, Sequences

CONSTANTS
    MaxLength,                                  \* of Lex and TextFile
    Words, MaxWords, NumNewArgs, MaxOpens,      \* of Args
    Names, MaxLines,                            \* of ConfigFile
    Letters, MaxName, MaxPattern,               \* of Wildcard
    FirstYears, MaxDays,                        \* of Calendar
    MaxBytes,                                   \* of Checksum
    Parts, MaxParts, MaxCopies,                 \* of StringList
    Platforms, MaxText, MaxCopy, MaxTexts       \* of Clipboard

\* Templates of options that are required, multiple, keywords and switches.
Option(name, modifiers) == [name |-> name, modifiers |-> modifiers]

Templates ==
    {<<Option("s", <<"A", "M">>), Option("d", <<"A">>)>>,
     <<Option("s", <<"A">>), Option("d", <<"M", "A">>)>>,
     <<Option("s", <<"A">>), Option("k", <<"K">>), Option("d", <<"A">>)>>,
     <<Option("s", <<"A">>), Option("k", <<"K">>), Option("d", <<>>)>>,
     <<Option("s", <<"A">>), Option("d", <<"A">>), Option("c", <<"S">>)>>,
     <<Option("s", <<"M">>), Option("k", <<"K">>), Option("d", <<"A">>), Option("e", <<"A">>)>>}

\* Sections and subsections, groups, comments, and keys with and without a value.
Line(kind, name, words, indent) ==
    [kind |-> kind, name |-> name, words |-> words, indent |-> indent]

Lines ==
    {Line(kind, "a", 0, 0) : kind \in {"section", "subsection", "group", "comment"}}
      \cup {Line("subsection", "b", 0, 0), Line("key", "a", 1, 0), Line("key", "a", 1, 1),
            Line("key", "b", 2, 1)}

\* Short days; bytes with the highest and the lowest bit.
Units == <<2, 3, 2>>

Bytes == {{}, {1}, {8}, {1, 3, 4, 6, 8}}

Starts == {{}, {1, 4, 7, 10, 32}}

VARIABLES
    part,                                 \* the part that runs
    text, lexMemory, config, limit, lexPos, tokens,           \* "lex"
    lexEnded, moved,
    argsPc, template, words, unused, index, args, magic,      \* "args"
    room, magicOption, argsResult, command, opens,
    configPc, file, ended, at, section, subSection, group,    \* "config"
    parents, values, buffered, configResult,
    pc, disk, size, loaded, memory, pos, lines, atEnd,        \* "file"
    shrunk,
    pattern, name, char, wild, result,                        \* "pattern"
    year, month, day, clock, days,                            \* "dates"
    start, seen, crc,                                         \* "checksum"
    listPc, array, newArray, parts, copies, listMemory,       \* "strings"
    kept, early,
    platform, holder, clipText, begun, buffer, used, data,    \* "clipboard"
    clipPos, clipLines, clipAtEnd, gone, ours, texts

L == INSTANCE Lex WITH memory <- lexMemory, pos <- lexPos, ended <- lexEnded
A == INSTANCE Args WITH pc <- argsPc, result <- argsResult
C == INSTANCE ConfigFile WITH pc <- configPc, result <- configResult
T == INSTANCE TextFile
W == INSTANCE Wildcard
D == INSTANCE Calendar
K == INSTANCE Checksum
S == INSTANCE StringList WITH pc <- listPc, memory <- listMemory
B == INSTANCE Clipboard WITH
        text <- clipText, pos <- clipPos, lines <- clipLines, atEnd <- clipAtEnd

ofLex == <<text, lexMemory, config, limit, lexPos, tokens, lexEnded, moved>>

ofArgs == <<argsPc, template, words, unused, index, args, magic, room, magicOption,
            argsResult, command, opens>>

ofConfig == <<configPc, file, ended, at, section, subSection, group, parents, values,
              buffered, configResult>>

ofFile == <<pc, disk, size, loaded, memory, pos, lines, atEnd, shrunk>>

ofPattern == <<pattern, name, char, wild, result>>

ofDates == <<year, month, day, clock, days>>

ofChecksum == <<start, seen, crc>>

ofStrings == <<listPc, array, newArray, parts, copies, listMemory, kept, early>>

ofClipboard == <<platform, holder, clipText, begun, buffer, used, data, clipPos,
                 clipLines, clipAtEnd, gone, ours, texts>>

all == <<part, ofLex, ofArgs, ofConfig, ofFile, ofPattern, ofDates, ofChecksum, ofStrings,
         ofClipboard>>

\* A part that does not run.
NoLex ==
    /\ text = 0 /\ lexMemory = 0 /\ config = 0 /\ limit = 0 /\ lexPos = 0 /\ tokens = 0
    /\ lexEnded = 0 /\ moved = 0

NoArgs ==
    /\ argsPc = 0 /\ template = 0 /\ words = 0 /\ unused = 0 /\ index = 0 /\ args = 0
    /\ magic = 0 /\ room = 0 /\ magicOption = 0 /\ argsResult = 0 /\ command = 0
    /\ opens = 0

NoConfig ==
    /\ configPc = 0 /\ file = 0 /\ ended = 0 /\ at = 0 /\ section = 0 /\ subSection = 0
    /\ group = 0 /\ parents = 0 /\ values = 0 /\ buffered = 0 /\ configResult = 0

NoFile ==
    /\ pc = 0 /\ disk = 0 /\ size = 0 /\ loaded = 0 /\ memory = 0 /\ pos = 0 /\ lines = 0
    /\ atEnd = 0 /\ shrunk = 0

NoPattern ==
    /\ pattern = 0 /\ name = 0 /\ char = 0 /\ wild = 0 /\ result = 0

NoDates ==
    /\ year = 0 /\ month = 0 /\ day = 0 /\ clock = 0 /\ days = 0

NoChecksum ==
    /\ start = 0 /\ seen = 0 /\ crc = 0

NoStrings ==
    /\ listPc = 0 /\ array = 0 /\ newArray = 0 /\ parts = 0 /\ copies = 0
    /\ listMemory = 0 /\ kept = 0 /\ early = 0

NoClipboard ==
    /\ platform = 0 /\ holder = 0 /\ clipText = 0 /\ begun = 0 /\ buffer = 0 /\ used = 0
    /\ data = 0 /\ clipPos = 0 /\ clipLines = 0 /\ clipAtEnd = 0 /\ gone = 0 /\ ours = 0 /\ texts = 0

AllInit ==
    \/ part = "lex" /\ L!Init
       /\ NoArgs /\ NoConfig /\ NoFile /\ NoPattern
       /\ NoDates /\ NoChecksum /\ NoStrings /\ NoClipboard
    \/ part = "args" /\ A!Init
       /\ NoLex /\ NoConfig /\ NoFile /\ NoPattern
       /\ NoDates /\ NoChecksum /\ NoStrings /\ NoClipboard
    \/ part = "config" /\ C!Init
       /\ NoLex /\ NoArgs /\ NoFile /\ NoPattern
       /\ NoDates /\ NoChecksum /\ NoStrings /\ NoClipboard
    \/ part = "file" /\ T!Init
       /\ NoLex /\ NoArgs /\ NoConfig /\ NoPattern
       /\ NoDates /\ NoChecksum /\ NoStrings /\ NoClipboard
    \/ part = "pattern" /\ W!Init
       /\ NoLex /\ NoArgs /\ NoConfig /\ NoFile
       /\ NoDates /\ NoChecksum /\ NoStrings /\ NoClipboard
    \/ part = "dates" /\ D!Init
       /\ NoLex /\ NoArgs /\ NoConfig /\ NoFile
       /\ NoPattern /\ NoChecksum /\ NoStrings /\ NoClipboard
    \/ part = "checksum" /\ K!Init
       /\ NoLex /\ NoArgs /\ NoConfig /\ NoFile
       /\ NoPattern /\ NoDates /\ NoStrings /\ NoClipboard
    \/ part = "strings" /\ S!Init
       /\ NoLex /\ NoArgs /\ NoConfig /\ NoFile
       /\ NoPattern /\ NoDates /\ NoChecksum /\ NoClipboard
    \/ part = "clipboard" /\ B!Init
       /\ NoLex /\ NoArgs /\ NoConfig /\ NoFile
       /\ NoPattern /\ NoDates /\ NoChecksum /\ NoStrings

AllNext ==
    \/ /\ part = "lex" /\ L!Next
       /\ UNCHANGED <<part, ofArgs, ofConfig, ofFile, ofPattern,
                      ofDates, ofChecksum, ofStrings, ofClipboard>>
    \/ /\ part = "args" /\ A!Next
       /\ UNCHANGED <<part, ofLex, ofConfig, ofFile, ofPattern,
                      ofDates, ofChecksum, ofStrings, ofClipboard>>
    \/ /\ part = "config" /\ C!Next
       /\ UNCHANGED <<part, ofLex, ofArgs, ofFile, ofPattern,
                      ofDates, ofChecksum, ofStrings, ofClipboard>>
    \/ /\ part = "file" /\ T!Next
       /\ UNCHANGED <<part, ofLex, ofArgs, ofConfig, ofPattern,
                      ofDates, ofChecksum, ofStrings, ofClipboard>>
    \/ /\ part = "pattern" /\ W!Next
       /\ UNCHANGED <<part, ofLex, ofArgs, ofConfig, ofFile,
                      ofDates, ofChecksum, ofStrings, ofClipboard>>
    \/ /\ part = "dates" /\ D!Next
       /\ UNCHANGED <<part, ofLex, ofArgs, ofConfig, ofFile,
                      ofPattern, ofChecksum, ofStrings, ofClipboard>>
    \/ /\ part = "checksum" /\ K!Next
       /\ UNCHANGED <<part, ofLex, ofArgs, ofConfig, ofFile,
                      ofPattern, ofDates, ofStrings, ofClipboard>>
    \/ /\ part = "strings" /\ S!Next
       /\ UNCHANGED <<part, ofLex, ofArgs, ofConfig, ofFile,
                      ofPattern, ofDates, ofChecksum, ofClipboard>>
    \/ /\ part = "clipboard" /\ B!Next
       /\ UNCHANGED <<part, ofLex, ofArgs, ofConfig, ofFile,
                      ofPattern, ofDates, ofChecksum, ofStrings>>

\* The matching of a wildcard is one call, which goes on until it returns.
Serves == part = "pattern" /\ W!Turn
          /\ UNCHANGED <<part, ofLex, ofArgs, ofConfig, ofFile, ofDates, ofChecksum, ofStrings,
                         ofClipboard>>

AllSpec == AllInit /\ [][AllNext]_all /\ WF_all(Serves)

--------------------------------------------------------------------------------
\* The parsers give what is in the text and stay inside it: the tokens of a string,
\* the options of a command line, the tree of a configuration file; and a name
\* matches a pattern when it should.
ParsersAreRight ==
    CASE part = "lex"     -> /\ L!TypeOK /\ L!TokensAreTheReference /\ L!StaysInString
                             /\ L!RoomForArguments /\ L!CountIsRight
      [] part = "args"    -> A!TypeOK /\ A!UsedOnce /\ A!OneRequiredIsGiven /\ A!BuffersHold
      [] part = "config"  -> C!TypeOK /\ C!TreeIsTheFile /\ C!ReadersAgree /\ C!EveryKeyIsFound
      [] part = "pattern" -> W!TypeOK /\ W!MatchesAreRight
      [] OTHER            -> TRUE

\* Nothing is lost on the way: a text file and the clipboard come line by line, what
\* is copied is there, a date is itself after being a number, the checksum of buffers
\* is that of all their bytes, though not zlib's, and a list keeps the strings it was
\* given.
NothingIsLost ==
    CASE part = "file"      -> T!TypeOK /\ T!LinesAreTheFile /\ T!StaysInBuffer
      [] part = "dates"     -> D!TypeOK /\ D!DatesSurvive
      [] part = "checksum"  -> K!TypeOK /\ K!ChecksumIsTheRemainder /\ K!NeverZlibs
      [] part = "strings"   -> S!TypeOK /\ S!ListIsKept
      [] part = "clipboard" -> B!TypeOK /\ B!LinesAreTheText /\ B!CopyIsThere
      [] OTHER              -> TRUE

Matching == part = "pattern" /\ result = "none"

\* The matching of a name with a pattern comes to an end.
MatchingEnds == Matching ~> ~Matching
================================================================================
