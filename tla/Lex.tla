---------------------------------- MODULE Lex ----------------------------------
(***************************************************************************)
(* TLex, which takes a string apart into tokens, and its users' view of    *)
(* it: Count() beforehand, and RArgs::ExtractArguments(), which makes room *)
(* for as many arguments as Utils::CountTokens() counts in another way.    *)
(*                                                                         *)
(* Positions are offsets into the memory of the string, from 0.  m_iLength *)
(* is always what is left from the position to the end of the string.      *)
(***************************************************************************)
EXTENDS Integers, Sequences, SequencesExt, FiniteSets

CONSTANTS
    MaxLength       \* bound: characters of a string

Nul == "nul"

Outside == "outside"    \* of memory behind the terminator, which is not the string's

Word == "x"             \* isalnum() or '_'

Characters == {Word, " ", ";", "\"", "'", "\\"}

VARIABLES
    text,       \* the string given, as it was
    memory,     \* as it is, with its terminator
    config,     \* what SetConfig(), SetQuotes() and SetWhitespace() have set
    limit,      \* the offset of the end
    pos,        \* m_pccString or m_pcString
    tokens,     \* where each token starts and ends
    ended,      \* NextToken() has returned NULL
    moved       \* MoveForwards() has been called

vars == <<text, memory, config, limit, pos, tokens, ended, moved>>

Configs ==
    [destructive : BOOLEAN, keepQuotes : BOOLEAN, keepWhitespace : BOOLEAN,
     keepOther : BOOLEAN, quotes : {{"\"", "'"}, {"\""}}, whitespace : {{" "}, {";"}}]

\* Another whitespace is for the non destructive extraction only.
MayConfigure(c) == c.destructive => c.whitespace = {" "}

\* The type invariant.
TypeOK ==
    /\ Len(memory) = Len(text) + 1
    /\ \A i \in DOMAIN memory : memory[i] \in Characters \cup {Nul}
    /\ limit \in 0 .. Len(text) /\ pos \in 0 .. Len(text) + 3
    /\ \A i \in DOMAIN tokens : tokens[i] \in (0 .. Len(text) + 1) \X (0 .. Len(text) + 2)

Texts == UNION {[1 .. n -> Characters] : n \in 0 .. MaxLength}

\* A string that is not terminated there may be given with its length.
Init ==
    /\ text \in Texts /\ memory = Append(text, Nul)
    /\ config \in Configs /\ MayConfigure(config)
    /\ limit \in IF config.destructive THEN {Len(text)} ELSE {Len(text), Len(text) - 1} \cap Nat
    /\ pos = 0 /\ tokens = <<>> /\ ended = FALSE /\ moved = FALSE

--------------------------------------------------------------------------------
At(i) == IF i < Len(memory) THEN memory[i + 1] ELSE Outside

IsQuote(c) == c \in config.quotes

IsWhitespace(c) == c \in config.whitespace

\* The first position from i on, up to the end, whose character is not in the set.
Skip(i, set) ==
    IF i >= limit THEN i
    ELSE CHOOSE j \in i .. limit :
            /\ j = limit \/ At(j) \notin set
            /\ \A k \in i .. j - 1 : At(k) \in set

All == Characters \cup {Nul, Outside}

\* The end of what a quote at i - 1 has opened; a quote behind a backslash is no end.
Closing(i, quote) ==
    LET from[k \in Nat] ==
            LET j == Skip(k, All \ {quote})
            IN IF At(j - 1) = "\\" THEN from[j + 1] ELSE j
    IN from[i]

Unquoted == All \ (config.quotes \cup config.whitespace)

\* The token at i: its start and end, with its quotes or without them.
TokenAt(i) ==
    LET c == At(i)
    IN IF IsQuote(c)
       THEN LET end == Closing(i + 1, c)
            IN IF config.keepQuotes THEN <<i, IF At(end) = c THEN end + 1 ELSE end>> ELSE <<i + 1, end>>
       ELSE <<i, IF ~config.keepOther THEN Skip(i, Unquoted)
                 ELSE IF c = Word THEN Skip(i, {Word} \cap Unquoted)
                 ELSE Skip(i, Unquoted \ {Word})>>

\* What the position is behind a token: past one whitespace, or the closing quote.
Behind(quoted, quote, end) ==
    IF IsWhitespace(At(end)) THEN IF config.keepWhitespace THEN end ELSE end + 1
    ELSE IF quoted /\ At(end) = quote /\ ~config.keepQuotes THEN end + 1
    ELSE end

\* NextToken(TInt *): the token, if there is one, and the position after it.
NextFrom(p) ==
    LET first == Skip(p, config.whitespace)
        blank == config.keepWhitespace /\ first > p
        token == IF blank THEN <<p, first>> ELSE TokenAt(first)
        found == token[2] > token[1]
    IN [found |-> found, token |-> token,
        pos |-> IF found THEN Behind(~blank /\ IsQuote(At(first)), At(first), token[2])
                ELSE token[2]]

\* NextToken() terminates the token in the string.
NextToken ==
    /\ ~ended
    /\ LET next == NextFrom(pos)
       IN /\ pos' = next.pos
          /\ ended' = ~next.found
          /\ tokens' = IF next.found THEN Append(tokens, next.token) ELSE tokens
          /\ memory' = IF next.found /\ config.destructive /\ next.token[2] < Len(memory)
                       THEN [memory EXCEPT ![next.token[2] + 1] = Nul] ELSE memory
    /\ UNCHANGED <<text, config, limit, moved>>

\* Count(), before the first token: of as many calls as find one.
Count ==
    LET from[p \in Nat] == LET next == NextFrom(p) IN IF next.found THEN 1 + from[next.pos] ELSE 0
    IN from[0]

\* MoveForwards() after a token, by a character that is there, as RConfigFile moves
\* over the '='.
MoveForwards ==
    /\ ~ended /\ ~config.destructive /\ tokens # <<>> /\ pos < limit /\ At(pos) = ";"
    /\ pos' = pos + 1 /\ moved' = TRUE
    /\ UNCHANGED <<text, memory, config, limit, tokens, ended>>

Next == NextToken \/ MoveForwards

Spec == Init /\ [][Next]_vars

--------------------------------------------------------------------------------
(***************************************************************************)
(* Utils::CountTokens().                                                   *)
(***************************************************************************)
CountTokens(s) ==
    LET step(a, c) ==
            IF c = "\"" THEN [a EXCEPT !.inside = ~@, !.start = TRUE]
            ELSE IF c = " " /\ ~a.inside THEN [a EXCEPT !.start = TRUE]
            ELSE [a EXCEPT !.count = IF a.start THEN @ + 1 ELSE @, !.start = FALSE]
    IN FoldLeft(step, [inside |-> FALSE, start |-> TRUE, count |-> 0], s).count

--------------------------------------------------------------------------------
(***************************************************************************)
(* The tokens of a string told one character at a time: the mode is the    *)
(* open quote, or what the token is made of.                               *)
(***************************************************************************)
Has(c) == \E i \in DOMAIN text : text[i] = c

Kind(c) == IF IsWhitespace(c) THEN "blank" ELSE IF config.keepOther /\ c # Word THEN "other" ELSE "word"

Grown(spans, i) == Append(Front(spans), <<Last(spans)[1], i>>)

Told(a, c) ==
    LET i == a.at + 1
    IN IF a.mode \in config.quotes
       THEN IF c = a.mode
            THEN [at |-> i, mode |-> "none",
                  spans |-> IF config.keepQuotes THEN Grown(a.spans, i) ELSE a.spans]
            ELSE [at |-> i, mode |-> a.mode, spans |-> Grown(a.spans, i)]
       ELSE IF IsQuote(c)
       THEN [at |-> i, mode |-> c,
             spans |-> Append(a.spans, IF config.keepQuotes THEN <<a.at, i>> ELSE <<i, i>>)]
       ELSE [at |-> i, mode |-> Kind(c),
             spans |-> IF Kind(c) = "blank" /\ ~config.keepWhitespace THEN a.spans
                       ELSE IF a.mode = Kind(c) THEN Grown(a.spans, i)
                       ELSE Append(a.spans, <<a.at, i>>)]

Reference == FoldLeft(Told, [at |-> 0, mode |-> "none", spans |-> <<>>], text).spans

NoEmptyQuotes == \A i \in DOMAIN Reference : Reference[i][1] < Reference[i][2]

\* Behind each token is whitespace that is dropped, the quote that ends it and is dropped, or the end.
Separated ==
    \A i \in DOMAIN Reference :
        LET from == Reference[i][1]
            to   == Reference[i][2]
        IN to < Len(text) => \/ ~config.keepWhitespace /\ IsWhitespace(text[to + 1])
                             \/ ~config.keepQuotes /\ from > 0 /\ IsQuote(text[from])

\* The tokens are those of the reference, whatever is kept: of a string without
\* backslashes and empty quotes, which end the extraction early, that is terminated
\* where it ends.  The destructive extraction overwrites the character behind a
\* token, which must not belong to the next.
TokensAreTheReference ==
    (/\ ended /\ ~moved /\ limit = Len(text) /\ ~Has("\\") /\ NoEmptyQuotes
     /\ config.destructive => Separated)
    => tokens = Reference

\* NextToken() touches nothing but the string: no token ends and no scan begins behind
\* the terminator, unless a backslash stands before the end within quotes.
StaysInString ==
    ~Has("\\") => /\ pos <= Len(text)
                  /\ \A i \in DOMAIN tokens : tokens[i][2] <= Len(text)

\* ExtractArguments() drops no argument: CountTokens() is no less than the arguments
\* that TLex finds, of separate arguments and without the single quotes that it knows nothing of.
RoomForArguments ==
    (/\ config.destructive /\ config.quotes = {"\"", "'"}
     /\ ~config.keepQuotes /\ ~config.keepWhitespace /\ ~config.keepOther
     /\ Separated /\ ~Has("'"))
    => Len(tokens) <= CountTokens(text)

\* Count() is the number of tokens that follow it.
CountIsRight == (ended /\ ~config.destructive /\ ~moved) => Len(tokens) = Count
================================================================================
