--------------------------------- MODULE Guard ---------------------------------
(***************************************************************************)
(* RejectIfMutating (src/xmla/envelopes.cpp): which statements are sent.   *)
(*                                                                         *)
(* A statement is a sequence of symbols: "query" stands for one of the     *)
(* five keywords, "word" for any other run of letters, "other" for a       *)
(* character with no meaning here, and the rest for themselves.            *)
(***************************************************************************)
EXTENDS Text

Symbols == {"query", "word", "other", " ", "newline", "'", "\"", "[", "]", ";", "/", "*", "-"}
Spaces == {" ", "newline"}
Letters == {"query", "word"}

At(s, i) == IF i \in DOMAIN s THEN s[i] ELSE "end"
Pair(s, i) == <<At(s, i), At(s, i + 1)>>

OpensLine(s, i) == Pair(s, i) \in {<<"/", "/">>, <<"-", "-">>}
OpensBlock(s, i) == Pair(s, i) = <<"/", "*">>

(* Where the newline that ends a line comment is, and the close of a block *)
(* comment, if they come.                                                  *)
Newline(s, i) == Find(s, {j \in i .. Len(s) : s[j] = "newline"})
BlockClose(s, i) == Find(s, {j \in i .. Len(s) : Pair(s, j) = <<"*", "/">>})

(* SkipTrivia: past white space and comments; ok unless inside a block.    *)
SkipTrivia(s, from) ==
    LET skip[i \in 1 .. (Len(s) + 1)] ==
            IF At(s, i) \in Spaces THEN skip[i + 1]
            ELSE IF OpensLine(s, i)
                 THEN LET nl == Newline(s, i)
                      IN  IF nl > Len(s) THEN [ok |-> TRUE, at |-> nl] ELSE skip[nl + 1]
            ELSE IF OpensBlock(s, i)
                 THEN LET close == BlockClose(s, i + 2)
                      IN  IF close > Len(s) THEN [ok |-> FALSE, at |-> close] ELSE skip[close + 2]
            ELSE [ok |-> TRUE, at |-> i]
    IN  skip[from]

(* Past a quoted literal or a bracketed name; a doubled quote is in it.    *)
PastQuoted(s, from, quote) ==
    LET past[i \in 1 .. (Len(s) + 1)] ==
            IF i > Len(s) THEN i
            ELSE IF s[i] # quote THEN past[i + 1]
            ELSE IF At(s, i + 1) = quote THEN past[i + 2] ELSE i + 1
    IN  past[from]

(* What opens a literal or a bracketed name, and what closes it.           *)
Openers == {"'", "\"", "["}
Closing(quote) == IF quote = "[" THEN "]" ELSE quote

(* A variant that does not look at what SkipTrivia says of a block.        *)
SingleWhateverBlock(s, from) ==
    LET single[i \in 1 .. (Len(s) + 1)] ==
            IF i > Len(s) THEN TRUE
            ELSE IF s[i] \in Openers THEN single[PastQuoted(s, i + 1, Closing(s[i]))]
            ELSE IF OpensLine(s, i) \/ OpensBlock(s, i) THEN single[SkipTrivia(s, i).at]
            ELSE IF s[i] = ";" THEN SkipTrivia(s, i + 1).at > Len(s)
            ELSE single[i + 1]
    IN  single[from]

(* The loop of RejectStatementBatch from a place on, TRUE when it returns. *)
Single(s, from) ==
    LET single[i \in 1 .. (Len(s) + 1)] ==
            IF i > Len(s) THEN TRUE
            ELSE IF s[i] \in Openers THEN single[PastQuoted(s, i + 1, Closing(s[i]))]
            ELSE IF OpensLine(s, i) \/ OpensBlock(s, i)
                 THEN SkipTrivia(s, i).ok /\ single[SkipTrivia(s, i).at]
            ELSE IF s[i] = ";"
                 THEN SkipTrivia(s, i + 1).ok /\ SkipTrivia(s, i + 1).at > Len(s)
            ELSE single[i + 1]
    IN  single[from]

(* RejectIfMutating, TRUE when it returns.                                 *)
ReadsOnly(s) ==
    LET first == SkipTrivia(s, 1)
        end == Find(s, {j \in first.at .. Len(s) : s[j] \notin Letters})
    IN  first.ok /\ SubSeq(s, first.at, end - 1) = <<"query">> /\ Single(s, 1)

-----------------------------------------------------------------------------
(* The same in one pass: each symbol either changes the mode or counts.    *)

Scanner == [mode |-> "code", skip |-> FALSE, code |-> <<>>, ended |-> FALSE, batch |-> FALSE]

Read(s, state, i) ==
    LET c == s[i] IN
    IF state.skip THEN [state EXCEPT !.skip = FALSE]
    ELSE IF state.mode = "code" THEN
        IF OpensLine(s, i) THEN [state EXCEPT !.mode = "line", !.skip = TRUE, !.code = Append(@, " ")]
        ELSE IF OpensBlock(s, i)
             THEN [state EXCEPT !.mode = "block", !.skip = TRUE, !.code = Append(@, " ")]
        ELSE [state EXCEPT !.mode = IF c \in Openers THEN c ELSE @,
                           !.code = Append(@, c),
                           !.ended = @ \/ c = ";",
                           !.batch = @ \/ (state.ended /\ c \notin Spaces)]
    ELSE IF state.mode = "line" THEN [state EXCEPT !.mode = IF c = "newline" THEN "code" ELSE @]
    ELSE IF state.mode = "block"
         THEN IF Pair(s, i) = <<"*", "/">> THEN [state EXCEPT !.mode = "code", !.skip = TRUE] ELSE state
    ELSE IF c # Closing(state.mode) THEN state
    ELSE IF At(s, i + 1) = c THEN [state EXCEPT !.skip = TRUE]
    ELSE [state EXCEPT !.mode = "code"]

(* What has been read once the first n symbols have.                       *)
After(s, n) ==
    LET after[i \in 0 .. Len(s)] == IF i = 0 THEN Scanner ELSE Read(s, after[i - 1], i)
    IN  after[n]

(* A single statement: nothing but white space and comments around it and  *)
(* after its separator, every block comment closed, a query keyword first. *)
IsSingleQuery(s) ==
    LET end == After(s, Len(s))
        start == Find(end.code, {j \in DOMAIN end.code : end.code[j] \notin Spaces})
    IN  /\ end.mode # "block" /\ ~end.batch
        /\ At(end.code, start) = "query" /\ At(end.code, start + 1) \notin Letters
=============================================================================
