---------------------------- MODULE ConnectionString ----------------------------
(***************************************************************************)
(* ParseConnectionString (src/xmla/connection_string.cpp).                 *)
(*                                                                         *)
(* The text is a sequence of words and signs.  A word that starts with a   *)
(* letter may be a key; one that is a number may only go on one.           *)
(***************************************************************************)
EXTENDS Text

CONSTANTS Words, Numbers

Quotes == {"'", "\""}
Blank == " "
Semicolon == ";"
Separators == {Blank, Semicolon}
Characters == Words \cup Numbers \cup Quotes \cup Separators \cup {"=", "other"}

ASSUME WordsAssumption == (Words \cup Numbers) \cap (Quotes \cup Separators \cup {"="}) = {}

(* The '=' of a key that starts at i, at a token boundary; 0 for none.     *)
KeyEnd(s, i) ==
    LET ends == {j \in (i + 1) .. Len(s) : /\ s[j] = "="
                                           /\ \A k \in i .. (j - 1) : s[k] \in Words \cup Numbers}
    IN  IF /\ s[i] \in Words /\ ends # {}
           /\ i > 1 => s[i - 1] \in Separators
        THEN CHOOSE j \in ends : TRUE ELSE 0

Trim(s) ==
    LET ink == {i \in 1 .. Len(s) : s[i] # Blank}
    IN  IF ink = {} THEN <<>>
        ELSE SubSeq(s, CHOOSE i \in ink : \A j \in ink : i <= j, CHOOSE i \in ink : \A j \in ink : j <= i)

(* Past what is between two pairs, and past a quoted value.                *)
NextKey(s, i) == Find(s, {j \in i .. Len(s) : s[j] \notin Separators})
Unquote(s, i, quote) == Find(s, {j \in i .. Len(s) : s[j] = quote})

(* A variant in which a value ends at a semicolon only.                    *)
ValueEndAtSemicolon(s, i) == Find(s, {j \in i .. Len(s) : s[j] = Semicolon})

(* Where an unquoted value from i on ends.                                 *)
ValueEnd(s, i) == Find(s, {j \in i .. Len(s) : s[j] = Semicolon \/ KeyEnd(s, j) # 0})

(* The value behind a key's '=', and where the parser goes on.             *)
IsQuoted(s, i) == i <= Len(s) /\ s[i] \in Quotes
ValueAt(s, i) ==
    IF IsQuoted(s, i) THEN SubSeq(s, i + 1, Unquote(s, i + 1, s[i]) - 1)
    ELSE Trim(SubSeq(s, i, ValueEnd(s, i) - 1))
PastValue(s, i) ==
    IF IsQuoted(s, i) THEN Unquote(s, i + 1, s[i]) + 1 ELSE ValueEnd(s, i)

(* A pair starts there: a key, and a value that ends.                      *)
IsPair(s, key) == KeyEnd(s, key) # 0 /\ PastValue(s, KeyEnd(s, key) + 1) <= Len(s) + 1

(* The pairs from a place on: no sequence when the text is refused, or one.*)
Pairs(s, from) ==
    LET pairs[i \in 1 .. (Len(s) + 1)] ==
            LET key == NextKey(s, i)
                end == KeyEnd(s, key)
                pair == [key |-> SubSeq(s, key, end - 1), value |-> ValueAt(s, end + 1)]
            IN  IF key > Len(s) THEN { <<>> }
                ELSE IF IsPair(s, key) THEN {<<pair>> \o rest : rest \in pairs[PastValue(s, end + 1)]}
                ELSE {}
    IN  pairs[from]

(* The options, by key; a key that is set twice is refused.                *)
ParseConnectionString(s) ==
    {[key \in {pairs[i].key : i \in DOMAIN pairs} |->
         pairs[CHOOSE i \in DOMAIN pairs : pairs[i].key = key].value] :
     pairs \in {p \in Pairs(s, 1) : \A i, j \in DOMAIN p : p[i].key = p[j].key => i = j}}

-----------------------------------------------------------------------------
(* What a text says, apart from how it is read: options, each with the     *)
(* quote around its value ("none" without one) and its place in the text.  *)
Options == [key : Seq(Characters), value : Seq(Characters), quote : Quotes \cup {"none"}, at : Nat]

IsKey(w) == w # <<>> /\ w[1] \in Words /\ w \in Seq(Words \cup Numbers)

(* A value that needs no quote.                                            *)
IsPlain(v) ==
    /\ \A k \in 1 .. Len(v) : v[k] \notin {Semicolon, "="}
    /\ v # <<>> => v[1] \notin Quotes \cup {Blank} /\ v[Len(v)] # Blank

IsOption(o) ==
    /\ o \in Options /\ IsKey(o.key)
    /\ IF o.quote = "none" THEN IsPlain(o.value)
       ELSE \A k \in 1 .. Len(o.value) : o.value[k] # o.quote

Starts(o) == o.at + Len(o.key) + 1
Ends(o) == Starts(o) + Len(o.value) + (IF o.quote = "none" THEN 0 ELSE 2)

IsAt(s, word, i) == \A k \in 1 .. Len(word) : s[i + k - 1] = word[k]

(* An option is written at its place.                                      *)
IsWritten(s, o) ==
    /\ o.at \in 1 .. Len(s) /\ Ends(o) <= Len(s) + 1
    /\ IsAt(s, o.key, o.at) /\ s[Starts(o) - 1] = "="
    /\ IF o.quote = "none" THEN IsAt(s, o.value, Starts(o))
       ELSE /\ IsAt(s, o.value, Starts(o) + 1)
            /\ s[Starts(o)] = o.quote /\ s[Ends(o) - 1] = o.quote

AreSeparators(s, i, j) == \A k \in i .. j : s[k] \in Separators

(* A text says these options, in order, and nothing else.                  *)
Says(s, options) ==
    LET n == Len(options)
    IN  /\ \A i \in 1 .. n :
              /\ IsOption(options[i]) /\ IsWritten(s, options[i])
              /\ i < n => Ends(options[i]) < options[i + 1].at
                          /\ AreSeparators(s, Ends(options[i]), options[i + 1].at - 1)
        /\ AreSeparators(s, 1, IF n = 0 THEN Len(s) ELSE options[1].at - 1)
        /\ n > 0 => AreSeparators(s, Ends(options[n]), Len(s))
        /\ \A i, j \in 1 .. n : options[i].key = options[j].key => i = j
=============================================================================
