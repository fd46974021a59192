------------------------------- MODULE RowGrammar -------------------------------
(***************************************************************************)
(* What one tag does to a rowset being read (src/xmla/rowset.cpp, the body *)
(* of RowStreamParser::Next), apart from where the tag comes from.         *)
(*                                                                         *)
(* A document is the sequence of the constructs the scanner finds in it,   *)
(* each with the text between it and the one before.  NextTag decides what *)
(* a construct is from its own first bytes, none of which can be a '>', so *)
(* how the document is cut does not change the sequence.                   *)
(***************************************************************************)
EXTENDS Integers, Sequences, Functions

CONSTANTS
    Names,         \* local names of elements
    Texts,         \* texts between tags, entities decoded
    Decoded        \* DecodeXmlName: from element names to column names

EmptyString == ""

ASSUME GrammarAssumption ==
    /\ {EmptyString, "row"} \subseteq Names /\ EmptyString \in Texts
    /\ Decoded \in [Names -> Names]

Kinds == {"open", "close", "empty", "skip"}
Construct == [text : Texts, at : Nat, end : Nat, kind : Kinds, name : Names]

(* Constructs are not empty and do not overlap.                            *)
IsDocument(d) ==
    /\ d \in Seq(Construct)
    /\ \A k \in 1 .. Len(d) : d[k].at < d[k].end
    /\ \A j, k \in 1 .. Len(d) : j < k => d[j].end <= d[k].at

(* The scanner state: depth_, row_depth_, pending_field_ (empty for none), *)
(* columns_ and row_.                                                      *)
Values == Texts \cup {"torn"}
Cell == [column : Nat, value : Values]
State == [depth : Nat, row_depth : Int, field : Names, columns : Seq(Names), row : Seq(Cell)]

Unread == [depth |-> 0, row_depth |-> -1, field |-> EmptyString, columns |-> <<>>, row |-> <<>>]

(* A direct child of the open row.                                         *)
IsField(st) == st.row_depth >= 0 /\ st.depth = st.row_depth + 1

(* ColumnFor: columns_ with this name in it, and its index.                *)
WithColumn(columns, name) ==
    IF name \in Range(columns) THEN columns ELSE Append(columns, name)
ColumnFor(columns, name) == CHOOSE c \in DOMAIN columns : columns[c] = name

(* A variant in which the first of two elements of one name wins.          *)
SetCellOnce(st, name, value) ==
    LET columns == WithColumn(st.columns, name)
        column == ColumnFor(columns, name)
    IN  [st EXCEPT !.columns = columns,
                   !.row = IF \E i \in DOMAIN @ : @[i].column = column THEN @
                           ELSE Append(@, [column |-> column, value |-> value])]

SetCell(st, name, value) ==
    LET columns == WithColumn(st.columns, name)
        cell == [column |-> ColumnFor(columns, name), value |-> value]
    IN  [st EXCEPT !.columns = columns,
                   !.row = IF \E i \in DOMAIN @ : @[i].column = cell.column
                           THEN [i \in DOMAIN @ |-> IF @[i].column = cell.column THEN cell ELSE @[i]]
                           ELSE Append(@, cell)]

Opened(st, name) ==
    IF name = "row" /\ st.row_depth < 0
    THEN [st EXCEPT !.row_depth = st.depth, !.row = <<>>, !.depth = @ + 1]
    ELSE [st EXCEPT !.field = IF IsField(st) THEN Decoded[name] ELSE @, !.depth = @ + 1]

(* A self-closing tag is an empty value, in a row; anywhere else nothing.  *)
SelfClosed(st, name) == IF IsField(st) THEN SetCell(st, Decoded[name], EmptyString) ELSE st

(* A closing tag: out one level, and the value of the field it closes.     *)
Closed(st, value) ==
    LET out == [st EXCEPT !.depth = IF @ > 0 THEN @ - 1 ELSE 0]
    IN  IF st.field # EmptyString /\ IsField(out)
        THEN [SetCell(out, st.field, value) EXCEPT !.field = EmptyString]
        ELSE out

(* Whether it also closes the row, and what is left of the state then.     *)
ClosesRow(st, name) == st.row_depth >= 0 /\ st.depth = st.row_depth /\ name = "row"
RowTaken(st) == [st EXCEPT !.row = <<>>, !.row_depth = -1, !.field = EmptyString]
=============================================================================
