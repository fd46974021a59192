------------------------------- MODULE TableScan -------------------------------
(***************************************************************************)
(* SELECT ... FROM a tabular model's table: ScanInit and ScanExecute       *)
(* (src/catalog/xmla_table_entry.cpp), the statement dax::Evaluate         *)
(* composes (src/xmla/dax.cpp), ColumnMap, and the RowCursor that pulls    *)
(* rows through RowStreamParser (src/xmla/client.cpp).                     *)
(*                                                                         *)
(* The server is external: it answers with the rows of a table, as a       *)
(* document that leaves out null columns.  What a record unseals to is any *)
(* number of the document's next bytes, none included: see Sealing.        *)
(* Session has the rest of what a cursor checks.                           *)
(***************************************************************************)
EXTENDS RowStream, FiniteSets, SequencesExt

CONSTANTS
    Binds,         \* what GetScanFunction may leave in the bind data
    Queries,       \* the column_ids DuckDB may ask for: positions in columns, 0 is EMPTY
    Tables,        \* what the table may hold: sequences of rows, from column to value or Null
    Qualified, Alias,  \* column -> T[column], [column], as column names
    Encoded,       \* how the server writes a name as an element
    Lengths,       \* bytes of a text
    TagLength,     \* bytes of a tag
    SelfClosing,   \* the server writes an element without content as <row/>
    VectorSize,    \* STANDARD_VECTOR_SIZE
    ParserLimit,   \* parser_limit_
    Null

ASSUME ScanAssumption ==
    /\ VectorSize \in Nat \ {0} /\ ParserLimit \in Nat
    /\ Queries \subseteq Seq(Nat) /\ Null \notin Values

(* Element names decode to the columns they are for, and are never those   *)
(* of the rowset around them.                                              *)
ASSUME ServerAssumption ==
    /\ TagLength \in Nat \ {0} /\ Lengths \in [Texts -> Nat] /\ Lengths[""] = 0
    /\ SelfClosing \in BOOLEAN
    /\ {"root", "schema", "Axes"} \subseteq Names /\ "x" \in Texts
    /\ \A n \in DOMAIN Encoded : /\ Encoded[n] \in Names \ {"row", "root"}
                                /\ Decoded[Encoded[n]] = n /\ n # EmptyString

(* No two columns come back under one name, every column of a table the    *)
(* catalog knows is served, and no query asks for a column twice.          *)
ASSUME TablesAssumption ==
    \A b \in Binds :
        /\ {b.columns, b.served} \subseteq Seq(DOMAIN Qualified) /\ IsInjective(b.columns)
        /\ b.known => Range(b.columns) \subseteq Range(b.served)
        /\ \A d \in Range(b.served) : {Qualified[d], Alias[d]} \subseteq DOMAIN Encoded
        /\ \A d \in Range(b.served), c \in Range(b.columns) \cup Range(b.served) :
              {Qualified[d], Alias[d]} \cap {c, Qualified[c], Alias[c]} # {} => c = d
        /\ \A q \in Queries : \A i, j \in 1 .. Len(q) :
              q[i] \in 1 .. Len(b.columns) /\ q[i] = q[j] => i = j
        /\ \A t \in Tables : /\ t \in Seq(Range(t))
                             /\ \A row \in Range(t), d \in Range(b.served) :
                                   row[d] \in Texts \cup {Null}

VARIABLES
    bind,          \* bind_data: columns, columns_known, which names are safe
    column_ids,    \* input.column_ids
    table,         \* the server's rows
    mapping,       \* mapping_ of the ColumnMap: 0 is NO_OUTPUT
    pc,            \* where the scan is: "idle" between two ScanExecutes
    complete,      \* complete_: the last record has been read
    emitted,       \* emitted_
    chunk,         \* the rows of this ScanExecute
    exhausted,     \* exhausted
    session,       \* "none", "open", "closed", or "failed": abandoned
    delivered      \* history: the rows DuckDB was given

request == <<bind, column_ids, table>>
scanState == <<mapping, complete, emitted, chunk, exhausted, session, delivered>>
scanVars == <<streamVars, request, scanState, pc>>

-----------------------------------------------------------------------------
(* The statement.                                                          *)

(* A variant that leaves the unsafe names out of the projection.           *)
ProjectionOfSafe(wanted) ==
    IF bind.known /\ wanted # <<>> /\ Len(wanted) < Len(bind.columns)
    THEN SelectSeq(wanted, LAMBDA name : name \in bind.safe) ELSE <<>>

(* Evaluate: the columns of the projection, none for the whole table.      *)
Projection(wanted) ==
    IF /\ bind.known /\ wanted # <<>> /\ Len(wanted) < Len(bind.columns)
       /\ Range(wanted) \subseteq bind.safe
    THEN wanted ELSE <<>>

(* The columns ScanInit asks for, and the outputs they feed: an id with no *)
(* column, such as EMPTY, is passed over.                                  *)
IsColumn(id) == id \in 1 .. Len(bind.columns)
Requested == {out \in 1 .. Len(column_ids) : IsColumn(column_ids[out])}
AskedFor ==
    LET upto[out \in 0 .. Len(column_ids)] ==
            IF out = 0 THEN <<>>
            ELSE IF out \in Requested THEN Append(upto[out - 1], bind.columns[column_ids[out]])
            ELSE upto[out - 1]
    IN  upto[Len(column_ids)]
Wanted ==
    IF AskedFor = <<>> /\ bind.known /\ bind.columns # <<>> THEN <<bind.columns[1]>> ELSE AskedFor

(* The columns of the answer, by the name each comes back under.           *)
Sent ==
    LET projected == Projection(Wanted)
    IN  IF projected # <<>>
        THEN [i \in 1 .. Len(projected) |-> [column |-> projected[i], name |-> Alias[projected[i]]]]
        ELSE [i \in 1 .. Len(bind.served) |->
                 [column |-> bind.served[i], name |-> Qualified[bind.served[i]]]]

-----------------------------------------------------------------------------
(* The document the server writes.                                         *)

Markup(kind, name, text) == [kind |-> kind, name |-> name, text |-> text]

(* An answer, plain or with what the reader is to see through: a comment   *)
(* before every cell, an element of the same name before it, a child in    *)
(* it, or a closing tag too many ahead of it all.                          *)
Ornaments == {"none", "comment", "repeated", "nested", "stray"}

CellMarkup(row, c, ornament) ==
    LET name == Encoded[c.name]
        value == row[c.column]
        before == IF ornament = "comment" THEN << Markup("skip", "", "x") >>
                  ELSE IF ornament = "repeated"
                  THEN << Markup("open", name, ""), Markup("close", name, "x") >> ELSE <<>>
        child == IF ornament = "nested"
                 THEN << Markup("open", "row", value), Markup("close", "row", ""),
                         Markup("close", name, "") >>
                 ELSE << Markup("close", name, value) >>
    IN  IF value = Null THEN <<>>
        ELSE IF value = "" THEN before \o << Markup("empty", name, "") >>
        ELSE before \o << Markup("open", name, "") >> \o child

RowMarkup(row, ornament) ==
    LET cells == FlattenSeq([i \in 1 .. Len(Sent) |-> CellMarkup(row, Sent[i], ornament)])
    IN  IF cells = <<>> /\ SelfClosing THEN << Markup("empty", "row", "") >>
        ELSE << Markup("open", "row", "") >> \o cells \o << Markup("close", "row", "") >>

AnswerMarkup(ornament) ==
    << Markup(IF ornament = "stray" THEN "close" ELSE "skip", "", ""),
       Markup("open", "root", ""), Markup("empty", "schema", "") >>
      \o FlattenSeq([r \in 1 .. Len(table) |-> RowMarkup(table[r], ornament)])
      \o << Markup("close", "root", "") >>

CellsetMarkup == << Markup("open", "root", ""), Markup("empty", "Axes", ""),
                    Markup("close", "root", "") >>

Ends(items) ==
    FoldLeft(LAMBDA ends, item : Append(ends, Last(ends) + Lengths[item.text] + TagLength),
             <<0>>, items)
Layout(items) ==
    LET ends == Ends(items)
    IN  [k \in 1 .. Len(items) |->
            [text |-> items[k].text, kind |-> items[k].kind, name |-> items[k].name,
             at |-> ends[k + 1] - TagLength, end |-> ends[k + 1]]]

ScanInit ==
    /\ bind \in Binds /\ column_ids \in Queries /\ table \in Tables
    /\ \E items \in {AnswerMarkup(o) : o \in Ornaments} \cup {CellsetMarkup} : doc = Layout(items)
    /\ StreamInit
    /\ mapping = <<>> /\ pc = "init"
    /\ complete = FALSE /\ emitted = FALSE
    /\ chunk = <<>> /\ exhausted = FALSE
    /\ session = "none" /\ delivered = <<>>

-----------------------------------------------------------------------------
(* Starting the scan.                                                      *)

(* ScanInit: Evaluate refuses an unsafe table, opening may fail, or the    *)
(* cursor is there.                                                        *)
StartScan ==
    /\ pc = "init"
    /\ \/ pc' = "failed" /\ UNCHANGED session
       \/ bind.table_safe /\ pc' = "idle" /\ session' = "open"
    /\ UNCHANGED <<streamVars, request, mapping, complete, emitted, chunk, exhausted, delivered>>

-----------------------------------------------------------------------------
(* RowCursor::Next, one turn of its loop after another.                    *)

CallParser ==
    /\ pc = "next"
    /\ CallNext
    /\ pc' = "parse"
    /\ UNCHANGED <<request, scanState>>

Parse ==
    /\ pc = "parse"
    /\ Scan
    /\ pc' = IF scanning' THEN "parse" ELSE IF rows' # rows THEN "row" ELSE "none"
    /\ UNCHANGED <<request, scanState>>

(* A variant that measures what the parser has not yet looked at.          *)
OverLimitUnread == fed - Here > ParserLimit

(* What the parser retains, before a record is read.                       *)
OverLimit == fed - base > ParserLimit

Throws == pc' = "failed" /\ UNCHANGED <<request, mapping, emitted, chunk, exhausted, session,
                                        delivered>>

RefusePump ==
    /\ pc = "none" /\ ~complete /\ OverLimit
    /\ Throws
    /\ UNCHANGED <<streamVars, complete>>

(* A variant that does not refuse an answer that held nothing.             *)
PumpUnchecked(n, more) ==
    /\ pc = "none" /\ ~complete /\ ~OverLimit
    /\ Feed(n)
    /\ complete' = ~more
    /\ pc' = "next"
    /\ UNCHANGED <<request, mapping, emitted, chunk, exhausted, session, delivered>>

(* CheckHead: an answer that is over and held nothing is refused.          *)
Pump(n, more) ==
    /\ pc = "none" /\ ~complete /\ ~OverLimit
    /\ Feed(n)
    /\ complete' = ~more
    /\ IF fed' = 0 /\ ~more
       THEN Throws
       ELSE pc' = "next" /\ UNCHANGED <<request, mapping, emitted, chunk, exhausted, session,
                                        delivered>>

(* The read fails, the record is refused or cannot be unsealed, or the     *)
(* head of the answer is a fault.                                          *)
PumpFails ==
    /\ pc = "none" /\ ~complete /\ ~OverLimit
    /\ Throws
    /\ UNCHANGED <<streamVars, complete>>

(* LooksLikeCellset.  The code looks at head_, the first HEAD_LIMIT bytes; *)
(* "a cellset's OlapInfo and Axes are at the start of the document, well   *)
(* inside HEAD_LIMIT" (client.cpp:427), so that all that has arrived is    *)
(* looked at here.                                                         *)
LooksLikeCellset ==
    \E k \in 1 .. Len(doc) : doc[k].end <= fed /\ doc[k].kind \in {"open", "empty"}
                               /\ doc[k].name \in {"Axes", "CellData"}

RefuseCellset ==
    /\ pc = "none" /\ complete /\ ~emitted /\ LooksLikeCellset
    /\ Throws
    /\ UNCHANGED <<streamVars, complete>>

-----------------------------------------------------------------------------
(* ScanExecute.                                                            *)

CallExecute ==
    /\ pc = "idle" /\ ~exhausted
    /\ chunk' = <<>> /\ pc' = "next"
    /\ UNCHANGED <<streamVars, request, mapping, complete, emitted, exhausted, session,
                   delivered>>

(* The outputs whose column may come back under this name.                 *)
Claims(name) ==
    {out \in Requested :
        LET c == bind.columns[column_ids[out]] IN name \in {c, Qualified[c], Alias[c]}}

(* A variant that counts outputs in the list of names.                     *)
OutputForCompacted(name) ==
    LET claims == Claims(name)
        first == CHOOSE out \in claims : \A other \in claims : out <= other
    IN  IF claims = {} THEN 0 ELSE Cardinality({out \in Requested : out <= first})

(* The ColumnMap's keys: the first output that may claim a name.           *)
OutputFor(name) ==
    LET claims == Claims(name)
    IN  IF claims = {} THEN 0 ELSE CHOOSE out \in claims : \A other \in claims : out <= other

(* A variant that maps the columns of the first row only.                  *)
ExtendOnce == IF mapping # <<>> THEN mapping
              ELSE [c \in 1 .. Len(st.columns) |-> OutputFor(st.columns[c])]

(* Extend: the columns discovered since the row before.                    *)
Extend == [c \in 1 .. Len(st.columns) |->
              IF c <= Len(mapping) THEN mapping[c] ELSE OutputFor(st.columns[c])]

(* What a row writes to an output: its last cell there, or nothing.        *)
CellsFor(row, map, out) ==
    {i \in 1 .. Len(row) : row[i].column \in DOMAIN map /\ map[row[i].column] = out}
Written(row, map, out) ==
    LET cells == CellsFor(row, map, out)
    IN  IF cells = {} THEN Null ELSE row[CHOOSE i \in cells : \A j \in cells : j <= i].value

(* One output row; only a VARCHAR output is written to.                    *)
OutputRow(row, map) ==
    [out \in 1 .. Len(column_ids) |->
        IF IsColumn(column_ids[out]) THEN Written(row, map, out) ELSE Null]

(* A variant that fills a vector with one row too many.                    *)
AddRowOver ==
    /\ pc = "row"
    /\ emitted' = TRUE /\ mapping' = Extend
    /\ LET taken == Append(chunk, OutputRow(rows[Len(rows)], mapping'))
       IN  IF Len(taken) <= VectorSize
           THEN chunk' = taken /\ pc' = "next" /\ UNCHANGED delivered
           ELSE chunk' = <<>> /\ pc' = "idle" /\ delivered' = delivered \o taken
    /\ UNCHANGED <<streamVars, request, complete, exhausted, session>>

(* The loop takes a row; a vector that is full goes to DuckDB.             *)
AddRow ==
    /\ pc = "row"
    /\ emitted' = TRUE /\ mapping' = Extend
    /\ LET taken == Append(chunk, OutputRow(rows[Len(rows)], mapping'))
       IN  IF Len(taken) < VectorSize
           THEN chunk' = taken /\ pc' = "next" /\ UNCHANGED delivered
           ELSE chunk' = <<>> /\ pc' = "idle" /\ delivered' = delivered \o taken
    /\ UNCHANGED <<streamVars, request, complete, exhausted, session>>

(* A variant that returns from the end of the rows at once.                *)
ExhaustAtOnce ==
    /\ pc = "none" /\ complete /\ ~(~emitted /\ LooksLikeCellset)
    /\ exhausted' = TRUE /\ session' = "closed"
    /\ chunk' = <<>> /\ UNCHANGED delivered
    /\ pc' = "idle"
    /\ UNCHANGED <<streamVars, request, mapping, complete, emitted>>

(* Next returned false: the cursor is drained and reset, and the session   *)
(* closed.                                                                 *)
Exhaust ==
    /\ pc = "none" /\ complete /\ ~(~emitted /\ LooksLikeCellset)
    /\ exhausted' = TRUE /\ session' = "closed"
    /\ delivered' = delivered \o chunk /\ chunk' = <<>>
    /\ pc' = "idle"
    /\ UNCHANGED <<streamVars, request, mapping, complete, emitted>>

(* DuckDB wants no more, or ScanExecute threw: the cursor goes first and   *)
(* abandons what it has not read, then the session.                        *)
DropScan ==
    /\ pc \in {"idle", "failed"} /\ session = "open"
    /\ session' = IF complete THEN "closed" ELSE "failed"
    /\ pc' = "dropped"
    /\ UNCHANGED <<streamVars, request, mapping, complete, emitted, chunk, exhausted, delivered>>

Cursor == CallParser \/ Parse \/ RefusePump \/ PumpFails \/ RefuseCellset
            \/ \E n \in Cuts, more \in BOOLEAN : Pump(n, more)
Execute == StartScan \/ CallExecute \/ AddRow \/ Exhaust \/ DropScan

ScanNext == Cursor \/ Execute
ScanSpec == ScanInit /\ [][ScanNext]_scanVars

-----------------------------------------------------------------------------
(* Properties.                                                             *)

(* What the parser holds stays within its limit and one record, whatever   *)
(* the answer is made of (client.cpp:384-393).                             *)
RetainsLittle == \E n \in Cuts \cup {0} : fed - base <= ParserLimit + n

(* The types; a vector that is not full has room for a row, and what is    *)
(* held back for the parser is bounded (client.cpp:384-393).               *)
ScanTypeOK ==
    /\ StreamTypeOK
    /\ bind \in Binds /\ column_ids \in Queries /\ table \in Tables
    /\ mapping \in Seq(0 .. Len(column_ids))
    /\ pc \in {"init", "idle", "next", "parse", "row", "none", "failed", "dropped"}
    /\ complete \in BOOLEAN /\ emitted \in BOOLEAN /\ exhausted \in BOOLEAN
    /\ session \in {"none", "open", "closed", "failed"}
    /\ Len(chunk) < VectorSize
    /\ RetainsLittle

(* What the query asked of a row.                                          *)
Projected(row) ==
    [out \in 1 .. Len(column_ids) |->
        IF ~IsColumn(column_ids[out]) THEN Null
        ELSE IF bind.columns[column_ids[out]] \notin Range(bind.served) THEN Null
        ELSE row[bind.columns[column_ids[out]]]]

EndsRow(k) == /\ doc[k].kind = "close" /\ doc[k].name = "row"
              /\ doc[k + 1].kind # "close" \/ doc[k + 1].name = "root"
RowsBefore(p) == Cardinality({k \in 1 .. Len(doc) : EndsRow(k) /\ doc[k].end <= p})

(* DuckDB is given the first rows of the table, in order, each with the    *)
(* value of every column it asked for in the place it asked for it: null   *)
(* where the server left the column out, the empty string where it did     *)
(* not, whatever was skipped, discovered late, projected or cut; and a     *)
(* scan that reports its end has given every row whose bytes came, also    *)
(* when they end with a full vector                                        *)
(* (xmla_table_entry.cpp:96-116, 163-207, rowset.hpp:218-246).             *)
RowsAsAsked ==
    LET due == delivered \o chunk
    IN  /\ Len(due) <= Len(table)
        /\ \A r \in 1 .. Len(due) : due[r] = Projected(table[r])
        /\ exhausted => Len(delivered) = RowsBefore(fed)

(* The mapping as it would be if every column had been there from the      *)
(* first row on, and the rows ScanExecute has taken.                       *)
FullMapping == [c \in 1 .. Len(st.columns) |-> OutputFor(st.columns[c])]
RowsTaken == IF pc = "row" THEN Len(rows) - 1 ELSE Len(rows)

(* What DuckDB has is the parser's rows, each mapped with all the columns  *)
(* found to this day.                                                      *)
MappedInFull ==
    /\ Len(delivered \o chunk) = RowsTaken
    /\ \A r \in 1 .. RowsTaken : (delivered \o chunk)[r] = OutputRow(rows[r], FullMapping)

(* The end of a scan: every tag whose bytes came has been read, no row is  *)
(* held back, and what was read is a rowset, neither empty nor a cellset.  *)
EndReadsAll ==
    exhausted => /\ \A k \in 1 .. Len(doc) : doc[k].end <= fed => k <= scanned
                 /\ chunk = <<>> /\ Len(delivered) = Len(rows)
                 /\ fed > 0
                 /\ delivered = <<>> => ~LooksLikeCellset

(* No row the parser returned is lost, repeated, reordered or held back    *)
(* between two vectors, and none is written with a mapping that did not    *)
(* know its columns; a scan reports its end only when all that came has    *)
(* been read, and an answer without a byte, or a cellset, is never a table *)
(* without rows                                                            *)
(* (xmla_table_entry.cpp:176-220, rowset.cpp:490-495, client.cpp:319-331). *)
DeliveredAsRead == MappedInFull /\ EndReadsAll

(* An answer is refused for its size only while a row is unfinished: the   *)
(* bytes held then contain no end of a row (rowset.hpp:152-165).           *)
LimitFair ==
    pc = "none" /\ ~complete /\ OverLimit =>
        \A k \in 1 .. Len(doc) :
            EndsRow(k) => doc[k].end <= base \/ doc[k].end > fed

(* "Every cell it produces is dropped and only the row count survives"     *)
(* (xmla_table_entry.cpp:120-123): a scan of a whole answer has as many    *)
(* rows as the table.                                                      *)
RowCountSurvives ==
    exhausted /\ fed = Size(doc) /\ ~LooksLikeCellset => Len(delivered) = Len(table)
=============================================================================
