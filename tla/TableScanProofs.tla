----------------------------- MODULE TableScanProofs -----------------------------
(***************************************************************************)
(* Proofs about TableScan, for every answer and every way it is cut, and   *)
(* for every projection, table, vector size and limit.                     *)
(***************************************************************************)
EXTENDS TableScan, RowStreamProofs, Induction, FiniteSetTheorems

-----------------------------------------------------------------------------
(* The columns of the parser only grow, and rows refer to those there are. *)

Known(row, columns) == \A i \in 1 .. Len(row) : row[i].column \in 1 .. Len(columns)
Grows(before, after) == Len(before) <= Len(after) /\ \A c \in 1 .. Len(before) : after[c] = before[c]

(* A row that is known stays known.                                        *)
LEMMA KnownStays ==
    ASSUME NEW before \in Seq(Names), NEW after \in Seq(Names), Grows(before, after),
           NEW row, Known(row, before)
    PROVE  Known(row, after)
<1>1. Len(before) \in Nat /\ Len(after) \in Nat /\ Len(before) <= Len(after)
  BY LenProperties DEF Grows
<1> QED
  BY <1>1 DEF Known

(* ColumnFor finds the column where it is or puts it at the end.           *)
LEMMA ColumnIndex ==
    ASSUME NEW columns \in Seq(Names), NEW name \in Names
    PROVE  /\ Grows(columns, WithColumn(columns, name))
           /\ ColumnFor(WithColumn(columns, name), name) \in 1 .. Len(WithColumn(columns, name))
<1> DEFINE c == WithColumn(columns, name)
<1> SUFFICES Grows(columns, c) /\ ColumnFor(c, name) \in 1 .. Len(c)
  OBVIOUS
<1>0. Len(columns) \in Nat /\ c \in Seq(Names)
  BY ColumnFound, LenProperties
<1>1. CASE name \in Range(columns)
  <2>1. c = columns
    BY <1>1 DEF WithColumn
  <2>2. \E i \in DOMAIN columns : columns[i] = name
    BY <1>1 DEF Range
  <2>3. ColumnFor(c, name) \in DOMAIN c
    BY <2>1, <2>2 DEF ColumnFor
  <2>4. DOMAIN c = 1 .. Len(c)
    BY <1>0, LenProperties
  <2> HIDE DEF c
  <2> QED
    BY <1>0, <2>1, <2>3, <2>4 DEF Grows
<1>2. CASE name \notin Range(columns)
  <2>1. c = Append(columns, name)
    BY <1>2 DEF WithColumn
  <2>2. Len(c) = Len(columns) + 1 /\ c[Len(columns) + 1] = name
        /\ \A i \in 1 .. Len(columns) : c[i] = columns[i]
    BY <2>1, AppendProperties
  <2>3. DOMAIN c = 1 .. Len(c)
    BY <1>0, LenProperties
  <2>4. Len(columns) + 1 \in DOMAIN c
    BY <1>0, <2>2, <2>3
  <2>5. ColumnFor(c, name) \in DOMAIN c
    BY <2>2, <2>4 DEF ColumnFor
  <2> HIDE DEF c
  <2> QED
    BY <1>0, <2>2, <2>3, <2>5 DEF Grows
<1> QED
  BY <1>1, <1>2

(* A cell is set under a column there is.                                  *)
LEMMA SetCellKnown ==
    ASSUME NEW s \in State, NEW name \in Names, NEW value \in Values, Known(s.row, s.columns)
    PROVE  /\ SetCell(s, name, value) \in State
           /\ Grows(s.columns, SetCell(s, name, value).columns)
           /\ Known(SetCell(s, name, value).row, SetCell(s, name, value).columns)
<1> DEFINE columns == WithColumn(s.columns, name)
           cell == [column |-> ColumnFor(columns, name), value |-> value]
           set == [i \in DOMAIN s.row |-> IF s.row[i].column = cell.column THEN cell ELSE s.row[i]]
           row == IF \E i \in DOMAIN s.row : s.row[i].column = cell.column THEN set
                  ELSE Append(s.row, cell)
<1>1. s.columns \in Seq(Names) /\ s.row \in Seq(Cell)
  BY StateParts
<1>2. columns \in Seq(Names) /\ Grows(s.columns, columns) /\ cell.column \in 1 .. Len(columns)
  BY <1>1, ColumnFound, ColumnIndex
<1>3. Known(s.row, columns)
  BY <1>1, <1>2, KnownStays
<1>4. SetCell(s, name, value) \in State /\ SetCell(s, name, value).columns = columns
      /\ SetCell(s, name, value).row = row
  <2>1. SetCell(s, name, value) = [s EXCEPT !.columns = columns, !.row = row]
    BY DEF SetCell
  <2>2. SetCell(s, name, value) \in State
    BY SetCellTyped
  <2> HIDE DEF columns, row
  <2> QED
    BY <2>1, <2>2, StateParts
<1> HIDE DEF columns, cell
<1>5. Known(set, columns)
  <2>1. DOMAIN s.row = 1 .. Len(s.row) /\ Len(s.row) \in Nat
    BY <1>1, LenProperties
  <2>2. set \in Seq({set[i] : i \in 1 .. Len(s.row)}) /\ Len(set) = Len(s.row)
    <3>1. set = [i \in 1 .. Len(s.row) |-> set[i]]
      BY <2>1
    <3> HIDE DEF set
    <3> QED
      BY <2>1, <3>1, IsASeq
  <2> QED
    BY <1>2, <1>3, <2>1, <2>2 DEF Known
<1>6. Known(Append(s.row, cell), columns)
  <2>1. /\ Len(Append(s.row, cell)) = Len(s.row) + 1 /\ Append(s.row, cell)[Len(s.row) + 1] = cell
        /\ \A i \in 1 .. Len(s.row) : Append(s.row, cell)[i] = s.row[i]
        /\ Len(s.row) \in Nat
    <3>1. s.row \in Seq(Cell \cup {cell})
      BY <1>1
    <3> QED
      BY <3>1, AppendProperties, LenProperties
  <2>2. ASSUME NEW i \in 1 .. Len(s.row) + 1 PROVE Append(s.row, cell)[i].column \in 1 .. Len(columns)
    <3>1. i \in 1 .. Len(s.row) \/ i = Len(s.row) + 1
      BY <2>1
    <3> QED
      BY <1>2, <1>3, <2>1, <3>1 DEF Known
  <2> QED
    BY <2>1, <2>2 DEF Known
<1> HIDE DEF set
<1> QED
  BY <1>2, <1>4, <1>5, <1>6

(* What each kind of tag leaves of that.                                   *)
LEMMA OpenedKnown ==
    ASSUME NEW s \in State, NEW name \in Names, Known(s.row, s.columns)
    PROVE  /\ Opened(s, name).columns = s.columns
           /\ Known(Opened(s, name).row, s.columns)
<1>1. s = [depth |-> s.depth, row_depth |-> s.row_depth, field |-> s.field,
           columns |-> s.columns, row |-> s.row]
  BY StateParts
<1>2. CASE name = "row" /\ s.row_depth < 0
  <2>1. Opened(s, name).columns = s.columns /\ Opened(s, name).row = <<>>
    BY <1>1, <1>2 DEF Opened
  <2> QED
    BY <2>1 DEF Known
<1>3. CASE ~(name = "row" /\ s.row_depth < 0)
  <2>1. Opened(s, name).columns = s.columns /\ Opened(s, name).row = s.row
    BY <1>1, <1>3 DEF Opened
  <2> QED
    BY <2>1
<1> QED
  BY <1>2, <1>3

LEMMA SelfClosedKnown ==
    ASSUME GrammarAssumption, NEW s \in State, NEW name \in Names, Known(s.row, s.columns)
    PROVE  /\ Grows(s.columns, SelfClosed(s, name).columns)
           /\ Known(SelfClosed(s, name).row, SelfClosed(s, name).columns)
<1>1. Decoded[name] \in Names /\ EmptyString \in Values
  BY DEF GrammarAssumption, Values
<1>2. CASE IsField(s)
  BY <1>1, <1>2, SetCellKnown DEF SelfClosed
<1>3. CASE ~IsField(s)
  <2>1. Grows(s.columns, s.columns)
    BY StateParts, LenProperties DEF Grows
  <2> QED
    BY <1>3, <2>1 DEF SelfClosed
<1> QED
  BY <1>2, <1>3

LEMMA ClosedKnown ==
    ASSUME GrammarAssumption, NEW s \in State, NEW value \in Values, Known(s.row, s.columns)
    PROVE  /\ Grows(s.columns, Closed(s, value).columns)
           /\ Known(Closed(s, value).row, Closed(s, value).columns)
<1> DEFINE depth == IF s.depth > 0 THEN s.depth - 1 ELSE 0
           out == [s EXCEPT !.depth = IF @ > 0 THEN @ - 1 ELSE 0]
<1>1. s.depth \in Nat /\ s.row_depth \in Int /\ s.field \in Names /\ s.columns \in Seq(Names)
      /\ s.row \in Seq(Cell)
      /\ s = [depth |-> s.depth, row_depth |-> s.row_depth, field |-> s.field,
              columns |-> s.columns, row |-> s.row]
  BY StateParts
<1>2. out = [depth |-> depth, row_depth |-> s.row_depth, field |-> s.field,
             columns |-> s.columns, row |-> s.row]
  BY <1>1
<1>3. depth \in Nat
  BY <1>1
<1>4. out \in State /\ out.columns = s.columns /\ out.row = s.row
  <2> HIDE DEF depth
  <2> QED
    BY <1>1, <1>2, <1>3 DEF State
<1>5. Closed(s, value) = IF s.field # EmptyString /\ IsField(out)
                         THEN [SetCell(out, s.field, value) EXCEPT !.field = EmptyString]
                         ELSE out
  BY DEF Closed
<1> HIDE DEF out
<1>6. CASE s.field # EmptyString /\ IsField(out)
  <2> DEFINE set == SetCell(out, s.field, value)
  <2>1. set \in State /\ Grows(s.columns, set.columns) /\ Known(set.row, set.columns)
    BY <1>1, <1>4, SetCellKnown
  <2> HIDE DEF set
  <2>2. [set EXCEPT !.field = EmptyString].columns = set.columns
        /\ [set EXCEPT !.field = EmptyString].row = set.row
    BY <2>1 DEF State
  <2>3. Closed(s, value) = [set EXCEPT !.field = EmptyString]
    BY <1>5, <1>6 DEF set
  <2> QED
    BY <2>1, <2>2, <2>3
<1>7. CASE ~(s.field # EmptyString /\ IsField(out))
  <2>1. Grows(s.columns, s.columns)
    BY <1>1, LenProperties DEF Grows
  <2> QED
    BY <1>4, <1>5, <1>7, <2>1
<1> QED
  BY <1>6, <1>7

(* What the row in the making and the rows returned refer to.              *)
Referring ==
    /\ Known(st.row, st.columns)
    /\ \A r \in 1 .. Len(rows) : Known(rows[r], st.columns)

(* A tag keeps the columns there are, and returns a row that refers to     *)
(* them or none.                                                           *)
LEMMA TagGrows ==
    ASSUME GrammarAssumption, RInv, Referring, NEW k \in Ahead, Tag(k)
    PROVE  /\ Grows(st.columns, st'.columns) /\ Known(st'.row, st'.columns)
           /\ \/ rows' = rows /\ scanning' = TRUE
              \/ \E row \in Seq(Cell) : /\ rows' = Append(rows, row) /\ Known(row, st'.columns)
                                        /\ scanning' = FALSE
<1>0. /\ st \in State /\ Known(st.row, st.columns) /\ doc[k].name \in Names /\ Value \in Values
      /\ Grows(st.columns, st.columns)
  <2>1. k \in 1 .. Len(doc)
    BY DEF Ahead
  <2>2. doc[k].name \in Names
    BY <2>1, ConstructTyped DEF RInv, RTypes
  <2>3. st \in State
    BY DEF RInv, RTypes
  <2>4. Grows(st.columns, st.columns)
    BY <2>3, StateParts, LenProperties DEF Grows
  <2> QED
    BY <2>2, <2>3, <2>4, ValueTyped DEF Referring
<1>1. scanning = TRUE
  BY DEF Tag, SkipConstruct, OpenTag, EmptyTag, CloseTag, ReturnRow, Read, RInv, RTypes
<1>2. CASE SkipConstruct(k)
  BY <1>0, <1>1, <1>2 DEF SkipConstruct
<1>3. CASE OpenTag(k)
  <2>1. st' = Opened(st, doc[k].name) /\ rows' = rows /\ scanning' = scanning
    BY <1>3 DEF OpenTag
  <2> QED
    BY <1>0, <1>1, <2>1, OpenedKnown
<1>4. CASE EmptyTag(k)
  <2>1. st' = SelfClosed(st, doc[k].name) /\ rows' = rows /\ scanning' = scanning
    BY <1>4 DEF EmptyTag
  <2> QED
    BY <1>0, <1>1, <2>1, SelfClosedKnown
<1>5. CASE CloseTag(k)
  <2>1. st' = Closed(st, Value) /\ rows' = rows /\ scanning' = scanning
    BY <1>5 DEF CloseTag
  <2> QED
    BY <1>0, <1>1, <2>1, ClosedKnown
<1>6. CASE ReturnRow(k)
  <2> DEFINE after == Closed(st, Value)
  <2>1. st' = RowTaken(after) /\ rows' = Append(rows, after.row) /\ scanning' = FALSE
    BY <1>6 DEF ReturnRow
  <2>2. after \in State /\ Grows(st.columns, after.columns) /\ Known(after.row, after.columns)
    BY <1>0, ClosedTyped, ClosedKnown
  <2> HIDE DEF after
  <2>3. RowTaken(after).columns = after.columns /\ RowTaken(after).row = <<>>
    BY <2>2, StateParts DEF RowTaken
  <2>4. Known(RowTaken(after).row, after.columns)
    BY <2>3 DEF Known
  <2>5. after.row \in Seq(Cell)
    BY <2>2, StateParts
  <2> QED
    BY <2>1, <2>2, <2>3, <2>4, <2>5
<1> QED
  BY <1>2, <1>3, <1>4, <1>5, <1>6 DEF Tag

-----------------------------------------------------------------------------
(* The mapping, and a row put through it.                                  *)

Output == [1 .. Len(column_ids) -> Values \cup {Null}]

(* An output is one of those there are, or none.                           *)
LEMMA OutputForTyped ==
    ASSUME column_ids \in Seq(Nat), NEW name
    PROVE  OutputFor(name) \in 0 .. Len(column_ids)
<1>0. Len(column_ids) \in Nat
  BY LenProperties
<1>1. Claims(name) \subseteq 1 .. Len(column_ids)
  BY DEF Claims, Requested
<1>2. CASE Claims(name) = {}
  BY <1>0, <1>2 DEF OutputFor
<1>3. CASE Claims(name) # {}
  <2>1. Claims(name) \subseteq Nat
    BY <1>0, <1>1
  <2>2. \E out \in Claims(name) : \A other \in Claims(name) : out <= other
    BY <1>3, <2>1, LeastNumber
  <2>3. OutputFor(name) \in Claims(name)
    BY <1>3, <2>2 DEF OutputFor
  <2> QED
    BY <1>0, <1>1, <2>3
<1> QED
  BY <1>2, <1>3

(* What a row is put through as gives a value or nothing for each output.  *)
LEMMA OutputRowTyped ==
    ASSUME NEW row \in Seq(Cell), NEW map
    PROVE  OutputRow(row, map) \in Output
<1> SUFFICES ASSUME NEW out \in 1 .. Len(column_ids)
             PROVE  OutputRow(row, map)[out] \in Values \cup {Null}
  BY DEF OutputRow, Output
<1> DEFINE cells == CellsFor(row, map, out)
           last == CHOOSE i \in cells : \A j \in cells : j <= i
<1>1. OutputRow(row, map)[out] \in {Null, IF cells = {} THEN Null ELSE row[last].value}
  BY DEF OutputRow, Written
<1>2. ASSUME cells # {} PROVE row[last].value \in Values
  <2>1. Len(row) \in Nat /\ cells \subseteq Nat /\ \A i \in cells : i <= Len(row)
    BY LenProperties DEF CellsFor
  <2>2. \E i \in cells : \A j \in cells : j <= i
    BY <1>2, <2>1, GreatestNumber
  <2>3. last \in 1 .. Len(row)
    BY <2>2 DEF CellsFor
  <2>4. row[last] \in Cell
    BY <2>3, ElementOfSeq
  <2> HIDE DEF last
  <2> QED
    BY <2>4 DEF Cell
<1> HIDE DEF cells, last
<1> QED
  BY <1>1, <1>2

(* Columns found later do not change what a row was put through as.        *)
MappingOf(columns) == [c \in 1 .. Len(columns) |-> OutputFor(columns[c])]

LEMMA OutputRowStays ==
    ASSUME NEW before \in Seq(Names), NEW after \in Seq(Names), Grows(before, after),
           NEW row, Known(row, before)
    PROVE  OutputRow(row, MappingOf(after)) = OutputRow(row, MappingOf(before))
<1>1. Len(before) \in Nat /\ Len(after) \in Nat /\ Len(before) <= Len(after)
  BY LenProperties DEF Grows
<1>2. ASSUME NEW i \in 1 .. Len(row)
      PROVE  /\ row[i].column \in DOMAIN MappingOf(before) /\ row[i].column \in DOMAIN MappingOf(after)
             /\ MappingOf(after)[row[i].column] = MappingOf(before)[row[i].column]
  <2>1. row[i].column \in 1 .. Len(before) /\ row[i].column \in 1 .. Len(after)
    BY <1>1 DEF Known
  <2>2. after[row[i].column] = before[row[i].column]
    BY <2>1 DEF Grows
  <2> QED
    BY <2>1, <2>2 DEF MappingOf
<1>3. ASSUME NEW out PROVE CellsFor(row, MappingOf(after), out) = CellsFor(row, MappingOf(before), out)
  BY <1>2 DEF CellsFor
<1>4. ASSUME NEW out PROVE Written(row, MappingOf(after), out) = Written(row, MappingOf(before), out)
  <2> DEFINE value(cells) == IF cells = {} THEN Null
                             ELSE row[CHOOSE i \in cells : \A j \in cells : j <= i].value
  <2>1. \A map : Written(row, map, out) = value(CellsFor(row, map, out))
    BY DEF Written
  <2> HIDE DEF value
  <2> QED
    BY <1>3, <2>1
<1> QED
  BY <1>4 DEF OutputRow

-----------------------------------------------------------------------------
(* The inductive invariant.                                                *)

Places ==
    /\ bind \in Binds /\ column_ids \in Queries /\ table \in Tables
    /\ pc \in {"init", "idle", "next", "parse", "row", "none", "failed", "dropped"}
    /\ complete \in BOOLEAN /\ emitted \in BOOLEAN /\ exhausted \in BOOLEAN
    /\ session \in {"none", "open", "closed", "failed"}
    /\ scanning <=> pc = "parse"
    /\ pc = "row" => Len(rows) > 0
    /\ pc \in {"init", "idle"} => chunk = <<>>

(* The mapping is right for the columns it covers.                         *)
Mapped ==
    /\ mapping \in Seq(0 .. Len(column_ids)) /\ Len(mapping) <= Len(st.columns)
    /\ \A c \in 1 .. Len(mapping) : mapping[c] = OutputFor(st.columns[c])

Vectors == delivered \in Seq(Output) /\ chunk \in Seq(Output) /\ Len(chunk) < VectorSize

NothingWhole == \A k \in 1 .. Len(doc) : doc[k].end <= fed => k <= scanned

(* What is known at the end of the rows, and before it.                    *)
Ending ==
    /\ pc = "none" => NothingWhole
    /\ complete => fed > 0 \/ pc \in {"failed", "dropped"}
    /\ emitted => Len(delivered \o chunk) > 0
    /\ exhausted => pc \in {"idle", "dropped"} /\ chunk = <<>> /\ NothingWhole /\ fed > 0
                      /\ (delivered = <<>> => ~LooksLikeCellset)

TInv == /\ RInv /\ Places /\ Referring /\ Mapped /\ Vectors /\ MappedInFull /\ Ending
        /\ RetainsLittle

(* The rows taken are rows.                                                *)
LEMMA RowsCounted ==
    ASSUME RInv, Places
    PROVE  /\ Len(rows) \in Nat /\ RowsTaken \in Nat /\ RowsTaken <= Len(rows)
           /\ \A r \in 1 .. Len(rows) : rows[r] \in Seq(Cell)
           /\ st.columns \in Seq(Names) /\ st \in State
<1>1. rows \in Seq(Seq(Cell)) /\ st \in State
  BY DEF RInv, RTypes
<1>2. Len(rows) \in Nat /\ \A r \in 1 .. Len(rows) : rows[r] \in Seq(Cell)
  BY <1>1, LenProperties, ElementOfSeq
<1> QED
  BY <1>1, <1>2, StateParts DEF RowsTaken, Places
-----------------------------------------------------------------------------
(* Steps.                                                                  *)

(* What the scan does to the parser is what its callers may do.            *)
LEMMA ScanStepsStream ==
    ASSUME [ScanNext]_scanVars
    PROVE  [StreamNext]_streamVars
<1>1. CASE Cursor
  <2>1. CASE CallParser
    BY <2>1 DEF CallParser, StreamNext
  <2>2. CASE Parse
    BY <2>2 DEF Parse, StreamNext
  <2>3. CASE RefusePump \/ PumpFails \/ RefuseCellset
    BY <2>3 DEF RefusePump, PumpFails, RefuseCellset
  <2>4. CASE \E n \in Cuts, more \in BOOLEAN : Pump(n, more)
    BY <2>4 DEF Pump, StreamNext
  <2> QED
    BY <1>1, <2>1, <2>2, <2>3, <2>4 DEF Cursor
<1>2. CASE Execute
  BY <1>2 DEF Execute, StartScan, CallExecute, AddRow, Exhaust, DropScan
<1>3. CASE UNCHANGED scanVars
  BY <1>3 DEF scanVars
<1> QED
  BY <1>1, <1>2, <1>3 DEF ScanNext

(* No row is read before the first ScanExecute.                            *)
LEMMA TInvHoldsFirst ==
    ASSUME GrammarAssumption, ScanAssumption, ScanInit
    PROVE  TInv
<1>1. RInv
  BY RInvHoldsFirst DEF ScanInit
<1>2. rows = <<>> /\ scanning = FALSE /\ fed = 0 /\ base = 0
  BY DEF ScanInit, StreamInit
<1>3. /\ bind \in Binds /\ column_ids \in Queries /\ table \in Tables
      /\ pc = "init" /\ complete = FALSE /\ emitted = FALSE
      /\ exhausted = FALSE /\ session = "none"
  BY DEF ScanInit
<1>4. Len(<<>>) = 0 /\ 1 .. 0 = {}
  OBVIOUS
<1>5. VectorSize \in Nat \ {0} /\ ParserLimit \in Nat
  BY DEF ScanAssumption
<1>6. Places
  <2>1. chunk = <<>>
    BY DEF ScanInit
  <2> QED
    BY <1>2, <1>3, <2>1 DEF Places
<1>7. Len(st.row) = 0 /\ Len(st.columns) = 0 /\ Len(rows) = 0
  BY DEF ScanInit, StreamInit, Unread
<1>8. Referring
  BY <1>4, <1>7 DEF Referring, Known
<1>9. Mapped
  <2>1. mapping \in Seq(0 .. Len(column_ids)) /\ Len(mapping) = 0
    BY DEF ScanInit
  <2> QED
    BY <1>4, <1>7, <2>1 DEF Mapped
<1>10. Vectors
  <2>1. delivered \in Seq(Output) /\ chunk \in Seq(Output) /\ Len(chunk) = 0
    BY DEF ScanInit
  <2> QED
    BY <1>5, <2>1 DEF Vectors
<1>11. MappedInFull
  <2>1. Len(delivered) = 0 /\ Len(chunk) = 0 /\ delivered \in Seq(Output) /\ chunk \in Seq(Output)
    BY DEF ScanInit
  <2>2. Len(delivered \o chunk) = 0
    BY <2>1, ConcatProperties
  <2>3. RowsTaken = 0
    BY <1>3, <1>7 DEF RowsTaken
  <2> QED
    BY <1>4, <2>2, <2>3 DEF MappedInFull
<1>12. Ending
  BY <1>3 DEF Ending
<1>13. RetainsLittle
  <2>1. fed - base <= ParserLimit + 0
    BY <1>2, <1>5
  <2> QED
    BY <2>1 DEF RetainsLittle
<1> QED
  BY <1>1, <1>6, <1>8, <1>9, <1>10, <1>11, <1>12, <1>13 DEF TInv

(* What a step does to the columns and the rows.                           *)
RowReturned == \E row \in Seq(Cell) : rows' = Append(rows, row) /\ Known(row, st'.columns)

LEMMA ScanStepGrows ==
    ASSUME GrammarAssumption, TInv, [ScanNext]_scanVars
    PROVE  /\ Grows(st.columns, st'.columns) /\ Known(st'.row, st'.columns)
           /\ \/ rows' = rows /\ (pc' = "row" <=> pc = "row" /\ ~AddRow)
              \/ RowReturned /\ pc = "parse" /\ pc' = "row"
<1>0. Grows(st.columns, st.columns) /\ Known(st.row, st.columns) /\ Referring /\ RInv
  <2>1. RInv /\ Places /\ Referring
    BY DEF TInv
  <2>2. Len(st.columns) \in Nat
    BY <2>1, RowsCounted, LenProperties
  <2> QED
    BY <2>1, <2>2 DEF Grows, Referring
<1>1. CASE Parse
  <2>1. CASE GiveUp
    BY <1>0, <1>1, <2>1 DEF Parse, GiveUp, AddRow
  <2>2. CASE \E k \in Ahead : Tag(k)
    <3>1. PICK k \in Ahead : Tag(k)
      BY <2>2
    <3>2. /\ Grows(st.columns, st'.columns) /\ Known(st'.row, st'.columns)
          /\ \/ rows' = rows /\ scanning' = TRUE
             \/ RowReturned /\ scanning' = FALSE
      BY <1>0, <3>1, TagGrows DEF RowReturned
    <3>3. ASSUME NEW row \in Seq(Cell), rows' = Append(rows, row) PROVE rows' # rows
      <4>1. rows \in Seq(Seq(Cell))
        BY <1>0 DEF RInv, RTypes
      <4>2. Len(rows') = Len(rows) + 1 /\ Len(rows) \in Nat
        BY <3>3, <4>1, AppendProperties, LenProperties
      <4> QED
        BY <4>2
    <3> QED
      BY <1>1, <3>2, <3>3 DEF Parse, RowReturned, AddRow
  <2> QED
    BY <1>1, <2>1, <2>2 DEF Parse, Scan
<1>2. CASE CallParser
  BY <1>0, <1>2 DEF CallParser, CallNext, AddRow
<1>3. CASE RefusePump \/ PumpFails \/ RefuseCellset
  BY <1>0, <1>3 DEF RefusePump, PumpFails, RefuseCellset, Throws, streamVars, parser, AddRow
<1>4. CASE \E n \in Cuts, more \in BOOLEAN : Pump(n, more)
  BY <1>0, <1>4 DEF Pump, Feed, Throws, parser, AddRow
<1>5. CASE StartScan \/ CallExecute \/ Exhaust \/ DropScan
  BY <1>0, <1>5 DEF StartScan, CallExecute, Exhaust, DropScan, streamVars, parser, AddRow
<1>6. CASE AddRow
  BY <1>0, <1>6 DEF AddRow, streamVars, parser
<1>7. CASE UNCHANGED scanVars
  <2>1. st' = st /\ rows' = rows /\ pc' = pc /\ (AddRow => pc' \in {"next", "idle"})
    BY <1>7 DEF scanVars, streamVars, parser, AddRow
  <2>2. ~AddRow \/ pc # "row"
    BY <2>1
  <2> QED
    BY <1>0, <2>1, <2>2
<1> QED
  BY <1>1, <1>2, <1>3, <1>4, <1>5, <1>6, <1>7 DEF ScanNext, Cursor, Execute

(* What was asked for stays, and with it what columns and rows map to.     *)
LEMMA RequestKept ==
    ASSUME [ScanNext]_scanVars
    PROVE  bind' = bind /\ column_ids' = column_ids /\ table' = table /\ Output' = Output
<1>1. UNCHANGED request
  <2>1. CASE Cursor
    BY <2>1 DEF Cursor, CallParser, Parse, RefusePump, PumpFails, RefuseCellset, Pump, Throws
  <2>2. CASE Execute
    BY <2>2 DEF Execute, StartScan, CallExecute, AddRow, Exhaust, DropScan
  <2> QED
    BY <2>1, <2>2 DEF ScanNext, scanVars
<1> QED
  BY <1>1 DEF request, Output

LEMMA ColumnMapsAsBefore ==
    ASSUME bind' = bind, column_ids' = column_ids, NEW c
    PROVE  OutputFor(st.columns[c])' = OutputFor(st'.columns[c])
<1>1. Requested' = Requested
  BY DEF Requested, IsColumn
<1>2. Claims(st.columns[c])' = Claims(st'.columns[c])
  BY <1>1 DEF Claims
<1> QED
  BY <1>2 DEF OutputFor

LEMMA MappedIs ==
    ASSUME bind' = bind, column_ids' = column_ids, mapping' \in Seq(0 .. Len(column_ids)),
           Len(mapping') <= Len(st'.columns),
           \A c \in 1 .. Len(mapping') : mapping'[c] = OutputFor(st'.columns[c])
    PROVE  Mapped'
<1>1. ASSUME NEW c \in 1 .. Len(mapping') PROVE mapping'[c] = OutputFor(st.columns[c])'
  BY ColumnMapsAsBefore
<1> QED
  BY <1>1 DEF Mapped

LEMMA DeliveredIs ==
    ASSUME bind' = bind, column_ids' = column_ids, NEW n, RowsTaken' = n,
           Len(delivered' \o chunk') = n,
           \A r \in 1 .. n : (delivered' \o chunk')[r] = OutputRow(rows'[r], MappingOf(st'.columns))
    PROVE  MappedInFull'
<1>1. FullMapping' = MappingOf(st'.columns)
  <2>1. \A c \in 1 .. Len(st'.columns) : OutputFor(st.columns[c])' = OutputFor(st'.columns[c])
    BY ColumnMapsAsBefore
  <2> QED
    BY <2>1, Zenon DEF MappingOf, FullMapping
<1>2. ASSUME NEW r PROVE OutputRow(rows[r], FullMapping)' = OutputRow(rows'[r], MappingOf(st'.columns))
  <2>1. \A out : Written(rows[r], FullMapping, out)' = Written(rows'[r], MappingOf(st'.columns), out)
    BY <1>1
  <2> QED
    BY <2>1 DEF OutputRow, IsColumn
<1> QED
  BY <1>2 DEF MappedInFull

LEMMA PlacesKept ==
    ASSUME GrammarAssumption, TInv, [ScanNext]_scanVars
    PROVE  Places'
<1>0. Places /\ RInv
  BY DEF TInv
<1>1. bind' \in Binds /\ column_ids' \in Queries /\ table' \in Tables
  BY <1>0, RequestKept DEF Places, request
<1>2. pc' = "row" => Len(rows') > 0
  <2>1. CASE rows' = rows /\ (pc' = "row" <=> pc = "row" /\ ~AddRow)
    BY <1>0, <2>1 DEF Places
  <2>2. CASE RowReturned
    <3>1. PICK row \in Seq(Cell) : rows' = Append(rows, row)
      BY <2>2 DEF RowReturned
    <3>2. rows \in Seq(Seq(Cell)) /\ Len(rows) \in Nat
      BY <1>0, RowsCounted DEF RInv, RTypes
    <3>3. Len(rows') = Len(rows) + 1
      BY <3>1, <3>2, AppendProperties
    <3> QED
      BY <3>2, <3>3
  <2> QED
    BY <2>1, <2>2, ScanStepGrows
<1>3. /\ pc' \in {"init", "idle", "next", "parse", "row", "none", "failed", "dropped"}
      /\ complete' \in BOOLEAN /\ emitted' \in BOOLEAN /\ exhausted' \in BOOLEAN
      /\ session' \in {"none", "open", "closed", "failed"}
      /\ scanning' <=> pc' = "parse"
      /\ pc' \in {"init", "idle"} => chunk' = <<>>
  <2>1. CASE Cursor
    <3>1. CASE CallParser
      BY <1>0, <3>1 DEF CallParser, CallNext, scanState, Places
    <3>2. CASE Parse
      <4>1. scanning' \in BOOLEAN
        <5>1. CASE GiveUp
          BY <5>1 DEF GiveUp
        <5>2. CASE \E k \in Ahead : Tag(k)
          BY <1>0, <5>2, TagKeeps DEF RInv, RTypes
        <5> QED
          BY <3>2, <5>1, <5>2 DEF Parse, Scan
      <4> QED
        BY <1>0, <3>2, <4>1 DEF Parse, scanState, Places
    <3>3. CASE RefusePump \/ PumpFails \/ RefuseCellset
      BY <1>0, <3>3 DEF RefusePump, PumpFails, RefuseCellset, Throws, streamVars, parser, Places
    <3>4. CASE \E n \in Cuts, more \in BOOLEAN : Pump(n, more)
      BY <1>0, <3>4 DEF Pump, Feed, Throws, parser, Places
    <3> QED
      BY <2>1, <3>1, <3>2, <3>3, <3>4 DEF Cursor
  <2>2. CASE StartScan
    BY <1>0, <2>2 DEF StartScan, streamVars, parser, Places
  <2>3. CASE CallExecute
    BY <1>0, <2>3 DEF CallExecute, streamVars, parser, Places
  <2>4. CASE AddRow
    BY <1>0, <2>4 DEF AddRow, streamVars, parser, Places
  <2>5. CASE Exhaust
    BY <1>0, <2>5 DEF Exhaust, streamVars, parser, Places
  <2>6. CASE DropScan
    <3>1. pc' = "dropped" /\ session' \in {"closed", "failed"} /\ scanning' = scanning
          /\ pc \in {"idle", "failed"} /\ UNCHANGED <<complete, emitted, exhausted>>
      BY <2>6 DEF DropScan, streamVars, parser
    <3> QED
      BY <1>0, <3>1 DEF Places
  <2>7. CASE UNCHANGED scanVars
    BY <1>0, <2>7 DEF scanVars, streamVars, parser, request, scanState, Places
  <2> QED
    BY <2>1, <2>2, <2>3, <2>4, <2>5, <2>6, <2>7 DEF ScanNext, Execute
<1> QED
  BY <1>1, <1>2, <1>3 DEF Places

LEMMA ReferringKept ==
    ASSUME GrammarAssumption, StreamAssumption, TInv, [ScanNext]_scanVars
    PROVE  Referring'
<1>0. RInv /\ Places /\ Referring /\ st.columns \in Seq(Names) /\ st'.columns \in Seq(Names)
      /\ rows \in Seq(Seq(Cell)) /\ Len(rows) \in Nat
  <2>1. RInv /\ Places /\ Referring
    BY DEF TInv
  <2>2. RInv'
    BY <2>1, ScanStepsStream, RInvKept
  <2>3. st.columns \in Seq(Names) /\ st'.columns \in Seq(Names)
    BY <2>1, <2>2, StateParts DEF RInv, RTypes
  <2> QED
    BY <2>1, <2>3, RowsCounted DEF RInv, RTypes
<1>1. Known(st'.row, st'.columns) /\ Grows(st.columns, st'.columns)
  BY ScanStepGrows
<1>2. \A r \in 1 .. Len(rows) : Known(rows[r], st'.columns)
  BY <1>0, <1>1, KnownStays DEF Referring
<1>3. \A r \in 1 .. Len(rows') : Known(rows'[r], st'.columns)
  <2>1. CASE rows' = rows
    BY <1>2, <2>1
  <2>2. CASE RowReturned
    <3>1. PICK row \in Seq(Cell) : rows' = Append(rows, row) /\ Known(row, st'.columns)
      BY <2>2 DEF RowReturned
    <3>2. /\ Len(rows') = Len(rows) + 1 /\ rows'[Len(rows) + 1] = row
          /\ \A r \in 1 .. Len(rows) : rows'[r] = rows[r]
      BY <1>0, <3>1, AppendProperties
    <3>3. ASSUME NEW r \in 1 .. Len(rows') PROVE Known(rows'[r], st'.columns)
      <4>1. r \in 1 .. Len(rows) \/ r = Len(rows) + 1
        BY <1>0, <3>2
      <4> QED
        BY <1>2, <3>1, <3>2, <4>1
    <3> QED
      BY <3>3
  <2> QED
    BY <2>1, <2>2, ScanStepGrows
<1> QED
  BY <1>1, <1>3 DEF Referring, Known

(* The columns discovered since the row before are the ones mapped.        *)
LEMMA AddRowMaps ==
    ASSUME TInv, AddRow, Queries \subseteq Seq(Nat)
    PROVE  mapping' = FullMapping /\ Mapped'
<1>0. /\ Mapped /\ column_ids \in Seq(Nat) /\ st' = st /\ mapping' = Extend
      /\ st.columns \in Seq(Names) /\ Len(st.columns) \in Nat /\ Len(mapping) \in Nat
      /\ Len(column_ids) \in Nat /\ column_ids' = column_ids
  <2>1. RInv /\ Places /\ Mapped
    BY DEF TInv
  <2>2. column_ids \in Seq(Nat)
    BY <2>1 DEF Places
  <2>3. st' = st /\ mapping' = Extend /\ column_ids' = column_ids
    BY DEF AddRow, streamVars, parser, request
  <2>4. st.columns \in Seq(Names) /\ mapping \in Seq(0 .. Len(column_ids))
    BY <2>1, RowsCounted DEF Mapped
  <2> QED
    BY <2>1, <2>2, <2>3, <2>4, LenProperties
<1>1. FullMapping \in Seq(0 .. Len(column_ids)) /\ Len(FullMapping) = Len(st.columns)
  <2>1. \A c \in 1 .. Len(st.columns) : OutputFor(st.columns[c]) \in 0 .. Len(column_ids)
    BY <1>0, OutputForTyped
  <2>2. [c \in 1 .. Len(st.columns) |-> OutputFor(st.columns[c])] \in Seq(0 .. Len(column_ids))
    BY <1>0, <2>1, IsASeq
  <2>3. DOMAIN FullMapping = 1 .. Len(st.columns)
    BY DEF FullMapping
  <2>4. DOMAIN FullMapping = 1 .. Len(FullMapping) /\ Len(FullMapping) \in Nat
    BY <2>2, LenProperties DEF FullMapping
  <2> QED
    BY <1>0, <2>2, <2>3, <2>4 DEF FullMapping
<1>2. Extend = FullMapping
  <2>1. ASSUME NEW c \in 1 .. Len(st.columns)
        PROVE  (IF c <= Len(mapping) THEN mapping[c] ELSE OutputFor(st.columns[c]))
                 = OutputFor(st.columns[c])
    BY <1>0 DEF Mapped
  <2> QED
    BY <2>1 DEF Extend, FullMapping
<1>3. bind' = bind
  BY DEF AddRow, request
<1>4. Mapped'
  <2>1. \A c \in 1 .. Len(mapping') : mapping'[c] = OutputFor(st'.columns[c])
    BY <1>0, <1>1, <1>2 DEF FullMapping
  <2> QED
    BY <1>0, <1>1, <1>2, <1>3, <2>1, MappedIs
<1> QED
  BY <1>0, <1>2, <1>4

LEMMA MappedKept ==
    ASSUME GrammarAssumption, StreamAssumption, TInv, [ScanNext]_scanVars, Queries \subseteq Seq(Nat)
    PROVE  Mapped'
<1>1. CASE AddRow
  BY <1>1, AddRowMaps
<1>2. CASE ~AddRow
  <2>1. mapping' = mapping
    BY <1>2 DEF ScanNext, Cursor, CallParser, Parse, RefusePump, PumpFails, RefuseCellset, Pump,
                Throws, Execute, StartScan, CallExecute, Exhaust, DropScan, scanVars, scanState
  <2>2. Grows(st.columns, st'.columns) /\ Mapped
    BY ScanStepGrows DEF TInv
  <2>3. column_ids' = column_ids /\ bind' = bind
    BY RequestKept
  <2>4. Len(mapping) \in Nat /\ Len(st.columns) \in Nat /\ Len(mapping) <= Len(st.columns)
    <3>1. RInv /\ Places
      BY DEF TInv
    <3> QED
      BY <2>2, <3>1, RowsCounted, LenProperties DEF Mapped
  <2>5. \A c \in 1 .. Len(mapping) : st'.columns[c] = st.columns[c]
    BY <2>2, <2>4 DEF Grows
  <2>6. Len(mapping) <= Len(st'.columns)
    <3>1. Len(st'.columns) >= Len(st.columns) /\ Len(st'.columns) \in Nat
      <4>1. RInv'
        BY ScanStepsStream, RInvKept DEF TInv
      <4>2. st'.columns \in Seq(Names)
        BY <4>1, StateParts DEF RInv, RTypes
      <4> QED
        BY <2>2, <2>4, <4>2, LenProperties DEF Grows
    <3> QED
      BY <2>4, <3>1
  <2>7. \A c \in 1 .. Len(mapping) : mapping[c] = OutputFor(st'.columns[c])
    BY <2>2, <2>5 DEF Mapped
  <2>8. mapping \in Seq(0 .. Len(column_ids))
    BY <2>2 DEF Mapped
  <2> QED
    BY <2>1, <2>3, <2>6, <2>7, <2>8, MappedIs
<1> QED
  BY <1>1, <1>2

(* A row goes behind the rows there are, in this vector or the next.       *)
LEMMA HandedOver ==
    ASSUME NEW S, NEW d \in Seq(S), NEW c \in Seq(S), NEW o \in S
    PROVE  /\ d \o Append(c, o) \in Seq(S) /\ Len(d \o Append(c, o)) = Len(d \o c) + 1
           /\ (d \o Append(c, o))[Len(d \o c) + 1] = o
           /\ \A r \in 1 .. Len(d \o c) : (d \o Append(c, o))[r] = (d \o c)[r]
<1>1. Append(c, o) \in Seq(S) /\ Len(Append(c, o)) = Len(c) + 1 /\ Append(c, o)[Len(c) + 1] = o
      /\ \A i \in 1 .. Len(c) : Append(c, o)[i] = c[i]
  BY AppendProperties
<1>2. Len(c) \in Nat /\ Len(d) \in Nat
  BY LenProperties
<1>3. Len(d \o c) = Len(d) + Len(c)
      /\ \A i \in 1 .. Len(d) + Len(c) : (d \o c)[i] = IF i <= Len(d) THEN d[i] ELSE c[i - Len(d)]
  BY ConcatProperties
<1> DEFINE a == Append(c, o)
<1> HIDE DEF a
<1>4. a \in Seq(S) /\ Len(a) = Len(c) + 1 /\ a[Len(c) + 1] = o /\ \A i \in 1 .. Len(c) : a[i] = c[i]
  BY <1>1 DEF a
<1>5. d \o a \in Seq(S) /\ Len(d \o a) = Len(d) + Len(a)
      /\ \A i \in 1 .. Len(d) + Len(a) : (d \o a)[i] = IF i <= Len(d) THEN d[i] ELSE a[i - Len(d)]
  BY <1>4, ConcatProperties
<1>6. Len(d \o a) = Len(d \o c) + 1
  BY <1>2, <1>3, <1>4, <1>5
<1>7. (d \o a)[Len(d \o c) + 1] = o
  <2>1. Len(d \o c) + 1 \in 1 .. Len(d) + Len(a) /\ ~(Len(d \o c) + 1 <= Len(d))
        /\ Len(d \o c) + 1 - Len(d) = Len(c) + 1
    BY <1>2, <1>3, <1>4
  <2> QED
    BY <1>4, <1>5, <2>1
<1>8. ASSUME NEW r \in 1 .. Len(d \o c) PROVE (d \o a)[r] = (d \o c)[r]
  <2>1. r \in 1 .. Len(d) + Len(c) /\ r \in 1 .. Len(d) + Len(a)
    BY <1>2, <1>3, <1>4
  <2>2. ~(r <= Len(d)) => r - Len(d) \in 1 .. Len(c)
    BY <1>2, <2>1
  <2> QED
    BY <1>3, <1>4, <1>5, <2>1, <2>2
<1> QED
  BY <1>5, <1>6, <1>7, <1>8 DEF a

(* A row that is added.                                                    *)
LEMMA AddRowDelivers ==
    ASSUME TInv, AddRow, Queries \subseteq Seq(Nat), VectorSize \in Nat \ {0}
    PROVE  /\ Vectors'
           /\ Len(delivered' \o chunk') = Len(delivered \o chunk) + 1
           /\ (delivered' \o chunk')[Len(delivered \o chunk) + 1]
                = OutputRow(rows[Len(rows)], FullMapping)
           /\ \A r \in 1 .. Len(delivered \o chunk) :
                 (delivered' \o chunk')[r] = (delivered \o chunk)[r]
<1> DEFINE o == OutputRow(rows[Len(rows)], FullMapping)
           taken == Append(chunk, o)
<1>0. Vectors /\ Places /\ RInv
  BY DEF TInv
<1>1. delivered \in Seq(Output) /\ chunk \in Seq(Output) /\ o \in Output /\ Output' = Output
  <2>1. Len(rows) \in 1 .. Len(rows)
    BY <1>0, RowsCounted DEF AddRow, Places
  <2>2. rows[Len(rows)] \in Seq(Cell)
    BY <1>0, <2>1, RowsCounted
  <2>3. o \in Output
    BY <2>2, OutputRowTyped
  <2> QED
    BY <1>0, <2>3 DEF Vectors, AddRow, request, Output
<1>2. mapping' = FullMapping
  BY AddRowMaps
<1>3. IF Len(taken) < VectorSize
      THEN chunk' = taken /\ delivered' = delivered
      ELSE chunk' = <<>> /\ delivered' = delivered \o taken
  BY <1>2 DEF AddRow
<1> HIDE DEF o
<1>4. taken \in Seq(Output) /\ delivered \o taken \in Seq(Output)
  BY <1>1, AppendProperties, HandedOver
<1>5. delivered' \o chunk' = delivered \o taken
  <2>1. CASE Len(taken) < VectorSize
    BY <1>3, <2>1
  <2>2. CASE ~(Len(taken) < VectorSize)
    <3>1. (delivered \o taken) \o <<>> = delivered \o taken
      BY <1>4, ConcatEmptySeq
    <3> HIDE DEF taken
    <3> QED
      BY <1>3, <2>2, <3>1
  <2> QED
    BY <2>1, <2>2
<1>6. Vectors'
  <2>1. <<>> \in Seq(Output) /\ Len(<<>>) = 0
    BY EmptySeq
  <2> HIDE DEF taken
  <2>2. CASE Len(taken) < VectorSize
    BY <1>1, <1>3, <1>4, <2>2 DEF Vectors
  <2>3. CASE ~(Len(taken) < VectorSize)
    <3>1. chunk' = <<>> /\ delivered' = delivered \o taken
      BY <1>3, <2>3
    <3>2. Len(chunk') < VectorSize /\ chunk' \in Seq(Output)
      BY <2>1, <3>1
    <3> QED
      BY <1>1, <1>4, <3>1, <3>2 DEF Vectors
  <2> QED
    BY <2>2, <2>3
<1>7. /\ Len(delivered \o taken) = Len(delivered \o chunk) + 1
      /\ (delivered \o taken)[Len(delivered \o chunk) + 1] = o
      /\ \A r \in 1 .. Len(delivered \o chunk) : (delivered \o taken)[r] = (delivered \o chunk)[r]
  BY <1>1, HandedOver
<1> HIDE DEF taken
<1> QED
  BY <1>5, <1>6, <1>7 DEF o

(* Any other step neither adds a row nor takes one away.                   *)
LEMMA OthersDeliver ==
    ASSUME TInv, [ScanNext]_scanVars, ~AddRow, VectorSize \in Nat \ {0}
    PROVE  Vectors' /\ delivered' \o chunk' = delivered \o chunk
<1>0. delivered \in Seq(Output) /\ chunk \in Seq(Output) /\ Len(chunk) < VectorSize
      /\ (pc = "idle" => chunk = <<>>) /\ Output' = Output
  BY RequestKept DEF TInv, Vectors, Places
<1>1. CASE Exhaust
  <2>1. delivered' = delivered \o chunk /\ chunk' = <<>>
    BY <1>1 DEF Exhaust
  <2>2. delivered \o chunk \in Seq(Output)
    BY <1>0, ConcatProperties
  <2>3. (delivered \o chunk) \o <<>> = delivered \o chunk
    BY <2>2, ConcatEmptySeq
  <2>4. <<>> \in Seq(Output) /\ Len(<<>>) = 0
    BY EmptySeq
  <2>5. delivered' \in Seq(Output) /\ chunk' \in Seq(Output) /\ Len(chunk') < VectorSize
    BY <2>1, <2>2, <2>4
  <2> QED
    BY <1>0, <2>1, <2>3, <2>5 DEF Vectors
<1>2. CASE ~Exhaust
  <2>1. delivered' = delivered /\ (chunk' = chunk \/ (pc = "idle" /\ chunk' = <<>>))
    BY <1>2 DEF ScanNext, Cursor, CallParser, Parse, RefusePump, PumpFails, RefuseCellset, Pump,
                Throws, Execute, StartScan, CallExecute, DropScan, scanVars, scanState
  <2>2. chunk' = chunk
    BY <1>0, <2>1
  <2> QED
    BY <1>0, <2>1, <2>2 DEF Vectors
<1> QED
  BY <1>1, <1>2

LEMMA DeliveredKept ==
    ASSUME GrammarAssumption, StreamAssumption, TInv, [ScanNext]_scanVars,
           Queries \subseteq Seq(Nat), VectorSize \in Nat \ {0}
    PROVE  MappedInFull'
<1> DEFINE n == Len(delivered \o chunk)
           known(r) == OutputRow(rows[r], MappingOf(st.columns))
<1>0. /\ RInv /\ Places /\ Referring /\ Len(rows) \in Nat /\ st.columns \in Seq(Names)
      /\ rows \in Seq(Seq(Cell)) /\ n = RowsTaken /\ n <= Len(rows) /\ n \in Nat
      /\ \A r \in 1 .. n : (delivered \o chunk)[r] = known(r)
  BY RowsCounted DEF TInv, MappedInFull, FullMapping, MappingOf, RInv, RTypes
<1>1. bind' = bind /\ column_ids' = column_ids /\ RInv' /\ Places'
  BY <1>0, RequestKept, PlacesKept, ScanStepsStream, RInvKept
<1>2. st'.columns \in Seq(Names) /\ Grows(st.columns, st'.columns)
  BY <1>1, ScanStepGrows, StateParts DEF RInv, RTypes
<1>3. ASSUME NEW r \in 1 .. n PROVE OutputRow(rows[r], MappingOf(st'.columns)) = known(r)
  <2>1. Known(rows[r], st.columns)
    BY <1>0 DEF Referring
  <2> QED
    BY <1>0, <1>2, <2>1, OutputRowStays
<1> HIDE DEF n, known
<1>4. CASE AddRow
  <2>1. pc = "row" /\ pc' # "row" /\ rows' = rows /\ st' = st
    BY <1>4 DEF AddRow, streamVars, parser
  <2>2. n + 1 = Len(rows) /\ RowsTaken' = n + 1
    BY <1>0, <2>1 DEF RowsTaken
  <2>3. /\ Len(delivered' \o chunk') = n + 1
        /\ (delivered' \o chunk')[n + 1] = known(n + 1)
        /\ \A r \in 1 .. n : (delivered' \o chunk')[r] = (delivered \o chunk)[r]
    BY <1>4, <2>2, AddRowDelivers DEF n, known, FullMapping, MappingOf
  <2>4. ASSUME NEW r \in 1 .. n + 1 PROVE (delivered' \o chunk')[r] = known(r)
    <3>1. r \in 1 .. n \/ r = n + 1
      BY <1>0
    <3> QED
      BY <1>0, <2>3, <3>1
  <2>5. \A r : known(r) = OutputRow(rows'[r], MappingOf(st'.columns))
    BY <2>1 DEF known
  <2> QED
    BY <1>1, <2>2, <2>3, <2>4, <2>5, DeliveredIs
<1>5. CASE ~AddRow
  <2>1. delivered' \o chunk' = delivered \o chunk
    BY <1>5, OthersDeliver
  <2>2. RowsTaken' = n /\ \A r \in 1 .. n : rows'[r] = rows[r]
    <3>1. CASE rows' = rows /\ (pc' = "row" <=> pc = "row")
      BY <1>0, <3>1 DEF RowsTaken
    <3>2. CASE RowReturned /\ pc = "parse" /\ pc' = "row"
      <4>1. PICK row \in Seq(Cell) : rows' = Append(rows, row)
        BY <3>2 DEF RowReturned
      <4>2. Len(rows') = Len(rows) + 1 /\ \A r \in 1 .. Len(rows) : rows'[r] = rows[r]
        BY <1>0, <4>1, AppendProperties
      <4>3. n = Len(rows)
        BY <1>0, <3>2 DEF RowsTaken
      <4> QED
        BY <1>0, <3>2, <4>2, <4>3 DEF RowsTaken
    <3> QED
      BY <1>5, <3>1, <3>2, ScanStepGrows
  <2>3. \A r \in 1 .. n : (delivered' \o chunk')[r] = OutputRow(rows'[r], MappingOf(st'.columns))
    BY <1>0, <1>3, <2>1, <2>2
  <2> QED
    BY <1>1, <2>1, <2>2, <2>3, DeliveredIs DEF n
<1> QED
  BY <1>4, <1>5

(* When the parser gives up, nothing that has arrived whole is unread.     *)
LEMMA GiveUpLeavesNothing ==
    ASSUME RInv, GiveUp
    PROVE  NothingWhole'
<1>1. doc' = doc /\ fed' = fed /\ scanned' = scanned
  BY DEF GiveUp
<1>2. ASSUME NEW k \in 1 .. Len(doc), doc[k].end <= fed, k > scanned PROVE FALSE
  <2> DEFINE next == scanned + 1
  <2>0. /\ doc[k].at \in Nat /\ doc[k].end \in Nat /\ doc[k].at < doc[k].end
        /\ fed \in Nat
    BY Numbers
  <2>1. next \in 1 .. Len(doc)
    BY <1>2, Numbers
  <2>2. next \in Ahead /\ \A j \in Ahead : next <= j
    BY <2>1, AheadUnread, Numbers DEF Ahead, Here, RInv, InStep
  <2>3. ~(doc[next].end <= fed)
    BY <2>2 DEF GiveUp, Whole, Found
  <2>4. next = k \/ next < k
    BY <1>2, <2>1, Numbers
  <2>5. next < k => doc[next].end <= doc[k].at
    BY <2>1 DEF RInv, RTypes, IsDocument
  <2>6. doc[next].end \in Nat
    BY <2>1, Numbers
  <2> HIDE DEF next
  <2>7. CASE next = k
    BY <1>2, <2>3, <2>7
  <2>8. CASE next < k
    BY <1>2, <2>0, <2>3, <2>5, <2>6, <2>8
  <2> QED
    BY <2>4, <2>7, <2>8
<1> QED
  BY <1>1, <1>2, Numbers DEF NothingWhole

LEMMA EndingKept ==
    ASSUME GrammarAssumption, StreamAssumption, TInv, [ScanNext]_scanVars,
           Queries \subseteq Seq(Nat), VectorSize \in Nat \ {0}
    PROVE  Ending'
<1>0. Ending /\ RInv /\ Places /\ Vectors /\ fed \in Nat
  BY Numbers DEF TInv
<1>1. pc' = "none" => NothingWhole'
  <2>1. CASE Parse
    <3>1. CASE GiveUp
      BY <1>0, <3>1, GiveUpLeavesNothing
    <3>2. CASE \E k \in Ahead : Tag(k)
      <4>1. rows' = rows => scanning' = TRUE
        <5>1. PICK k \in Ahead : Tag(k)
          BY <3>2
        <5>2. \/ rows' = rows /\ scanning' = TRUE
              \/ \E row \in Seq(Cell) : rows' = Append(rows, row)
          BY <1>0, <5>1, TagGrows DEF TInv
        <5>3. ASSUME NEW row \in Seq(Cell), rows' = Append(rows, row) PROVE rows' # rows
          <6>1. rows \in Seq(Seq(Cell)) /\ Len(rows) \in Nat
            BY <1>0, RowsCounted DEF RInv, RTypes
          <6>2. Len(rows') = Len(rows) + 1
            BY <5>3, <6>1, AppendProperties
          <6> QED
            BY <6>1, <6>2
        <5> QED
          BY <5>2, <5>3
      <4> QED
        BY <2>1, <4>1 DEF Parse
    <3> QED
      BY <2>1, <3>1, <3>2 DEF Parse, Scan
  <2>2. CASE UNCHANGED scanVars
    BY <1>0, <2>2 DEF scanVars, streamVars, parser, Ending, NothingWhole
  <2>3. CASE ~Parse /\ ScanNext
    <3>1. pc' # "none"
      BY <2>3 DEF ScanNext, Cursor, CallParser, RefusePump, PumpFails, RefuseCellset, Pump,
                  Throws, Execute, StartScan, CallExecute, AddRow, Exhaust, DropScan
    <3> QED
      BY <3>1
  <2> QED
    BY <2>1, <2>2, <2>3
<1>2. complete' => fed' > 0 \/ pc' \in {"failed", "dropped"}
  <2>1. CASE \E n \in Cuts, more \in BOOLEAN : Pump(n, more)
    <3>1. PICK n \in Cuts, more \in BOOLEAN : Pump(n, more)
      BY <2>1
    <3>2. fed' \in Nat /\ complete' = ~more /\ (fed' = 0 /\ ~more => pc' = "failed")
      <4>1. n \in Nat /\ fed' = fed + n
        BY <3>1 DEF StreamAssumption, Pump, Feed
      <4>2. complete' = ~more /\ (fed' = 0 /\ ~more => pc' = "failed")
        BY <3>1 DEF Pump, Throws
      <4> QED
        BY <1>0, <4>1, <4>2
    <3>3. fed' = 0 \/ fed' > 0
      BY <3>2
    <3> QED
      BY <3>2, <3>3
  <2>2. CASE ~\E n \in Cuts, more \in BOOLEAN : Pump(n, more)
    <3>1. fed' = fed /\ complete' = complete
      BY <2>2 DEF ScanNext, Cursor, CallParser, CallNext, Parse, Scan, GiveUp, Tag, SkipConstruct,
                  OpenTag, EmptyTag, CloseTag, ReturnRow, Read, RefusePump, PumpFails,
                  RefuseCellset, Throws, Execute, StartScan, CallExecute, AddRow, Exhaust, DropScan,
                  scanVars, streamVars, scanState
    <3>2. pc \in {"failed", "dropped"} => pc' \in {"failed", "dropped"}
      BY <2>2 DEF ScanNext, Cursor, CallParser, Parse, RefusePump, PumpFails, RefuseCellset,
                  Throws, Execute, StartScan, CallExecute, AddRow, Exhaust, DropScan, scanVars
    <3> QED
      BY <1>0, <3>1, <3>2 DEF Ending
  <2> QED
    BY <2>1, <2>2
<1>3. emitted' => Len(delivered' \o chunk') > 0
  <2>1. CASE AddRow
    <3>1. delivered \o chunk \in Seq(Output)
      BY <1>0, ConcatProperties DEF Vectors
    <3>2. Len(delivered \o chunk) \in Nat
      BY <3>1, LenProperties
    <3>3. Len(delivered' \o chunk') = Len(delivered \o chunk) + 1
      BY <2>1, AddRowDelivers
    <3> QED
      BY <3>2, <3>3
  <2>2. CASE ~AddRow
    <3>1. emitted' = emitted
      BY <2>2 DEF ScanNext, Cursor, CallParser, Parse, RefusePump, PumpFails, RefuseCellset, Pump,
                  Throws, Execute, StartScan, CallExecute, Exhaust, DropScan, scanVars, scanState
    <3>2. delivered' \o chunk' = delivered \o chunk
      BY <2>2, OthersDeliver
    <3> QED
      BY <1>0, <3>1, <3>2 DEF Ending
  <2> QED
    BY <2>1, <2>2
<1>4. exhausted' => /\ pc' \in {"idle", "dropped"} /\ chunk' = <<>> /\ NothingWhole' /\ fed' > 0
                    /\ (delivered' = <<>> => ~LooksLikeCellset')
  <2>1. CASE Exhaust
    <3>1. /\ pc = "none" /\ complete /\ pc' = "idle" /\ chunk' = <<>>
          /\ delivered' = delivered \o chunk /\ doc' = doc /\ fed' = fed /\ scanned' = scanned
          /\ ~(~emitted /\ LooksLikeCellset)
      BY <2>1 DEF Exhaust, streamVars, parser
    <3>2. NothingWhole /\ fed > 0
      BY <1>0, <3>1 DEF Ending
    <3>3. delivered' = <<>> => ~emitted
      <4>1. Len(<<>>) = 0
        BY EmptySeq
      <4> QED
        BY <1>0, <3>1, <4>1 DEF Ending
    <3> QED
      BY <3>1, <3>2, <3>3 DEF NothingWhole, LooksLikeCellset
  <2>2. CASE exhausted /\ ~Exhaust
    <3>1. pc \in {"idle", "dropped"} /\ chunk = <<>> /\ NothingWhole /\ fed > 0
          /\ (delivered = <<>> => ~LooksLikeCellset)
      BY <1>0, <2>2 DEF Ending
    <3>2. DropScan \/ UNCHANGED scanVars
      BY <2>2, <3>1 DEF ScanNext, Cursor, CallParser, Parse, RefusePump, PumpFails, RefuseCellset,
                        Pump, Execute, StartScan, CallExecute, AddRow
    <3>3. pc' \in {"idle", "dropped"} /\ UNCHANGED <<doc, fed, scanned, chunk, delivered>>
      BY <3>1, <3>2 DEF DropScan, scanVars, scanState, streamVars, parser
    <3> QED
      BY <3>1, <3>3 DEF NothingWhole, LooksLikeCellset
  <2>3. CASE ~exhausted /\ ~Exhaust
    <3>1. exhausted' = exhausted
      BY <2>3 DEF ScanNext, Cursor, CallParser, Parse, RefusePump, PumpFails, RefuseCellset, Pump,
                  Throws, Execute, StartScan, CallExecute, AddRow, DropScan, scanVars, scanState
    <3> QED
      BY <2>3, <3>1
  <2> QED
    BY <2>1, <2>2, <2>3
<1> QED
  BY <1>1, <1>2, <1>3, <1>4 DEF Ending

LEMMA LessHeld ==
    ASSUME NEW f \in Nat, NEW b \in Nat, NEW c \in Nat, b <= c, NEW l \in Nat, NEW m \in Nat,
           f - b <= l + m
    PROVE  f - c <= l + m
OBVIOUS

(* Compact gives bytes up; only a record that is read adds any.            *)
LEMMA RetainsKept ==
    ASSUME StreamAssumption, TInv, [ScanNext]_scanVars, ParserLimit \in Nat
    PROVE  RetainsLittle'
<1>0. RInv /\ fed \in Nat /\ base \in Nat /\ pos \in Nat /\ pending_from \in Int
  BY Numbers DEF TInv
<1>1. PICK m \in Cuts \cup {0} : fed - base <= ParserLimit + m
  BY DEF TInv, RetainsLittle
<1>2. m \in Nat
  BY DEF StreamAssumption
<1>3. CASE \E n \in Cuts, more \in BOOLEAN : Pump(n, more)
  <2>1. PICK n \in Cuts, more \in BOOLEAN : Pump(n, more)
    BY <1>3
  <2>2. fed' = fed + n /\ base' = base /\ ~(fed - base > ParserLimit)
    BY <2>1 DEF Pump, Feed, parser, buffer, OverLimit
  <2>3. n \in Nat
    BY DEF StreamAssumption
  <2>4. fed' - base' <= ParserLimit + n
    BY <1>0, <2>2, <2>3
  <2> QED
    BY <2>4 DEF RetainsLittle
<1>4. CASE CallParser
  <2>1. fed' = fed /\ base <= base' /\ base' \in Nat
    <3>1. CASE st.field # EmptyString /\ pending_from < pos
      <4>1. pending_from \in 0 .. pos
        BY <1>0, <3>1 DEF RInv, TextRetained
      <4>2. base' = base + pending_from /\ fed' = fed
        BY <1>4, <3>1 DEF CallParser, CallNext, Compact
      <4> QED
        BY <1>0, <4>1, <4>2
    <3>2. CASE ~(st.field # EmptyString /\ pending_from < pos)
      <4>1. base' = base + pos /\ fed' = fed
        BY <1>4, <3>2 DEF CallParser, CallNext, Compact
      <4> QED
        BY <1>0, <4>1
    <3> QED
      BY <3>1, <3>2
  <2>2. fed - base' <= ParserLimit + m
    BY <1>0, <1>1, <1>2, <2>1, LessHeld
  <2>3. fed' - base' <= ParserLimit + m
    BY <2>1, <2>2
  <2> QED
    BY <1>1, <2>3 DEF RetainsLittle
<1>5. CASE ~CallParser /\ ~\E n \in Cuts, more \in BOOLEAN : Pump(n, more)
  <2>1. fed' = fed /\ base' = base
    BY <1>5 DEF ScanNext, Cursor, Parse, Scan, GiveUp, Tag, SkipConstruct, OpenTag, EmptyTag,
                CloseTag, ReturnRow, Read, RefusePump, PumpFails, RefuseCellset, Throws, Execute,
                StartScan, CallExecute, AddRow, Exhaust, DropScan, scanVars, streamVars, parser,
                buffer
  <2> QED
    BY <1>1, <2>1 DEF RetainsLittle
<1> QED
  BY <1>3, <1>4, <1>5

-----------------------------------------------------------------------------
(* The theorems.                                                           *)

(* The invariant holds throughout.                                         *)
THEOREM TInvAlways ==
    ASSUME GrammarAssumption, StreamAssumption, ScanAssumption
    PROVE  ScanSpec => []TInv
<1>1. VectorSize \in Nat \ {0} /\ ParserLimit \in Nat /\ Queries \subseteq Seq(Nat)
  BY DEF ScanAssumption
<1>2. ScanInit => TInv
  BY TInvHoldsFirst
<1>3. TInv /\ [ScanNext]_scanVars => TInv'
  <2> SUFFICES ASSUME TInv, [ScanNext]_scanVars PROVE TInv'
    OBVIOUS
  <2>1. RInv'
    BY ScanStepsStream, RInvKept DEF TInv
  <2>2. Vectors'
    BY <1>1, AddRowDelivers, OthersDeliver
  <2>3. Places' /\ Referring' /\ Mapped' /\ MappedInFull' /\ Ending' /\ RetainsLittle'
    BY <1>1, PlacesKept, ReferringKept, MappedKept, DeliveredKept, EndingKept, RetainsKept
  <2> QED
    BY <2>1, <2>2, <2>3 DEF TInv
<1> QED
  BY <1>2, <1>3, PTL DEF ScanSpec

(* The types of the scan's state; a vector that is not full has room for a *)
(* row, and what the parser holds stays within its limit and one record    *)
(* (xmla_table_entry.cpp:163-207, client.cpp:384-393).                     *)
THEOREM ScanTyped ==
    ASSUME GrammarAssumption, StreamAssumption, ScanAssumption
    PROVE  ScanSpec => []ScanTypeOK
<1>1. TInv => ScanTypeOK
  BY RInvGivesTypes DEF TInv, Places, Mapped, Vectors, ScanTypeOK
<1> QED
  BY <1>1, TInvAlways, PTL

(* No row the parser returned is lost, repeated, reordered or held back,   *)
(* and none is written with a mapping that did not know its columns; a     *)
(* scan that reports its end has read every tag that came and given every  *)
(* row, and it has read a rowset                                           *)
(* (xmla_table_entry.cpp:176-220, rowset.cpp:490-495, client.cpp:319-331). *)
THEOREM RowsDeliveredAsRead ==
    ASSUME GrammarAssumption, StreamAssumption, ScanAssumption
    PROVE  ScanSpec => []DeliveredAsRead
<1>1. TInv => EndReadsAll
  <2> SUFFICES ASSUME TInv, exhausted PROVE EndReadsAll
    BY DEF EndReadsAll
  <2>1. /\ pc \in {"idle", "dropped"} /\ chunk = <<>> /\ NothingWhole /\ fed > 0
        /\ (delivered = <<>> => ~LooksLikeCellset)
    BY DEF TInv, Ending
  <2>2. delivered \in Seq(Output)
    BY DEF TInv, Vectors
  <2>3. delivered \o chunk = delivered
    BY <2>1, <2>2, ConcatEmptySeq
  <2>4. Len(delivered) = Len(rows)
    BY <2>1, <2>3 DEF TInv, MappedInFull, RowsTaken
  <2> QED
    BY <2>1, <2>4 DEF EndReadsAll, NothingWhole
<1>2. TInv => DeliveredAsRead
  BY <1>1 DEF TInv, DeliveredAsRead
<1> QED
  BY <1>2, TInvAlways, PTL

(* The cursor uses the parser as it may be used, so what is proved of the  *)
(* parser for any document holds of the scan's.                            *)
THEOREM ScanIsStream == ScanSpec => StreamSpec
<1>1. ScanInit => StreamInit
  BY DEF ScanInit
<1>2. [ScanNext]_scanVars => [StreamNext]_streamVars
  BY ScanStepsStream
<1> QED
  BY <1>1, <1>2, PTL DEF ScanSpec, StreamSpec

(* A scan finds the rows ParseRowset would find in the whole answer,       *)
(* however it is cut into records (rowset.cpp:497-514, rowset.hpp:121-127).*)
THEOREM ScanReadsAsWhole ==
    ASSUME GrammarAssumption, StreamAssumption
    PROVE  ScanSpec => ImplementsParseRowset
BY ScanIsStream, StreamImplements

-----------------------------------------------------------------------------
(* Sequences made of parts.                                                *)

(* Where the parts of a sequence end.                                      *)
EndsOf(ends, parts, n) ==
    /\ ends \in [0 .. n -> Nat] /\ ends[0] = 0
    /\ \A i \in 1 .. n : ends[i] = ends[i - 1] + Len(parts[i])

Rising(ends, n) == \A k \in 0 .. n : \A i \in 0 .. k : ends[i] <= ends[k]

(* The parts are there, one after the other.                               *)
PartsAt(s, ends, parts, n) ==
    \A i \in 1 .. n : \A j \in 1 .. Len(parts[i]) : s[ends[i - 1] + j] = parts[i][j]

(* A part joined to a sequence whose parts are in place.                   *)
LEMMA PartJoined ==
    ASSUME NEW D, NEW n \in Nat, NEW parts \in [1 .. n -> Seq(D)], NEW ends, EndsOf(ends, parts, n),
           NEW k \in 1 .. n, NEW s \in Seq(D), Len(s) = ends[k - 1], PartsAt(s, ends, parts, k - 1),
           \A i \in 1 .. k : ends[i - 1] <= ends[k - 1]
    PROVE  /\ s \o parts[k] \in Seq(D) /\ Len(s \o parts[k]) = ends[k]
           /\ PartsAt(s \o parts[k], ends, parts, k)
<1>1. parts[k] \in Seq(D) /\ Len(parts[k]) \in Nat /\ Len(s) \in Nat
  BY LenProperties
<1>2. PICK t \in Seq(D) : t = s \o parts[k]
  BY <1>1, ConcatProperties
<1>3. /\ Len(t) = Len(s) + Len(parts[k])
      /\ \A i \in 1 .. Len(t) : t[i] = IF i <= Len(s) THEN s[i] ELSE parts[k][i - Len(s)]
  <2>1. PICK u \in Seq(D) : u = parts[k]
    BY <1>1
  <2>2. t = s \o u
    BY <1>2, <2>1
  <2>3. /\ Len(s \o u) = Len(s) + Len(u)
        /\ \A i \in 1 .. Len(s) + Len(u) : (s \o u)[i] = IF i <= Len(s) THEN s[i] ELSE u[i - Len(s)]
    BY ConcatProperties, Zenon
  <2>4. Len(t) = Len(s) + Len(u)
    BY <2>2, <2>3
  <2>5. \A i \in 1 .. Len(t) : t[i] = IF i <= Len(s) THEN s[i] ELSE u[i - Len(s)]
    BY <2>2, <2>3, <2>4, Zenon
  <2> QED
    BY <2>1, <2>4, <2>5
<1>4. Len(t) = ends[k]
  BY <1>3 DEF EndsOf
<1>5. ASSUME NEW i \in 1 .. k, NEW j \in 1 .. Len(parts[i]) PROVE t[ends[i - 1] + j] = parts[i][j]
  <2>1. i \in 1 .. n /\ parts[i] \in Seq(D) /\ Len(parts[i]) \in Nat /\ ends[i - 1] \in Nat
    BY LenProperties DEF EndsOf
  <2>2. CASE i = k
    <3>1. PICK x \in Nat : x = Len(s) + j
      BY <1>1, <2>1
    <3>2. x \in 1 .. Len(t) /\ ~(x <= Len(s)) /\ x - Len(s) = j
      BY <1>1, <1>3, <2>2, <3>1
    <3>3. x = ends[i - 1] + j
      BY <2>2, <3>1
    <3>4. t[x] = parts[k][j]
      BY <1>3, <3>2
    <3> QED
      BY <2>2, <3>3, <3>4
  <2>3. CASE i # k
    <3>1. i \in 1 .. (k - 1)
      BY <2>3
    <3>2. i + 1 \in 1 .. k /\ (i + 1) - 1 = i
      BY <3>1
    <3>3. ends[i] <= Len(s) /\ ends[i] = ends[i - 1] + Len(parts[i])
      BY <2>1, <3>2 DEF EndsOf
    <3>4. PICK x \in Nat : x = ends[i - 1] + j
      BY <2>1
    <3>5. x \in 1 .. Len(t) /\ x <= Len(s)
      <4>1. j \in Nat /\ j >= 1 /\ j <= Len(parts[i])
        BY <2>1
      <4>2. x >= 1 /\ x <= ends[i]
        BY <2>1, <3>3, <3>4, <4>1
      <4>3. PICK l \in Nat, m \in Nat, e \in Nat, p \in Nat :
                l = Len(s) /\ m = Len(parts[k]) /\ e = ends[i - 1] /\ p = Len(parts[i])
        BY <1>1, <2>1
      <4>4. x <= e + p /\ e + p <= l
        BY <3>3, <4>2, <4>3
      <4>5. x <= l /\ x <= l + m /\ x >= 1
        <5>1. x >= 1
          BY <4>2
        <5>2. PICK d \in Nat : d = e + p
          OBVIOUS
        <5>3. x <= l
          BY <4>4, <5>2
        <5> QED
          BY <5>1, <5>3
      <4>6. Len(t) = l + m
        BY <1>3, <4>3
      <4> QED
        BY <4>3, <4>5, <4>6
    <3>6. t[x] = s[x]
      BY <1>3, <3>5
    <3>7. s[x] = parts[i][j]
      BY <3>1, <3>4 DEF PartsAt
    <3> QED
      BY <3>4, <3>6, <3>7
  <2> QED
    BY <2>2, <2>3
<1> QED
  BY <1>2, <1>4, <1>5 DEF PartsAt

(* FlattenSeq puts the parts one after the other.                          *)
LEMMA FlattenParts ==
    ASSUME NEW D, NEW n \in Nat, NEW parts \in [1 .. n -> Seq(D)]
    PROVE  \E ends : /\ EndsOf(ends, parts, n) /\ Rising(ends, n)
                     /\ FlattenSeq(parts) \in Seq(D) /\ Len(FlattenSeq(parts)) = ends[n]
                     /\ PartsAt(FlattenSeq(parts), ends, parts, n)
<1> DEFINE Step == [x \in (1 .. n) \X Seq(D) |-> x[2] \o parts[x[1]]]
           Next1(f, i) == IF i = 1 THEN parts[i] ELSE f[i - 1] \o parts[i]
           flat == CHOOSE f : f = [i \in 1 .. n |-> Next1(f, i)]
<1>0. /\ <<>> \in Seq(D) /\ Len(<<>>) = 0
      /\ \A s \in Seq(D) : <<>> \o s = s
      /\ \A s, t \in Seq(D) : s \o t \in Seq(D) /\ Len(s \o t) = Len(s) + Len(t)
  BY EmptySeq, ConcatEmptySeq, ConcatProperties
<1>0a. Len(parts) = n
  BY LenProperties
<1>1. StepsIn(Step, n, Seq(D))
  <2>1. ASSUME NEW i \in 1 .. n, NEW s \in Seq(D) PROVE s \o parts[i] \in Seq(D)
    BY <1>0
  <2> QED
    BY <2>1 DEF StepsIn
<1>2. \E f \in [0 .. n -> Seq(D)] : GoesOn(f, <<>>, Step, n)
  <2> HIDE DEF Step
  <2> QED
    BY <1>0, <1>1, ForwardRecursion
<1>3. PICK f \in [0 .. n -> Seq(D)] : f[0] = <<>> /\ \A i \in 1 .. n : f[i] = Step[<<i, f[i - 1]>>]
  BY <1>2 DEF GoesOn
<1>4. ASSUME NEW i \in 1 .. n PROVE f[i] = f[i - 1] \o parts[i] /\ f[i - 1] \in Seq(D) /\ parts[i] \in Seq(D)
  <2>1. f[i - 1] \in Seq(D)
    OBVIOUS
  <2>2. <<i, f[i - 1]>> \in (1 .. n) \X Seq(D)
    BY <2>1
  <2> QED
    BY <1>3, <2>1, <2>2
<1> HIDE DEF Step
<1>5. PICK ends \in [0 .. n -> Nat] : \A i \in 0 .. n : ends[i] = Len(f[i])
  <2>1. \A i \in 0 .. n : Len(f[i]) \in Nat
    BY LenProperties
  <2>2. [i \in 0 .. n |-> Len(f[i])] \in [0 .. n -> Nat]
    BY <2>1
  <2> QED
    BY <2>2
<1>6. EndsOf(ends, parts, n)
  <2>1. ends[0] = 0
    BY <1>0, <1>3, <1>5
  <2>2. ASSUME NEW i \in 1 .. n PROVE ends[i] = ends[i - 1] + Len(parts[i])
    <3>1. i \in 0 .. n /\ i - 1 \in 0 .. n
      OBVIOUS
    <3>2. ends[i] = Len(f[i]) /\ ends[i - 1] = Len(f[i - 1])
      BY <1>5, <3>1
    <3>3. Len(f[i - 1] \o parts[i]) = Len(f[i - 1]) + Len(parts[i])
      BY <1>0, <1>4
    <3> QED
      BY <1>4, <3>2, <3>3
  <2> QED
    BY <2>1, <2>2 DEF EndsOf
<1>7. ASSUME NEW i \in 1 .. n PROVE ends[i - 1] <= ends[i] /\ ends[i - 1] \in Nat /\ ends[i] \in Nat
  <2>1. Len(parts[i]) \in Nat
    BY <1>4, LenProperties
  <2>2. ends[i] = ends[i - 1] + Len(parts[i]) /\ ends[i - 1] \in Nat
    BY <1>6 DEF EndsOf
  <2> QED
    BY <2>1, <2>2
<1>8. ASSUME NEW k \in 0 .. n PROVE PartsAt(f[k], ends, parts, k) /\ \A i \in 0 .. k : ends[i] <= ends[k]
  <2> DEFINE S == {k1 \in 0 .. n : PartsAt(f[k1], ends, parts, k1) /\ \A i \in 0 .. k1 : ends[i] <= ends[k1]}
  <2>1. 0 \in S
    BY DEF PartsAt
  <2>2. ASSUME NEW j \in 0 .. n, j \in S, j < n PROVE j + 1 \in S
    <3>1. PICK m \in 1 .. n : m = j + 1 /\ m - 1 = j
      BY <2>2
    <3>2. PartsAt(f[m - 1], ends, parts, m - 1) /\ \A i \in 0 .. (m - 1) : ends[i] <= ends[m - 1]
      BY <2>2, <3>1
    <3>3. \A i \in 1 .. m : ends[i - 1] <= ends[m - 1]
      BY <3>2
    <3>4. Len(f[m - 1]) = ends[m - 1]
      BY <1>5, <3>1
    <3>5. PartsAt(f[m - 1] \o parts[m], ends, parts, m)
      BY <1>4, <1>6, <3>2, <3>3, <3>4, PartJoined
    <3>6. \A i \in 0 .. m : ends[i] <= ends[m]
      <4>1. ASSUME NEW i \in 0 .. m PROVE ends[i] <= ends[m]
        <5>1. CASE i = m
          BY <1>7, <5>1
        <5>2. CASE i # m
          <6>1. i \in 0 .. (m - 1) /\ i \in 0 .. n
            BY <5>2
          <6>2. ends[i] <= ends[m - 1] /\ ends[i] \in Nat
            BY <3>2, <6>1
          <6>3. ends[m - 1] <= ends[m] /\ ends[m - 1] \in Nat /\ ends[m] \in Nat
            BY <1>7
          <6>4. PICK x \in Nat, y \in Nat, z \in Nat : x = ends[i] /\ y = ends[m - 1] /\ z = ends[m]
            BY <6>2, <6>3
          <6>5. x <= y /\ y <= z
            BY <6>2, <6>3, <6>4
          <6>6. x <= z
            BY <6>5
          <6> QED
            BY <6>4, <6>6
        <5> QED
          BY <5>1, <5>2
      <4> QED
        BY <4>1
    <3>7. f[m] = f[m - 1] \o parts[m] /\ m \in 0 .. n
      BY <1>4
    <3>8. m \in S
      BY <3>5, <3>6, <3>7
    <3> QED
      BY <3>1, <3>8
  <2>3. 0 .. n \subseteq S
    <3> HIDE DEF S
    <3>1. 0 \in Nat
      OBVIOUS
    <3> QED
      BY <2>1, <2>2, <3>1, RangeInduction
  <2> QED
    BY <2>3
<1>9. FlattenSeq(parts) = f[n]
  <2>1. CASE n = 0
    <3>1. FlattenSeq(parts) = parts
      BY <1>0a, <2>1 DEF FlattenSeq
    <3>2. parts = <<>>
      BY <2>1
    <3> QED
      BY <1>3, <2>1, <3>1, <3>2
  <2>2. CASE n # 0
    <3>1. FlattenSeq(parts) = flat[n]
      BY <1>0a, <2>2 DEF FlattenSeq
    <3>2. PICK g : g = [i \in 1 .. n |-> f[i]]
      OBVIOUS
    <3>3. g = [i \in 1 .. n |-> Next1(g, i)]
      <4>1. ASSUME NEW i \in 1 .. n PROVE f[i] = Next1(g, i)
        <5>1. CASE i = 1
          <6>1. f[i - 1] = <<>>
            BY <1>3, <5>1
          <6>2. <<>> \o parts[i] = parts[i]
            BY <1>0, <1>4
          <6> QED
            BY <1>4, <5>1, <6>1, <6>2
        <5>2. CASE i # 1
          <6>1. i - 1 \in 1 .. n
            BY <5>2
          <6> QED
            BY <1>4, <3>2, <5>2, <6>1
        <5> QED
          BY <5>1, <5>2
      <4> HIDE DEF Next1
      <4> QED
        BY <3>2, <4>1
    <3>4. flat = [i \in 1 .. n |-> Next1(flat, i)]
      <4> HIDE DEF Next1
      <4> QED
        BY <3>3
    <3> HIDE DEF flat
    <3>5. PICK h : h = [i \in 0 .. n |-> IF i = 0 THEN <<>> ELSE flat[i]]
      OBVIOUS
    <3>6. Agree(h, f, n)
      <4>1. h[0] = f[0]
        BY <1>3, <3>5
      <4>2. ASSUME NEW i \in 1 .. n, h[i - 1] = f[i - 1] PROVE h[i] = f[i]
        <5>1. h[i] = flat[i]
          BY <3>5
        <5>2. flat[i] = Next1(flat, i)
          <6> HIDE DEF Next1
          <6> QED
            BY <3>4
        <5>3. CASE i = 1
          <6>1. f[i - 1] = <<>>
            BY <1>3, <5>3
          <6>2. <<>> \o parts[i] = parts[i]
            BY <1>0, <1>4
          <6> QED
            BY <1>4, <5>1, <5>2, <5>3, <6>1, <6>2
        <5>4. CASE i # 1
          <6>1. i - 1 \in 0 .. n /\ i - 1 # 0
            BY <5>4
          <6>2. h[i - 1] = flat[i - 1]
            BY <3>5, <6>1
          <6> QED
            BY <1>4, <4>2, <5>1, <5>2, <5>4, <6>2
        <5> QED
          BY <5>3, <5>4
      <4> QED
        BY <4>1, <4>2 DEF Agree
    <3>7. h[n] = f[n]
      <4>1. n \in 0 .. n
        OBVIOUS
      <4> QED
        BY <3>6, <4>1, SameRecursion
    <3> QED
      BY <2>2, <3>1, <3>5, <3>7
  <2> QED
    BY <2>1, <2>2
<1>10. n \in 0 .. n
  OBVIOUS
<1>11. Rising(ends, n)
  BY <1>8 DEF Rising
<1> QED
  BY <1>5, <1>6, <1>8, <1>9, <1>10, <1>11

-----------------------------------------------------------------------------
(* What the server writes.                                                 *)

Marks == [kind : Kinds, name : Names, text : Texts]

LEMMA MarkTyped ==
    ASSUME NEW kind \in Kinds, NEW name \in Names, NEW text \in Texts
    PROVE  /\ Markup(kind, name, text) \in Marks
           /\ Markup(kind, name, text).kind = kind /\ Markup(kind, name, text).name = name
           /\ Markup(kind, name, text).text = text
BY DEF Markup, Marks

(* Constructs before a cell's own element.                                 *)
Lead(w) == IF w = "comment" THEN 1 ELSE IF w = "repeated" THEN 2 ELSE 0

(* What a cell is written as.                                              *)
CellWritten(s, w, name, value) ==
    /\ Len(s) = Lead(w) + (IF value = EmptyString THEN 1 ELSE IF w = "nested" THEN 4 ELSE 2)
    /\ w = "comment" => s[1].kind = "skip"
    /\ w = "repeated" => /\ s[1].kind = "open" /\ s[1].name = name
                         /\ s[2].kind = "close" /\ s[2].name = name /\ s[2].text = "x"
    /\ s[Lead(w) + 1].name = name
    /\ IF value = EmptyString THEN s[Lead(w) + 1].kind = "empty"
       ELSE /\ s[Lead(w) + 1].kind = "open" /\ s[Lead(w) + 2].text = value
            /\ IF w = "nested"
               THEN /\ s[2].kind = "open" /\ s[2].name = "row"
                    /\ s[3].kind = "close" /\ s[3].name = "row"
                    /\ s[4].kind = "close" /\ s[4].name = name
               ELSE s[Lead(w) + 2].kind = "close" /\ s[Lead(w) + 2].name = name

LEMMA CellMarkupIs ==
    ASSUME GrammarAssumption, Null \notin Values, NEW row, NEW c, NEW w,
           c.name \in DOMAIN Encoded, row[c.column] \in Texts \cup {Null}
    PROVE  /\ CellMarkup(row, c, w) \in Seq(Marks)
           /\ row[c.column] = Null => CellMarkup(row, c, w) = <<>>
           /\ row[c.column] # Null =>
                 CellWritten(CellMarkup(row, c, w), w, Encoded[c.name], row[c.column])
<1>1. PICK name : name = Encoded[c.name]
  OBVIOUS
<1>2. PICK value \in Texts \cup {Null} : value = row[c.column]
  OBVIOUS
<1>3. /\ name \in Names /\ "x" \in Texts /\ EmptyString \in Texts /\ "row" \in Names
      /\ EmptyString \in Names /\ EmptyString # Null /\ {"open", "close", "empty", "skip"} \subseteq Kinds
  BY <1>1, ServerAssumption DEF GrammarAssumption, Values, Kinds
<1>4. PICK before : before = IF w = "comment" THEN << Markup("skip", EmptyString, "x") >>
                  ELSE IF w = "repeated"
                  THEN << Markup("open", name, EmptyString), Markup("close", name, "x") >> ELSE <<>>
  OBVIOUS
<1>5. PICK child : child = IF w = "nested"
                 THEN << Markup("open", "row", value), Markup("close", "row", EmptyString),
                         Markup("close", name, EmptyString) >>
                 ELSE << Markup("close", name, value) >>
  OBVIOUS
<1>6. PICK open : open = Markup("open", name, EmptyString)
  OBVIOUS
<1>7. CellMarkup(row, c, w) = IF value = Null THEN <<>>
        ELSE IF value = EmptyString THEN before \o << Markup("empty", name, EmptyString) >>
        ELSE before \o << open >> \o child
  BY <1>1, <1>2, <1>4, <1>5, <1>6, Zenon DEF CellMarkup, EmptyString
<1>8. PICK s : s = CellMarkup(row, c, w)
  OBVIOUS
<1>9. /\ before \in Seq(Marks) /\ Len(before) = Lead(w)
      /\ w = "comment" => before[1].kind = "skip"
      /\ w = "repeated" => /\ before[1].kind = "open" /\ before[1].name = name
                           /\ before[2].kind = "close" /\ before[2].name = name /\ before[2].text = "x"
  BY <1>3, <1>4, MarkTyped DEF Lead
<1>10. CASE value = Null
  BY <1>2, <1>7, <1>10
<1>11. CASE value = EmptyString
  <2>1. PICK empty \in Marks : empty = Markup("empty", name, EmptyString) /\ empty.kind = "empty" /\ empty.name = name
    BY <1>3, MarkTyped
  <2>2. s = before \o << empty >>
    BY <1>3, <1>7, <1>8, <1>11, <2>1
  <2>3. <<empty>> \in Seq(Marks) /\ Len(<<empty>>) = 1 /\ <<empty>>[1] = empty
    OBVIOUS
  <2>4. /\ s \in Seq(Marks) /\ Len(s) = Lead(w) + 1
        /\ \A i \in 1 .. Len(s) : s[i] = IF i <= Lead(w) THEN before[i] ELSE <<empty>>[i - Lead(w)]
    BY <1>9, <2>2, <2>3, ConcatProperties
  <2>5. Lead(w) \in {0, 1, 2}
    BY DEF Lead
  <2>6. s[Lead(w) + 1] = empty
    BY <2>3, <2>4, <2>5
  <2>7. w = "comment" => s[1] = before[1]
    BY <2>4 DEF Lead
  <2>8. w = "repeated" => s[1] = before[1] /\ s[2] = before[2]
    BY <2>4 DEF Lead
  <2>9. CellWritten(s, w, name, value)
    BY <1>9, <1>11, <2>1, <2>4, <2>6, <2>7, <2>8 DEF CellWritten
  <2> QED
    BY <1>1, <1>2, <1>3, <1>8, <1>11, <2>4, <2>9
<1>12. CASE value # Null /\ value # EmptyString
  <2>1. value \in Texts
    BY <1>12
  <2>2. s = before \o <<open>> \o child
    BY <1>7, <1>8, <1>12
  <2>3. open \in Marks /\ open.kind = "open" /\ open.name = name
    BY <1>3, <1>6, MarkTyped
  <2>4. <<open>> \in Seq(Marks) /\ Len(<<open>>) = 1 /\ <<open>>[1] = open
    BY <2>3
  <2>5. /\ child \in Seq(Marks) /\ child[1].text = value
        /\ IF w = "nested"
           THEN /\ Len(child) = 3 /\ child[1].kind = "open" /\ child[1].name = "row"
                /\ child[2].kind = "close" /\ child[2].name = "row"
                /\ child[3].kind = "close" /\ child[3].name = name
           ELSE Len(child) = 1 /\ child[1].kind = "close" /\ child[1].name = name
    <3>1. CASE w = "nested"
      BY <1>3, <1>5, <2>1, <3>1, MarkTyped
    <3>2. CASE w # "nested"
      BY <1>3, <1>5, <2>1, <3>2, MarkTyped
    <3> QED
      BY <3>1, <3>2
  <2>6. PICK t : t = before \o <<open>>
    OBVIOUS
  <2>7. /\ t \in Seq(Marks) /\ Len(t) = Lead(w) + 1
        /\ \A i \in 1 .. Len(t) : t[i] = IF i <= Lead(w) THEN before[i] ELSE <<open>>[i - Lead(w)]
    BY <1>9, <2>4, <2>6, ConcatProperties
  <2>8. /\ s \in Seq(Marks) /\ Len(s) = Lead(w) + 1 + Len(child)
        /\ \A i \in 1 .. Len(s) : s[i] = IF i <= Lead(w) + 1 THEN t[i] ELSE child[i - (Lead(w) + 1)]
    <3>1. s = t \o child
      BY <2>2, <2>6
    <3>2. /\ s \in Seq(Marks) /\ Len(s) = Len(t) + Len(child)
          /\ \A i \in 1 .. Len(s) : s[i] = IF i <= Len(t) THEN t[i] ELSE child[i - Len(t)]
      <4>1. child \in Seq(Marks)
        BY <2>5
      <4>2. t \in Seq(Marks)
        BY <2>7
      <4> QED
        BY <3>1, <4>1, <4>2, ConcatProperties
    <3> QED
      BY <2>7, <3>2
  <2>9. Lead(w) \in {0, 1, 2} /\ (w = "nested" => Lead(w) = 0)
    BY DEF Lead
  <2>10. s[Lead(w) + 1] = open
    <3>1. PICK l \in Nat, m \in Nat, g \in Nat : l = Lead(w) /\ m = Len(child) /\ g = l + 1
      BY <2>5, <2>9, LenProperties
    <3>2. Len(t) = g /\ Len(s) = g + m
      BY <2>7, <2>8, <3>1
    <3>3. g \in 1 .. Len(t) /\ g \in 1 .. Len(s) /\ ~(g <= l) /\ g <= g /\ g - l = 1
      BY <3>1, <3>2
    <3>4. t[g] = <<open>>[g - l]
      BY <2>7, <3>1, <3>3
    <3>5. t[g] = open
      BY <3>3, <3>4
    <3>6. s[g] = t[g]
      BY <2>8, <3>1, <3>3
    <3> QED
      BY <3>1, <3>5, <3>6
  <2>11. w = "comment" => s[1] = before[1]
    <3>1. w = "comment" => t[1] = before[1]
      BY <2>7 DEF Lead
    <3> QED
      BY <2>5, <2>8, <3>1 DEF Lead
  <2>12. w = "repeated" => s[1] = before[1] /\ s[2] = before[2]
    <3>1. w = "repeated" => t[1] = before[1] /\ t[2] = before[2]
      BY <2>7 DEF Lead
    <3> QED
      BY <2>5, <2>8, <3>1 DEF Lead
  <2>13. s[Lead(w) + 2] = child[1]
    <3>1. Lead(w) + 2 \in 1 .. Len(s) /\ ~(Lead(w) + 2 <= Lead(w) + 1) /\ (Lead(w) + 2) - (Lead(w) + 1) = 1
      BY <2>5, <2>8, <2>9
    <3> QED
      BY <2>8, <3>1
  <2>14. w = "nested" => s[3] = child[2] /\ s[4] = child[3]
    BY <2>5, <2>8, <2>9
  <2>15. /\ Len(s) = Lead(w) + (IF w = "nested" THEN 4 ELSE 2)
    BY <2>5, <2>8, <2>9
  <2>16. CellWritten(s, w, name, value)
    BY <1>9, <1>12, <2>3, <2>5, <2>9, <2>10, <2>11, <2>12, <2>13, <2>14, <2>15 DEF CellWritten
  <2> QED
    BY <1>1, <1>2, <1>8, <1>12, <2>8, <2>16
<1> QED
  BY <1>2, <1>10, <1>11, <1>12

(* What a row is written as.                                               *)
CellsOf(row, sent, w) == [i \in 1 .. Len(sent) |-> CellMarkup(row, sent[i], w)]
Lost(s) == SelfClosing /\ Len(s) = 1 /\ s[1].kind = "empty" /\ s[1].name = "row"
RowWritten(s, parts, ends, n) ==
    /\ EndsOf(ends, parts, n) /\ Rising(ends, n) /\ Len(s) = ends[n] + 2
    /\ s[1].kind = "open" /\ s[1].name = "row"
    /\ s[ends[n] + 2].kind = "close" /\ s[ends[n] + 2].name = "row"
    /\ \A i \in 1 .. n : \A j \in 1 .. Len(parts[i]) : s[1 + ends[i - 1] + j] = parts[i][j]

(* A sequence between two constructs.                                      *)
LEMMA Enclosed ==
    ASSUME NEW D, NEW first \in D, NEW s \in Seq(D), NEW last \in D
    PROVE  LET whole == <<first>> \o s \o <<last>>
           IN  /\ whole \in Seq(D) /\ Len(whole) = Len(s) + 2
               /\ whole[1] = first /\ whole[Len(s) + 2] = last
               /\ \A x \in 1 .. Len(s) : whole[1 + x] = s[x]
<1>1. <<first>> \in Seq(D) /\ Len(<<first>>) = 1 /\ <<first>>[1] = first /\ Len(s) \in Nat
  BY LenProperties
<1>2. <<last>> \in Seq(D) /\ Len(<<last>>) = 1 /\ <<last>>[1] = last
  OBVIOUS
<1>3. PICK t : t = <<first>> \o s
  OBVIOUS
<1>4. /\ t \in Seq(D) /\ Len(t) = 1 + Len(s)
      /\ \A i \in 1 .. Len(t) : t[i] = IF i <= 1 THEN <<first>>[i] ELSE s[i - 1]
  BY <1>1, <1>3, ConcatProperties
<1>5. PICK whole : whole = t \o <<last>>
  OBVIOUS
<1>6. t \in Seq(D)
  BY <1>4
<1>7. /\ whole \in Seq(D) /\ Len(whole) = Len(t) + 1
      /\ \A i \in 1 .. Len(whole) : whole[i] = IF i <= Len(t) THEN t[i] ELSE <<last>>[i - Len(t)]
  BY <1>2, <1>5, <1>6, ConcatProperties
<1>8. whole[1] = first
  <2>1. 1 \in 1 .. Len(whole) /\ 1 \in 1 .. Len(t) /\ 1 <= Len(t)
    BY <1>1, <1>4, <1>7
  <2> QED
    BY <1>1, <1>4, <1>7, <2>1
<1>9. whole[Len(s) + 2] = last
  <2>1. Len(s) + 2 \in 1 .. Len(whole) /\ ~(Len(s) + 2 <= Len(t)) /\ (Len(s) + 2) - Len(t) = 1
    BY <1>1, <1>4, <1>7
  <2> QED
    BY <1>2, <1>7, <2>1
<1>10. ASSUME NEW x \in 1 .. Len(s) PROVE whole[1 + x] = s[x]
  <2>1. 1 + x \in 1 .. Len(whole) /\ 1 + x \in 1 .. Len(t) /\ 1 + x <= Len(t) /\ ~(1 + x <= 1) /\ (1 + x) - 1 = x
    BY <1>1, <1>4, <1>7
  <2>2. whole[1 + x] = t[1 + x]
    BY <1>7, <2>1
  <2> QED
    BY <1>4, <2>1, <2>2
<1> QED
  BY <1>1, <1>3, <1>4, <1>5, <1>7, <1>8, <1>9, <1>10

(* The columns a row is sent with, and their names.                        *)
Columns(sent, row) ==
    \A i \in 1 .. Len(sent) : sent[i].name \in DOMAIN Encoded /\ row[sent[i].column] \in Texts \cup {Null}

LEMMA RowMarkupIs ==
    ASSUME GrammarAssumption, Null \notin Values, NEW sent, sent = Sent, Len(sent) \in Nat,
           NEW row, NEW w, Columns(sent, row)
    PROVE  /\ RowMarkup(row, w) \in Seq(Marks)
           /\ \/ Lost(RowMarkup(row, w))
              \/ \E ends : RowWritten(RowMarkup(row, w), CellsOf(row, sent, w), ends, Len(sent))
<1>1. PICK n \in Nat : n = Len(sent)
  OBVIOUS
<1>2. PICK parts : parts = CellsOf(row, sent, w)
  OBVIOUS
<1>3. parts \in [1 .. n -> Seq(Marks)]
  <2>1. ASSUME NEW i \in 1 .. n PROVE CellMarkup(row, sent[i], w) \in Seq(Marks)
    BY <1>1, CellMarkupIs DEF Columns
  <2> QED
    BY <1>1, <1>2, <2>1 DEF CellsOf
<1>4. PICK cells : cells = FlattenSeq(parts)
  OBVIOUS
<1>5. PICK ends : /\ EndsOf(ends, parts, n) /\ Rising(ends, n)
                  /\ cells \in Seq(Marks) /\ Len(cells) = ends[n] /\ PartsAt(cells, ends, parts, n)
  BY <1>3, <1>4, FlattenParts
<1>6. /\ {"row", EmptyString} \subseteq Names /\ EmptyString \in Texts
      /\ {"open", "close", "empty"} \subseteq Kinds
  BY DEF GrammarAssumption, Kinds
<1>7. PICK open \in Marks : open = Markup("open", "row", EmptyString) /\ open.kind = "open" /\ open.name = "row"
  BY <1>6, MarkTyped
<1>8. PICK close \in Marks : close = Markup("close", "row", EmptyString) /\ close.kind = "close" /\ close.name = "row"
  BY <1>6, MarkTyped
<1>9. PICK empty \in Marks : empty = Markup("empty", "row", EmptyString) /\ empty.kind = "empty" /\ empty.name = "row"
  BY <1>6, MarkTyped
<1>10. PICK s : s = RowMarkup(row, w)
  OBVIOUS
<1>11. s = IF cells = <<>> /\ SelfClosing THEN <<empty>> ELSE <<open>> \o cells \o <<close>>
  BY <1>1, <1>2, <1>4, <1>7, <1>8, <1>9, <1>10, Zenon DEF RowMarkup, CellsOf, EmptyString
<1>12. CASE cells = <<>> /\ SelfClosing
  <2>1. s = <<empty>>
    BY <1>11, <1>12
  <2>2. s \in Seq(Marks) /\ Len(s) = 1 /\ s[1] = empty
    BY <2>1
  <2>3. Lost(s)
    BY <1>9, <1>12, <2>2 DEF Lost
  <2> QED
    BY <1>10, <2>2, <2>3
<1>13. CASE ~(cells = <<>> /\ SelfClosing)
  <2>1. s = <<open>> \o cells \o <<close>>
    BY <1>11, <1>13
  <2>2. /\ s \in Seq(Marks) /\ Len(s) = Len(cells) + 2 /\ s[1] = open /\ s[Len(cells) + 2] = close
        /\ \A x \in 1 .. Len(cells) : s[1 + x] = cells[x]
    BY <1>5, <2>1, Enclosed
  <2>3. ASSUME NEW i \in 1 .. n, NEW j \in 1 .. Len(parts[i]) PROVE s[1 + ends[i - 1] + j] = parts[i][j]
    <3>1. parts[i] \in Seq(Marks) /\ Len(parts[i]) \in Nat
      BY <1>3, LenProperties
    <3>2. ends[i - 1] \in Nat /\ ends[i] = ends[i - 1] + Len(parts[i]) /\ ends[i] <= ends[n] /\ ends[n] \in Nat
      BY <1>5 DEF EndsOf, Rising
    <3>3. PICK x \in Nat : x = ends[i - 1] + j
      BY <3>1, <3>2
    <3>4. x \in 1 .. Len(cells)
      <4>1. PICK e \in Nat, p \in Nat, z \in Nat : e = ends[i - 1] /\ p = Len(parts[i]) /\ z = ends[n]
        BY <3>1, <3>2
      <4>2. j \in Nat /\ j >= 1 /\ j <= p /\ e + p <= z /\ x = e + j
        BY <3>1, <3>2, <3>3, <4>1
      <4>3. x >= 1 /\ x <= z
        BY <4>2
      <4>4. Len(cells) = z
        BY <1>5, <4>1
      <4> QED
        BY <4>3, <4>4
    <3>5. s[1 + x] = cells[x] /\ cells[x] = parts[i][j]
      BY <1>5, <2>2, <3>3, <3>4 DEF PartsAt
    <3>6. 1 + x = 1 + ends[i - 1] + j
      BY <3>1, <3>2, <3>3
    <3> QED
      BY <3>5, <3>6
  <2>4. RowWritten(s, parts, ends, n)
    BY <1>5, <1>7, <1>8, <2>2, <2>3 DEF RowWritten
  <2> QED
    BY <1>1, <1>2, <1>10, <2>2, <2>4
<1> QED
  BY <1>12, <1>13

(* What an answer is made of: a document, the rows it is written from, the *)
(* columns it is sent with, its ornament, and where its rows, and the      *)
(* cells of each row, end.                                                 *)
Alike(construct, mark) ==
    construct.kind = mark.kind /\ construct.name = mark.name /\ construct.text = mark.text
IsTag(construct, kind, name) == construct.kind = kind /\ construct.name = name

MarksOf(a, r) == CellsOf(a.table[r], a.sent, a.ornament)

CellsLie(a, r) ==
    LET ends == a.cellEnd[r]
        parts == MarksOf(a, r)
        width == Len(a.sent)
    IN  /\ ends \in [0 .. width -> Nat] /\ Rising(ends, width)
        /\ ends[0] = a.rowEnd[r - 1] + 1 /\ a.rowEnd[r] = ends[width] + 1
        /\ IsTag(a.doc[ends[0]], "open", "row") /\ IsTag(a.doc[a.rowEnd[r]], "close", "row")
        /\ \A i \in 1 .. width :
              /\ ends[i] = ends[i - 1] + Len(parts[i])
              /\ \A j \in 1 .. Len(parts[i]) : Alike(a.doc[ends[i - 1] + j], parts[i][j])

RowLost(a, r) == /\ SelfClosing /\ a.rowEnd[r] = a.rowEnd[r - 1] + 1
                 /\ IsTag(a.doc[a.rowEnd[r]], "empty", "row")

Around(a) ==
    /\ a.rowEnd \in [0 .. Len(a.table) -> Nat] /\ a.rowEnd[0] = 3 /\ Rising(a.rowEnd, Len(a.table))
    /\ Len(a.doc) = a.rowEnd[Len(a.table)] + 1
    /\ a.doc[1].kind = "skip" \/ IsTag(a.doc[1], "close", EmptyString)
    /\ IsTag(a.doc[2], "open", "root") /\ IsTag(a.doc[3], "empty", "schema")
    /\ IsTag(a.doc[Len(a.doc)], "close", "root")

Sendable(rs, sent) ==
    /\ Len(rs) \in Nat /\ Len(sent) \in Nat
    /\ \A r \in 1 .. Len(rs) : Columns(sent, rs[r])
    /\ \A i, j \in 1 .. Len(sent) : sent[i].name = sent[j].name => sent[i].column = sent[j].column

Sound(a) == IsDocument(a.doc) /\ Sendable(a.table, a.sent)

IsAnswer(a) == Sound(a) /\ Around(a) /\ \A r \in 1 .. Len(a.table) : RowLost(a, r) \/ CellsLie(a, r)

Answer(d, rs, sent, w, rowEnd, cellEnd) ==
    [doc |-> d, table |-> rs, sent |-> sent, ornament |-> w, rowEnd |-> rowEnd, cellEnd |-> cellEnd]

(* A row lies where its part of the markup does.                           *)
LiesAt(a, r, s) ==
    /\ Len(s) \in Nat /\ a.rowEnd[r] = a.rowEnd[r - 1] + Len(s)
    /\ \A j \in 1 .. Len(s) : Alike(a.doc[a.rowEnd[r - 1] + j], s[j])
ShiftedEnds(ends, from, n) == [i \in 0 .. n |-> from + 1 + ends[i]]

LEMMA RowLies ==
    ASSUME NEW a, Sound(a), Around(a), NEW r \in 1 .. Len(a.table), NEW s, NEW ends, LiesAt(a, r, s),
           Lost(s) \/ RowWritten(s, MarksOf(a, r), ends, Len(a.sent)),
           a.cellEnd[r] = ShiftedEnds(ends, a.rowEnd[r - 1], Len(a.sent))
    PROVE  RowLost(a, r) \/ CellsLie(a, r)
<1>1. PICK from \in Nat : from = a.rowEnd[r - 1]
  <2>1. PICK m \in Nat : m = Len(a.table)
    BY DEF Sound, Sendable
  <2>2. r - 1 \in 0 .. m /\ a.rowEnd \in [0 .. m -> Nat]
    BY <2>1 DEF Around
  <2> QED
    BY <2>2
<1>1a. /\ Len(s) \in Nat /\ a.rowEnd[r] = from + Len(s)
       /\ \A j \in 1 .. Len(s) : Alike(a.doc[from + j], s[j])
  BY <1>1 DEF LiesAt
<1>2. CASE Lost(s)
  <2>1. 1 \in 1 .. Len(s) /\ a.rowEnd[r] = from + 1
    BY <1>1a, <1>2 DEF Lost
  <2>2. Alike(a.doc[from + 1], s[1])
    BY <1>1a, <2>1
  <2>3. IsTag(a.doc[a.rowEnd[r]], "empty", "row")
    BY <1>2, <2>1, <2>2 DEF Lost, Alike, IsTag
  <2> QED
    BY <1>1, <1>2, <2>1, <2>3 DEF RowLost, Lost
<1>3. CASE RowWritten(s, MarksOf(a, r), ends, Len(a.sent))
  <2>1. PICK n \in Nat : n = Len(a.sent)
    BY DEF Sound, Sendable
  <2>2. PICK parts : parts = MarksOf(a, r)
    OBVIOUS
  <2>3. PICK at : at = a.cellEnd[r]
    OBVIOUS
  <2>4. /\ ends \in [0 .. n -> Nat] /\ ends[0] = 0 /\ Rising(ends, n) /\ Len(s) = ends[n] + 2
        /\ \A i \in 1 .. n : ends[i] = ends[i - 1] + Len(parts[i])
    BY <1>3, <2>1, <2>2 DEF RowWritten, EndsOf
  <2>5. \A i \in 0 .. n : at[i] = from + 1 + ends[i]
    BY <1>1, <2>1, <2>3 DEF ShiftedEnds
  <2>6. at \in [0 .. n -> Nat]
    <3>1. \A i \in 0 .. n : from + 1 + ends[i] \in Nat
      BY <2>4
    <3>2. at = [i \in 0 .. n |-> from + 1 + ends[i]]
      BY <1>1, <2>1, <2>3 DEF ShiftedEnds
    <3> QED
      BY <3>1, <3>2
  <2>7. Rising(at, n)
    <3>1. ASSUME NEW k \in 0 .. n, NEW i \in 0 .. k PROVE at[i] <= at[k]
      <4>1. i \in 0 .. n /\ ends[i] <= ends[k] /\ ends[i] \in Nat /\ ends[k] \in Nat
        BY <2>4 DEF Rising
      <4>2. at[i] = from + 1 + ends[i] /\ at[k] = from + 1 + ends[k]
        BY <2>5, <4>1
      <4> QED
        BY <4>1, <4>2
    <3> QED
      BY <3>1 DEF Rising
  <2>8. at[0] = from + 1 /\ a.rowEnd[r] = at[n] + 1 /\ ends[n] \in Nat
    <3>1. at[0] = from + 1 + ends[0] /\ at[n] = from + 1 + ends[n] /\ ends[n] \in Nat
      BY <2>4, <2>5
    <3>2. a.rowEnd[r] = from + Len(s) /\ Len(s) = ends[n] + 2
      BY <1>1a, <2>4
    <3>3. from + 1 + ends[0] = from + 1
      BY <2>4
    <3>4. from + (ends[n] + 2) = (from + 1 + ends[n]) + 1
      <4>1. PICK e \in Nat : e = ends[n]
        BY <3>1
      <4>2. from + (e + 2) = (from + 1 + e) + 1
        OBVIOUS
      <4> QED
        BY <4>1, <4>2
    <3> QED
      BY <3>1, <3>2, <3>3, <3>4
  <2>9. IsTag(a.doc[at[0]], "open", "row")
    <3>1. 1 \in 1 .. Len(s)
      BY <2>4, <2>8
    <3>2. Alike(a.doc[from + 1], s[1])
      BY <1>1a, <3>1
    <3> QED
      BY <1>3, <2>8, <3>2 DEF RowWritten, Alike, IsTag
  <2>10. IsTag(a.doc[a.rowEnd[r]], "close", "row")
    <3>1. Len(s) \in 1 .. Len(s) /\ a.rowEnd[r] = from + Len(s)
      BY <1>1a, <2>4, <2>8
    <3>2. Alike(a.doc[a.rowEnd[r]], s[Len(s)])
      BY <1>1a, <3>1
    <3>3. s[Len(s)].kind = "close" /\ s[Len(s)].name = "row"
      BY <1>3, <2>1, <2>4 DEF RowWritten
    <3> QED
      BY <3>2, <3>3 DEF Alike, IsTag
  <2>11. ASSUME NEW i \in 1 .. n
         PROVE  /\ at[i] = at[i - 1] + Len(parts[i])
                /\ \A j \in 1 .. Len(parts[i]) : Alike(a.doc[at[i - 1] + j], parts[i][j])
    <3>1. i \in 0 .. n /\ i - 1 \in 0 .. n /\ ends[i] \in Nat /\ ends[i - 1] \in Nat
          /\ ends[i] = ends[i - 1] + Len(parts[i])
      BY <2>4
    <3>2. at[i] = from + 1 + ends[i] /\ at[i - 1] = from + 1 + ends[i - 1]
      BY <2>5, <3>1
    <3>3. Len(parts[i]) \in Nat
      <4>1. parts[i] = CellMarkup(a.table[r], a.sent[i], a.ornament)
        BY <2>1, <2>2 DEF MarksOf, CellsOf
      <4>2. parts[i] \in Seq(Marks)
        BY <2>1, <4>1, ScanAssumption, GrammarAssumption, CellMarkupIs DEF Sound, Sendable, Columns
      <4> QED
        BY <4>2, LenProperties
    <3>4. at[i] = at[i - 1] + Len(parts[i])
      BY <3>1, <3>2, <3>3
    <3>5. ASSUME NEW j \in 1 .. Len(parts[i]) PROVE Alike(a.doc[at[i - 1] + j], parts[i][j])
      <4>1. PICK x \in Nat : x = 1 + ends[i - 1] + j
        BY <3>1, <3>3
      <4>2. ends[i] <= ends[n]
        BY <2>4, <3>1 DEF Rising
      <4>3. x \in 1 .. Len(s)
        <5>1. j \in Nat /\ j <= Len(parts[i]) /\ ends[i] = ends[i - 1] + Len(parts[i])
          BY <3>1, <3>3
        <5>2. ends[i - 1] + j <= ends[n] /\ x >= 1
          <6>1. PICK e \in Nat, f \in Nat, l \in Nat, m \in Nat :
                    e = ends[i - 1] /\ f = ends[i] /\ l = Len(parts[i]) /\ m = ends[n]
            BY <2>8, <3>1, <3>3
          <6>2. f = e + l /\ f <= m /\ j <= l /\ j \in Nat
            BY <4>2, <5>1, <6>1
          <6>3. e + j <= m /\ 1 + e + j >= 1
            BY <6>2
          <6> QED
            BY <4>1, <6>1, <6>3
        <5>3. Len(s) = ends[n] + 2 /\ x = 1 + ends[i - 1] + j
          BY <2>4, <4>1
        <5>4. PICK e \in Nat, z \in Nat, jj \in Nat : e = ends[i - 1] /\ z = ends[n] /\ jj = j
          BY <2>8, <3>1, <5>1
        <5>5. x = 1 + e + jj /\ e + jj <= z /\ x >= 1
          BY <5>2, <5>3, <5>4
        <5>6. x <= z + 2
          BY <5>5
        <5>7. Len(s) = z + 2
          BY <5>3, <5>4
        <5> QED
          BY <5>5, <5>6, <5>7
      <4>4. Alike(a.doc[from + x], s[x])
        BY <1>1a, <4>3
      <4>5. s[x] = parts[i][j]
        BY <1>3, <2>1, <2>2, <4>1 DEF RowWritten
      <4>6. from + x = at[i - 1] + j
        <5>1. at[i - 1] = from + 1 + ends[i - 1] /\ x = 1 + ends[i - 1] + j /\ j \in Nat
          BY <3>2, <3>3, <4>1
        <5>2. PICK e \in Nat, jj \in Nat : e = ends[i - 1] /\ jj = j
          BY <3>1, <5>1
        <5>3. PICK g \in Nat : g = from
          BY <1>1
        <5>4. g + (1 + e + jj) = (g + 1 + e) + jj
          OBVIOUS
        <5> QED
          BY <5>1, <5>2, <5>3, <5>4
      <4> QED
        BY <4>4, <4>5, <4>6
    <3> QED
      BY <3>4, <3>5
  <2>12. CellsLie(a, r)
    BY <1>1, <2>1, <2>2, <2>3, <2>6, <2>7, <2>8, <2>9, <2>10, <2>11, Zenon DEF CellsLie
  <2> QED
    BY <2>12
<1> QED
  BY <1>2, <1>3

(* The items of a layout are the constructs of the document.               *)
LEMMA LaidOut ==
    ASSUME NEW items, Len(items) \in Nat
    PROVE  /\ Len(Layout(items)) = Len(items)
           /\ \A k \in 1 .. Len(items) : Alike(Layout(items)[k], items[k])
<1>1. PICK n \in Nat : n = Len(items)
  OBVIOUS
<1>2. PICK ends : ends = Ends(items)
  OBVIOUS
<1>3. Layout(items) = [k \in 1 .. n |->
            [text |-> items[k].text, kind |-> items[k].kind, name |-> items[k].name,
             at |-> ends[k + 1] - TagLength, end |-> ends[k + 1]]]
  BY <1>1, <1>2, Zenon DEF Layout
<1>4. PICK d : d = Layout(items)
  OBVIOUS
<1>5. DOMAIN d = 1 .. n /\ Len(d) = n
  <2>1. DOMAIN d = 1 .. n
    BY <1>3, <1>4
  <2>2. d = [k \in 1 .. n |-> d[k]]
    BY <1>3, <1>4
  <2> QED
    BY <2>1, <2>2
<1>6. ASSUME NEW k \in 1 .. n PROVE Alike(d[k], items[k])
  BY <1>3, <1>4 DEF Alike
<1> QED
  BY <1>1, <1>4, <1>5, <1>6

(* Three constructs, a sequence and one more.                              *)
LEMMA Surrounded ==
    ASSUME NEW D, NEW p \in D, NEW q \in D, NEW t \in D, NEW s \in Seq(D), NEW last \in D
    PROVE  LET whole == <<p, q, t>> \o s \o <<last>>
           IN  /\ whole \in Seq(D) /\ Len(whole) = Len(s) + 4
               /\ whole[1] = p /\ whole[2] = q /\ whole[3] = t /\ whole[Len(s) + 4] = last
               /\ \A x \in 1 .. Len(s) : whole[3 + x] = s[x]
<1>1. /\ <<p, q, t>> \in Seq(D) /\ Len(<<p, q, t>>) = 3 /\ Len(s) \in Nat
      /\ <<p, q, t>>[1] = p /\ <<p, q, t>>[2] = q /\ <<p, q, t>>[3] = t
  BY LenProperties
<1>2. <<last>> \in Seq(D) /\ Len(<<last>>) = 1 /\ <<last>>[1] = last
  OBVIOUS
<1>3. PICK u : u = <<p, q, t>> \o s
  OBVIOUS
<1>4. /\ u \in Seq(D) /\ Len(u) = 3 + Len(s)
      /\ \A i \in 1 .. Len(u) : u[i] = IF i <= 3 THEN <<p, q, t>>[i] ELSE s[i - 3]
  BY <1>1, <1>3, ConcatProperties
<1>5. PICK whole : whole = u \o <<last>>
  OBVIOUS
<1>6. u \in Seq(D)
  BY <1>4
<1>7. /\ whole \in Seq(D) /\ Len(whole) = Len(u) + 1
      /\ \A i \in 1 .. Len(whole) : whole[i] = IF i <= Len(u) THEN u[i] ELSE <<last>>[i - Len(u)]
  BY <1>2, <1>5, <1>6, ConcatProperties
<1>8. whole[1] = p /\ whole[2] = q /\ whole[3] = t
  <2>1. \A i \in 1 .. 3 : i \in 1 .. Len(whole) /\ i \in 1 .. Len(u) /\ i <= Len(u)
    BY <1>1, <1>4, <1>7
  <2>2. \A i \in 1 .. 3 : whole[i] = <<p, q, t>>[i]
    BY <1>4, <1>7, <2>1
  <2> QED
    BY <1>1, <2>2
<1>9. whole[Len(s) + 4] = last
  <2>1. Len(s) + 4 \in 1 .. Len(whole) /\ ~(Len(s) + 4 <= Len(u)) /\ (Len(s) + 4) - Len(u) = 1
    BY <1>1, <1>4, <1>7
  <2> QED
    BY <1>2, <1>7, <2>1
<1>10. ASSUME NEW x \in 1 .. Len(s) PROVE whole[3 + x] = s[x]
  <2>1. 3 + x \in 1 .. Len(whole) /\ 3 + x \in 1 .. Len(u) /\ 3 + x <= Len(u) /\ ~(3 + x <= 3) /\ (3 + x) - 3 = x
    BY <1>1, <1>4, <1>7
  <2>2. whole[3 + x] = u[3 + x]
    BY <1>7, <2>1
  <2> QED
    BY <1>4, <2>1, <2>2
<1> QED
  BY <1>1, <1>3, <1>4, <1>5, <1>7, <1>8, <1>9, <1>10

(* The document the server writes is an answer.                            *)
LEMMA AnswerLies ==
    ASSUME GrammarAssumption, Null \notin Values, NEW w, doc = Layout(AnswerMarkup(w)),
           IsDocument(doc), Sendable(table, Sent)
    PROVE  \E a : a.doc = doc /\ a.table = table /\ a.sent = Sent /\ IsAnswer(a)
<1>1a. PICK sent : sent = Sent
  OBVIOUS
<1>1. PICK n \in Nat, m \in Nat : n = Len(table) /\ m = Len(sent) /\ sent = Sent
  BY <1>1a DEF Sendable
<1>2. PICK parts : parts = [r \in 1 .. n |-> RowMarkup(table[r], w)]
  OBVIOUS
<1>3. ASSUME NEW r \in 1 .. n
      PROVE  /\ parts[r] \in Seq(Marks) /\ Len(parts[r]) \in Nat
             /\ Lost(parts[r]) \/ \E ends : RowWritten(parts[r], CellsOf(table[r], sent, w), ends, m)
  <2>1. parts[r] = RowMarkup(table[r], w)
    BY <1>2
  <2>2. Columns(sent, table[r])
    BY <1>1 DEF Sendable
  <2>3. /\ RowMarkup(table[r], w) \in Seq(Marks)
        /\ \/ Lost(RowMarkup(table[r], w))
           \/ \E ends : RowWritten(RowMarkup(table[r], w), CellsOf(table[r], sent, w), ends, Len(sent))
    BY <1>1, <2>2, RowMarkupIs
  <2> QED
    BY <1>1, <2>1, <2>3, LenProperties
<1>4. PICK flat : flat = FlattenSeq(parts)
  OBVIOUS
<1>5. PICK ends : /\ EndsOf(ends, parts, n) /\ Rising(ends, n)
                  /\ flat \in Seq(Marks) /\ Len(flat) = ends[n] /\ PartsAt(flat, ends, parts, n)
  <2>1. parts \in [1 .. n -> Seq(Marks)]
    BY <1>2, <1>3
  <2> QED
    BY <1>4, <2>1, FlattenParts
<1>6. /\ {"root", "schema", EmptyString} \subseteq Names /\ EmptyString \in Texts
      /\ {"open", "close", "empty", "skip"} \subseteq Kinds
  BY ServerAssumption DEF GrammarAssumption, Kinds
<1>7. PICK p \in Marks : /\ p = Markup(IF w = "stray" THEN "close" ELSE "skip", EmptyString, EmptyString)
                         /\ p.kind \in {"close", "skip"} /\ p.name = EmptyString
  BY <1>6, MarkTyped
<1>8. PICK q \in Marks : q = Markup("open", "root", EmptyString) /\ q.kind = "open" /\ q.name = "root"
  BY <1>6, MarkTyped
<1>9. PICK t \in Marks : t = Markup("empty", "schema", EmptyString) /\ t.kind = "empty" /\ t.name = "schema"
  BY <1>6, MarkTyped
<1>10. PICK z \in Marks : z = Markup("close", "root", EmptyString) /\ z.kind = "close" /\ z.name = "root"
  BY <1>6, MarkTyped
<1>11. PICK items : items = <<p, q, t>> \o flat \o <<z>>
  OBVIOUS
<1>12. doc = Layout(items)
  <2>1. AnswerMarkup(w) = <<p, q, t>> \o FlattenSeq([r \in 1 .. Len(table) |-> RowMarkup(table[r], w)]) \o <<z>>
    BY <1>7, <1>8, <1>9, <1>10, Zenon DEF AnswerMarkup, EmptyString
  <2> QED
    BY <1>1, <1>2, <1>4, <1>11, <2>1, Zenon
<1>13. /\ Len(items) = Len(flat) + 4 /\ items[1] = p /\ items[2] = q /\ items[3] = t
       /\ items[Len(flat) + 4] = z /\ \A x \in 1 .. Len(flat) : items[3 + x] = flat[x]
  <2>1. flat \in Seq(Marks)
    BY <1>5
  <2> QED
    BY <1>11, <2>1, Surrounded
<1>14. PICK e \in Nat : e = ends[n] /\ Len(flat) = e
  BY <1>5 DEF EndsOf
<1>15. /\ Len(doc) = e + 4
       /\ \A k \in 1 .. (e + 4) : Alike(doc[k], items[k])
  <2>1. Len(items) = e + 4
    BY <1>13, <1>14
  <2> QED
    BY <1>12, <1>14, <2>1, LaidOut
<1>16. PICK rowEnd : rowEnd = [r \in 0 .. n |-> 3 + ends[r]]
  OBVIOUS
<1>17. PICK cellEnd : cellEnd = [r \in 1 .. n |->
            ShiftedEnds(CHOOSE to : RowWritten(parts[r], CellsOf(table[r], sent, w), to, m), rowEnd[r - 1], m)]
  OBVIOUS
<1>18. PICK a : a = Answer(doc, table, sent, w, rowEnd, cellEnd)
  OBVIOUS
<1>19. /\ a.doc = doc /\ a.table = table /\ a.sent = sent /\ a.ornament = w /\ a.rowEnd = rowEnd
       /\ a.cellEnd = cellEnd
  BY <1>18 DEF Answer
<1>20. Sound(a)
  BY <1>1, <1>19 DEF Sound
<1>21. /\ \A r \in 0 .. n : ends[r] \in Nat /\ rowEnd[r] = 3 + ends[r]
       /\ ends[0] = 0 /\ \A r \in 1 .. n : ends[r] = ends[r - 1] + Len(parts[r])
  BY <1>5, <1>16 DEF EndsOf
<1>22. Around(a)
  <2>1. rowEnd \in [0 .. n -> Nat]
    <3>1. \A r \in 0 .. n : 3 + ends[r] \in Nat
      BY <1>21
    <3> QED
      BY <1>16, <3>1
  <2>2. rowEnd[0] = 3
    BY <1>21
  <2>2a. Rising(rowEnd, n)
    <3>1. ASSUME NEW k \in 0 .. n, NEW i \in 0 .. k PROVE rowEnd[i] <= rowEnd[k]
      <4>1. i \in 0 .. n /\ ends[i] <= ends[k] /\ ends[i] \in Nat /\ ends[k] \in Nat
        BY <1>5, <1>21 DEF Rising
      <4>2. rowEnd[i] = 3 + ends[i] /\ rowEnd[k] = 3 + ends[k]
        BY <1>21, <4>1
      <4> QED
        BY <4>1, <4>2
    <3> QED
      BY <3>1 DEF Rising
  <2>3. Len(doc) = rowEnd[n] + 1
    <3>1. rowEnd[n] = 3 + e
      BY <1>14, <1>21
    <3>2. e + 4 = (3 + e) + 1
      OBVIOUS
    <3> QED
      BY <1>15, <3>1, <3>2
  <2>4. Alike(doc[1], p) /\ Alike(doc[2], q) /\ Alike(doc[3], t) /\ Alike(doc[e + 4], z)
    <3>1. {1, 2, 3, e + 4} \subseteq 1 .. (e + 4)
      OBVIOUS
    <3> QED
      BY <1>13, <1>14, <1>15, <3>1
  <2>5. doc[1].kind = "skip" \/ IsTag(doc[1], "close", EmptyString)
    BY <1>7, <2>4 DEF Alike, IsTag
  <2>6. IsTag(doc[2], "open", "root") /\ IsTag(doc[3], "empty", "schema")
    BY <1>8, <1>9, <2>4 DEF Alike, IsTag
  <2>7. IsTag(doc[Len(doc)], "close", "root")
    BY <1>10, <1>15, <2>4 DEF Alike, IsTag
  <2> QED
    BY <1>1, <1>19, <2>1, <2>2, <2>2a, <2>3, <2>5, <2>6, <2>7, Zenon DEF Around
<1>23. ASSUME NEW r \in 1 .. n PROVE RowLost(a, r) \/ CellsLie(a, r)
  <2>1. PICK s : s = parts[r]
    OBVIOUS
  <2>2. PICK at : at = CHOOSE to : RowWritten(parts[r], CellsOf(table[r], sent, w), to, m)
    OBVIOUS
  <2>3. Lost(s) \/ RowWritten(s, CellsOf(table[r], sent, w), at, m)
    BY <1>3, <2>1, <2>2, Zenon
  <2>4. MarksOf(a, r) = CellsOf(table[r], sent, w)
    BY <1>19 DEF MarksOf
  <2>5. a.cellEnd[r] = ShiftedEnds(at, a.rowEnd[r - 1], m)
    BY <1>17, <1>19, <2>2, Zenon
  <2>6. PICK f \in Nat : f = ends[r - 1] /\ rowEnd[r - 1] = 3 + f
    <3>1. r - 1 \in 0 .. n
      OBVIOUS
    <3> QED
      BY <1>21, <3>1
  <2>7. PICK l \in Nat : l = Len(s)
    BY <1>3, <2>1
  <2>8. ends[r] = f + l /\ f + l <= e
    <3>1. r \in 0 .. n /\ n \in 0 .. n /\ r \in 0 .. n
      OBVIOUS
    <3>2. ends[r] <= ends[n]
      BY <1>5, <3>1 DEF Rising
    <3> QED
      BY <1>14, <1>21, <2>1, <2>6, <2>7, <3>2
  <2>9. rowEnd[r] = rowEnd[r - 1] + l
    <3>1. rowEnd[r] = 3 + ends[r]
      BY <1>21
    <3>2. 3 + (f + l) = (3 + f) + l
      OBVIOUS
    <3> QED
      BY <2>6, <2>8, <3>1, <3>2
  <2>10. ASSUME NEW j \in 1 .. l PROVE Alike(doc[rowEnd[r - 1] + j], s[j])
    <3>1. PICK x \in Nat : x = f + j
      OBVIOUS
    <3>2. x \in 1 .. e
      BY <2>8, <3>1
    <3>3. flat[x] = s[j]
      BY <1>5, <2>1, <2>6, <2>7, <3>1 DEF PartsAt
    <3>4. items[3 + x] = s[j]
      BY <1>13, <1>14, <3>2, <3>3
    <3>5. 3 + x \in 1 .. (e + 4)
      BY <3>2
    <3>6. (3 + f) + j = 3 + (f + j)
      OBVIOUS
    <3> QED
      BY <1>15, <2>6, <3>1, <3>4, <3>5, <3>6
  <2>11. LiesAt(a, r, s)
    BY <1>19, <2>7, <2>9, <2>10 DEF LiesAt
  <2> QED
    BY <1>1, <1>19, <1>20, <1>22, <2>3, <2>4, <2>5, <2>11, RowLies
<1>24. IsAnswer(a)
  BY <1>1, <1>19, <1>20, <1>22, <1>23 DEF IsAnswer
<1> QED
  BY <1>1, <1>19, <1>24

-----------------------------------------------------------------------------
(* What a row says of a name.                                              *)

Has(row, columns, name, value) ==
    \E i \in 1 .. Len(row) : columns[row[i].column] = name /\ row[i].value = value
Once(columns) == \A c, d \in 1 .. Len(columns) : columns[c] = columns[d] => c = d
Fit(s) == s \in State /\ Once(s.columns) /\ Known(s.row, s.columns)

LEMMA HasStays ==
    ASSUME NEW before \in Seq(Names), NEW after \in Seq(Names), Grows(before, after),
           NEW row, Known(row, before)
    PROVE  \A name, value : Has(row, after, name, value) <=> Has(row, before, name, value)
BY DEF Grows, Known, Has

(* A column that is looked for is there once.                              *)
LEMMA ColumnOnce ==
    ASSUME NEW columns \in Seq(Names), Once(columns), NEW name \in Names
    PROVE  LET c == WithColumn(columns, name)
           IN  /\ c \in Seq(Names) /\ Once(c) /\ Grows(columns, c)
               /\ ColumnFor(c, name) \in 1 .. Len(c) /\ c[ColumnFor(c, name)] = name
<1>1. PICK c : c = WithColumn(columns, name)
  OBVIOUS
<1>2. c \in Seq(Names) /\ Grows(columns, c) /\ ColumnFor(c, name) \in 1 .. Len(c)
  BY <1>1, ColumnFound, ColumnIndex
<1>3. PICK n \in Nat : n = Len(columns)
  BY LenProperties
<1>4. DOMAIN columns = 1 .. n /\ DOMAIN c = 1 .. Len(c) /\ Len(c) \in Nat
  BY <1>2, <1>3, LenProperties
<1>5. CASE name \in Range(columns)
  <2>1. c = columns
    BY <1>1, <1>5 DEF WithColumn
  <2>2. \E i \in DOMAIN c : c[i] = name
    BY <1>5, <2>1 DEF Range
  <2>3. c[ColumnFor(c, name)] = name
    BY <2>2, Zenon DEF ColumnFor
  <2> QED
    BY <1>1, <1>2, <2>1, <2>3
<1>6. CASE name \notin Range(columns)
  <2>1. c = Append(columns, name)
    BY <1>1, <1>6 DEF WithColumn
  <2>2. Len(c) = n + 1 /\ c[n + 1] = name /\ \A i \in 1 .. n : c[i] = columns[i]
    BY <1>3, <2>1, AppendProperties
  <2>3. \A i \in 1 .. n : columns[i] # name
    BY <1>4, <1>6 DEF Range
  <2>4. n + 1 \in DOMAIN c
    BY <1>4, <2>2
  <2>5. c[ColumnFor(c, name)] = name
    BY <2>2, <2>4, Zenon DEF ColumnFor
  <2>6. Once(c)
    <3>1. ASSUME NEW i \in 1 .. (n + 1), NEW j \in 1 .. (n + 1), c[i] = c[j] PROVE i = j
      <4>1. i \in 1 .. n \/ i = n + 1
        OBVIOUS
      <4>2. j \in 1 .. n \/ j = n + 1
        OBVIOUS
      <4>3. CASE i \in 1 .. n /\ j \in 1 .. n
        BY <1>3, <2>2, <3>1, <4>3 DEF Once
      <4>4. CASE i \in 1 .. n /\ j = n + 1
        BY <2>2, <2>3, <3>1, <4>4
      <4>5. CASE i = n + 1 /\ j \in 1 .. n
        BY <2>2, <2>3, <3>1, <4>5
      <4> QED
        BY <4>1, <4>2, <4>3, <4>4, <4>5
    <3> QED
      BY <2>2, <3>1 DEF Once
  <2> QED
    BY <1>1, <1>2, <2>5, <2>6
<1> QED
  BY <1>5, <1>6

(* A cell that is set is what the row says of its name from then on.       *)
LEMMA SetCellHas ==
    ASSUME NEW s, Fit(s), NEW name \in Names, NEW value \in Values
    PROVE  LET set == SetCell(s, name, value)
           IN  /\ Fit(set) /\ Grows(s.columns, set.columns)
               /\ \A m, v : Has(set.row, set.columns, m, v)
                               <=> IF m = name THEN v = value ELSE Has(s.row, s.columns, m, v)
<1>1. s \in State /\ s.columns \in Seq(Names) /\ s.row \in Seq(Cell) /\ Once(s.columns) /\ Known(s.row, s.columns)
  BY StateParts DEF Fit
<1>2. PICK c : c = WithColumn(s.columns, name)
  OBVIOUS
<1>3. PICK k : k = ColumnFor(c, name)
  OBVIOUS
<1>4. c \in Seq(Names) /\ Once(c) /\ Grows(s.columns, c) /\ k \in 1 .. Len(c) /\ c[k] = name
  BY <1>1, <1>2, <1>3, ColumnOnce
<1>5. PICK cell : cell = [column |-> k, value |-> value]
  OBVIOUS
<1>6. PICK set : set = SetCell(s, name, value)
  OBVIOUS
<1>7. set \in State /\ Grows(s.columns, set.columns) /\ Known(set.row, set.columns)
  BY <1>1, <1>6, SetCellKnown
<1>8. PICK changed : changed = [i \in DOMAIN s.row |-> IF s.row[i].column = k THEN cell ELSE s.row[i]]
  OBVIOUS
<1>9. PICK row : row = IF \E i \in DOMAIN s.row : s.row[i].column = k THEN changed ELSE Append(s.row, cell)
  OBVIOUS
<1>10. set.columns = c /\ set.row = row
  <2>1. cell.column = k
    BY <1>5
  <2>2. set = [s EXCEPT !.columns = c, !.row = row]
    BY <1>2, <1>3, <1>5, <1>6, <1>8, <1>9, <2>1, Zenon DEF SetCell
  <2> QED
    BY <1>1, <2>2, StateParts
<1>11. PICK n \in Nat : n = Len(s.row) /\ DOMAIN s.row = 1 .. n
  BY <1>1, LenProperties
<1>12. \A m, v : Has(s.row, c, m, v) <=> Has(s.row, s.columns, m, v)
  BY <1>1, <1>4, HasStays
<1>13. Known(s.row, c)
  BY <1>1, <1>4, KnownStays
<1>14. ASSUME NEW i \in 1 .. n PROVE s.row[i].column \in 1 .. Len(c) /\ (c[s.row[i].column] = name <=> s.row[i].column = k)
  BY <1>4, <1>11, <1>13 DEF Known, Once
<1>15. CASE \E i \in 1 .. n : s.row[i].column = k
  <2>1. row = changed
    BY <1>9, <1>11, <1>15
  <2>2. /\ DOMAIN row = 1 .. n
        /\ \A i \in 1 .. n : row[i] = IF s.row[i].column = k THEN cell ELSE s.row[i]
    BY <1>8, <1>11, <2>1
  <2>3. Len(row) = n
    <3>1. row \in Seq(Cell)
      BY <1>7, <1>10, StateParts
    <3> QED
      BY <2>2, <3>1, LenProperties
  <2>4. \A i \in 1 .. n : IF s.row[i].column = k THEN c[row[i].column] = name /\ row[i].value = value
                          ELSE row[i] = s.row[i] /\ c[row[i].column] # name
    BY <1>4, <1>5, <1>14, <2>2
  <2>5. ASSUME NEW m, NEW v
        PROVE  Has(row, c, m, v) <=> IF m = name THEN v = value ELSE Has(s.row, c, m, v)
    <3>1. CASE m = name
      BY <1>15, <2>3, <2>4, <3>1 DEF Has
    <3>2. CASE m # name
      <4>1. ASSUME NEW i \in 1 .. n
            PROVE  c[row[i].column] = m /\ row[i].value = v <=> c[s.row[i].column] = m /\ s.row[i].value = v
        BY <1>14, <2>4, <3>2
      <4> QED
        BY <1>11, <2>3, <3>2, <4>1 DEF Has
    <3> QED
      BY <3>1, <3>2
  <2> QED
    BY <1>4, <1>6, <1>7, <1>10, <1>12, <2>5 DEF Fit
<1>16. CASE ~\E i \in 1 .. n : s.row[i].column = k
  <2>1. row = Append(s.row, cell)
    BY <1>9, <1>11, <1>16
  <2>2. Len(row) = n + 1 /\ row[n + 1] = cell /\ \A i \in 1 .. n : row[i] = s.row[i]
    <3>1. s.row \in Seq(Cell \cup {cell})
      BY <1>1
    <3> QED
      BY <1>11, <2>1, <3>1, AppendProperties
  <2>3. c[row[n + 1].column] = name /\ row[n + 1].value = value
    BY <1>4, <1>5, <2>2
  <2>4. \A i \in 1 .. n : row[i] = s.row[i] /\ c[row[i].column] # name
    BY <1>14, <1>16, <2>2
  <2>5. ASSUME NEW m, NEW v
        PROVE  Has(row, c, m, v) <=> IF m = name THEN v = value ELSE Has(s.row, c, m, v)
    <3>1. \A i : i \in 1 .. Len(row) <=> i \in 1 .. n \/ i = n + 1
      BY <2>2
    <3>2. CASE m = name
      BY <2>3, <2>4, <3>1, <3>2 DEF Has
    <3>3. CASE m # name
      BY <1>11, <2>3, <2>4, <3>1, <3>3 DEF Has
    <3> QED
      BY <3>2, <3>3
  <2> QED
    BY <1>4, <1>6, <1>7, <1>10, <1>12, <2>5 DEF Fit
<1> QED
  BY <1>11, <1>15, <1>16

-----------------------------------------------------------------------------
(* What each kind of tag does to a state.                                  *)

LEMMA OpenedIs ==
    ASSUME GrammarAssumption, NEW s, Fit(s), NEW name \in Names
    PROVE  LET t == Opened(s, name)
           IN  /\ Fit(t) /\ t.columns = s.columns /\ t.depth = s.depth + 1
               /\ IF name = "row" /\ s.row_depth < 0
                  THEN t.row_depth = s.depth /\ t.row = <<>> /\ t.field = s.field
                  ELSE /\ t.row_depth = s.row_depth /\ t.row = s.row
                       /\ t.field = IF IsField(s) THEN Decoded[name] ELSE s.field
<1>0. s \in State /\ Once(s.columns) /\ Known(s.row, s.columns)
  BY DEF Fit
<1>1. /\ s.depth \in Nat
      /\ s = [depth |-> s.depth, row_depth |-> s.row_depth, field |-> s.field,
              columns |-> s.columns, row |-> s.row]
  BY <1>0, StateParts
<1>2. PICK t : t = Opened(s, name)
  OBVIOUS
<1>3. t \in State /\ t.columns = s.columns /\ Known(t.row, s.columns)
  BY <1>0, <1>2, OpenedTyped, OpenedKnown
<1>4. Fit(t)
  BY <1>0, <1>3 DEF Fit
<1>5. CASE name = "row" /\ s.row_depth < 0
  <2>1. t = [depth |-> s.depth + 1, row_depth |-> s.depth, field |-> s.field,
             columns |-> s.columns, row |-> <<>>]
    BY <1>1, <1>2, <1>5 DEF Opened
  <2> QED
    BY <1>2, <1>3, <1>4, <1>5, <2>1
<1>6. CASE ~(name = "row" /\ s.row_depth < 0)
  <2>1. t = [depth |-> s.depth + 1, row_depth |-> s.row_depth,
             field |-> IF IsField(s) THEN Decoded[name] ELSE s.field,
             columns |-> s.columns, row |-> s.row]
    BY <1>1, <1>2, <1>6 DEF Opened
  <2> QED
    BY <1>2, <1>3, <1>4, <1>6, <2>1
<1> QED
  BY <1>5, <1>6

LEMMA SelfClosedIs ==
    ASSUME GrammarAssumption, NEW s, Fit(s), NEW name \in Names
    PROVE  LET t == SelfClosed(s, name)
           IN  /\ Fit(t) /\ Grows(s.columns, t.columns)
               /\ t.depth = s.depth /\ t.row_depth = s.row_depth /\ t.field = s.field
               /\ IF IsField(s)
                  THEN \A m, v : Has(t.row, t.columns, m, v)
                                    <=> IF m = Decoded[name] THEN v = EmptyString
                                        ELSE Has(s.row, s.columns, m, v)
                  ELSE t = s
<1>0. s \in State /\ Decoded[name] \in Names /\ EmptyString \in Values
  BY DEF Fit, GrammarAssumption, Values
<1>1. CASE IsField(s)
  <2>1. PICK d \in Names : d = Decoded[name]
    BY <1>0
  <2>2. PICK t : t = SetCell(s, d, EmptyString)
    OBVIOUS
  <2>3. /\ Fit(t) /\ Grows(s.columns, t.columns)
        /\ \A m, v : Has(t.row, t.columns, m, v)
                        <=> IF m = d THEN v = EmptyString ELSE Has(s.row, s.columns, m, v)
    BY <1>0, <2>2, SetCellHas
  <2>4. t.depth = s.depth /\ t.row_depth = s.row_depth /\ t.field = s.field
    BY <1>0, <2>2, SetCellTyped
  <2>5. SelfClosed(s, name) = t
    BY <1>1, <2>1, <2>2 DEF SelfClosed
  <2> QED
    BY <1>1, <2>1, <2>3, <2>4, <2>5
<1>2. CASE ~IsField(s)
  <2>1. SelfClosed(s, name) = s
    BY <1>2 DEF SelfClosed
  <2>2. Grows(s.columns, s.columns)
    BY <1>0, StateParts, LenProperties DEF Grows
  <2> QED
    BY <1>2, <2>1, <2>2
<1> QED
  BY <1>1, <1>2

Less(depth) == IF depth > 0 THEN depth - 1 ELSE 0
(* A closing tag that ends the field, one level below the row.             *)
EndsField(s) == s.field # EmptyString /\ s.row_depth >= 0 /\ Less(s.depth) = s.row_depth + 1

LEMMA ClosedIs ==
    ASSUME GrammarAssumption, NEW s, Fit(s), NEW value \in Values
    PROVE  LET t == Closed(s, value)
           IN  /\ Fit(t) /\ Grows(s.columns, t.columns)
               /\ t.depth = Less(s.depth) /\ t.row_depth = s.row_depth
               /\ IF EndsField(s)
                  THEN /\ t.field = EmptyString
                       /\ \A m, v : Has(t.row, t.columns, m, v)
                                       <=> IF m = s.field THEN v = value
                                           ELSE Has(s.row, s.columns, m, v)
                  ELSE t.field = s.field /\ t.columns = s.columns /\ t.row = s.row
<1>0. s \in State /\ Once(s.columns) /\ Known(s.row, s.columns)
  BY DEF Fit
<1>1. /\ s.depth \in Nat /\ s.row_depth \in Int /\ s.field \in Names /\ s.columns \in Seq(Names)
      /\ s.row \in Seq(Cell)
      /\ s = [depth |-> s.depth, row_depth |-> s.row_depth, field |-> s.field,
              columns |-> s.columns, row |-> s.row]
  BY <1>0, StateParts
<1>2. PICK depth \in Nat : depth = Less(s.depth)
  BY <1>1 DEF Less
<1>3. PICK out : out = [s EXCEPT !.depth = IF @ > 0 THEN @ - 1 ELSE 0]
  OBVIOUS
<1>4. out = [depth |-> depth, row_depth |-> s.row_depth, field |-> s.field,
             columns |-> s.columns, row |-> s.row]
  BY <1>1, <1>2, <1>3 DEF Less
<1>5. out \in State
  BY <1>1, <1>4 DEF State
<1>6. Fit(out)
  BY <1>0, <1>4, <1>5 DEF Fit
<1>7. IsField(out) <=> s.row_depth >= 0 /\ Less(s.depth) = s.row_depth + 1
  BY <1>2, <1>4 DEF IsField
<1>8. Closed(s, value) = IF s.field # EmptyString /\ IsField(out)
                         THEN [SetCell(out, s.field, value) EXCEPT !.field = EmptyString]
                         ELSE out
  BY <1>3 DEF Closed
<1>9. CASE EndsField(s)
  <2>1. PICK set : set = SetCell(out, s.field, value)
    OBVIOUS
  <2>2. /\ Fit(set) /\ Grows(out.columns, set.columns)
        /\ \A m, v : Has(set.row, set.columns, m, v)
                        <=> IF m = s.field THEN v = value ELSE Has(out.row, out.columns, m, v)
    BY <1>1, <1>6, <2>1, SetCellHas
  <2>3. set.depth = depth /\ set.row_depth = s.row_depth
    BY <1>1, <1>4, <1>5, <2>1, SetCellTyped
  <2>4. PICK t : t = [set EXCEPT !.field = EmptyString]
    OBVIOUS
  <2>5. Closed(s, value) = t
    BY <1>7, <1>8, <1>9, <2>1, <2>4 DEF EndsField
  <2>6. set \in State /\ Once(set.columns) /\ Known(set.row, set.columns)
    BY <2>2 DEF Fit
  <2>7. /\ t.depth = set.depth /\ t.row_depth = set.row_depth /\ t.field = EmptyString
        /\ t.columns = set.columns /\ t.row = set.row
    BY <2>4, <2>6 DEF State
  <2>8. t \in State
    BY <1>0, <1>1, <2>5, ClosedTyped
  <2>9. Fit(t)
    BY <2>6, <2>7, <2>8 DEF Fit
  <2>10. out.columns = s.columns /\ out.row = s.row
    BY <1>4
  <2> QED
    BY <1>2, <1>9, <2>2, <2>3, <2>5, <2>7, <2>9, <2>10
<1>10. CASE ~EndsField(s)
  <2>1. Closed(s, value) = out
    BY <1>7, <1>8, <1>10 DEF EndsField
  <2>2. Grows(s.columns, s.columns)
    BY <1>1, LenProperties DEF Grows
  <2>3. out.depth = Less(s.depth) /\ out.row_depth = s.row_depth /\ out.field = s.field
        /\ out.columns = s.columns /\ out.row = s.row
    BY <1>2, <1>4
  <2> QED
    BY <1>6, <1>10, <2>1, <2>2, <2>3
<1> QED
  BY <1>9, <1>10

LEMMA RowTakenIs ==
    ASSUME GrammarAssumption, NEW s, Fit(s)
    PROVE  LET t == RowTaken(s)
           IN  /\ Fit(t) /\ t.columns = s.columns /\ t.depth = s.depth /\ t.row_depth < 0
               /\ t.field = EmptyString
<1>0. s \in State /\ Once(s.columns)
  BY DEF Fit
<1>1. s = [depth |-> s.depth, row_depth |-> s.row_depth, field |-> s.field,
           columns |-> s.columns, row |-> s.row]
  BY <1>0, StateParts
<1>2. PICK none : none = -1
  OBVIOUS
<1>3. RowTaken(s) = [depth |-> s.depth, row_depth |-> none, field |-> EmptyString,
                     columns |-> s.columns, row |-> <<>>]
  <2>1. RowTaken(s) = [s EXCEPT !.row = <<>>, !.row_depth = none, !.field = EmptyString]
    BY <1>2 DEF RowTaken
  <2> QED
    BY <1>1, <2>1
<1>4. RowTaken(s) \in State
  BY <1>0, RowTakenTyped
<1>5. PICK t : t = RowTaken(s)
  OBVIOUS
<1>6. t.columns = s.columns /\ t.depth = s.depth /\ t.row_depth = none /\ t.field = EmptyString /\ t.row = <<>>
  BY <1>3, <1>5
<1>7. Known(t.row, t.columns)
  BY <1>6 DEF Known
<1>8. Fit(t)
  BY <1>0, <1>4, <1>5, <1>6, <1>7 DEF Fit
<1>9. none < 0
  BY <1>2
<1> QED
  BY <1>5, <1>6, <1>8, <1>9

-----------------------------------------------------------------------------
(* Reading one construct of a document: its number is n + 1, and the       *)
(* pending field was opened by construct o.                                *)
TextAt(d, o) == IF o \in 1 .. (Len(d) - 1) THEN d[o + 1].text ELSE "torn"
ReadOne(d, n, s, o, rs, t, p, ss) ==
    LET item == d[n + 1]
        after == Closed(s, TextAt(d, o))
    IN  /\ n < Len(d)
        /\ \/ item.kind = "skip" /\ t = s /\ p = o /\ ss = rs
           \/ /\ item.kind = "open" /\ t = Opened(s, item.name) /\ ss = rs
              /\ p = IF t.field = EmptyString THEN 0 ELSE IF IsField(s) THEN n + 1 ELSE o
           \/ item.kind = "empty" /\ t = SelfClosed(s, item.name) /\ p = o /\ ss = rs
           \/ /\ item.kind = "close" /\ ~ClosesRow(after, item.name)
              /\ t = after /\ ss = rs /\ p = IF t.field = EmptyString THEN 0 ELSE o
           \/ /\ item.kind = "close" /\ ClosesRow(after, item.name)
              /\ t = RowTaken(after) /\ ss = Append(rs, after.row)
              /\ p = IF t.field = EmptyString THEN 0 ELSE o

(* In an open row: between its cells, in a cell, and in a child of one.    *)
Resting(s) == s.row_depth = 1 /\ s.depth = 2 /\ s.field = EmptyString
Inside(s, o, name, k) == s.row_depth = 1 /\ s.depth = 3 /\ s.field = name /\ o = k
Deep(s, o, name, k) == s.row_depth = 1 /\ s.depth = 4 /\ s.field = name /\ o = k
Same(s, t) == t.columns = s.columns /\ t.row = s.row
Sets(s, t, name, value) ==
    \A m, v : Has(t.row, t.columns, m, v)
                 <=> IF m = name THEN v = value ELSE Has(s.row, s.columns, m, v)
Goes(s, t, rs, ss) == Fit(t) /\ Grows(s.columns, t.columns) /\ ss = rs

LEMMA GrowsItself ==
    ASSUME NEW s, Fit(s)
    PROVE  Grows(s.columns, s.columns)
BY StateParts, LenProperties DEF Grows, Fit

LEMMA RestSkips ==
    ASSUME NEW d, NEW n, NEW s, NEW o, NEW rs, NEW t, NEW p, NEW ss, Fit(s),
           ReadOne(d, n, s, o, rs, t, p, ss), d[n + 1].kind = "skip"
    PROVE  t = s /\ p = o /\ Goes(s, t, rs, ss)
BY GrowsItself DEF ReadOne, Goes

LEMMA RestOpens ==
    ASSUME GrammarAssumption, NEW d, NEW n, NEW s, NEW o, NEW rs, NEW t, NEW p, NEW ss, Fit(s),
           ReadOne(d, n, s, o, rs, t, p, ss), Resting(s), NEW name \in DOMAIN Encoded,
           IsTag(d[n + 1], "open", Encoded[name])
    PROVE  Inside(t, p, name, n + 1) /\ Same(s, t) /\ Goes(s, t, rs, ss)
<1>1. PICK code \in Names : code = Encoded[name] /\ Decoded[code] = name /\ name # EmptyString
  BY ServerAssumption
<1>2. /\ t = Opened(s, code) /\ ss = rs
      /\ p = IF t.field = EmptyString THEN 0 ELSE IF IsField(s) THEN n + 1 ELSE o
  BY <1>1 DEF ReadOne, IsTag
<1>3. IsField(s) /\ ~(s.row_depth < 0)
  BY DEF Resting, IsField
<1>4. /\ Fit(t) /\ t.columns = s.columns /\ t.depth = s.depth + 1 /\ t.row_depth = s.row_depth
      /\ t.row = s.row /\ t.field = name
  BY <1>1, <1>2, <1>3, OpenedIs
<1> QED
  BY <1>1, <1>2, <1>3, <1>4, GrowsItself DEF Resting, Inside, Same, Goes

LEMMA RestSelfCloses ==
    ASSUME GrammarAssumption, NEW d, NEW n, NEW s, NEW o, NEW rs, NEW t, NEW p, NEW ss, Fit(s),
           ReadOne(d, n, s, o, rs, t, p, ss), Resting(s), NEW name \in DOMAIN Encoded,
           IsTag(d[n + 1], "empty", Encoded[name])
    PROVE  Resting(t) /\ Sets(s, t, name, EmptyString) /\ Goes(s, t, rs, ss)
<1>1. PICK code \in Names : code = Encoded[name] /\ Decoded[code] = name
  BY ServerAssumption
<1>2. t = SelfClosed(s, code) /\ ss = rs
  BY <1>1 DEF ReadOne, IsTag
<1>3. IsField(s)
  BY DEF Resting, IsField
<1>4. /\ Fit(t) /\ Grows(s.columns, t.columns) /\ t.depth = s.depth /\ t.row_depth = s.row_depth
      /\ t.field = s.field
      /\ \A m, v : Has(t.row, t.columns, m, v)
                      <=> IF m = Decoded[code] THEN v = EmptyString ELSE Has(s.row, s.columns, m, v)
  BY <1>2, <1>3, SelfClosedIs
<1>5. Sets(s, t, name, EmptyString)
  BY <1>1, <1>4 DEF Sets
<1> QED
  BY <1>2, <1>4, <1>5 DEF Resting, Goes

LEMMA InsideCloses ==
    ASSUME GrammarAssumption, NEW d, NEW n, NEW s, NEW o, NEW rs, NEW t, NEW p, NEW ss, Fit(s),
           ReadOne(d, n, s, o, rs, t, p, ss), NEW name, Inside(s, o, name, o), name # EmptyString,
           d[n + 1].kind = "close", o \in 1 .. (Len(d) - 1), d[o + 1].text \in Values
    PROVE  Resting(t) /\ Sets(s, t, name, d[o + 1].text) /\ Goes(s, t, rs, ss)
<1>1. PICK value \in Values : value = d[o + 1].text
  OBVIOUS
<1>2. TextAt(d, o) = value
  BY <1>1 DEF TextAt
<1>3. PICK after : after = Closed(s, value)
  OBVIOUS
<1>4. EndsField(s) /\ Less(s.depth) = 2
  BY DEF Inside, EndsField, Less
<1>5. /\ Fit(after) /\ Grows(s.columns, after.columns) /\ after.depth = 2
      /\ after.row_depth = s.row_depth /\ after.field = EmptyString
      /\ \A m, v : Has(after.row, after.columns, m, v)
                      <=> IF m = s.field THEN v = value ELSE Has(s.row, s.columns, m, v)
  BY <1>3, <1>4, ClosedIs
<1>6. s.row_depth = 1 /\ s.field = name
  BY DEF Inside
<1>7. ~ClosesRow(after, d[n + 1].name)
  BY <1>5, <1>6 DEF ClosesRow
<1>8. t = after /\ ss = rs
  BY <1>2, <1>3, <1>7 DEF ReadOne
<1> QED
  BY <1>1, <1>5, <1>6, <1>8 DEF Resting, Sets, Goes

LEMMA InsideOpens ==
    ASSUME GrammarAssumption, NEW d, NEW n, NEW s, NEW o, NEW rs, NEW t, NEW p, NEW ss, Fit(s),
           ReadOne(d, n, s, o, rs, t, p, ss), NEW name, NEW k, Inside(s, o, name, k), name # EmptyString,
           IsTag(d[n + 1], "open", "row")
    PROVE  Deep(t, p, name, k) /\ Same(s, t) /\ Goes(s, t, rs, ss)
<1>1. "row" \in Names
  BY DEF GrammarAssumption
<1>2. /\ t = Opened(s, "row") /\ ss = rs
      /\ p = IF t.field = EmptyString THEN 0 ELSE IF IsField(s) THEN n + 1 ELSE o
  BY DEF ReadOne, IsTag
<1>3. ~IsField(s) /\ ~(s.row_depth < 0)
  BY DEF Inside, IsField
<1>4. /\ Fit(t) /\ t.columns = s.columns /\ t.depth = s.depth + 1 /\ t.row_depth = s.row_depth
      /\ t.row = s.row /\ t.field = s.field
  BY <1>1, <1>2, <1>3, OpenedIs
<1> QED
  BY <1>2, <1>3, <1>4, GrowsItself DEF Inside, Deep, Same, Goes

LEMMA DeepCloses ==
    ASSUME GrammarAssumption, NEW d, NEW n, NEW s, NEW o, NEW rs, NEW t, NEW p, NEW ss, Fit(s),
           ReadOne(d, n, s, o, rs, t, p, ss), NEW name, NEW k, Deep(s, o, name, k), name # EmptyString,
           d[n + 1].kind = "close", TextAt(d, o) \in Values
    PROVE  Inside(t, p, name, k) /\ Same(s, t) /\ Goes(s, t, rs, ss)
<1>1. PICK after : after = Closed(s, TextAt(d, o))
  OBVIOUS
<1>2. ~EndsField(s) /\ Less(s.depth) = 3
  BY DEF Deep, EndsField, Less
<1>3. /\ Fit(after) /\ Grows(s.columns, after.columns) /\ after.depth = 3
      /\ after.row_depth = s.row_depth /\ after.field = s.field /\ after.columns = s.columns
      /\ after.row = s.row
  BY <1>1, <1>2, ClosedIs
<1>4. s.row_depth = 1 /\ s.field = name /\ o = k
  BY DEF Deep
<1>5. ~ClosesRow(after, d[n + 1].name)
  BY <1>3, <1>4 DEF ClosesRow
<1>6. t = after /\ ss = rs /\ p = IF t.field = EmptyString THEN 0 ELSE o
  BY <1>1, <1>5 DEF ReadOne
<1> QED
  BY <1>3, <1>4, <1>6 DEF Inside, Same, Goes

(* The text of a field is one of those there are, or torn.                 *)
LEMMA TextAtTyped ==
    ASSUME NEW d, IsDocument(d), NEW o
    PROVE  TextAt(d, o) \in Values
<1>1. CASE o \in 1 .. (Len(d) - 1)
  <2>1. Len(d) \in Nat
    BY LenProperties DEF IsDocument
  <2>2. o + 1 \in 1 .. Len(d)
    BY <1>1, <2>1
  <2>3. d \in Seq(Construct)
    BY DEF IsDocument
  <2>4. PICK item \in Construct : item = d[o + 1]
    BY <2>2, <2>3, ElementOfSeq
  <2>5. item.text \in Texts
    BY DEF Construct
  <2> QED
    BY <1>1, <2>4, <2>5 DEF TextAt, Values
<1>2. CASE o \notin 1 .. (Len(d) - 1)
  BY <1>2 DEF TextAt, Values
<1> QED
  BY <1>1, <1>2

-----------------------------------------------------------------------------
(* A cell that is not null, in the document.                               *)
CellSize(w, value) == Lead(w) + (IF value = EmptyString THEN 1 ELSE IF w = "nested" THEN 4 ELSE 2)

CellThere(d, from, w, name, value) ==
    /\ w = "comment" => d[from + 1].kind = "skip"
    /\ w = "repeated" => /\ IsTag(d[from + 1], "open", Encoded[name])
                         /\ IsTag(d[from + 2], "close", Encoded[name]) /\ d[from + 2].text = "x"
    /\ value = EmptyString => IsTag(d[from + (Lead(w) + 1)], "empty", Encoded[name])
    /\ value # EmptyString =>
          /\ IsTag(d[from + (Lead(w) + 1)], "open", Encoded[name])
          /\ d[from + (Lead(w) + 2)].text = value
          /\ w # "nested" => IsTag(d[from + (Lead(w) + 2)], "close", Encoded[name])
          /\ w = "nested" => /\ IsTag(d[from + 2], "open", "row") /\ IsTag(d[from + 3], "close", "row")
                             /\ IsTag(d[from + 4], "close", Encoded[name])

Placed(d, from, part) == \A j \in 1 .. Len(part) : Alike(d[from + j], part[j])

LEMMA CellIsThere ==
    ASSUME NEW d, NEW from, NEW w, NEW name, NEW value, NEW part,
           CellWritten(part, w, Encoded[name], value), Placed(d, from, part)
    PROVE  CellThere(d, from, w, name, value) /\ Len(part) = CellSize(w, value)
<1>1. PICK l \in 0 .. 2 : l = Lead(w) /\ (w = "comment" => l = 1) /\ (w = "repeated" => l = 2) /\ (w = "nested" => l = 0)
  BY DEF Lead
<1>2. /\ Len(part) = l + (IF value = EmptyString THEN 1 ELSE IF w = "nested" THEN 4 ELSE 2)
      /\ w = "comment" => part[1].kind = "skip"
      /\ w = "repeated" => /\ part[1].kind = "open" /\ part[1].name = Encoded[name]
                           /\ part[2].kind = "close" /\ part[2].name = Encoded[name] /\ part[2].text = "x"
      /\ part[l + 1].name = Encoded[name]
      /\ IF value = EmptyString THEN part[l + 1].kind = "empty"
         ELSE /\ part[l + 1].kind = "open" /\ part[l + 2].text = value
              /\ IF w = "nested"
                 THEN /\ part[2].kind = "open" /\ part[2].name = "row"
                      /\ part[3].kind = "close" /\ part[3].name = "row"
                      /\ part[4].kind = "close" /\ part[4].name = Encoded[name]
                 ELSE part[l + 2].kind = "close" /\ part[l + 2].name = Encoded[name]
  BY <1>1 DEF CellWritten
<1>3. CellSize(w, value) = Len(part)
  BY <1>1, <1>2 DEF CellSize
<1>4. \A j \in 1 .. Len(part) : d[from + j].kind = part[j].kind /\ d[from + j].name = part[j].name
                                /\ d[from + j].text = part[j].text
  BY DEF Alike, Placed
<1>5. w = "comment" => d[from + 1].kind = "skip"
  <2>1. w = "comment" => 1 \in 1 .. Len(part)
    BY <1>1, <1>2
  <2> QED
    BY <1>2, <1>4, <2>1
<1>6. w = "repeated" => /\ IsTag(d[from + 1], "open", Encoded[name])
                        /\ IsTag(d[from + 2], "close", Encoded[name]) /\ d[from + 2].text = "x"
  <2>1. w = "repeated" => 1 \in 1 .. Len(part) /\ 2 \in 1 .. Len(part)
    BY <1>1, <1>2
  <2> QED
    BY <1>2, <1>4, <2>1 DEF IsTag
<1>7. PICK e : e = l + 1
  OBVIOUS
<1>8. PICK f : f = l + 2
  OBVIOUS
<1>9. e \in 1 .. Len(part) /\ (value # EmptyString => f \in 1 .. Len(part))
  BY <1>1, <1>2, <1>7, <1>8
<1>10. value = EmptyString => IsTag(d[from + e], "empty", Encoded[name])
  BY <1>2, <1>4, <1>7, <1>9 DEF IsTag
<1>11. value # EmptyString => /\ IsTag(d[from + e], "open", Encoded[name]) /\ d[from + f].text = value
                              /\ (w # "nested" => IsTag(d[from + f], "close", Encoded[name]))
  BY <1>2, <1>4, <1>7, <1>8, <1>9 DEF IsTag
<1>12. value # EmptyString /\ w = "nested"
         => /\ IsTag(d[from + 2], "open", "row") /\ IsTag(d[from + 3], "close", "row")
            /\ IsTag(d[from + 4], "close", Encoded[name])
  <2> SUFFICES ASSUME value # EmptyString, w = "nested"
               PROVE  /\ IsTag(d[from + 2], "open", "row") /\ IsTag(d[from + 3], "close", "row")
                      /\ IsTag(d[from + 4], "close", Encoded[name])
    OBVIOUS
  <2>1. 2 \in 1 .. Len(part) /\ 3 \in 1 .. Len(part) /\ 4 \in 1 .. Len(part)
    BY <1>1, <1>2
  <2> QED
    BY <1>2, <1>4, <2>1 DEF IsTag
<1>13. CellThere(d, from, w, name, value)
  BY <1>1, <1>5, <1>6, <1>7, <1>8, <1>10, <1>11, <1>12, Zenon DEF CellThere
<1> QED
  BY <1>3, <1>13

(* Where in a cell the parser is when p of its constructs are read.        *)
CellState(w, from, name, p, s, o) ==
    \/ p \in {0, Lead(w)} /\ Resting(s)
    \/ w = "repeated" /\ p = 1 /\ Inside(s, o, name, from + 1)
    \/ p = Lead(w) + 1 /\ Inside(s, o, name, from + p)
    \/ w = "nested" /\ p = 2 /\ Deep(s, o, name, from + 1)
    \/ w = "nested" /\ p = 3 /\ Inside(s, o, name, from + 1)
RowEndAt(d, k) == IsTag(d[k], "close", "row") /\ (d[k + 1].kind # "close" \/ d[k + 1].name = "root")

(* A construct of a cell.                                                  *)
LEMMA CellStep ==
    ASSUME GrammarAssumption, NEW d, IsDocument(d), NEW from \in Nat, NEW w, NEW name \in DOMAIN Encoded,
           NEW value \in Texts, CellThere(d, from, w, name, value), from + CellSize(w, value) < Len(d),
           NEW p \in Nat, p < CellSize(w, value), NEW s, Fit(s), NEW o, CellState(w, from, name, p, s, o),
           NEW rs, NEW t, NEW q, NEW ss, ReadOne(d, from + p, s, o, rs, t, q, ss)
    PROVE  /\ Goes(s, t, rs, ss) /\ ~RowEndAt(d, from + p + 1)
           /\ IF p + 1 = CellSize(w, value) THEN Resting(t) /\ Sets(s, t, name, value)
              ELSE /\ CellState(w, from, name, p + 1, t, q)
                   /\ IF w = "repeated" /\ p = 1 THEN Sets(s, t, name, "x") ELSE Same(s, t)
<1>1. PICK l \in 0 .. 2 : l = Lead(w) /\ (w = "comment" <=> l = 1) /\ (w = "repeated" <=> l = 2) /\ (w = "nested" => l = 0)
  BY DEF Lead
<1>2. PICK size \in Nat : /\ size = CellSize(w, value)
                          /\ size = l + (IF value = EmptyString THEN 1 ELSE IF w = "nested" THEN 4 ELSE 2)
  BY <1>1 DEF CellSize
<1>3. /\ Encoded[name] \in Names /\ Encoded[name] # "row" /\ Encoded[name] # "root" /\ name # EmptyString
      /\ "x" \in Values /\ value \in Values
  BY ServerAssumption DEF Values
<1>4. Len(d) \in Nat
  BY LenProperties DEF IsDocument
<1>5. PICK n \in Nat : n = from + p
  OBVIOUS
<1>6. ReadOne(d, n, s, o, rs, t, q, ss)
  BY <1>5
<1>8. CASE l = 1 /\ p = 0
  <2>1. Resting(s)
    BY <1>1, <1>8 DEF CellState
  <2>2. d[n + 1].kind = "skip"
    <3>1. n = from
      BY <1>5, <1>8
    <3> QED
      BY <1>1, <1>8, <3>1 DEF CellThere
  <2>3. t = s /\ Goes(s, t, rs, ss)
    BY <1>6, <2>2, RestSkips
  <2>4. ~RowEndAt(d, n + 1)
    BY <2>2 DEF RowEndAt, IsTag
  <2>5. p + 1 # size /\ p + 1 = l /\ ~(w = "repeated")
    BY <1>1, <1>2, <1>8
  <2>6. CellState(w, from, name, p + 1, t, q) /\ Same(s, t)
    BY <1>1, <2>1, <2>3, <2>5 DEF CellState, Same
  <2> QED
    BY <1>2, <1>5, <2>3, <2>4, <2>5, <2>6
<1>9. CASE l = 2 /\ p = 0
  <2>1. Resting(s)
    BY <1>1, <1>9 DEF CellState
  <2>2. n = from /\ w = "repeated"
    BY <1>1, <1>5, <1>9
  <2>3. IsTag(d[n + 1], "open", Encoded[name])
    BY <2>2 DEF CellThere
  <2>4. Inside(t, q, name, n + 1) /\ Same(s, t) /\ Goes(s, t, rs, ss)
    BY <1>6, <2>1, <2>3, RestOpens
  <2>5. ~RowEndAt(d, n + 1)
    BY <2>3 DEF RowEndAt, IsTag
  <2>6. p + 1 # size /\ p + 1 = 1 /\ p # 1
    BY <1>2, <1>9
  <2>7. CellState(w, from, name, p + 1, t, q)
    BY <2>2, <2>4, <2>6 DEF CellState
  <2> QED
    BY <1>2, <1>5, <2>4, <2>5, <2>6, <2>7
<1>10. CASE l = 2 /\ p = 1
  <2>1. w = "repeated" /\ n = from + 1
    BY <1>1, <1>5, <1>10
  <2>2. Inside(s, o, name, from + 1)
    BY <1>1, <1>10, <2>1 DEF CellState
  <2>3. IsTag(d[from + 2], "close", Encoded[name]) /\ d[from + 2].text = "x"
    BY <2>1 DEF CellThere
  <2>4. o = from + 1 /\ n + 1 = from + 2 /\ o + 1 = from + 2 /\ o \in 1 .. (Len(d) - 1)
    <3>1. o = from + 1
      BY <2>2 DEF Inside
    <3>2. from + size < Len(d) /\ size >= 3
      BY <1>1, <1>2, <1>10
    <3> QED
      BY <1>4, <2>1, <3>1, <3>2
  <2>5. Inside(s, o, name, o) /\ d[o + 1].text = "x" /\ d[n + 1].kind = "close"
    BY <2>2, <2>3, <2>4 DEF IsTag
  <2>6. Resting(t) /\ Sets(s, t, name, "x") /\ Goes(s, t, rs, ss)
    BY <1>3, <1>6, <2>4, <2>5, InsideCloses
  <2>7. ~RowEndAt(d, n + 1)
    BY <1>3, <2>3, <2>4 DEF RowEndAt, IsTag
  <2>8. p + 1 # size /\ p + 1 = l
    BY <1>2, <1>10
  <2>9. CellState(w, from, name, p + 1, t, q)
    BY <1>1, <2>6, <2>8 DEF CellState
  <2> QED
    BY <1>2, <1>5, <1>10, <2>1, <2>6, <2>7, <2>8, <2>9
<1>11. CASE p = l
  <2>1. Resting(s)
    BY <1>1, <1>11 DEF CellState, Resting, Inside, Deep
  <2>2. n + 1 = from + (l + 1) /\ ~(w = "repeated" /\ p = 1)
    BY <1>1, <1>5, <1>11
  <2>3. CASE value = EmptyString
    <3>1. IsTag(d[n + 1], "empty", Encoded[name])
      BY <1>1, <2>2, <2>3 DEF CellThere
    <3>2. Resting(t) /\ Sets(s, t, name, EmptyString) /\ Goes(s, t, rs, ss)
      BY <1>6, <2>1, <3>1, RestSelfCloses
    <3>3. ~RowEndAt(d, n + 1)
      BY <3>1 DEF RowEndAt, IsTag
    <3>4. p + 1 = size
      BY <1>2, <1>11, <2>3
    <3> QED
      BY <1>2, <1>5, <2>3, <3>2, <3>3, <3>4
  <2>4. CASE value # EmptyString
    <3>1. IsTag(d[n + 1], "open", Encoded[name])
      BY <1>1, <2>2, <2>4 DEF CellThere
    <3>2. Inside(t, q, name, n + 1) /\ Same(s, t) /\ Goes(s, t, rs, ss)
      BY <1>6, <2>1, <3>1, RestOpens
    <3>3. ~RowEndAt(d, n + 1)
      BY <3>1 DEF RowEndAt, IsTag
    <3>4. p + 1 # size /\ p + 1 = l + 1 /\ n + 1 = from + (p + 1)
      BY <1>2, <1>5, <1>11, <2>4
    <3>5. CellState(w, from, name, p + 1, t, q)
      BY <1>1, <3>2, <3>4 DEF CellState
    <3> QED
      BY <1>2, <1>5, <2>2, <3>2, <3>3, <3>4, <3>5
  <2> QED
    BY <2>3, <2>4
<1>12. CASE p = l + 1 /\ w # "nested" /\ ~(l = 2 /\ p = 1)
  <2>1. value # EmptyString /\ p + 1 = size /\ size = l + 2
    BY <1>2, <1>12
  <2>2. Inside(s, o, name, from + p)
    BY <1>1, <1>12 DEF CellState
  <2>3. o = n /\ n + 1 = from + (l + 2) /\ n \in 1 .. (Len(d) - 1)
    <3>1. o = n
      BY <1>5, <2>2 DEF Inside
    <3>2. from + size < Len(d) /\ p = l + 1 /\ size = l + 2 /\ n = from + p
      BY <1>2, <1>5, <1>12, <2>1
    <3>3. n + 1 = from + (l + 2) /\ n >= 1
      BY <3>2
    <3>4. n + 1 < Len(d)
      BY <3>2, <3>3
    <3> QED
      BY <1>4, <3>1, <3>3, <3>4
  <2>4. IsTag(d[n + 1], "close", Encoded[name]) /\ d[n + 1].text = value
    BY <1>1, <1>12, <2>1, <2>3 DEF CellThere
  <2>5. Inside(s, o, name, o) /\ d[o + 1].text = value /\ d[n + 1].kind = "close" /\ o \in 1 .. (Len(d) - 1)
    BY <1>5, <2>2, <2>3, <2>4 DEF IsTag
  <2>6. Resting(t) /\ Sets(s, t, name, value) /\ Goes(s, t, rs, ss)
    BY <1>3, <1>6, <2>5, InsideCloses
  <2>7. ~RowEndAt(d, n + 1)
    BY <1>3, <2>4 DEF RowEndAt, IsTag
  <2> QED
    BY <1>2, <1>5, <2>1, <2>6, <2>7
<1>13. CASE w = "nested" /\ p >= 1
  <2>1. l = 0 /\ value # EmptyString /\ size = 4 /\ p \in {1, 2, 3} /\ ~(w = "repeated")
    BY <1>1, <1>2, <1>13
  <2>2. /\ IsTag(d[from + 2], "open", "row") /\ IsTag(d[from + 3], "close", "row")
        /\ IsTag(d[from + 4], "close", Encoded[name]) /\ d[from + 2].text = value
    <3>1. Lead(w) + 2 = 2
      BY <1>1, <2>1
    <3> QED
      BY <1>13, <2>1, <3>1 DEF CellThere
  <2>3. CASE p = 1
    <3>1. Inside(s, o, name, from + 1) /\ n + 1 = from + 2
      BY <1>1, <1>5, <1>13, <2>1, <2>3 DEF CellState
    <3>2. Deep(t, q, name, from + 1) /\ Same(s, t) /\ Goes(s, t, rs, ss)
      BY <1>3, <1>6, <2>2, <3>1, InsideOpens
    <3>3. ~RowEndAt(d, n + 1)
      BY <2>2, <3>1 DEF RowEndAt, IsTag
    <3>4. p + 1 # size /\ p + 1 = 2
      BY <2>1, <2>3
    <3>5. CellState(w, from, name, p + 1, t, q)
      BY <1>13, <3>2, <3>4 DEF CellState
    <3> QED
      BY <1>2, <1>5, <2>1, <3>2, <3>3, <3>4, <3>5
  <2>4. CASE p = 2
    <3>1. Deep(s, o, name, from + 1) /\ n + 1 = from + 3 /\ (n + 1) + 1 = from + 4
      BY <1>1, <1>5, <1>13, <2>1, <2>4 DEF CellState
    <3>2. TextAt(d, o) \in Values
      BY TextAtTyped
    <3>3. d[n + 1].kind = "close"
      BY <2>2, <3>1 DEF IsTag
    <3>4. Inside(t, q, name, from + 1) /\ Same(s, t) /\ Goes(s, t, rs, ss)
      BY <1>3, <1>6, <3>1, <3>2, <3>3, DeepCloses
    <3>5. ~RowEndAt(d, n + 1)
      BY <1>3, <2>2, <3>1 DEF RowEndAt, IsTag
    <3>6. p + 1 # size /\ p + 1 = 3
      BY <2>1, <2>4
    <3>7. CellState(w, from, name, p + 1, t, q)
      BY <1>13, <3>4, <3>6 DEF CellState
    <3> QED
      BY <1>2, <1>5, <2>1, <3>4, <3>5, <3>6, <3>7
  <2>5. CASE p = 3
    <3>1. Inside(s, o, name, from + 1) /\ n + 1 = from + 4
      BY <1>1, <1>5, <1>13, <2>1, <2>5 DEF CellState
    <3>2. o = from + 1 /\ o + 1 = from + 2 /\ o \in 1 .. (Len(d) - 1)
      <4>1. o = from + 1
        BY <3>1 DEF Inside
      <4>2. from + 4 < Len(d)
        BY <1>2, <2>1
      <4> QED
        BY <1>4, <4>1, <4>2
    <3>3. Inside(s, o, name, o) /\ d[o + 1].text = value /\ d[n + 1].kind = "close"
      BY <2>2, <3>1, <3>2 DEF IsTag
    <3>4. Resting(t) /\ Sets(s, t, name, value) /\ Goes(s, t, rs, ss)
      BY <1>3, <1>6, <3>2, <3>3, InsideCloses
    <3>5. ~RowEndAt(d, n + 1)
      BY <1>3, <2>2, <3>1 DEF RowEndAt, IsTag
    <3>6. p + 1 = size
      BY <2>1, <2>5
    <3> QED
      BY <1>2, <1>5, <3>4, <3>5, <3>6
  <2> QED
    BY <2>1, <2>3, <2>4, <2>5
<1>14. \/ l = 1 /\ p = 0
       \/ l = 2 /\ p = 0
       \/ l = 2 /\ p = 1
       \/ p = l
       \/ w = "nested" /\ p >= 1
       \/ p = l + 1 /\ w # "nested" /\ ~(l = 2 /\ p = 1)
  <2>1. p < size /\ (w # "nested" => size <= l + 2)
    BY <1>1, <1>2
  <2>2. CASE w = "nested"
    <3>1. l = 0
      BY <1>1, <2>2
    <3>2. p = 0 \/ p >= 1
      OBVIOUS
    <3> QED
      BY <2>2, <3>1, <3>2
  <2>3. CASE w # "nested"
    <3>1. p < l + 2
      BY <2>1, <2>3
    <3>2. l = 0 \/ l = 1 \/ l = 2
      OBVIOUS
    <3> QED
      BY <2>3, <3>1, <3>2
  <2> QED
    BY <2>2, <2>3
<1> QED
  BY <1>8, <1>9, <1>10, <1>11, <1>12, <1>13, <1>14

-----------------------------------------------------------------------------
(* A row being read.                                                       *)
Width(a) == Len(a.sent)
NameOf(a, i) == a.sent[i].name
ValueOf(a, r, i) == a.table[r][a.sent[i].column]

(* What the first i cells of a row say of a name, and what a row says when *)
(* the element before cell i has been read, but not the cell.              *)
Due(a, r, i, name, value) ==
    value # Null /\ \E j \in 1 .. i : NameOf(a, j) = name /\ ValueOf(a, r, j) = value
Says(a, r, i, row, columns) == \A m, v : Has(row, columns, m, v) <=> Due(a, r, i, m, v)
SaysFirst(a, r, i, row, columns) ==
    \A m, v : Has(row, columns, m, v) <=> IF m = NameOf(a, i) THEN v = "x" ELSE Due(a, r, i - 1, m, v)

InCell(a, r, i, n, s, o) ==
    LET from == a.cellEnd[r][i - 1]
    IN  /\ from <= n /\ n < a.cellEnd[r][i]
        /\ CellState(a.ornament, from, NameOf(a, i), n - from, s, o)
        /\ IF a.ornament = "repeated" /\ n - from >= 2 THEN SaysFirst(a, r, i, s.row, s.columns)
           ELSE Says(a, r, i - 1, s.row, s.columns)
AtEnd(a, r, i, n, s) == n = a.cellEnd[r][i] /\ Resting(s) /\ Says(a, r, i, s.row, s.columns)
InRow(a, r, n, s, o) == AtEnd(a, r, Width(a), n, s) \/ \E i \in 1 .. Width(a) : InCell(a, r, i, n, s, o)

LEMMA RowPlaces ==
    ASSUME NEW a, IsAnswer(a), NEW r \in 1 .. Len(a.table), CellsLie(a, r)
    PROVE  /\ Width(a) \in Nat /\ a.cellEnd[r] \in [0 .. Width(a) -> Nat] /\ Rising(a.cellEnd[r], Width(a))
           /\ a.rowEnd[r - 1] \in Nat /\ a.rowEnd[r] \in Nat /\ Len(a.doc) \in Nat
           /\ a.cellEnd[r][0] = a.rowEnd[r - 1] + 1 /\ a.rowEnd[r] = a.cellEnd[r][Width(a)] + 1
           /\ a.rowEnd[r] < Len(a.doc)
           /\ IsTag(a.doc[a.cellEnd[r][0]], "open", "row") /\ IsTag(a.doc[a.rowEnd[r]], "close", "row")
<1>1. PICK m \in Nat : m = Len(a.table)
  BY DEF IsAnswer, Sound, Sendable
<1>2. Width(a) \in Nat
  BY DEF IsAnswer, Sound, Sendable, Width
<1>3. /\ a.rowEnd \in [0 .. m -> Nat] /\ Rising(a.rowEnd, m) /\ Len(a.doc) = a.rowEnd[m] + 1
  BY <1>1 DEF IsAnswer, Around
<1>4. r \in 0 .. m /\ r - 1 \in 0 .. m /\ m \in 0 .. m
  BY <1>1
<1>5. a.rowEnd[r] <= a.rowEnd[m]
  BY <1>3, <1>4 DEF Rising
<1>6. a.rowEnd[r - 1] \in Nat /\ a.rowEnd[r] \in Nat /\ a.rowEnd[m] \in Nat
  BY <1>3, <1>4
<1>7. Len(a.doc) \in Nat /\ a.rowEnd[r] < Len(a.doc)
  BY <1>3, <1>5, <1>6
<1>8. /\ a.cellEnd[r] \in [0 .. Width(a) -> Nat] /\ Rising(a.cellEnd[r], Width(a))
      /\ a.cellEnd[r][0] = a.rowEnd[r - 1] + 1 /\ a.rowEnd[r] = a.cellEnd[r][Width(a)] + 1
      /\ IsTag(a.doc[a.cellEnd[r][0]], "open", "row") /\ IsTag(a.doc[a.rowEnd[r]], "close", "row")
  BY DEF CellsLie, Width
<1> QED
  BY <1>2, <1>6, <1>7, <1>8

LEMMA CellPlace ==
    ASSUME GrammarAssumption, Null \notin Values, NEW a, IsAnswer(a), NEW r \in 1 .. Len(a.table),
           CellsLie(a, r), NEW i \in 1 .. Width(a)
    PROVE  LET from == a.cellEnd[r][i - 1]
               to == a.cellEnd[r][i]
               value == ValueOf(a, r, i)
           IN  /\ from \in Nat /\ to \in Nat /\ from <= to /\ to < Len(a.doc)
               /\ NameOf(a, i) \in DOMAIN Encoded /\ value \in Texts \cup {Null}
               /\ value = Null => to = from
               /\ value # Null => /\ value \in Texts /\ to = from + CellSize(a.ornament, value)
                                  /\ CellThere(a.doc, from, a.ornament, NameOf(a, i), value)
<1>1a. PICK ends : ends = a.cellEnd[r]
  OBVIOUS
<1>1. PICK width \in Nat : width = Width(a) /\ ends = a.cellEnd[r]
  BY <1>1a, RowPlaces
<1>2. ends \in [0 .. width -> Nat] /\ Rising(ends, width) /\ ends[width] + 1 < Len(a.doc) /\ Len(a.doc) \in Nat
  BY <1>1, RowPlaces
<1>3. i \in 0 .. width /\ i - 1 \in 0 .. width /\ width \in 0 .. width /\ i - 1 \in 0 .. i /\ i \in 0 .. width
  BY <1>1
<1>4. PICK from \in Nat, to \in Nat : from = ends[i - 1] /\ to = ends[i]
  BY <1>2, <1>3
<1>5. from <= to /\ to < Len(a.doc)
  <2>1. ends[i - 1] <= ends[i] /\ ends[i] <= ends[width] /\ ends[width] \in Nat
    BY <1>2, <1>3 DEF Rising
  <2> QED
    BY <1>2, <1>4, <2>1
<1>6. PICK value, name : value = ValueOf(a, r, i) /\ name = NameOf(a, i)
  OBVIOUS
<1>7. name \in DOMAIN Encoded /\ value \in Texts \cup {Null}
  BY <1>1, <1>6 DEF IsAnswer, Sound, Sendable, Columns, Width, NameOf, ValueOf
<1>8. PICK part : part = CellMarkup(a.table[r], a.sent[i], a.ornament)
  OBVIOUS
<1>9. MarksOf(a, r)[i] = part
  BY <1>8 DEF MarksOf, CellsOf, Width
<1>10. to = from + Len(part) /\ \A j \in 1 .. Len(part) : Alike(a.doc[from + j], part[j])
  BY <1>1, <1>4, <1>9 DEF CellsLie, Width
<1>11. CASE value = Null
  <2>1. part = <<>>
    BY <1>6, <1>7, <1>8, <1>11, CellMarkupIs DEF NameOf, ValueOf
  <2>2. to = from
    BY <1>10, <2>1
  <2> QED
    BY <1>1, <1>4, <1>5, <1>6, <1>7, <1>11, <2>2
<1>12. CASE value # Null
  <2>1. CellWritten(part, a.ornament, Encoded[name], value)
    BY <1>6, <1>7, <1>8, <1>12, CellMarkupIs DEF NameOf, ValueOf
  <2>2. CellThere(a.doc, from, a.ornament, name, value) /\ Len(part) = CellSize(a.ornament, value)
    <3>1. PICK d, w : d = a.doc /\ w = a.ornament
      OBVIOUS
    <3>2. CellWritten(part, w, Encoded[name], value)
      BY <2>1, <3>1
    <3>3. Placed(d, from, part)
      BY <1>10, <3>1 DEF Placed
    <3>4. CellThere(d, from, w, name, value) /\ Len(part) = CellSize(w, value)
      BY <3>2, <3>3, CellIsThere
    <3> QED
      BY <3>1, <3>4
  <2> QED
    BY <1>1, <1>4, <1>5, <1>6, <1>7, <1>10, <1>12, <2>2
<1> QED
  BY <1>11, <1>12

(* A cell that is read joins what the row says.                            *)
LEMMA SaysNext ==
    ASSUME NEW a, IsAnswer(a), NEW r \in 1 .. Len(a.table), NEW i \in 1 .. Width(a), NEW s, NEW t,
           Sets(s, t, NameOf(a, i), ValueOf(a, r, i)), ValueOf(a, r, i) # Null,
           Says(a, r, i - 1, s.row, s.columns) \/ SaysFirst(a, r, i, s.row, s.columns)
    PROVE  Says(a, r, i, t.row, t.columns)
<1>1. Width(a) \in Nat /\ \A j, k \in 1 .. Width(a) : NameOf(a, j) = NameOf(a, k) => ValueOf(a, r, j) = ValueOf(a, r, k)
  BY DEF IsAnswer, Sound, Sendable, Width, NameOf, ValueOf
<1>2. ASSUME NEW v PROVE Due(a, r, i, NameOf(a, i), v) <=> v = ValueOf(a, r, i)
  <2>1. \A j \in 1 .. i : j \in 1 .. Width(a)
    BY <1>1
  <2>2. i \in 1 .. i
    BY <1>1
  <2> QED
    BY <1>1, <2>1, <2>2 DEF Due
<1>3. ASSUME NEW m, NEW v, m # NameOf(a, i) PROVE Due(a, r, i, m, v) <=> Due(a, r, i - 1, m, v)
  <2>1. \A j : j \in 1 .. i <=> j \in 1 .. (i - 1) \/ j = i
    BY <1>1
  <2> QED
    BY <1>3, <2>1 DEF Due
<1>4. ASSUME NEW m, NEW v PROVE Has(t.row, t.columns, m, v) <=> Due(a, r, i, m, v)
  <2>1. CASE m = NameOf(a, i)
    BY <1>2, <2>1 DEF Sets
  <2>2. CASE m # NameOf(a, i)
    <3>1. Has(s.row, s.columns, m, v) <=> Due(a, r, i - 1, m, v)
      BY <2>2 DEF Says, SaysFirst
    <3> QED
      BY <1>3, <2>2, <3>1 DEF Sets
  <2> QED
    BY <2>1, <2>2
<1> QED
  BY <1>4 DEF Says

(* Where a cell ends, the next that is not null begins, or the cells end.  *)
LEMMA RestFinds ==
    ASSUME GrammarAssumption, Null \notin Values, NEW a, IsAnswer(a), NEW r \in 1 .. Len(a.table),
           CellsLie(a, r), NEW i \in 0 .. Width(a), NEW n, NEW s, NEW o, AtEnd(a, r, i, n, s)
    PROVE  InRow(a, r, n, s, o)
<1>1a. PICK ends : ends = a.cellEnd[r]
  OBVIOUS
<1>1. PICK width \in Nat : width = Width(a) /\ ends = a.cellEnd[r]
  BY <1>1a, RowPlaces
<1>2. ends \in [0 .. width -> Nat] /\ Rising(ends, width)
  BY <1>1, RowPlaces
<1>3. n = ends[i] /\ n \in Nat /\ Resting(s) /\ Says(a, r, i, s.row, s.columns)
  BY <1>1, <1>2 DEF AtEnd
<1>4. ASSUME NEW k \in i .. width, ends[k] = n
      PROVE  Says(a, r, k, s.row, s.columns)
  <2>1. ASSUME NEW j \in 1 .. k, j \notin 1 .. i PROVE ValueOf(a, r, j) = Null
    <3>1. j \in 1 .. width /\ j \in 0 .. width /\ j - 1 \in 0 .. width /\ k \in 0 .. width /\ i <= j - 1
          /\ i \in 0 .. (j - 1) /\ j \in 0 .. k
      BY <1>1, <2>1
    <3>2. ends[i] <= ends[j - 1] /\ ends[j] <= ends[k] /\ ends[j] \in Nat /\ ends[j - 1] \in Nat
      BY <1>2, <3>1 DEF Rising
    <3>3. PICK from \in Nat, to \in Nat : from = ends[j - 1] /\ to = ends[j] /\ from >= n /\ to <= n
      BY <1>3, <1>4, <3>2
    <3>4. PICK value : value = ValueOf(a, r, j)
      OBVIOUS
    <3>5. value # Null => to = from + CellSize(a.ornament, value)
      BY <1>1, <3>1, <3>3, <3>4, CellPlace
    <3>6. CellSize(a.ornament, value) \in Nat /\ CellSize(a.ornament, value) > 0
      BY DEF CellSize, Lead
    <3>7. value = Null
      BY <1>3, <3>3, <3>5, <3>6
    <3> QED
      BY <3>4, <3>7
  <2>2. \A j \in 1 .. i : j \in 1 .. k
    BY <1>1
  <2>3. \A m, v : Due(a, r, k, m, v) <=> Due(a, r, i, m, v)
    BY <2>1, <2>2 DEF Due
  <2> QED
    BY <1>3, <2>3 DEF Says
<1>5. CASE ends[width] = n
  <2>1. Says(a, r, width, s.row, s.columns)
    BY <1>1, <1>4, <1>5
  <2> QED
    BY <1>1, <1>3, <1>5, <2>1 DEF InRow, AtEnd
<1>6. CASE ends[width] # n
  <2>1. PICK S : S = {k \in 0 .. width : ends[k] > n}
    OBVIOUS
  <2>2. width \in S
    <3>1. i \in 0 .. width /\ width \in 0 .. width
      BY <1>1
    <3>2. ends[i] <= ends[width] /\ ends[width] \in Nat
      BY <1>2, <3>1 DEF Rising
    <3> QED
      BY <1>3, <1>6, <2>1, <3>1, <3>2
  <2>3. S \subseteq Nat /\ S # {}
    BY <2>1, <2>2
  <2>4. PICK k \in S : \A j \in S : k <= j
    BY <2>3, LeastNumber
  <2>5. k \in 0 .. width /\ ends[k] > n
    BY <2>1
  <2>6. k > i
    <3>1. ASSUME k <= i PROVE FALSE
      <4>1. k \in 0 .. i /\ i \in 0 .. width
        BY <1>1, <2>5, <3>1
      <4>2. ends[k] <= ends[i]
        BY <1>2, <4>1 DEF Rising
      <4>3. ends[k] \in Nat
        BY <1>2, <2>5
      <4> QED
        BY <1>3, <2>5, <4>2, <4>3
    <3> QED
      BY <1>1, <2>5, <3>1
  <2>7. k - 1 \in i .. width /\ k - 1 \in 0 .. width /\ k \in 1 .. width /\ i \in 0 .. (k - 1)
    BY <1>1, <2>5, <2>6
  <2>8. ends[k - 1] = n
    <3>1. k - 1 \notin S
      BY <2>4, <2>5
    <3>2. ends[k - 1] \in Nat /\ ends[i] <= ends[k - 1]
      BY <1>2, <2>7 DEF Rising
    <3> QED
      BY <1>3, <2>1, <2>7, <3>1, <3>2
  <2>9. Says(a, r, k - 1, s.row, s.columns)
    BY <1>4, <2>7, <2>8
  <2>10. n - n = 0 /\ n <= n /\ ~(n - n >= 2)
    BY <1>3
  <2>11. CellState(a.ornament, n, NameOf(a, k), n - n, s, o)
    BY <1>3, <2>10 DEF CellState
  <2>12. InCell(a, r, k, n, s, o)
    BY <1>1, <2>5, <2>8, <2>9, <2>10, <2>11 DEF InCell
  <2> QED
    BY <1>1, <2>7, <2>12 DEF InRow
<1> QED
  BY <1>5, <1>6

(* A construct of a row, other than its own tags.                          *)
LEMMA RowStep ==
    ASSUME GrammarAssumption, Null \notin Values, NEW a, IsAnswer(a), NEW r \in 1 .. Len(a.table),
           CellsLie(a, r), NEW n \in Nat, n < a.cellEnd[r][Width(a)], NEW s, Fit(s), NEW o,
           InRow(a, r, n, s, o), NEW rs, NEW t, NEW q, NEW ss, ReadOne(a.doc, n, s, o, rs, t, q, ss)
    PROVE  InRow(a, r, n + 1, t, q) /\ Goes(s, t, rs, ss) /\ ~RowEndAt(a.doc, n + 1)
<1>1. PICK i \in 1 .. Width(a) : InCell(a, r, i, n, s, o)
  <2>1. ~AtEnd(a, r, Width(a), n, s)
    <3>1. a.cellEnd[r][Width(a)] \in Nat
      BY RowPlaces
    <3> QED
      BY <3>1 DEF AtEnd
  <2> QED
    BY <2>1 DEF InRow
<1>2a. PICK name, value, w, d : name = NameOf(a, i) /\ value = ValueOf(a, r, i) /\ w = a.ornament /\ d = a.doc
  OBVIOUS
<1>2. PICK from \in Nat, to \in Nat :
          /\ from = a.cellEnd[r][i - 1] /\ to = a.cellEnd[r][i] /\ name = NameOf(a, i)
          /\ value = ValueOf(a, r, i) /\ w = a.ornament /\ d = a.doc
  BY <1>2a, CellPlace
<1>3. from <= n /\ n < to
  BY <1>1, <1>2 DEF InCell
<1>4. /\ to < Len(d) /\ name \in DOMAIN Encoded /\ value # Null /\ value \in Texts
      /\ to = from + CellSize(w, value) /\ CellThere(d, from, w, name, value)
  BY <1>2, <1>3, CellPlace
<1>5. PICK p \in Nat : p = n - from /\ n = from + p
  BY <1>3
<1>6. /\ CellState(w, from, name, p, s, o)
      /\ IF w = "repeated" /\ p >= 2 THEN SaysFirst(a, r, i, s.row, s.columns)
         ELSE Says(a, r, i - 1, s.row, s.columns)
  BY <1>1, <1>2, <1>5 DEF InCell
<1>7. PICK size \in Nat : size = CellSize(w, value) /\ to = from + size /\ p < size
  <2>1. CellSize(w, value) \in Nat
    BY DEF CellSize, Lead
  <2> QED
    BY <1>3, <1>4, <1>5, <2>1
<1>8. IsDocument(d)
  BY <1>2 DEF IsAnswer, Sound
<1>9. ReadOne(d, from + p, s, o, rs, t, q, ss)
  BY <1>2, <1>5
<1>10. /\ Goes(s, t, rs, ss) /\ ~RowEndAt(d, n + 1)
       /\ IF p + 1 = size THEN Resting(t) /\ Sets(s, t, name, value)
          ELSE /\ CellState(w, from, name, p + 1, t, q)
               /\ IF w = "repeated" /\ p = 1 THEN Sets(s, t, name, "x") ELSE Same(s, t)
  <2>1. from + CellSize(w, value) < Len(d) /\ p < CellSize(w, value)
    BY <1>4, <1>7
  <2>2. /\ Goes(s, t, rs, ss) /\ ~RowEndAt(d, from + p + 1)
        /\ IF p + 1 = CellSize(w, value) THEN Resting(t) /\ Sets(s, t, name, value)
           ELSE /\ CellState(w, from, name, p + 1, t, q)
                /\ IF w = "repeated" /\ p = 1 THEN Sets(s, t, name, "x") ELSE Same(s, t)
    BY <1>4, <1>6, <1>8, <1>9, <2>1, CellStep
  <2> QED
    BY <1>5, <1>7, <2>2
<1>11. CASE p + 1 = size
  <2>1. Says(a, r, i, t.row, t.columns)
    BY <1>2, <1>4, <1>6, <1>10, <1>11, SaysNext
  <2>2. n + 1 = to
    BY <1>5, <1>7, <1>11
  <2>3. AtEnd(a, r, i, n + 1, t)
    BY <1>2, <1>10, <1>11, <2>1, <2>2 DEF AtEnd
  <2>4. i \in 0 .. Width(a)
    BY RowPlaces
  <2>5. InRow(a, r, n + 1, t, q)
    BY <2>3, <2>4, RestFinds
  <2> QED
    BY <1>2, <1>10, <2>5
<1>12. CASE p + 1 # size
  <2>1. /\ CellState(w, from, name, p + 1, t, q)
        /\ IF w = "repeated" /\ p = 1 THEN Sets(s, t, name, "x") ELSE Same(s, t)
    BY <1>10, <1>12
  <2>2. (n + 1) - from = p + 1 /\ from <= n + 1 /\ n + 1 < to
    BY <1>5, <1>7, <1>12
  <2>3. IF w = "repeated" /\ p + 1 >= 2 THEN SaysFirst(a, r, i, t.row, t.columns)
        ELSE Says(a, r, i - 1, t.row, t.columns)
    <3>1. CASE w = "repeated" /\ p = 1
      <4>1. Sets(s, t, name, "x") /\ Says(a, r, i - 1, s.row, s.columns)
        BY <1>6, <2>1, <3>1
      <4>2. SaysFirst(a, r, i, t.row, t.columns)
        BY <1>2, <4>1 DEF Sets, Says, SaysFirst
      <4> QED
        BY <3>1, <4>2
    <3>2. CASE ~(w = "repeated" /\ p = 1)
      <4>1. t.row = s.row /\ t.columns = s.columns
        BY <2>1, <3>2 DEF Same
      <4>2. w = "repeated" => (p + 1 >= 2 <=> p >= 2)
        BY <3>2
      <4> QED
        BY <1>6, <4>1, <4>2
    <3> QED
      BY <3>1, <3>2
  <2>4. InCell(a, r, i, n + 1, t, q)
    BY <1>2, <2>1, <2>2, <2>3 DEF InCell
  <2> QED
    BY <1>2, <1>10, <2>4 DEF InRow
<1> QED
  BY <1>11, <1>12

(* Between the rows, before the first and after the last.                  *)
Outside(a, r, n, s) ==
    /\ s.row_depth < 0 /\ s.field = EmptyString
    /\ \/ n <= 2 /\ r = 0 /\ s.depth = IF n = 2 THEN 1 ELSE 0
       \/ n = a.rowEnd[r] /\ s.depth = 1
       \/ n = Len(a.doc) /\ r = Len(a.table)

(* The tag that opens a row.                                               *)
LEMMA RowStarts ==
    ASSUME GrammarAssumption, Null \notin Values, NEW a, IsAnswer(a), NEW r \in 1 .. Len(a.table),
           CellsLie(a, r), NEW n \in Nat, n = a.rowEnd[r - 1], NEW s, Fit(s), NEW o,
           s.row_depth < 0, s.field = EmptyString, s.depth = 1,
           NEW rs, NEW t, NEW q, NEW ss, ReadOne(a.doc, n, s, o, rs, t, q, ss)
    PROVE  InRow(a, r, n + 1, t, q) /\ Goes(s, t, rs, ss) /\ ~RowEndAt(a.doc, n + 1)
<1>1. a.cellEnd[r][0] = n + 1 /\ IsTag(a.doc[n + 1], "open", "row") /\ 0 \in 0 .. Width(a)
  BY RowPlaces
<1>2. "row" \in Names
  BY DEF GrammarAssumption
<1>3. t = Opened(s, "row") /\ ss = rs
  BY <1>1 DEF ReadOne, IsTag
<1>4. /\ Fit(t) /\ t.columns = s.columns /\ t.depth = 2 /\ t.row_depth = 1 /\ t.row = <<>>
      /\ t.field = EmptyString
  BY <1>2, <1>3, OpenedIs
<1>5. Says(a, r, 0, t.row, t.columns)
  <2>1. Len(t.row) = 0
    BY <1>4
  <2> QED
    BY <2>1 DEF Says, Has, Due
<1>6. AtEnd(a, r, 0, n + 1, t)
  BY <1>1, <1>4, <1>5 DEF AtEnd, Resting
<1>7. InRow(a, r, n + 1, t, q)
  BY <1>1, <1>6, RestFinds
<1>8. Goes(s, t, rs, ss)
  BY <1>3, <1>4, GrowsItself DEF Goes
<1> QED
  BY <1>1, <1>7, <1>8 DEF RowEndAt, IsTag

(* The tag that closes a row.                                              *)
CellsOver(a, r, n) == n = a.cellEnd[r][Width(a)]
RowFound(a, r, columns, rs, ss) ==
    \E row \in Seq(Cell) : /\ ss = Append(rs, row) /\ Known(row, columns)
                           /\ Says(a, r, Width(a), row, columns)

LEMMA RowEnds ==
    ASSUME GrammarAssumption, Null \notin Values, NEW a, IsAnswer(a), NEW r \in 1 .. Len(a.table),
           CellsLie(a, r), NEW n \in Nat, CellsOver(a, r, n), NEW s, Fit(s), NEW o,
           InRow(a, r, n, s, o), NEW rs, NEW t, NEW q, NEW ss, ReadOne(a.doc, n, s, o, rs, t, q, ss)
    PROVE  /\ Outside(a, r, n + 1, t) /\ n + 1 = a.rowEnd[r] /\ Fit(t) /\ t.columns = s.columns
           /\ RowFound(a, r, t.columns, rs, ss)
<1>0. n = a.cellEnd[r][Width(a)]
  BY DEF CellsOver
<1>1. AtEnd(a, r, Width(a), n, s)
  <2>1. ASSUME NEW i \in 1 .. Width(a), InCell(a, r, i, n, s, o) PROVE FALSE
    <3>1. Width(a) \in Nat /\ a.cellEnd[r] \in [0 .. Width(a) -> Nat] /\ Rising(a.cellEnd[r], Width(a))
      BY RowPlaces
    <3>2. Width(a) \in 0 .. Width(a) /\ i \in 0 .. Width(a)
      BY <3>1
    <3>3. a.cellEnd[r][i] <= n /\ a.cellEnd[r][i] \in Nat
      BY <1>0, <3>1, <3>2 DEF Rising
    <3>4. n < a.cellEnd[r][i]
      BY <2>1 DEF InCell
    <3> QED
      BY <1>0, <3>3, <3>4
  <2> QED
    BY <2>1 DEF InRow
<1>2. Resting(s) /\ Says(a, r, Width(a), s.row, s.columns)
  BY <1>1 DEF AtEnd
<1>3. IsTag(a.doc[n + 1], "close", "row") /\ n + 1 = a.rowEnd[r]
  BY <1>0, RowPlaces
<1>4. TextAt(a.doc, o) \in Values
  BY TextAtTyped DEF IsAnswer, Sound
<1>5. PICK after : after = Closed(s, TextAt(a.doc, o))
  OBVIOUS
<1>6. ~EndsField(s) /\ Less(s.depth) = 1
  BY <1>2 DEF Resting, EndsField, Less
<1>7. /\ Fit(after) /\ after.depth = 1 /\ after.row_depth = s.row_depth /\ after.columns = s.columns
      /\ after.row = s.row
  BY <1>4, <1>5, <1>6, ClosedIs
<1>8. ClosesRow(after, "row")
  BY <1>2, <1>7 DEF ClosesRow, Resting
<1>9. t = RowTaken(after) /\ ss = Append(rs, after.row)
  BY <1>3, <1>5, <1>8 DEF ReadOne, IsTag
<1>10. /\ Fit(t) /\ t.columns = s.columns /\ t.depth = 1 /\ t.row_depth < 0 /\ t.field = EmptyString
  BY <1>7, <1>9, RowTakenIs
<1>11. Outside(a, r, n + 1, t)
  BY <1>3, <1>10 DEF Outside
<1>12. s.row \in Seq(Cell) /\ Known(s.row, s.columns)
  BY StateParts DEF Fit
<1> QED
  BY <1>2, <1>3, <1>7, <1>9, <1>10, <1>11, <1>12 DEF RowFound

(* Outside of rows a tag changes the depth at most.                        *)
Passes(item, s, t, rs, ss) ==
    /\ Goes(s, t, rs, ss) /\ t.row_depth < 0 /\ t.field = EmptyString
    /\ item.kind \in {"skip", "empty"} => t.depth = s.depth
    /\ item.kind = "open" => t.depth = s.depth + 1
    /\ item.kind = "close" => t.depth = Less(s.depth)

LEMMA OutsideReads ==
    ASSUME GrammarAssumption, NEW d, IsDocument(d), NEW n, NEW s, Fit(s), s.row_depth < 0,
           s.field = EmptyString, NEW o, NEW rs, NEW t, NEW q, NEW ss, ReadOne(d, n, s, o, rs, t, q, ss),
           ~IsTag(d[n + 1], "open", "row"), d[n + 1].name \in Names
    PROVE  Passes(d[n + 1], s, t, rs, ss)
<1>0. s.row_depth \in Int
  BY StateParts DEF Fit
<1>1. PICK item : item = d[n + 1]
  OBVIOUS
<1>2. ~IsField(s) /\ ~EndsField(s)
  BY <1>0 DEF IsField, EndsField
<1>3. CASE item.kind = "skip"
  <2>1. t = s /\ ss = rs
    BY <1>1, <1>3 DEF ReadOne
  <2> QED
    BY <1>1, <1>3, <2>1, GrowsItself DEF Goes, Passes
<1>4. CASE item.kind = "open"
  <2>1. t = Opened(s, item.name) /\ ss = rs /\ item.name # "row" /\ item.name \in Names
    BY <1>1, <1>4 DEF ReadOne, IsTag
  <2>2. /\ Fit(t) /\ t.columns = s.columns /\ t.depth = s.depth + 1 /\ t.row_depth = s.row_depth
        /\ t.field = s.field
    BY <1>2, <2>1, OpenedIs
  <2> QED
    BY <1>1, <1>2, <1>4, <2>1, <2>2, GrowsItself DEF Goes, Passes
<1>5. CASE item.kind = "empty"
  <2>1. t = SelfClosed(s, item.name) /\ ss = rs
    BY <1>1, <1>5 DEF ReadOne
  <2>2. t = s
    BY <1>1, <1>2, <2>1, SelfClosedIs
  <2> QED
    BY <1>1, <1>5, <2>1, <2>2, GrowsItself DEF Goes, Passes
<1>6. CASE item.kind = "close"
  <2>1. PICK value \in Values : value = TextAt(d, o)
    BY TextAtTyped
  <2>2. PICK after : after = Closed(s, value)
    OBVIOUS
  <2>3. /\ Fit(after) /\ after.columns = s.columns /\ after.depth = Less(s.depth)
        /\ after.row_depth = s.row_depth /\ after.field = s.field
    BY <1>2, <2>2, ClosedIs
  <2>4. ~ClosesRow(after, item.name)
    BY <1>0, <2>3 DEF ClosesRow
  <2>5. t = after /\ ss = rs
    BY <1>1, <1>6, <2>1, <2>2, <2>4 DEF ReadOne
  <2> QED
    BY <1>1, <1>6, <2>3, <2>5, GrowsItself DEF Goes, Passes
<1> QED
  BY <1>1, <1>3, <1>4, <1>5, <1>6 DEF ReadOne

LEMMA RowEndsRise ==
    ASSUME NEW a, IsAnswer(a), NEW r \in 0 .. Len(a.table)
    PROVE  /\ Len(a.table) \in Nat /\ a.rowEnd[r] \in Nat /\ 3 <= a.rowEnd[r] /\ a.rowEnd[0] = 3
           /\ Len(a.doc) \in Nat /\ a.rowEnd[r] < Len(a.doc) /\ Len(a.doc) = a.rowEnd[Len(a.table)] + 1
<1>1. PICK m \in Nat : m = Len(a.table)
  BY DEF IsAnswer, Sound, Sendable
<1>2. /\ a.rowEnd \in [0 .. m -> Nat] /\ Rising(a.rowEnd, m) /\ Len(a.doc) = a.rowEnd[m] + 1 /\ a.rowEnd[0] = 3
  BY <1>1 DEF IsAnswer, Around
<1>3. r \in 0 .. m /\ m \in 0 .. m /\ 0 \in 0 .. r
  BY <1>1
<1>4. a.rowEnd[r] <= a.rowEnd[m] /\ a.rowEnd[0] <= a.rowEnd[r] /\ a.rowEnd[r] \in Nat /\ a.rowEnd[m] \in Nat
  BY <1>2, <1>3 DEF Rising
<1> QED
  BY <1>1, <1>2, <1>4

(* A construct outside of the rows that are more than one construct.       *)
LEMMA OutsideStep ==
    ASSUME GrammarAssumption, NEW a, IsAnswer(a), NEW r \in 0 .. Len(a.table), NEW n \in Nat,
           NEW s, Fit(s), Outside(a, r, n, s), NEW o, NEW rs, NEW t, NEW q, NEW ss,
           ReadOne(a.doc, n, s, o, rs, t, q, ss),
           n = a.rowEnd[r] /\ r < Len(a.table) => RowLost(a, r + 1)
    PROVE  /\ Goes(s, t, rs, ss) /\ ~RowEndAt(a.doc, n + 1)
           /\ \/ Outside(a, r, n + 1, t)
              \/ SelfClosing /\ r + 1 \in 0 .. Len(a.table) /\ Outside(a, r + 1, n + 1, t)
<1>1a. PICK d : d = a.doc
  OBVIOUS
<1>1. PICK m \in Nat : d = a.doc /\ m = Len(a.table) /\ IsDocument(d) /\ Len(d) \in Nat
  BY <1>1a, RowEndsRise DEF IsAnswer, Sound
<1>2. /\ d[1].kind = "skip" \/ IsTag(d[1], "close", EmptyString)
      /\ IsTag(d[2], "open", "root") /\ IsTag(d[3], "empty", "schema") /\ IsTag(d[Len(d)], "close", "root")
      /\ Len(d) = a.rowEnd[m] + 1
  BY <1>1 DEF IsAnswer, Around
<1>3. a.rowEnd[r] \in Nat /\ 3 <= a.rowEnd[r] /\ a.rowEnd[r] < Len(d)
  BY <1>1, RowEndsRise
<1>4. s.row_depth < 0 /\ s.field = EmptyString
  BY DEF Outside
<1>5. n < Len(d) /\ n + 1 \in 1 .. Len(d)
  BY <1>1 DEF ReadOne
<1>6. d[n + 1].name \in Names
  BY <1>1, <1>5, ConstructTyped
<1>7. ReadOne(d, n, s, o, rs, t, q, ss)
  BY <1>1
<1>8. ASSUME ~IsTag(d[n + 1], "open", "row")
      PROVE  /\ Goes(s, t, rs, ss) /\ t.row_depth < 0 /\ t.field = EmptyString
             /\ d[n + 1].kind \in {"skip", "empty"} => t.depth = s.depth
             /\ d[n + 1].kind = "open" => t.depth = s.depth + 1
             /\ d[n + 1].kind = "close" => t.depth = Less(s.depth)
  <2>1. IsDocument(d) /\ Fit(s) /\ s.row_depth < 0 /\ s.field = EmptyString /\ ~IsTag(d[n + 1], "open", "row")
        /\ d[n + 1].name \in Names /\ ReadOne(d, n, s, o, rs, t, q, ss)
    BY <1>1, <1>4, <1>6, <1>7, <1>8
  <2>2. Passes(d[n + 1], s, t, rs, ss)
    BY <2>1, OutsideReads
  <2> QED
    BY <2>2 DEF Passes
<1>9. "row" # "root" /\ EmptyString # "row"
  BY DEF EmptyString
<1>10. CASE n <= 2
  <2>1. r = 0 /\ s.depth = IF n = 2 THEN 1 ELSE 0
    BY <1>1, <1>3, <1>5, <1>10 DEF Outside
  <2>2. CASE n = 0
    <3>1. n + 1 = 1 /\ n + 1 # 2 /\ n + 1 <= 2
      BY <2>2
    <3>2. ~IsTag(d[n + 1], "open", "row") /\ ~RowEndAt(d, n + 1) /\ d[n + 1].kind \in {"skip", "close"}
      BY <1>2, <1>9, <3>1 DEF IsTag, RowEndAt
    <3>3. t.depth = 0
      BY <1>8, <2>1, <2>2, <3>2 DEF Less
    <3>4. Outside(a, r, n + 1, t)
      BY <1>8, <2>1, <3>1, <3>2, <3>3 DEF Outside
    <3> QED
      BY <1>1, <1>8, <3>2, <3>4
  <2>3. CASE n = 1
    <3>1. n + 1 = 2 /\ n # 2
      BY <2>3
    <3>2. ~IsTag(d[n + 1], "open", "row") /\ ~RowEndAt(d, n + 1) /\ d[n + 1].kind = "open"
      BY <1>2, <1>9, <3>1 DEF IsTag, RowEndAt
    <3>3. t.depth = 1
      BY <1>8, <2>1, <3>1, <3>2
    <3>4. Outside(a, r, n + 1, t)
      BY <1>8, <2>1, <3>1, <3>2, <3>3 DEF Outside
    <3> QED
      BY <1>1, <1>8, <3>2, <3>4
  <2>4. CASE n = 2
    <3>1. n + 1 = 3
      BY <2>4
    <3>2. ~IsTag(d[n + 1], "open", "row") /\ ~RowEndAt(d, n + 1) /\ d[n + 1].kind = "empty"
      BY <1>2, <3>1 DEF IsTag, RowEndAt
    <3>3. t.depth = 1
      BY <1>8, <2>1, <2>4, <3>2
    <3>4. n + 1 = a.rowEnd[r]
      BY <2>1, <3>1, RowEndsRise
    <3>5. Outside(a, r, n + 1, t)
      BY <1>8, <3>2, <3>3, <3>4 DEF Outside
    <3> QED
      BY <1>1, <1>8, <3>2, <3>5
  <2> QED
    BY <1>10, <2>2, <2>3, <2>4
<1>11. CASE ~(n <= 2)
  <2>1. n = a.rowEnd[r] /\ s.depth = 1
    BY <1>1, <1>5, <1>11 DEF Outside
  <2>2. CASE r < m
    <3>1. PICK r1 \in 1 .. m : r1 = r + 1 /\ r1 - 1 = r
      BY <1>1, <2>2
    <3>2. RowLost(a, r1)
      BY <1>1, <2>1, <2>2, <3>1
    <3>3. SelfClosing /\ a.rowEnd[r1] = n + 1 /\ IsTag(d[n + 1], "empty", "row")
      BY <1>1, <2>1, <3>1, <3>2 DEF RowLost
    <3>4. ~IsTag(d[n + 1], "open", "row") /\ ~RowEndAt(d, n + 1) /\ d[n + 1].kind = "empty"
      BY <3>3 DEF IsTag, RowEndAt
    <3>5. Outside(a, r1, n + 1, t)
      BY <1>8, <2>1, <3>3, <3>4 DEF Outside
    <3>6. r1 \in 0 .. Len(a.table)
      BY <1>1
    <3> QED
      BY <1>1, <1>8, <3>1, <3>3, <3>4, <3>5, <3>6
  <2>3. CASE ~(r < m)
    <3>1. r = m /\ n + 1 = Len(d)
      BY <1>1, <1>2, <2>1, <2>3
    <3>2. ~IsTag(d[n + 1], "open", "row") /\ ~RowEndAt(d, n + 1) /\ d[n + 1].kind = "close"
      BY <1>2, <1>9, <3>1 DEF IsTag, RowEndAt
    <3>3. Outside(a, r, n + 1, t)
      BY <1>1, <1>8, <3>1, <3>2 DEF Outside
    <3> QED
      BY <1>1, <1>8, <3>2, <3>3
  <2> QED
    BY <2>2, <2>3
<1> QED
  BY <1>10, <1>11

-----------------------------------------------------------------------------
(* Where the parser is in an answer, and the rows it has found.            *)
RowsRead(a, r, columns, rs) ==
    \/ SelfClosing
    \/ Len(rs) = r /\ \A j \in 1 .. r : Known(rs[j], columns) /\ Says(a, j, Width(a), rs[j], columns)
Before(a, r, n, s, o) == r < Len(a.table) /\ CellsLie(a, r + 1) /\ InRow(a, r + 1, n, s, o)
Where(a, n, s, o, rs) ==
    /\ n \in Nat /\ Fit(s) /\ rs \in Seq(Seq(Cell))
    /\ \E r \in 0 .. Len(a.table) :
          RowsRead(a, r, s.columns, rs) /\ (Outside(a, r, n, s) \/ Before(a, r, n, s, o))
OneMore(rs, ss) == \E row \in Seq(Cell) : ss = Append(rs, row)

LEMMA RowsReadStay ==
    ASSUME NEW a, NEW r, NEW before \in Seq(Names), NEW after \in Seq(Names), Grows(before, after),
           NEW rs, RowsRead(a, r, before, rs)
    PROVE  RowsRead(a, r, after, rs)
<1>1. ASSUME NEW j \in 1 .. r, Known(rs[j], before), Says(a, j, Width(a), rs[j], before)
      PROVE  Known(rs[j], after) /\ Says(a, j, Width(a), rs[j], after)
  <2>1. \A name, value : Has(rs[j], after, name, value) <=> Has(rs[j], before, name, value)
    BY <1>1, HasStays
  <2> QED
    BY <1>1, <2>1, KnownStays DEF Says
<1> QED
  BY <1>1 DEF RowsRead

(* A row read is one more row.                                             *)
LEMMA RowsReadMore ==
    ASSUME NEW a, NEW r \in Nat, NEW columns, NEW rs \in Seq(Seq(Cell)), RowsRead(a, r, columns, rs),
           NEW row \in Seq(Cell), Known(row, columns), Says(a, r + 1, Width(a), row, columns)
    PROVE  RowsRead(a, r + 1, columns, Append(rs, row))
<1>1. CASE SelfClosing
  BY <1>1 DEF RowsRead
<1>2. CASE ~SelfClosing
  <2>1. Len(rs) = r /\ \A j \in 1 .. r : Known(rs[j], columns) /\ Says(a, j, Width(a), rs[j], columns)
    BY <1>2 DEF RowsRead
  <2>2. PICK ss : ss = Append(rs, row)
    OBVIOUS
  <2>3. Len(ss) = r + 1 /\ ss[r + 1] = row /\ \A j \in 1 .. r : ss[j] = rs[j]
    BY <2>1, <2>2, AppendProperties
  <2>4. ASSUME NEW j \in 1 .. (r + 1) PROVE Known(ss[j], columns) /\ Says(a, j, Width(a), ss[j], columns)
    <3>1. j \in 1 .. r \/ j = r + 1
      OBVIOUS
    <3> QED
      BY <2>1, <2>3, <3>1
  <2> QED
    BY <2>2, <2>3, <2>4 DEF RowsRead
<1> QED
  BY <1>1, <1>2

(* The end of a row is followed by another row or by the end of them all.  *)
LEMMA EndIsRowEnd ==
    ASSUME NEW a, IsAnswer(a), NEW r \in 1 .. Len(a.table), CellsLie(a, r)
    PROVE  RowEndAt(a.doc, a.rowEnd[r])
<1>1. IsTag(a.doc[a.rowEnd[r]], "close", "row")
  BY RowPlaces
<1>2. PICK m \in Nat : m = Len(a.table)
  BY DEF IsAnswer, Sound, Sendable
<1>3. CASE r = m
  <2>1. IsTag(a.doc[a.rowEnd[r] + 1], "close", "root")
    BY <1>2, <1>3 DEF IsAnswer, Around
  <2> QED
    BY <1>1, <2>1 DEF RowEndAt, IsTag
<1>4. CASE r # m
  <2>1. PICK r1 \in 1 .. Len(a.table) : r1 = r + 1 /\ r1 - 1 = r
    BY <1>2, <1>4
  <2>2. RowLost(a, r1) \/ CellsLie(a, r1)
    BY DEF IsAnswer
  <2>3. a.doc[a.rowEnd[r] + 1].kind # "close"
    <3>1. CASE RowLost(a, r1)
      BY <2>1, <3>1 DEF RowLost, IsTag
    <3>2. CASE CellsLie(a, r1)
      BY <2>1, <3>2 DEF CellsLie, IsTag
    <3> QED
      BY <2>2, <3>1, <3>2
  <2> QED
    BY <1>1, <2>3 DEF RowEndAt
<1> QED
  BY <1>3, <1>4

(* Reading one construct of an answer: a row is found at the end of a row, *)
(* and nowhere else.                                                       *)
LEMMA WhereStep ==
    ASSUME GrammarAssumption, Null \notin Values, NEW a, IsAnswer(a), NEW n, NEW s, NEW o, NEW rs,
           Where(a, n, s, o, rs), NEW t, NEW q, NEW ss, ReadOne(a.doc, n, s, o, rs, t, q, ss)
    PROVE  /\ Where(a, n + 1, t, q, ss)
           /\ IF RowEndAt(a.doc, n + 1) THEN OneMore(rs, ss) /\ t.field = EmptyString ELSE ss = rs
<1>1. n \in Nat /\ n + 1 \in Nat /\ Fit(s) /\ rs \in Seq(Seq(Cell))
  BY DEF Where
<1>2. PICK r \in 0 .. Len(a.table) : RowsRead(a, r, s.columns, rs) /\ (Outside(a, r, n, s) \/ Before(a, r, n, s, o))
  BY DEF Where
<1>3. ASSUME Goes(s, t, rs, ss)
      PROVE  Fit(t) /\ ss = rs /\ RowsRead(a, r, t.columns, rs)
  <2>1. Fit(t) /\ ss = rs /\ Grows(s.columns, t.columns)
    BY <1>3 DEF Goes
  <2>2. s.columns \in Seq(Names) /\ t.columns \in Seq(Names)
    BY <1>1, <2>1, StateParts DEF Fit
  <2> QED
    BY <1>2, <2>1, <2>2, RowsReadStay
<1>4. Len(a.table) \in Nat
  BY DEF IsAnswer, Sound, Sendable
<1>5. CASE Outside(a, r, n, s)
  <2>1. CASE n = a.rowEnd[r] /\ r < Len(a.table) /\ ~RowLost(a, r + 1)
    <3>1. PICK r1 \in 1 .. Len(a.table) : r1 = r + 1 /\ r1 - 1 = r
      BY <1>4, <2>1
    <3>2. CellsLie(a, r1)
      BY <2>1, <3>1 DEF IsAnswer
    <3>3. n >= 3 /\ n < Len(a.doc) /\ Len(a.doc) \in Nat
      BY <1>4, <2>1, RowEndsRise
    <3>4. s.row_depth < 0 /\ s.field = EmptyString /\ s.depth = 1
      BY <1>1, <1>5, <3>3 DEF Outside
    <3>5. InRow(a, r1, n + 1, t, q) /\ Goes(s, t, rs, ss) /\ ~RowEndAt(a.doc, n + 1)
      BY <1>1, <2>1, <3>1, <3>2, <3>4, RowStarts
    <3>6. Before(a, r, n + 1, t, q)
      BY <2>1, <3>1, <3>2, <3>5 DEF Before
    <3> QED
      BY <1>1, <1>3, <3>5, <3>6 DEF Where
  <2>2. CASE ~(n = a.rowEnd[r] /\ r < Len(a.table) /\ ~RowLost(a, r + 1))
    <3>1. /\ Goes(s, t, rs, ss) /\ ~RowEndAt(a.doc, n + 1)
          /\ \/ Outside(a, r, n + 1, t)
             \/ SelfClosing /\ r + 1 \in 0 .. Len(a.table) /\ Outside(a, r + 1, n + 1, t)
      BY <1>1, <1>5, <2>2, OutsideStep
    <3>2. CASE Outside(a, r, n + 1, t)
      BY <1>1, <1>3, <3>1, <3>2 DEF Where
    <3>3. CASE SelfClosing /\ r + 1 \in 0 .. Len(a.table) /\ Outside(a, r + 1, n + 1, t)
      <4>1. RowsRead(a, r + 1, t.columns, rs)
        BY <3>3 DEF RowsRead
      <4> QED
        BY <1>1, <1>3, <3>1, <3>3, <4>1 DEF Where
    <3> QED
      BY <3>1, <3>2, <3>3
  <2> QED
    BY <2>1, <2>2
<1>6. CASE Before(a, r, n, s, o)
  <2>1. PICK r1 \in 1 .. Len(a.table) : r1 = r + 1 /\ r1 - 1 = r /\ CellsLie(a, r1) /\ InRow(a, r1, n, s, o) /\ r < Len(a.table)
    BY <1>4, <1>6 DEF Before
  <2>2. a.cellEnd[r1][Width(a)] \in Nat
    BY <2>1, RowPlaces
  <2>3. CASE n < a.cellEnd[r1][Width(a)]
    <3>1. InRow(a, r1, n + 1, t, q) /\ Goes(s, t, rs, ss) /\ ~RowEndAt(a.doc, n + 1)
      BY <1>1, <2>1, <2>3, RowStep
    <3>2. Before(a, r, n + 1, t, q)
      BY <2>1, <3>1 DEF Before
    <3> QED
      BY <1>1, <1>3, <3>1, <3>2 DEF Where
  <2>4. CASE n = a.cellEnd[r1][Width(a)]
    <3>1. /\ Outside(a, r1, n + 1, t) /\ n + 1 = a.rowEnd[r1] /\ Fit(t) /\ t.columns = s.columns
          /\ RowFound(a, r1, t.columns, rs, ss)
      <4>1. n \in Nat /\ CellsOver(a, r1, n) /\ Fit(s) /\ InRow(a, r1, n, s, o) /\ CellsLie(a, r1)
            /\ r1 \in 1 .. Len(a.table)
        BY <1>1, <2>1, <2>4 DEF CellsOver
      <4> QED
        BY <4>1, RowEnds
    <3>2. PICK row \in Seq(Cell) : ss = Append(rs, row) /\ Known(row, t.columns) /\ Says(a, r1, Width(a), row, t.columns)
      BY <3>1 DEF RowFound
    <3>3. r \in Nat /\ r1 \in 0 .. Len(a.table)
      BY <1>4
    <3>4. RowsRead(a, r1, t.columns, ss)
      BY <1>1, <1>2, <2>1, <3>1, <3>2, <3>3, RowsReadMore
    <3>5. ss \in Seq(Seq(Cell))
      BY <1>1, <3>2, AppendProperties
    <3>6. Where(a, n + 1, t, q, ss)
      BY <1>1, <3>1, <3>3, <3>4, <3>5 DEF Where
    <3>7. RowEndAt(a.doc, n + 1)
      BY <2>1, <3>1, EndIsRowEnd
    <3>8. OneMore(rs, ss) /\ t.field = EmptyString
      BY <3>1, <3>2 DEF OneMore, Outside
    <3> QED
      BY <3>6, <3>7, <3>8
  <2>5. n <= a.cellEnd[r1][Width(a)]
    <3>1. CASE AtEnd(a, r1, Width(a), n, s)
      BY <1>1, <2>2, <3>1 DEF AtEnd
    <3>2. CASE \E i \in 1 .. Width(a) : InCell(a, r1, i, n, s, o)
      <4>1. PICK i \in 1 .. Width(a) : InCell(a, r1, i, n, s, o)
        BY <3>2
      <4>2. Width(a) \in Nat /\ a.cellEnd[r1] \in [0 .. Width(a) -> Nat] /\ Rising(a.cellEnd[r1], Width(a))
        BY <2>1, RowPlaces
      <4>3. Width(a) \in 0 .. Width(a) /\ i \in 0 .. Width(a)
        BY <4>2
      <4>4. a.cellEnd[r1][i] <= a.cellEnd[r1][Width(a)] /\ a.cellEnd[r1][i] \in Nat
        BY <4>2, <4>3 DEF Rising
      <4>5. n < a.cellEnd[r1][i]
        BY <4>1 DEF InCell
      <4> QED
        BY <1>1, <2>2, <4>4, <4>5
    <3> QED
      BY <2>1, <3>1, <3>2 DEF InRow
  <2> QED
    BY <1>1, <2>2, <2>3, <2>4, <2>5
<1> QED
  BY <1>2, <1>5, <1>6

-----------------------------------------------------------------------------
(* What is asked of the server, and what comes back.                       *)
ColumnAt(out) == bind.columns[column_ids[out]]
Asked == bind \in Binds /\ column_ids \in Queries /\ table \in Tables

LEMMA Request ==
    ASSUME ScanAssumption, Asked
    PROVE  /\ column_ids \in Seq(Nat) /\ Len(column_ids) \in Nat
           /\ bind.columns \in Seq(Range(bind.columns)) /\ bind.served \in Seq(Range(bind.served))
           /\ Len(bind.columns) \in Nat /\ Len(bind.served) \in Nat
           /\ \A out \in Requested : /\ out \in 1 .. Len(column_ids) /\ ColumnAt(out) \in Range(bind.columns)
                                     /\ column_ids[out] \in 1 .. Len(bind.columns)
<1>1. column_ids \in Seq(Nat) /\ Len(column_ids) \in Nat
  BY LenProperties DEF ScanAssumption, Asked
<1>2. bind.columns \in Seq(DOMAIN Qualified) /\ bind.served \in Seq(DOMAIN Qualified)
  BY TablesAssumption DEF Asked
<1>3. ASSUME NEW D, NEW s \in Seq(D) PROVE s \in Seq(Range(s)) /\ Len(s) \in Nat /\ \A i \in 1 .. Len(s) : s[i] \in Range(s)
  <2>1. Len(s) \in Nat /\ s \in [1 .. Len(s) -> D]
    BY LenProperties
  <2>2. \A i \in 1 .. Len(s) : s[i] \in Range(s)
    BY <2>1 DEF Range
  <2>3. s \in [1 .. Len(s) -> Range(s)]
    BY <2>1, <2>2
  <2> QED
    BY <2>1, <2>2, <2>3, SeqDef
<1>4. ASSUME NEW out \in Requested
      PROVE  /\ out \in 1 .. Len(column_ids) /\ ColumnAt(out) \in Range(bind.columns)
             /\ column_ids[out] \in 1 .. Len(bind.columns)
  BY <1>2, <1>3 DEF Requested, IsColumn, ColumnAt
<1> QED
  BY <1>1, <1>2, <1>3, <1>4

(* Every column that is requested is asked for.                            *)
LEMMA AskedForCovers ==
    ASSUME ScanAssumption, Asked
    PROVE  /\ AskedFor \in Seq(Range(bind.columns))
           /\ \A out \in Requested : ColumnAt(out) \in Range(AskedFor)
<1>1. PICK n \in Nat : n = Len(column_ids)
  BY Request
<1>2. PICK D : D = Range(bind.columns)
  OBVIOUS
<1>3. PICK req : req = Requested
  OBVIOUS
<1>4. \A out \in req : out \in 1 .. n /\ ColumnAt(out) \in D
  BY <1>1, <1>2, <1>3, Request
<1> DEFINE Put(out, s) == IF out \in req THEN Append(s, ColumnAt(out)) ELSE s
           Step == [x \in (1 .. n) \X Seq(D) |-> Put(x[1], x[2])]
           Next1(f, out) == IF out = 0 THEN <<>> ELSE Put(out, f[out - 1])
           whole == CHOOSE f : f = [out \in 0 .. n |-> Next1(f, out)]
<1>5. ASSUME NEW out \in 1 .. n, NEW s \in Seq(D)
      PROVE  /\ Put(out, s) \in Seq(D) /\ Range(s) \subseteq Range(Put(out, s))
             /\ out \in req => ColumnAt(out) \in Range(Put(out, s))
  <2>1. CASE out \in req
    <3>1. PICK c \in D : c = ColumnAt(out)
      BY <1>4, <2>1
    <3>2. PICK t : t = Append(s, c)
      OBVIOUS
    <3>3. PICK l \in Nat : l = Len(s) /\ DOMAIN s = 1 .. l
      BY LenProperties
    <3>4. t \in Seq(D) /\ Len(t) = l + 1 /\ t[l + 1] = c /\ \A i \in 1 .. l : t[i] = s[i]
      BY <3>2, <3>3, AppendProperties
    <3>5. DOMAIN t = 1 .. (l + 1)
      BY <3>4, LenProperties
    <3>6. \A i \in 1 .. l : i \in 1 .. (l + 1)
      OBVIOUS
    <3>7. l + 1 \in 1 .. (l + 1)
      OBVIOUS
    <3>8. Range(s) \subseteq Range(t) /\ c \in Range(t)
      BY <3>3, <3>4, <3>5, <3>6, <3>7 DEF Range
    <3> QED
      BY <2>1, <3>1, <3>2, <3>4, <3>8
  <2>2. CASE out \notin req
    BY <2>2
  <2> QED
    BY <2>1, <2>2
<1>6. AskedFor = whole[n]
  BY <1>1, <1>3, Zenon DEF AskedFor, ColumnAt
<1> HIDE DEF Put
<1>7. StepsIn(Step, n, Seq(D)) /\ <<>> \in Seq(D)
  <2>1. \A x \in (1 .. n) \X Seq(D) : Put(x[1], x[2]) \in Seq(D)
    BY <1>5
  <2> QED
    BY <2>1 DEF StepsIn
<1>8. \E f \in [0 .. n -> Seq(D)] : GoesOn(f, <<>>, Step, n)
  <2> HIDE DEF Step
  <2> QED
    BY <1>7, ForwardRecursion
<1>9. PICK f \in [0 .. n -> Seq(D)] : f[0] = <<>> /\ \A i \in 1 .. n : f[i] = Step[<<i, f[i - 1]>>]
  BY <1>8 DEF GoesOn
<1>10. ASSUME NEW i \in 1 .. n PROVE f[i] = Put(i, f[i - 1]) /\ f[i - 1] \in Seq(D)
  <2>1. f[i - 1] \in Seq(D)
    OBVIOUS
  <2>2. <<i, f[i - 1]>> \in (1 .. n) \X Seq(D)
    BY <2>1
  <2> QED
    BY <1>9, <2>1, <2>2
<1> HIDE DEF Step
<1>11. f = [out \in 0 .. n |-> Next1(f, out)]
  <2>1. ASSUME NEW i \in 0 .. n PROVE f[i] = Next1(f, i)
    <3>1. i = 0 \/ i \in 1 .. n
      OBVIOUS
    <3> QED
      BY <1>9, <1>10, <3>1
  <2> HIDE DEF Next1
  <2> QED
    BY <2>1
<1>12. whole = [out \in 0 .. n |-> Next1(whole, out)]
  <2> HIDE DEF Next1
  <2> QED
    BY <1>11
<1> HIDE DEF whole
<1>13. whole[n] = f[n]
  <2>1. \A i \in 0 .. n : whole[i] = Next1(whole, i)
    <3> HIDE DEF Next1
    <3> QED
      BY <1>12
  <2>2. whole[0] = f[0]
    BY <1>9, <2>1
  <2>3. ASSUME NEW i \in 1 .. n, whole[i - 1] = f[i - 1] PROVE whole[i] = f[i]
    BY <1>10, <2>1, <2>3
  <2>4. Agree(whole, f, n)
    BY <2>2, <2>3 DEF Agree
  <2> QED
    BY <2>4, SameRecursion
<1>14. ASSUME NEW out \in req PROVE ColumnAt(out) \in Range(f[n])
  <2>1. PICK S : S = {k \in out .. n : ColumnAt(out) \in Range(f[k])}
    OBVIOUS
  <2>2. out \in 1 .. n
    BY <1>4
  <2>3. out \in S
    BY <1>5, <1>10, <2>1, <2>2
  <2>4. ASSUME NEW k \in out .. n, k \in S, k < n PROVE k + 1 \in S
    <3>1. k + 1 \in 1 .. n /\ k + 1 \in out .. n /\ (k + 1) - 1 = k
      BY <2>2, <2>4
    <3>2. f[k + 1] = Put(k + 1, f[k]) /\ f[k] \in Seq(D)
      BY <1>10, <3>1
    <3> QED
      BY <1>5, <2>1, <2>4, <3>1, <3>2
  <2>5. out .. n \subseteq S
    <3>1. out \in Nat /\ \A k \in out .. n : k \in S /\ k < n => k + 1 \in S
      BY <2>2, <2>4
    <3> QED
      BY <2>3, <3>1, RangeInduction
  <2>6. n \in out .. n
    BY <2>2
  <2> QED
    BY <2>1, <2>5, <2>6
<1> QED
  BY <1>2, <1>3, <1>6, <1>13, <1>14

(* What comes back: each column under one of its names, and every column   *)
(* that is requested and served.                                           *)
Comes(sent) ==
    /\ Len(sent) \in Nat
    /\ \A i \in 1 .. Len(sent) : /\ sent[i].column \in Range(bind.served)
                                 /\ sent[i].name \in {Qualified[sent[i].column], Alias[sent[i].column]}
    /\ \A out \in Requested :
          ColumnAt(out) \in Range(bind.served) => \E i \in 1 .. Len(sent) : sent[i].column = ColumnAt(out)

LEMMA SentComes ==
    ASSUME ScanAssumption, Asked
    PROVE  Comes(Sent)
<1>1. PICK D : D = Range(bind.columns)
  OBVIOUS
<1>2. PICK asked \in Seq(D) : asked = AskedFor /\ \A out \in Requested : ColumnAt(out) \in Range(asked)
  BY <1>1, AskedForCovers
<1>3. PICK wanted : wanted = Wanted
  OBVIOUS
<1>4. wanted \in Seq(D) /\ \A out \in Requested : ColumnAt(out) \in Range(wanted)
  <2>1. CASE asked = <<>> /\ bind.known /\ bind.columns # <<>>
    <3>1. bind.columns[1] \in D /\ wanted = <<bind.columns[1]>>
      <4>1. bind.columns \in Seq(D)
        BY <1>1, Request
      <4>2. Len(bind.columns) \in Nat /\ Len(bind.columns) # 0 /\ bind.columns \in [1 .. Len(bind.columns) -> D]
        BY <2>1, <4>1, LenProperties, EmptySeq
      <4> QED
        BY <1>2, <1>3, <2>1, <4>2 DEF Wanted
    <3>2. \A out : out \notin Requested
      <4>1. Range(asked) = {}
        BY <2>1 DEF Range
      <4> QED
        BY <1>2, <4>1
    <3> QED
      BY <3>1, <3>2
  <2>2. CASE ~(asked = <<>> /\ bind.known /\ bind.columns # <<>>)
    BY <1>2, <1>3, <2>2 DEF Wanted
  <2> QED
    BY <2>1, <2>2
<1>5. PICK sent, projected : sent = Sent /\ projected = Projection(wanted)
  OBVIOUS
<1>6. Sent = IF projected # <<>>
             THEN [i \in 1 .. Len(projected) |-> [column |-> projected[i], name |-> Alias[projected[i]]]]
             ELSE [i \in 1 .. Len(bind.served) |->
                      [column |-> bind.served[i], name |-> Qualified[bind.served[i]]]]
  BY <1>3, <1>5, Zenon DEF Sent
<1>7. ASSUME NEW s, NEW l \in Nat, l = Len(s), DOMAIN s = 1 .. l, NEW names,
             sent = [i \in 1 .. l |-> [column |-> s[i], name |-> names[s[i]]]],
             names \in {Qualified, Alias}, Range(s) \subseteq Range(bind.served),
             \A out \in Requested : ColumnAt(out) \in Range(bind.served) => ColumnAt(out) \in Range(s)
      PROVE  Comes(sent)
  <2>1. Len(sent) = l
    <3>1. sent \in [1 .. l -> {sent[i] : i \in 1 .. l}]
      BY <1>7
    <3> QED
      BY <3>1, LenProperties, SeqDef
  <2>2. ASSUME NEW i \in 1 .. l
        PROVE  /\ sent[i].column = s[i] /\ sent[i].column \in Range(bind.served)
               /\ sent[i].name \in {Qualified[sent[i].column], Alias[sent[i].column]}
    BY <1>7 DEF Range
  <2>3. ASSUME NEW out \in Requested, ColumnAt(out) \in Range(bind.served)
        PROVE  \E i \in 1 .. l : sent[i].column = ColumnAt(out)
    BY <1>7, <2>2, <2>3 DEF Range
  <2> QED
    BY <2>1, <2>2, <2>3 DEF Comes
<1>8. CASE projected # <<>>
  <2>1. projected = wanted /\ bind.known
    BY <1>5, <1>8 DEF Projection
  <2>2. D \subseteq Range(bind.served)
    BY <1>1, <2>1, TablesAssumption DEF Asked
  <2>3. PICK l \in Nat : l = Len(projected) /\ DOMAIN projected = 1 .. l /\ projected \in [1 .. l -> D]
    BY <1>4, <2>1, LenProperties
  <2>4. Range(projected) \subseteq Range(bind.served)
    BY <2>2, <2>3 DEF Range
  <2> QED
    BY <1>4, <1>5, <1>6, <1>7, <1>8, <2>1, <2>3, <2>4
<1>9. CASE projected = <<>>
  <2>1. PICK l \in Nat : l = Len(bind.served) /\ DOMAIN bind.served = 1 .. l
    BY Request, LenProperties
  <2> QED
    BY <1>5, <1>6, <1>7, <1>9, <2>1
<1> QED
  BY <1>5, <1>8, <1>9

LEMMA SentIsSendable ==
    ASSUME ScanAssumption, Asked
    PROVE  Sendable(table, Sent)
<1>1. PICK sent : sent = Sent
  OBVIOUS
<1>2. Comes(sent)
  BY <1>1, SentComes
<1>3. table \in Seq(Range(table)) /\ Len(table) \in Nat
  BY TablesAssumption, LenProperties DEF Asked
<1>4. ASSUME NEW r \in 1 .. Len(table) PROVE Columns(sent, table[r])
  <2>1. table[r] \in Range(table)
    BY <1>3, ElementOfSeq
  <2>2. ASSUME NEW i \in 1 .. Len(sent)
        PROVE  sent[i].name \in DOMAIN Encoded /\ table[r][sent[i].column] \in Texts \cup {Null}
    <3>1. PICK d \in Range(bind.served) : d = sent[i].column
      BY <1>2 DEF Comes
    <3>2. sent[i].name \in {Qualified[d], Alias[d]}
      BY <1>2, <3>1 DEF Comes
    <3>3. {Qualified[d], Alias[d]} \subseteq DOMAIN Encoded /\ table[r][d] \in Texts \cup {Null}
      BY <2>1, TablesAssumption DEF Asked
    <3> QED
      BY <3>1, <3>2, <3>3
  <2> QED
    BY <2>2 DEF Columns
<1>5. ASSUME NEW i \in 1 .. Len(sent), NEW j \in 1 .. Len(sent), sent[i].name = sent[j].name
      PROVE  sent[i].column = sent[j].column
  <2>1. PICK c \in Range(bind.served), d \in Range(bind.served) : c = sent[i].column /\ d = sent[j].column
    BY <1>2 DEF Comes
  <2>2. PICK name : name \in {Qualified[c], Alias[c]} /\ name \in {Qualified[d], Alias[d]}
    BY <1>2, <1>5, <2>1 DEF Comes
  <2>3. {Qualified[d], Alias[d]} \cap {c, Qualified[c], Alias[c]} # {}
    BY <2>2
  <2> QED
    BY <2>1, <2>3, TablesAssumption DEF Asked
<1> QED
  BY <1>1, <1>2, <1>3, <1>4, <1>5 DEF Sendable, Comes

(* The names a column comes back under are mapped to the output that asked *)
(* for the column.                                                         *)
LEMMA OutputOf ==
    ASSUME ScanAssumption, Asked, NEW d \in Range(bind.served), NEW name \in {Qualified[d], Alias[d]},
           NEW out \in Requested
    PROVE  OutputFor(name) = out <=> ColumnAt(out) = d
<1>1. \A k \in Requested : k \in 1 .. Len(column_ids) /\ ColumnAt(k) \in Range(bind.columns)
  BY Request
<1>2. ASSUME NEW k \in Requested PROVE k \in Claims(name) <=> ColumnAt(k) = d
  <2>1. PICK c \in Range(bind.columns) : c = ColumnAt(k)
    BY <1>1
  <2>2. k \in Claims(name) <=> name \in {c, Qualified[c], Alias[c]}
    BY <2>1 DEF Claims, ColumnAt
  <2>3. {Qualified[d], Alias[d]} \cap {c, Qualified[c], Alias[c]} # {} => c = d
    BY TablesAssumption DEF Asked
  <2> QED
    BY <2>1, <2>2, <2>3
<1>3. ASSUME NEW k \in Requested, NEW l \in Requested, ColumnAt(k) = ColumnAt(l) PROVE k = l
  <2>1. /\ column_ids[k] \in 1 .. Len(bind.columns) /\ column_ids[l] \in 1 .. Len(bind.columns)
        /\ k \in 1 .. Len(column_ids) /\ l \in 1 .. Len(column_ids)
    BY Request
  <2>2. bind.columns \in Seq(DOMAIN Qualified) /\ IsInjective(bind.columns)
    BY TablesAssumption DEF Asked
  <2>3. DOMAIN bind.columns = 1 .. Len(bind.columns)
    BY <2>2, LenProperties
  <2>4. column_ids[k] = column_ids[l]
    BY <1>3, <2>1, <2>2, <2>3 DEF ColumnAt, IsInjective
  <2> QED
    BY <2>1, <2>4, TablesAssumption DEF Asked
<1>4. Claims(name) \subseteq Requested
  BY DEF Claims
<1>5. CASE Claims(name) = {}
  <2>1. OutputFor(name) = 0 /\ out # 0 /\ ColumnAt(out) # d
    BY <1>1, <1>2, <1>5 DEF OutputFor
  <2> QED
    BY <2>1
<1>6. CASE Claims(name) # {}
  <2>1. PICK k \in Claims(name) : TRUE
    BY <1>6
  <2>2. Claims(name) = {k}
    BY <1>2, <1>3, <1>4, <2>1
  <2>3. k <= k
    BY <1>1, <1>4, <2>1
  <2>4. OutputFor(name) = k
    BY <2>2, <2>3 DEF OutputFor
  <2> QED
    BY <1>2, <1>3, <1>4, <2>1, <2>4
<1> QED
  BY <1>5, <1>6

(* A row that says what the server sent of it is given as asked.           *)
LEMMA RowGiven ==
    ASSUME ScanAssumption, Asked, NEW a, a.table = table, a.sent = Sent, NEW r \in 1 .. Len(table),
           NEW row \in Seq(Cell), NEW columns \in Seq(Names), Known(row, columns),
           Says(a, r, Width(a), row, columns)
    PROVE  OutputRow(row, MappingOf(columns)) = Projected(table[r])
<1>1. PICK sent, map, width : sent = Sent /\ map = MappingOf(columns) /\ width = Len(sent)
  OBVIOUS
<1>2. Comes(sent) /\ a.sent = sent /\ Width(a) = width
  BY <1>1, SentComes DEF Width
<1>3. ASSUME NEW i \in 1 .. Len(row)
      PROVE  row[i].column \in DOMAIN map /\ map[row[i].column] = OutputFor(columns[row[i].column])
  BY <1>1, <1>3 DEF Known, MappingOf
<1>4. ASSUME NEW m, NEW v
      PROVE  Has(row, columns, m, v) <=>
                v # Null /\ \E j \in 1 .. width : sent[j].name = m /\ table[r][sent[j].column] = v
  BY <1>2 DEF Says, Due, NameOf, ValueOf
<1>5. ASSUME NEW out \in 1 .. Len(column_ids)
      PROVE  OutputRow(row, map)[out] = Projected(table[r])[out]
  <2>1. CASE ~IsColumn(column_ids[out])
    BY <2>1 DEF OutputRow, Projected
  <2>2. CASE IsColumn(column_ids[out])
    <3>1. PICK c : c = ColumnAt(out)
      OBVIOUS
    <3>2. out \in Requested
      BY <2>2 DEF Requested
    <3>3. PICK cells : cells = CellsFor(row, map, out)
      OBVIOUS
    <3>4. OutputRow(row, map)[out] = IF cells = {} THEN Null
                                     ELSE row[CHOOSE i \in cells : \A j \in cells : j <= i].value
      BY <2>2, <3>3 DEF OutputRow, Written
    <3>5. Projected(table[r])[out] = IF c \notin Range(bind.served) THEN Null ELSE table[r][c]
      BY <2>2, <3>1 DEF Projected, ColumnAt
    <3>6. ASSUME NEW i \in cells
          PROVE  i \in 1 .. Len(row) /\ c \in Range(bind.served) /\ row[i].value = table[r][c]
      <4>1. i \in 1 .. Len(row) /\ map[row[i].column] = out
        BY <3>3, <3>6 DEF CellsFor
      <4>2. Has(row, columns, columns[row[i].column], row[i].value)
        BY <4>1 DEF Has
      <4>3. PICK j \in 1 .. width : sent[j].name = columns[row[i].column] /\ table[r][sent[j].column] = row[i].value
        BY <1>4, <4>2
      <4>4. PICK d \in Range(bind.served) : d = sent[j].column /\ sent[j].name \in {Qualified[d], Alias[d]}
        BY <1>1, <1>2 DEF Comes
      <4>5. OutputFor(sent[j].name) = out
        BY <1>3, <4>1, <4>3
      <4>6. c = d
        BY <3>1, <3>2, <4>4, <4>5, OutputOf
      <4> QED
        BY <4>1, <4>3, <4>4, <4>6
    <3>7. CASE cells = {}
      <4>1. ASSUME c \in Range(bind.served), table[r][c] # Null PROVE FALSE
        <5>1. PICK j \in 1 .. width : sent[j].column = c
          BY <1>1, <1>2, <3>1, <3>2, <4>1 DEF Comes
        <5>2. Has(row, columns, sent[j].name, table[r][c])
          BY <1>4, <4>1, <5>1
        <5>3. PICK i \in 1 .. Len(row) : columns[row[i].column] = sent[j].name
          BY <5>2 DEF Has
        <5>4. sent[j].name \in {Qualified[c], Alias[c]}
          BY <1>1, <1>2, <5>1 DEF Comes
        <5>5. OutputFor(sent[j].name) = out
          BY <3>1, <3>2, <4>1, <5>4, OutputOf
        <5>6. i \in cells
          BY <1>3, <3>3, <5>3, <5>5 DEF CellsFor
        <5> QED
          BY <3>7, <5>6
      <4> QED
        BY <3>4, <3>5, <3>7, <4>1
    <3>8. CASE cells # {}
      <4>1. Len(row) \in Nat /\ cells \subseteq Nat /\ \A i \in cells : i <= Len(row)
        BY <3>6, LenProperties
      <4>2. \E i \in cells : \A j \in cells : j <= i
        BY <3>8, <4>1, GreatestNumber
      <4>3. PICK last : last = CHOOSE i \in cells : \A j \in cells : j <= i
        OBVIOUS
      <4>4. last \in cells
        BY <4>2, <4>3
      <4> QED
        BY <3>4, <3>5, <3>6, <3>8, <4>3, <4>4
    <3> QED
      BY <3>7, <3>8
  <2> QED
    BY <2>1, <2>2
<1>6. /\ OutputRow(row, map) = [out \in 1 .. Len(column_ids) |-> OutputRow(row, map)[out]]
      /\ Projected(table[r]) = [out \in 1 .. Len(column_ids) |-> Projected(table[r])[out]]
  BY DEF OutputRow, Projected
<1>7. [out \in 1 .. Len(column_ids) |-> OutputRow(row, map)[out]]
         = [out \in 1 .. Len(column_ids) |-> Projected(table[r])[out]]
  BY <1>5
<1> QED
  BY <1>1, <1>6, <1>7

-----------------------------------------------------------------------------
(* Where the parser is in the document the server wrote.                   *)

(* In one that holds no row.                                               *)
Quiet(d, n, s, rs) ==
    /\ n \in Nat /\ Fit(s) /\ s.row_depth < 0 /\ s.field = EmptyString /\ rs = <<>>
    /\ \A k \in 1 .. Len(d) : d[k].name # "row"
ToDate(a) == a.doc = doc /\ a.table = table /\ a.sent = Sent /\ IsAnswer(a)
Told(n, s, o, rs) == Quiet(doc, n, s, rs) \/ \E a : ToDate(a) /\ Where(a, n, s, o, rs)

LEMMA FirstTold ==
    ASSUME GrammarAssumption, ScanAssumption, ScanInit
    PROVE  Told(0, Unread, 0, <<>>)
<1>1. Asked /\ IsDocument(doc) /\ Null \notin Values
  BY DEF ScanInit, StreamInit, Asked, ScanAssumption
<1>2. Fit(Unread) /\ Unread.row_depth < 0 /\ Unread.field = EmptyString /\ Unread.depth = 0
      /\ Unread.columns = <<>>
  <2>1. PICK s : s = Unread
    OBVIOUS
  <2>2. /\ s.depth = 0 /\ s.row_depth = -1 /\ s.field = EmptyString /\ s.columns = <<>> /\ s.row = <<>>
    BY <2>1 DEF Unread
  <2>3. EmptyString \in Names
    BY DEF GrammarAssumption
  <2>4. s \in State
    BY <2>1, <2>3, EmptySeq DEF Unread, State
  <2>5. Once(s.columns) /\ Known(s.row, s.columns)
    BY <2>2 DEF Once, Known
  <2> QED
    BY <2>1, <2>2, <2>4, <2>5 DEF Fit
<1>3. PICK items : /\ items \in {AnswerMarkup(w) : w \in Ornaments} \cup {CellsetMarkup}
                   /\ doc = Layout(items)
  BY DEF ScanInit
<1>4. CASE items = CellsetMarkup
  <2>1. PICK p, q, t : /\ items = <<p, q, t>> /\ p.name = "root" /\ q.name = "Axes" /\ t.name = "root"
    <3>1. CellsetMarkup = << Markup("open", "root", EmptyString), Markup("empty", "Axes", EmptyString),
                             Markup("close", "root", EmptyString) >>
      BY Zenon DEF CellsetMarkup, EmptyString
    <3>2. \A kind, name : Markup(kind, name, EmptyString).name = name
      BY DEF Markup
    <3> QED
      BY <1>4, <3>1, <3>2
  <2>2. Len(items) = 3 /\ items[1] = p /\ items[2] = q /\ items[3] = t
    BY <2>1
  <2>3. Len(doc) = 3 /\ \A k \in 1 .. 3 : Alike(doc[k], items[k])
    BY <1>3, <2>2, LaidOut
  <2>4. ASSUME NEW k \in 1 .. Len(doc) PROVE doc[k].name # "row"
    <3>1. k = 1 \/ k = 2 \/ k = 3
      BY <2>3
    <3>2. doc[k].name \in {"root", "Axes"}
      BY <2>1, <2>2, <2>3, <3>1 DEF Alike
    <3> QED
      BY <3>2
  <2> QED
    BY <1>2, <2>4 DEF Told, Quiet
<1>5. CASE \E w \in Ornaments : items = AnswerMarkup(w)
  <2>1. PICK w : doc = Layout(AnswerMarkup(w))
    BY <1>3, <1>5
  <2>2. PICK a : ToDate(a)
    BY <1>1, <2>1, SentIsSendable, AnswerLies DEF ToDate
  <2>3. Len(a.table) \in Nat
    BY <2>2 DEF ToDate, IsAnswer, Sound, Sendable
  <2>4. RowsRead(a, 0, Unread.columns, <<>>)
    BY DEF RowsRead
  <2>5. Outside(a, 0, 0, Unread)
    BY <1>2 DEF Outside
  <2>6. <<>> \in Seq(Seq(Cell)) /\ 0 \in 0 .. Len(a.table)
    BY <2>3, EmptySeq
  <2>7. Where(a, 0, Unread, 0, <<>>)
    BY <1>2, <2>4, <2>5, <2>6 DEF Where
  <2> QED
    BY <2>2, <2>7 DEF Told
<1> QED
  BY <1>3, <1>4, <1>5

LEMMA ToldNext ==
    ASSUME GrammarAssumption, Null \notin Values, IsDocument(doc), NEW n, NEW s, NEW o, NEW rs,
           Told(n, s, o, rs), NEW t, NEW q, NEW ss, ReadOne(doc, n, s, o, rs, t, q, ss)
    PROVE  /\ Told(n + 1, t, q, ss)
           /\ IF RowEndAt(doc, n + 1) THEN OneMore(rs, ss) /\ t.field = EmptyString ELSE ss = rs
<1>1. CASE Quiet(doc, n, s, rs)
  <2>1. n \in Nat /\ n < Len(doc) /\ Len(doc) \in Nat
    BY <1>1, LenProperties DEF Quiet, ReadOne, IsDocument
  <2>2. PICK k \in 1 .. Len(doc) : k = n + 1
    BY <2>1
  <2>3. doc[n + 1].name # "row" /\ doc[n + 1].name \in Names
    BY <1>1, <2>2, ConstructTyped DEF Quiet
  <2>4. ~IsTag(doc[n + 1], "open", "row") /\ ~RowEndAt(doc, n + 1)
    BY <2>3 DEF IsTag, RowEndAt
  <2>5. Passes(doc[n + 1], s, t, rs, ss)
    BY <1>1, <2>3, <2>4, OutsideReads DEF Quiet
  <2>6. Quiet(doc, n + 1, t, ss) /\ ss = rs
    BY <1>1, <2>1, <2>5 DEF Quiet, Passes, Goes
  <2> QED
    BY <2>4, <2>6 DEF Told
<1>2. ASSUME NEW a, ToDate(a), Where(a, n, s, o, rs)
      PROVE  /\ Told(n + 1, t, q, ss)
             /\ IF RowEndAt(doc, n + 1) THEN OneMore(rs, ss) /\ t.field = EmptyString ELSE ss = rs
  <2>1. IsAnswer(a) /\ a.doc = doc /\ ReadOne(a.doc, n, s, o, rs, t, q, ss)
    BY <1>2 DEF ToDate
  <2>2. /\ Where(a, n + 1, t, q, ss)
        /\ IF RowEndAt(a.doc, n + 1) THEN OneMore(rs, ss) /\ t.field = EmptyString ELSE ss = rs
    BY <1>2, <2>1, WhereStep
  <2> QED
    BY <1>2, <2>1, <2>2 DEF Told
<1> QED
  BY <1>1, <1>2 DEF Told

(* A tag read is the next construct read.                                  *)
LEMMA TagIsRead ==
    ASSUME GrammarAssumption, RInv, RInv', NEW k \in Ahead, Tag(k)
    PROVE  /\ ReadOne(doc, scanned, st, OpenedBy, rows, st', OpenedBy', rows')
           /\ scanned' = scanned + 1 /\ doc' = doc
<1>1. WholeDocument!Next
  BY TagImplements
<1>2. WholeDocument!Value = TextAt(doc, OpenedBy)
  BY DEF WholeDocument!Value, TextAt
<1>3. PICK o, q, value : o = OpenedBy /\ q = OpenedBy' /\ value = TextAt(doc, o)
  OBVIOUS
<1>4. /\ scanned < Len(doc) /\ scanned' = scanned + 1 /\ doc' = doc
      /\ LET item == doc[scanned + 1]
             after == Closed(st, value)
         IN  \/ item.kind = "skip" /\ st' = st /\ q = o /\ rows' = rows
             \/ /\ item.kind = "open" /\ st' = Opened(st, item.name) /\ rows' = rows
                /\ q = IF st'.field = EmptyString THEN 0 ELSE IF IsField(st) THEN scanned + 1 ELSE o
             \/ item.kind = "empty" /\ st' = SelfClosed(st, item.name) /\ q = o /\ rows' = rows
             \/ /\ item.kind = "close"
                /\ st' = IF ClosesRow(after, item.name) THEN RowTaken(after) ELSE after
                /\ rows' = IF ClosesRow(after, item.name) THEN Append(rows, after.row) ELSE rows
                /\ q = IF st'.field = EmptyString THEN 0 ELSE o
  <2>1. CASE WholeDocument!Skip
    BY <1>3, <2>1 DEF WholeDocument!Skip, WholeDocument!Read
  <2>2. CASE WholeDocument!Open
    BY <1>3, <2>2, OneGrammar DEF WholeDocument!Open, WholeDocument!Read
  <2>3. CASE WholeDocument!SelfClose
    BY <1>3, <2>3, OneGrammar DEF WholeDocument!SelfClose, WholeDocument!Read
  <2>4. CASE WholeDocument!Close
    BY <1>2, <1>3, <2>4, OneGrammar DEF WholeDocument!Close, WholeDocument!Read
  <2> QED
    BY <1>1, <2>1, <2>2, <2>3, <2>4 DEF WholeDocument!Next
<1> QED
  BY <1>3, <1>4 DEF ReadOne

-----------------------------------------------------------------------------
(* The inductive invariant: the parser is where the document says, the     *)
(* rows are the ends of rows read, and while the parser looks for a tag or *)
(* holds the text of a field it holds no end of a row.                     *)
Faithful == Told(scanned, st, OpenedBy, rows)
RowEndsIn(n) == {k \in 1 .. n : RowEndAt(doc, k)}
Counted == Cardinality(RowEndsIn(scanned)) = Len(rows)
Held == pc \in {"parse", "none"} \/ st.field # EmptyString =>
            \A k \in 1 .. scanned : RowEndAt(doc, k) => doc[k].end <= base

(* What was asked for and the document stay.                               *)
LEMMA AskedStays ==
    ASSUME [ScanNext]_scanVars
    PROVE  doc' = doc /\ bind' = bind /\ column_ids' = column_ids /\ table' = table /\ Sent' = Sent
<1>1. bind' = bind /\ column_ids' = column_ids /\ table' = table
  BY RequestKept
<1>2. doc' = doc
  BY ScanStepsStream DEF StreamNext, Feed, CallNext, Scan, GiveUp, Tag, SkipConstruct, OpenTag, EmptyTag,
         CloseTag, ReturnRow, Read, streamVars
<1>3. Requested' = Requested
  BY <1>1 DEF Requested, IsColumn
<1>4. AskedFor' = AskedFor
  BY <1>1, <1>3 DEF AskedFor
<1>5. Wanted' = Wanted
  BY <1>1, <1>4 DEF Wanted
<1>6. Projection(Wanted)' = Projection(Wanted)
  BY <1>1, <1>5 DEF Projection
<1>7. Sent' = Sent
  BY <1>1, <1>6 DEF Sent
<1> QED
  BY <1>1, <1>2, <1>7

LEMMA ToldStays ==
    ASSUME [ScanNext]_scanVars, Told(scanned', st', OpenedBy', rows')
    PROVE  Faithful'
<1>1. doc' = doc /\ table' = table /\ Sent' = Sent
  BY AskedStays
<1> QED
  BY <1>1 DEF Faithful, Told, ToDate

FInv == TInv /\ Faithful /\ Counted /\ Held

(* A step of the scan reads one construct, or none.                        *)
LEMMA ScanReads ==
    ASSUME GrammarAssumption, TInv, RInv', [ScanNext]_scanVars
    PROVE  \/ /\ \E k \in Ahead : Tag(k)
              /\ pc = "parse" /\ base' = base
           \/ /\ scanned' = scanned /\ st' = st /\ rows' = rows /\ OpenedBy' = OpenedBy
              /\ \/ CallParser
                 \/ base' = base /\ (pc \in {"parse", "none"} \/ pc' \notin {"parse", "none"})
<1>0. RInv
  BY DEF TInv
<1>1. ASSUME (\E n \in Cuts : Feed(n)) \/ CallNext \/ GiveUp \/ UNCHANGED streamVars
      PROVE  scanned' = scanned /\ st' = st /\ rows' = rows /\ OpenedBy' = OpenedBy
  <2>1. doc' = doc /\ scanned' = scanned /\ st' = st /\ rows' = rows
    BY <1>1 DEF Feed, CallNext, GiveUp, streamVars, parser
  <2>2. st.field # EmptyString => base' + pending_from' = base + pending_from
    <3>1. CASE CallNext
      BY <1>0, <3>1, CallNextKeeps
    <3>2. CASE (\E n \in Cuts : Feed(n)) \/ GiveUp \/ UNCHANGED streamVars
      BY <3>2 DEF Feed, GiveUp, streamVars, parser, buffer
    <3> QED
      BY <1>1, <3>1, <3>2
  <2> QED
    BY <1>0, <2>1, <2>2, OpenedByStays, Numbers
<1>2. CASE Parse
  <2>1. CASE GiveUp
    BY <1>1, <1>2, <2>1 DEF Parse, GiveUp
  <2>2. CASE \E k \in Ahead : Tag(k)
    BY <1>2, <2>2 DEF Parse, Tag, SkipConstruct, OpenTag, EmptyTag, CloseTag, ReturnRow, Read
  <2> QED
    BY <1>2, <2>1, <2>2 DEF Parse, Scan
<1>3. CASE CallParser
  BY <1>1, <1>3 DEF CallParser
<1>4. CASE RefusePump \/ PumpFails \/ RefuseCellset
  BY <1>1, <1>4 DEF RefusePump, PumpFails, RefuseCellset, streamVars, parser, buffer
<1>5. CASE \E n \in Cuts, more \in BOOLEAN : Pump(n, more)
  BY <1>1, <1>5 DEF Pump, Feed, parser, buffer
<1>6. CASE StartScan \/ CallExecute \/ Exhaust \/ DropScan \/ AddRow
  BY <1>1, <1>6 DEF StartScan, CallExecute, Exhaust, DropScan, AddRow, streamVars, parser, buffer
<1>7. CASE UNCHANGED scanVars
  BY <1>1, <1>7 DEF scanVars, streamVars, parser, buffer
<1> QED
  BY <1>2, <1>3, <1>4, <1>5, <1>6, <1>7 DEF ScanNext, Cursor, Execute

(* One more row is not the same rows.                                      *)
LEMMA MoreRows ==
    ASSUME NEW rs \in Seq(Seq(Cell)), NEW ss, OneMore(rs, ss)
    PROVE  ss # rs /\ Len(ss) = Len(rs) + 1 /\ Len(rs) \in Nat
<1>1. PICK row \in Seq(Cell) : ss = Append(rs, row)
  BY DEF OneMore
<1>2. Len(ss) = Len(rs) + 1 /\ Len(rs) \in Nat
  BY <1>1, AppendProperties, LenProperties
<1> QED
  BY <1>2

LEMMA RowEndsFinite ==
    ASSUME NEW n \in Nat
    PROVE  IsFiniteSet(RowEndsIn(n)) /\ Cardinality(RowEndsIn(n)) \in Nat
<1>1. IsFiniteSet(1 .. n)
  BY FS_Interval
<1>2. RowEndsIn(n) \in SUBSET (1 .. n)
  BY DEF RowEndsIn
<1>3. IsFiniteSet(RowEndsIn(n))
  BY <1>1, <1>2, FS_Subset
<1> QED
  BY <1>3, FS_CardinalityType

LEMMA FInvKept ==
    ASSUME GrammarAssumption, Null \notin Values, FInv, TInv', [ScanNext]_scanVars
    PROVE  Faithful' /\ Counted' /\ Held'
<1>0. RInv /\ RInv' /\ TInv /\ Faithful /\ Counted /\ Held /\ IsDocument(doc) /\ rows \in Seq(Seq(Cell))
  BY DEF FInv, TInv, RInv, RTypes
<1>1. doc' = doc
  BY AskedStays
<1>2. \A n : RowEndsIn(n)' = RowEndsIn(n)
  BY <1>1 DEF RowEndsIn
<1>3. CASE \E k \in Ahead : Tag(k) /\ pc = "parse" /\ base' = base
  <2>1. PICK k \in Ahead : Tag(k) /\ pc = "parse" /\ base' = base
    BY <1>3
  <2>2. ReadOne(doc, scanned, st, OpenedBy, rows, st', OpenedBy', rows') /\ scanned' = scanned + 1
    BY <1>0, <2>1, TagIsRead
  <2>3. /\ Told(scanned', st', OpenedBy', rows')
        /\ IF RowEndAt(doc, scanned + 1) THEN OneMore(rows, rows') /\ st'.field = EmptyString ELSE rows' = rows
    BY <1>0, <2>2, ToldNext DEF Faithful
  <2>4. scanned \in Nat /\ \A k1 : k1 \in 1 .. (scanned + 1) <=> k1 \in 1 .. scanned \/ k1 = scanned + 1
    BY <1>0, Numbers
  <2>5. CASE RowEndAt(doc, scanned + 1)
    <3>1. rows' # rows /\ Len(rows') = Len(rows) + 1 /\ Len(rows) \in Nat
      BY <1>0, <2>3, <2>5, MoreRows
    <3>2. RowEndsIn(scanned') = RowEndsIn(scanned) \cup {scanned + 1} /\ scanned + 1 \notin RowEndsIn(scanned)
      BY <2>2, <2>4, <2>5 DEF RowEndsIn
    <3>3. Cardinality(RowEndsIn(scanned')) = Len(rows')
      <4>1. PICK R : R = RowEndsIn(scanned)
        OBVIOUS
      <4>2. IsFiniteSet(R)
        BY <2>4, <4>1, RowEndsFinite
      <4>3. PICK n : n = scanned + 1
        OBVIOUS
      <4>4. Cardinality(R \cup {n}) = Cardinality(R) + 1
        BY <3>2, <4>1, <4>2, <4>3, FS_AddElement
      <4>5. Cardinality(R) = Len(rows)
        BY <1>0, <4>1 DEF Counted
      <4> QED
        BY <3>1, <3>2, <4>1, <4>3, <4>4, <4>5
    <3>4. pc' = "row"
      BY <1>0, <3>1, ScanStepGrows
    <3>5. Held'
      BY <2>3, <2>5, <3>4 DEF Held
    <3>6. Counted'
      BY <1>2, <3>3 DEF Counted, RowEndsIn
    <3> QED
      BY <2>3, <3>5, <3>6, ToldStays
  <2>6. CASE ~RowEndAt(doc, scanned + 1)
    <3>1. rows' = rows
      BY <2>3, <2>6
    <3>2. RowEndsIn(scanned') = RowEndsIn(scanned)
      BY <2>2, <2>4, <2>6 DEF RowEndsIn
    <3>3. Counted'
      BY <1>0, <1>1, <3>1, <3>2 DEF Counted, RowEndsIn
    <3>4. Held'
      BY <1>0, <1>1, <2>1, <2>2, <2>4, <2>6 DEF Held
    <3> QED
      BY <2>3, <3>3, <3>4, ToldStays
  <2> QED
    BY <2>5, <2>6
<1>4. CASE /\ scanned' = scanned /\ st' = st /\ rows' = rows /\ OpenedBy' = OpenedBy
           /\ \/ CallParser
              \/ base' = base /\ (pc \in {"parse", "none"} \/ pc' \notin {"parse", "none"})
  <2>1. Faithful'
    <3>1. Told(scanned', st', OpenedBy', rows')
      BY <1>0, <1>4 DEF Faithful
    <3> QED
      BY <3>1, ToldStays
  <2>2. Counted'
    BY <1>0, <1>1, <1>4 DEF Counted, RowEndsIn
  <2>3. Held'
    <3>1. CASE CallParser
      <4>1. base \in Nat /\ pos \in Nat /\ Len(doc) \in Nat /\ scanned \in Nat /\ scanned <= Len(doc)
            /\ \A k \in 1 .. Len(doc) : doc[k].end \in Nat
        BY <1>0, Numbers
      <4>2. CASE st.field # EmptyString
        <5>1. base' >= base
          BY <1>0, <3>1, <4>1 DEF CallParser, CallNext, Compact, RInv, Offsets, TextRetained
        <5>2. base' \in Nat
          BY <1>0, Numbers DEF RInv, Offsets
        <5>3. ASSUME NEW k \in 1 .. scanned, RowEndAt(doc, k) PROVE doc[k].end <= base'
          <6>1. doc[k].end <= base /\ k \in 1 .. Len(doc)
            BY <1>0, <4>1, <4>2, <5>3 DEF Held
          <6> QED
            BY <4>1, <5>1, <5>2, <6>1
        <5> QED
          BY <1>1, <1>4, <5>3 DEF Held
      <4>3. CASE st.field = EmptyString
        <5>1. base' = base + pos
          BY <3>1, <4>3 DEF CallParser, CallNext, Compact
        <5>2. ASSUME NEW k \in 1 .. scanned PROVE doc[k].end <= base'
          <6>1. k \in 1 .. Len(doc) /\ k <= scanned
            BY <4>1
          <6> QED
            BY <1>0, <5>1, <6>1 DEF RInv, InStep
        <5> QED
          BY <1>1, <1>4, <5>2 DEF Held
      <4> QED
        BY <4>2, <4>3
    <3>2. CASE base' = base /\ (pc \in {"parse", "none"} \/ pc' \notin {"parse", "none"})
      BY <1>0, <1>1, <1>4, <3>2 DEF Held
    <3> QED
      BY <1>4, <3>1, <3>2
  <2> QED
    BY <2>1, <2>2, <2>3
<1> QED
  BY <1>0, <1>3, <1>4, ScanReads

(* It holds throughout.                                                    *)
THEOREM FInvAlways ==
    ASSUME GrammarAssumption, StreamAssumption, ScanAssumption
    PROVE  ScanSpec => []FInv
<1>1. Null \notin Values
  BY DEF ScanAssumption
<1>2. ScanInit /\ TInv => FInv
  <2> SUFFICES ASSUME ScanInit, TInv PROVE Faithful /\ Counted /\ Held
    BY DEF FInv
  <2>1. doc = doc /\ scanned = 0 /\ st = Unread /\ rows = <<>>
    BY DEF ScanInit, StreamInit
  <2>2. OpenedBy = 0
    BY <2>1 DEF OpenedBy, Unread
  <2>3. Faithful
    BY <2>1, <2>2, FirstTold DEF Faithful
  <2>4. RowEndsIn(scanned) = {} /\ Len(rows) = 0
    BY <2>1 DEF RowEndsIn
  <2>5. Counted
    BY <2>4, FS_EmptySet DEF Counted
  <2>6. Held
    BY <2>1 DEF Held
  <2> QED
    BY <2>3, <2>5, <2>6
<1>3. FInv /\ TInv' /\ [ScanNext]_scanVars => FInv'
  BY <1>1, FInvKept DEF FInv
<1> QED
  BY <1>2, <1>3, TInvAlways, PTL DEF ScanSpec

LEMMA EndsAlike ==
    ASSUME NEW k
    PROVE  EndsRow(k) <=> RowEndAt(doc, k)
BY DEF EndsRow, RowEndAt, IsTag

(* The rows the parser returned are the first ones of the table.           *)
LEMMA RowsAreRows ==
    ASSUME ScanAssumption, ~SelfClosing, FInv, NEW r \in 1 .. Len(rows)
    PROVE  /\ r \in 1 .. Len(table)
           /\ OutputRow(rows[r], MappingOf(st.columns)) = Projected(table[r])
<1>0. Asked /\ RInv /\ rows \in Seq(Seq(Cell)) /\ st.columns \in Seq(Names)
  BY RowsCounted DEF FInv, TInv, Places, Asked, RInv, RTypes
<1>1. ~Quiet(doc, scanned, st, rows)
  BY DEF Quiet
<1>2. PICK a : ToDate(a) /\ Where(a, scanned, st, OpenedBy, rows)
  BY <1>1 DEF FInv, Faithful, Told
<1>3. a.table = table /\ a.sent = Sent /\ IsAnswer(a) /\ Len(table) \in Nat
  BY <1>2 DEF ToDate, IsAnswer, Sound, Sendable
<1>4. PICK n \in 0 .. Len(table) : RowsRead(a, n, st.columns, rows)
  BY <1>2, <1>3 DEF Where
<1>5. /\ Len(rows) = n /\ Known(rows[r], st.columns) /\ Says(a, r, Width(a), rows[r], st.columns)
      /\ r \in 1 .. Len(table)
  BY <1>3, <1>4 DEF RowsRead
<1>6. rows[r] \in Seq(Cell)
  BY <1>0, ElementOfSeq
<1> QED
  BY <1>0, <1>3, <1>5, <1>6, RowGiven

(* When the server closes every row by a tag of its own, DuckDB is given   *)
(* the first rows of the table, in order, each with the value of every     *)
(* column in the place it was asked for in, and by the end of the scan     *)
(* every row whose bytes came, whatever is skipped, discovered late,       *)
(* projected or cut (xmla_table_entry.cpp:96-116, 163-207,                 *)
(* rowset.hpp:218-246, rowset.cpp:182-247).                                *)
THEOREM TableGivenAsAsked ==
    ASSUME GrammarAssumption, StreamAssumption, ScanAssumption, ~SelfClosing
    PROVE  ScanSpec => []RowsAsAsked
<1>1. FInv => RowsAsAsked
  <2> SUFFICES ASSUME FInv PROVE RowsAsAsked
    OBVIOUS
  <2>0. TInv /\ RInv /\ Places /\ MappedInFull /\ Vectors /\ Ending /\ Counted
    BY DEF FInv, TInv
  <2>1. PICK due : due = delivered \o chunk
    OBVIOUS
  <2>2. /\ Len(rows) \in Nat /\ RowsTaken \in Nat /\ RowsTaken <= Len(rows)
        /\ Len(due) = RowsTaken
        /\ \A r \in 1 .. RowsTaken : due[r] = OutputRow(rows[r], MappingOf(st.columns))
    BY <2>0, <2>1, RowsCounted DEF MappedInFull, FullMapping, MappingOf
  <2>3. ASSUME NEW r \in 1 .. Len(due) PROVE r \in 1 .. Len(table) /\ due[r] = Projected(table[r])
    <3>1. r \in 1 .. Len(rows) /\ r \in 1 .. RowsTaken
      BY <2>2
    <3> QED
      BY <2>2, <3>1, RowsAreRows
  <2>4. Len(due) <= Len(table)
    <3>1. Len(table) \in Nat
      BY <2>0, TablesAssumption, LenProperties DEF Places
    <3>2. CASE Len(due) = 0
      BY <3>1, <3>2
    <3>3. CASE Len(due) # 0
      <4>1. Len(due) \in 1 .. Len(due)
        BY <2>2, <3>3
      <4>2. Len(due) \in 1 .. Len(table)
        BY <2>3, <4>1
      <4> QED
        BY <4>2
    <3> QED
      BY <3>2, <3>3
  <2>5. ASSUME exhausted PROVE Len(delivered) = RowsBefore(fed)
    <3>1. NothingWhole /\ pc \in {"idle", "dropped"} /\ chunk = <<>>
      BY <2>0, <2>5 DEF Ending
    <3>2. Len(delivered) = Len(rows)
      <4>1. delivered \o chunk = delivered
        BY <2>0, <3>1, ConcatEmptySeq DEF Vectors
      <4> QED
        BY <2>1, <2>2, <3>1, <4>1 DEF RowsTaken
    <3>3. {k \in 1 .. Len(doc) : EndsRow(k) /\ doc[k].end <= fed} = RowEndsIn(scanned)
      <4>1. ASSUME NEW k \in 1 .. Len(doc) PROVE doc[k].end <= fed <=> k \in 1 .. scanned
        <5>1. k <= scanned => doc[k].end <= base + pos
          BY <2>0 DEF RInv, InStep
        <5>2. doc[k].end <= fed => k <= scanned
          BY <3>1 DEF NothingWhole
        <5> QED
          BY <2>0, <5>1, <5>2, Numbers
      <4>2. 1 .. scanned \subseteq 1 .. Len(doc)
        BY <2>0, Numbers
      <4> QED
        BY <4>1, <4>2, EndsAlike DEF RowEndsIn
    <3> QED
      BY <2>0, <3>2, <3>3 DEF RowsBefore, Counted
  <2> QED
    BY <2>1, <2>3, <2>4, <2>5 DEF RowsAsAsked
<1> QED
  BY <1>1, FInvAlways, PTL

(* An answer is refused for its size only in the middle of a row: what is  *)
(* held then contains no end of a row (client.cpp:384-393,                 *)
(* rowset.hpp:152-165).                                                    *)
THEOREM RefusedOnlyMidRow ==
    ASSUME GrammarAssumption, StreamAssumption, ScanAssumption
    PROVE  ScanSpec => []LimitFair
<1>1. FInv => LimitFair
  <2> SUFFICES ASSUME FInv, pc = "none", NEW k \in 1 .. Len(doc), EndsRow(k)
               PROVE  doc[k].end <= base \/ doc[k].end > fed
    BY DEF LimitFair
  <2>0. RInv /\ NothingWhole /\ Held
    BY DEF FInv, TInv, Ending
  <2>1. doc[k].end <= fed => k \in 1 .. scanned
    BY <2>0, Numbers DEF NothingWhole
  <2>2. k \in 1 .. scanned => doc[k].end <= base
    BY <2>0, EndsAlike DEF Held
  <2> QED
    BY <2>0, <2>1, <2>2, Numbers
<1> QED
  BY <1>1, FInvAlways, PTL
=============================================================================
