----------------------------- MODULE RowStreamProofs -----------------------------
(***************************************************************************)
(* Proofs about RowStream, for every document and every way it is cut.     *)
(***************************************************************************)
EXTENDS RowStream, SequenceTheorems, TLAPS

-----------------------------------------------------------------------------
(* Documents.                                                              *)

(* The positions of a construct of a document are numbers.                 *)
LEMMA ConstructTyped ==
    ASSUME NEW d, IsDocument(d), NEW k \in 1 .. Len(d)
    PROVE  /\ d[k] \in Construct
           /\ d[k].text \in Texts /\ d[k].kind \in Kinds /\ d[k].name \in Names
           /\ d[k].at \in Nat /\ d[k].end \in Nat /\ d[k].at < d[k].end
<1>1. d[k] \in Construct
  <2>1. d \in Seq(Construct)
    BY DEF IsDocument
  <2> QED
    BY <2>1, ElementOfSeq
<1> QED
  BY <1>1 DEF Construct, IsDocument

(* Two constructs do not end at one place.                                 *)
LEMMA EndsDistinct ==
    ASSUME NEW d, IsDocument(d), NEW j \in 1 .. Len(d), NEW k \in 1 .. Len(d), d[j].end = d[k].end
    PROVE  j = k
<1>0. Len(d) \in Nat
  BY LenProperties DEF IsDocument
<1>1. /\ d[j].at \in Nat /\ d[j].end \in Nat /\ d[j].at < d[j].end
      /\ d[k].at \in Nat /\ d[k].end \in Nat /\ d[k].at < d[k].end
  BY ConstructTyped
<1>2. /\ j < k => d[j].end <= d[k].at
      /\ k < j => d[k].end <= d[j].at
  BY DEF IsDocument
<1> QED
  BY <1>0, <1>1, <1>2

(* The construct that ends at a place is the one a choice finds.           *)
LEMMA ChosenEnd ==
    ASSUME NEW d, IsDocument(d), NEW n \in 0 .. Len(d), NEW e, NEW k \in 1 .. n, d[k].end = e
    PROVE  (CHOOSE j \in 1 .. n : d[j].end = e) = k
<1>0. Len(d) \in Nat
  BY LenProperties DEF IsDocument
<1>1. ASSUME NEW j \in 1 .. n, d[j].end = e PROVE j = k
  BY <1>0, <1>1, EndsDistinct
<1> QED
  BY <1>1

(* A document has a size.                                                  *)
LEMMA SizeTyped ==
    ASSUME NEW d, IsDocument(d)
    PROVE  Size(d) \in Nat
<1>1. CASE d = <<>>
  BY <1>1 DEF Size
<1>2. CASE d # <<>>
  <2>1. Len(d) \in 1 .. Len(d)
    <3>1. Len(d) \in Nat /\ Len(d) # 0
      BY <1>2, EmptySeq, LenProperties DEF IsDocument
    <3> QED
      BY <3>1
  <2>2. d[Len(d)].end \in Nat
    BY <2>1, ConstructTyped
  <2> QED
    BY <1>2, <2>2 DEF Size
<1> QED
  BY <1>1, <1>2

-----------------------------------------------------------------------------
(* The scanner state.                                                      *)

(* A state's components have their types.                                  *)
LEMMA StateParts ==
    ASSUME NEW s \in State
    PROVE  /\ s.depth \in Nat /\ s.row_depth \in Int /\ s.field \in Names
           /\ s.columns \in Seq(Names) /\ s.row \in Seq(Cell)
           /\ s = [depth |-> s.depth, row_depth |-> s.row_depth, field |-> s.field,
                   columns |-> s.columns, row |-> s.row]
BY DEF State

(* A column is found where it was put.                                     *)
LEMMA ColumnFound ==
    ASSUME NEW columns \in Seq(Names), NEW name \in Names
    PROVE  /\ WithColumn(columns, name) \in Seq(Names)
           /\ ColumnFor(WithColumn(columns, name), name) \in Nat
<1> DEFINE c == WithColumn(columns, name)
<1>1. c \in Seq(Names)
  BY AppendProperties DEF WithColumn
<1>2. \E i \in DOMAIN c : c[i] = name
  <2>1. CASE name \in Range(columns)
    BY <2>1 DEF Range, WithColumn
  <2>2. CASE name \notin Range(columns)
    <3>1. c = Append(columns, name)
      BY <2>2 DEF WithColumn
    <3>2. Len(c) = Len(columns) + 1 /\ c[Len(columns) + 1] = name /\ Len(columns) \in Nat
      BY <3>1, AppendProperties, LenProperties
    <3>3. Len(columns) + 1 \in DOMAIN c
      BY <1>1, <3>2, LenProperties
    <3> QED
      BY <3>2, <3>3
  <2> QED
    BY <2>1, <2>2
<1>3. ColumnFor(c, name) \in DOMAIN c
  BY <1>2 DEF ColumnFor
<1>4. DOMAIN c = 1 .. Len(c) /\ Len(c) \in Nat
  BY <1>1, LenProperties
<1>5. ColumnFor(c, name) \in Nat
  <2> HIDE DEF c
  <2> QED
    BY <1>3, <1>4
<1> QED
  BY <1>1, <1>5

(* Setting a cell changes the columns and the row, and nothing else.       *)
LEMMA SetCellTyped ==
    ASSUME NEW s \in State, NEW name \in Names, NEW value \in Values
    PROVE  /\ SetCell(s, name, value) \in State
           /\ SetCell(s, name, value).field = s.field
           /\ SetCell(s, name, value).depth = s.depth
           /\ SetCell(s, name, value).row_depth = s.row_depth
<1> DEFINE columns == WithColumn(s.columns, name)
           cell == [column |-> ColumnFor(columns, name), value |-> value]
           row == IF \E i \in DOMAIN s.row : s.row[i].column = cell.column
                  THEN [i \in DOMAIN s.row |-> IF s.row[i].column = cell.column THEN cell ELSE s.row[i]]
                  ELSE Append(s.row, cell)
<1>1. s.depth \in Nat /\ s.row_depth \in Int /\ s.field \in Names /\ s.columns \in Seq(Names)
      /\ s.row \in Seq(Cell)
      /\ s = [depth |-> s.depth, row_depth |-> s.row_depth, field |-> s.field,
              columns |-> s.columns, row |-> s.row]
  BY StateParts
<1>2. columns \in Seq(Names) /\ ColumnFor(columns, name) \in Nat
  BY <1>1, ColumnFound
<1>3. cell \in Cell
  BY <1>2 DEF Cell
<1>4. row \in Seq(Cell)
  <2>1. Append(s.row, cell) \in Seq(Cell)
    BY <1>1, <1>3, AppendProperties
  <2>2. [i \in DOMAIN s.row |-> IF s.row[i].column = cell.column THEN cell ELSE s.row[i]] \in Seq(Cell)
    <3>1. DOMAIN s.row = 1 .. Len(s.row) /\ Len(s.row) \in Nat
      BY <1>1, LenProperties
    <3>2. \A i \in 1 .. Len(s.row) : s.row[i] \in Cell
      BY <1>1, ElementOfSeq
    <3> HIDE DEF cell
    <3>3. \A i \in 1 .. Len(s.row) : (IF s.row[i].column = cell.column THEN cell ELSE s.row[i]) \in Cell
      BY <1>3, <3>2
    <3> QED
      BY <3>1, <3>3, IsASeq
  <2> QED
    BY <2>1, <2>2
<1>5. SetCell(s, name, value) = [s EXCEPT !.columns = columns, !.row = row]
  BY DEF SetCell
<1> HIDE DEF columns, cell, row
<1>6. SetCell(s, name, value) = [depth |-> s.depth, row_depth |-> s.row_depth, field |-> s.field,
                                 columns |-> columns, row |-> row]
  BY <1>1, <1>5
<1> QED
  BY <1>1, <1>2, <1>4, <1>6 DEF State

(* What an opening tag leaves; a pending field stays unless another opens. *)
LEMMA OpenedTyped ==
    ASSUME GrammarAssumption, NEW s \in State, NEW name \in Names
    PROVE  /\ Opened(s, name) \in State
           /\ ~IsField(s) => Opened(s, name).field = s.field
<1>1. s.depth \in Nat /\ s.row_depth \in Int /\ s.field \in Names /\ s.columns \in Seq(Names)
      /\ s.row \in Seq(Cell)
      /\ s = [depth |-> s.depth, row_depth |-> s.row_depth, field |-> s.field,
              columns |-> s.columns, row |-> s.row]
  BY StateParts
<1>2. CASE name = "row" /\ s.row_depth < 0
  <2>1. Opened(s, name) = [depth |-> s.depth + 1, row_depth |-> s.depth, field |-> s.field,
                           columns |-> s.columns, row |-> <<>>]
    BY <1>1, <1>2 DEF Opened
  <2> QED
    BY <1>1, <2>1 DEF State
<1>3. CASE ~(name = "row" /\ s.row_depth < 0)
  <2> DEFINE field == IF IsField(s) THEN Decoded[name] ELSE s.field
  <2>1. field \in Names
    BY <1>1 DEF GrammarAssumption
  <2>2. Opened(s, name) = [depth |-> s.depth + 1, row_depth |-> s.row_depth, field |-> field,
                           columns |-> s.columns, row |-> s.row]
    BY <1>1, <1>3 DEF Opened
  <2>3. Opened(s, name) \in State /\ Opened(s, name).field = field
    <3> HIDE DEF field
    <3> QED
      BY <1>1, <2>1, <2>2 DEF State
  <2> QED
    BY <2>3
<1> QED
  BY <1>2, <1>3

(* A self-closing tag leaves the pending field.                            *)
LEMMA SelfClosedTyped ==
    ASSUME GrammarAssumption, NEW s \in State, NEW name \in Names
    PROVE  SelfClosed(s, name) \in State /\ SelfClosed(s, name).field = s.field
<1>1. Decoded[name] \in Names /\ EmptyString \in Values
  BY DEF GrammarAssumption, Values
<1> QED
  BY <1>1, SetCellTyped DEF SelfClosed

(* A closing tag ends the pending field or leaves it, and reads its text   *)
(* only if there is one.                                                   *)
LEMMA ClosedTyped ==
    ASSUME GrammarAssumption, NEW s \in State, NEW value \in Values
    PROVE  /\ Closed(s, value) \in State
           /\ Closed(s, value).field \in {EmptyString, s.field}
           /\ s.field = EmptyString => \A v : Closed(s, v) = Closed(s, value)
<1> DEFINE depth == IF s.depth > 0 THEN s.depth - 1 ELSE 0
           out == [s EXCEPT !.depth = IF @ > 0 THEN @ - 1 ELSE 0]
<1>1. s.depth \in Nat /\ s.row_depth \in Int /\ s.field \in Names /\ s.columns \in Seq(Names)
      /\ s.row \in Seq(Cell)
      /\ s = [depth |-> s.depth, row_depth |-> s.row_depth, field |-> s.field,
              columns |-> s.columns, row |-> s.row]
  BY StateParts
<1>2. out = [depth |-> depth, row_depth |-> s.row_depth, field |-> s.field,
             columns |-> s.columns, row |-> s.row]
  BY <1>1
<1>3. depth \in Nat
  BY <1>1
<1>4. out \in State /\ out.field = s.field
  <2> HIDE DEF depth
  <2> QED
    BY <1>1, <1>2, <1>3 DEF State
<1>5. \A v : Closed(s, v) = IF s.field # EmptyString /\ IsField(out)
                            THEN [SetCell(out, s.field, v) EXCEPT !.field = EmptyString]
                            ELSE out
  BY DEF Closed
<1> HIDE DEF out
<1>6. CASE s.field # EmptyString /\ IsField(out)
  <2> DEFINE set == SetCell(out, s.field, value)
  <2>1. set \in State
    BY <1>1, <1>4, SetCellTyped
  <2>2. Closed(s, value) = [set EXCEPT !.field = EmptyString]
    BY <1>5, <1>6
  <2>3. EmptyString \in Names
    BY DEF GrammarAssumption
  <2> HIDE DEF set
  <2>4. Closed(s, value) \in State /\ Closed(s, value).field = EmptyString
    BY <2>1, <2>2, <2>3 DEF State
  <2> QED
    BY <1>6, <2>4
<1>7. CASE ~(s.field # EmptyString /\ IsField(out))
  BY <1>4, <1>5, <1>7
<1> QED
  BY <1>6, <1>7

(* A row that is taken leaves no pending field.                            *)
LEMMA RowTakenTyped ==
    ASSUME GrammarAssumption, NEW s \in State
    PROVE  RowTaken(s) \in State /\ RowTaken(s).field = EmptyString
<1>1. /\ s.depth \in Nat /\ s.columns \in Seq(Names)
      /\ s = [depth |-> s.depth, row_depth |-> s.row_depth, field |-> s.field,
              columns |-> s.columns, row |-> s.row]
  BY StateParts
<1> DEFINE none == -1
<1>2. RowTaken(s) = [depth |-> s.depth, row_depth |-> none, field |-> EmptyString,
                     columns |-> s.columns, row |-> <<>>]
  <2>1. RowTaken(s) = [s EXCEPT !.row = <<>>, !.row_depth = none, !.field = EmptyString]
    BY DEF RowTaken
  <2> HIDE DEF none
  <2> QED
    BY <1>1, <2>1
<1>3. EmptyString \in Names
  BY DEF GrammarAssumption
<1>4. <<>> \in Seq(Cell)
  OBVIOUS
<1>5. none \in Int
  OBVIOUS
<1> HIDE DEF none
<1> QED
  BY <1>1, <1>2, <1>3, <1>4, <1>5 DEF State

-----------------------------------------------------------------------------
(* The inductive invariant.                                                *)

Offsets ==
    /\ fed \in Nat /\ base \in Nat /\ pos \in Nat /\ pending_from \in Int
    /\ base + pos <= fed /\ fed <= Size(doc)

(* The next construct has not been begun.                                  *)
InStep ==
    /\ scanned \in 0 .. Len(doc)
    /\ \A k \in 1 .. Len(doc) : /\ k <= scanned => doc[k].end <= base + pos
                                /\ k > scanned  => doc[k].at >= base + pos

RTypes == IsDocument(doc) /\ st \in State /\ scanning \in BOOLEAN /\ rows \in Seq(Seq(Cell))

RInv == RTypes /\ Offsets /\ InStep /\ TextRetained

(* The numbers of a state.                                                 *)
LEMMA Numbers ==
    ASSUME RInv
    PROVE  /\ fed \in Nat /\ base \in Nat /\ pos \in Nat /\ pending_from \in Int /\ base + pos <= fed
           /\ Len(doc) \in Nat /\ scanned \in Nat /\ scanned <= Len(doc)
           /\ \A k \in 1 .. Len(doc) : doc[k].at \in Nat /\ doc[k].end \in Nat /\ doc[k].at < doc[k].end
<1>1. Len(doc) \in Nat
  BY LenProperties DEF RInv, RTypes, IsDocument
<1>2. \A k \in 1 .. Len(doc) : doc[k].at \in Nat /\ doc[k].end \in Nat /\ doc[k].at < doc[k].end
  BY ConstructTyped DEF RInv, RTypes
<1> QED
  BY <1>1, <1>2 DEF RInv, Offsets, InStep

(* What is ahead has not been read.                                        *)
LEMMA AheadUnread ==
    ASSUME RInv, NEW k \in Ahead
    PROVE  k \in 1 .. Len(doc) /\ doc[k].at >= base + pos /\ k > scanned
<1>1. k \in 1 .. Len(doc) /\ doc[k].at >= base + pos
  BY DEF Ahead, Here
<1>2. ~(k <= scanned)
  BY <1>1, Numbers DEF RInv, InStep
<1> QED
  BY <1>1, <1>2, Numbers

(* The construct the scanner finds is the one after the last it read.      *)
LEMMA FoundIsNext ==
    ASSUME RInv, NEW k, Found(k)
    PROVE  k = scanned + 1 /\ k \in 1 .. Len(doc) /\ doc[k].at >= base + pos
<1>1. k \in 1 .. Len(doc) /\ doc[k].at >= base + pos /\ k > scanned
  BY AheadUnread DEF Found
<1>3. scanned + 1 \in Ahead
  BY <1>1, Numbers DEF RInv, InStep, Ahead, Here
<1>4. k <= scanned + 1
  BY <1>3 DEF Found
<1> QED
  BY <1>1, <1>4, Numbers

(* A read of construct k leaves the scanner after it.                      *)
LEMMA ReadMoves ==
    ASSUME RInv, NEW k, NEW kind, Read(k, kind)
    PROVE  /\ k = scanned + 1 /\ k \in 1 .. Len(doc) /\ scanned' = k /\ doc' = doc
           /\ fed' = fed /\ base' = base
           /\ pos' \in Nat /\ pos' > pos /\ base + pos' = doc[k].end /\ doc[k].end <= fed
           /\ InStep'
<1>1. /\ Found(k) /\ doc[k].end <= fed /\ pos' = doc[k].end - base /\ scanned' = scanned + 1
      /\ UNCHANGED <<doc, fed, base>>
  BY DEF Read, Whole
<1>2. k = scanned + 1 /\ k \in 1 .. Len(doc) /\ doc[k].at >= base + pos
  BY <1>1, FoundIsNext
<1>3. pos' \in Nat /\ pos' > pos /\ base + pos' = doc[k].end
  <2>1. base \in Nat /\ pos \in Nat /\ doc[k].at \in Nat /\ doc[k].end \in Nat
        /\ doc[k].at < doc[k].end
    BY <1>2, Numbers
  <2>2. base + pos < doc[k].end
    BY <1>2, <2>1
  <2> QED
    BY <1>1, <2>1, <2>2
<1>4. InStep'
  <2>1. ASSUME NEW j \in 1 .. Len(doc), j <= k PROVE doc[j].end <= doc[k].end
    <3>1. j = k \/ j < k
      BY <1>2, <2>1
    <3>2. j < k => doc[j].end <= doc[k].at
      BY <1>2 DEF RInv, RTypes, IsDocument
    <3> QED
      BY <1>2, <3>1, <3>2, Numbers
  <2>2. ASSUME NEW j \in 1 .. Len(doc), j > k PROVE doc[j].at >= doc[k].end
    <3>1. doc[k].end <= doc[j].at
      BY <1>2, <2>2 DEF RInv, RTypes, IsDocument
    <3> QED
      BY <1>2, <3>1, Numbers
  <2> QED
    BY <1>1, <1>2, <1>3, <2>1, <2>2, Numbers DEF InStep
<1> QED
  BY <1>1, <1>2, <1>3, <1>4

(* The pending text stays where it was when no field opens.                *)
LEMMA TextStays ==
    ASSUME RInv, NEW k, NEW kind, Read(k, kind), pending_from' = pending_from,
           st'.field \in {EmptyString, st.field}
    PROVE  TextRetained'
<1> SUFFICES ASSUME st'.field # EmptyString
             PROVE  /\ pending_from \in 0 .. pos'
                    /\ \E j \in 1 .. scanned' : doc[j].end = base + pending_from
  BY ReadMoves DEF TextRetained
<1>1. st.field # EmptyString
  OBVIOUS
<1>2. pending_from \in 0 .. pos
  BY <1>1 DEF RInv, TextRetained
<1>3. PICK j \in 1 .. scanned : doc[j].end = base + pending_from
  BY <1>1 DEF RInv, TextRetained
<1>4. scanned' = scanned + 1 /\ pos' \in Nat /\ pos' > pos
  BY ReadMoves
<1>5. j \in 1 .. scanned'
  BY <1>4, Numbers
<1>6. pending_from \in 0 .. pos'
  BY <1>2, <1>4, Numbers
<1> QED
  BY <1>3, <1>5, <1>6

(* Value is one of the values there are.                                   *)
LEMMA ValueTyped ==
    ASSUME RInv
    PROVE  Value \in Values
<1>1. CASE \E k \in 1 .. (Len(doc) - 1) : Pending(k)
  <2> DEFINE k == CHOOSE k \in 1 .. (Len(doc) - 1) : Pending(k)
  <2>1. k \in 1 .. (Len(doc) - 1)
    BY <1>1
  <2>2. Value = doc[1 + k].text
    BY <1>1 DEF Value
  <2> HIDE DEF k
  <2>3. 1 + k \in 1 .. Len(doc)
    BY <2>1, Numbers
  <2>4. doc[1 + k].text \in Texts
    BY <2>3, ConstructTyped DEF RInv, RTypes
  <2> QED
    BY <2>2, <2>4 DEF Values
<1>2. CASE ~(\E k \in 1 .. (Len(doc) - 1) : Pending(k))
  BY <1>2 DEF Value, Values
<1> QED
  BY <1>1, <1>2

-----------------------------------------------------------------------------
(* Steps.                                                                  *)

(* Before anything arrives.                                                *)
LEMMA RInvHoldsFirst ==
    ASSUME GrammarAssumption, StreamInit
    PROVE  RInv
<1>1. Len(doc) \in Nat /\ IsDocument(doc)
  BY LenProperties DEF StreamInit, IsDocument
<1>2. st \in State /\ st.field = EmptyString
  <2>1. EmptyString \in Names
    BY DEF GrammarAssumption
  <2> DEFINE none == -1
  <2>2. st = [depth |-> 0, row_depth |-> none, field |-> EmptyString, columns |-> <<>>, row |-> <<>>]
    BY DEF StreamInit, Unread
  <2>3. none \in Int
    OBVIOUS
  <2> HIDE DEF none
  <2> QED
    BY <2>1, <2>2, <2>3 DEF State
<1>3. RTypes
  <2>1. scanning \in BOOLEAN
    BY DEF StreamInit
  <2>2. rows \in Seq(Seq(Cell))
    BY DEF StreamInit
  <2> QED
    BY <1>1, <1>2, <2>1, <2>2 DEF RTypes
<1>4. Size(doc) \in Nat
  BY <1>1, SizeTyped
<1>5. Offsets
  BY <1>4 DEF StreamInit, Offsets
<1>6. InStep
  <2>1. \A k \in 1 .. Len(doc) : doc[k].at >= 0
    BY <1>1, ConstructTyped
  <2> QED
    BY <1>1, <2>1 DEF StreamInit, InStep
<1>7. TextRetained
  BY <1>2 DEF TextRetained
<1> QED
  BY <1>3, <1>5, <1>6, <1>7 DEF RInv

LEMMA FeedKeeps ==
    ASSUME StreamAssumption, RInv, NEW n \in Cuts, Feed(n)
    PROVE  RInv'
<1>0. n \in Nat
  BY DEF StreamAssumption
<1>1. /\ doc' = doc /\ st' = st /\ scanned' = scanned /\ rows' = rows
      /\ base' = base /\ pos' = pos /\ pending_from' = pending_from
      /\ fed' = fed + n /\ fed + n <= Size(doc)
  BY DEF Feed, parser, buffer
<1>2. scanning' = scanning
  BY DEF Feed, parser
<1>3. RTypes'
  BY <1>1, <1>2 DEF RInv, RTypes
<1>4. Offsets'
  BY <1>0, <1>1, Numbers DEF Offsets, Size
<1>5. InStep' /\ TextRetained'
  BY <1>1 DEF RInv, InStep, TextRetained
<1> QED
  BY <1>3, <1>4, <1>5 DEF RInv

(* A call of Next: Compact keeps the pending text, and moves no position   *)
(* of the document.                                                        *)
LEMMA CallNextKeeps ==
    ASSUME RInv, CallNext
    PROVE  /\ RInv'
           /\ st.field # EmptyString => base' + pending_from' = base + pending_from
<1>1. /\ doc' = doc /\ st' = st /\ scanned' = scanned /\ rows' = rows /\ fed' = fed
  BY DEF CallNext
<1>2. base' \in Nat /\ pos' \in Nat /\ base' + pos' = base + pos /\ pending_from' \in Int
  <2>1. CASE st.field # EmptyString /\ pending_from < pos
    <3>1. pending_from \in 0 .. pos
      BY <2>1 DEF RInv, TextRetained
    <3>2. base' = base + pending_from /\ pos' = pos - pending_from
          /\ pending_from' = pending_from - pending_from
      BY <2>1 DEF CallNext, Compact
    <3>3. base \in Nat /\ pos \in Nat
      BY Numbers
    <3>4. base' \in Nat /\ pos' \in Nat
      BY <3>1, <3>2, <3>3
    <3> QED
      BY <3>1, <3>2, <3>3, <3>4
  <2>2. CASE ~(st.field # EmptyString /\ pending_from < pos)
    <3>1. base' = base + pos /\ pos' = pos - pos
          /\ pending_from' \in {pending_from, pending_from - pos}
      BY <2>2 DEF CallNext, Compact
    <3> QED
      BY <3>1, Numbers
  <2> QED
    BY <2>1, <2>2
<1>3. ASSUME st.field # EmptyString
      PROVE  base' + pending_from' = base + pending_from /\ pending_from' \in 0 .. pos'
  <2>1. pending_from \in 0 .. pos
    BY <1>3 DEF RInv, TextRetained
  <2>2. CASE pending_from < pos
    <3>1. base' = base + pending_from /\ pos' = pos - pending_from
          /\ pending_from' = pending_from - pending_from
      BY <1>3, <2>2 DEF CallNext, Compact
    <3> QED
      BY <2>1, <2>2, <3>1, Numbers
  <2>3. CASE ~(pending_from < pos)
    <3>1. base' = base + pos /\ pos' = pos - pos /\ pending_from' = pending_from - pos
      BY <1>3, <2>3 DEF CallNext, Compact
    <3> QED
      BY <2>1, <2>3, <3>1, Numbers
  <2> QED
    BY <2>2, <2>3
<1>4. RTypes'
  BY <1>1 DEF RInv, RTypes, CallNext
<1>5. Offsets'
  BY <1>1, <1>2, Numbers DEF RInv, Offsets, Size
<1>6. InStep'
  BY <1>1, <1>2 DEF RInv, InStep
<1>7. TextRetained'
  <2> SUFFICES ASSUME st'.field # EmptyString
               PROVE  /\ pending_from' \in 0 .. pos'
                      /\ \E k \in 1 .. scanned' : doc'[k].end = base' + pending_from'
    BY DEF TextRetained
  <2>1. st.field # EmptyString
    BY <1>1
  <2>2. \E k \in 1 .. scanned : doc[k].end = base + pending_from
    BY <2>1 DEF RInv, TextRetained
  <2> QED
    BY <1>1, <1>3, <2>1, <2>2
<1> QED
  BY <1>3, <1>4, <1>5, <1>6, <1>7 DEF RInv

(* A Next that finds no whole construct resumes at the one that has begun, *)
(* or at the end.                                                          *)
LEMMA GiveUpKeeps ==
    ASSUME RInv, GiveUp
    PROVE  RInv'
<1>1. /\ doc' = doc /\ st' = st /\ scanned' = scanned /\ rows' = rows /\ fed' = fed /\ base' = base
      /\ pending_from' = pending_from
  BY DEF GiveUp
<1>2. pos' \in Nat /\ pos' >= pos /\ base + pos' <= fed
      /\ \A k \in 1 .. Len(doc) : k > scanned => doc[k].at >= base + pos'
  <2>1. CASE Begun
    <3> DEFINE k == CHOOSE k \in Ahead : Found(k)
    <3>1. PICK j \in Ahead : Found(j) /\ doc[j].at < fed
      BY <2>1 DEF Begun
    <3>2. k \in Ahead /\ Found(k)
      BY <3>1
    <3>3. pos' = doc[k].at - base
      BY <2>1 DEF GiveUp
    <3> HIDE DEF k
    <3>4. k = scanned + 1 /\ k \in 1 .. Len(doc) /\ doc[k].at >= base + pos
      BY <3>2, FoundIsNext
    <3>5. j = k
      <4>1. j = scanned + 1
        BY <3>1, FoundIsNext
      <4> QED
        BY <3>4, <4>1
    <3>6. pos' \in Nat /\ pos' >= pos /\ base + pos' = doc[k].at /\ base + pos' <= fed
      <4>1. doc[k].at \in Nat /\ base \in Nat /\ pos \in Nat /\ fed \in Nat
        BY <3>4, Numbers
      <4>2. doc[k].at < fed
        BY <3>1, <3>5
      <4> QED
        BY <3>3, <3>4, <4>1, <4>2
    <3>7. ASSUME NEW i \in 1 .. Len(doc), i > scanned PROVE doc[i].at >= doc[k].at
      <4>1. i = k \/ k < i
        BY <3>4, <3>7, Numbers
      <4>2. k < i => doc[k].end <= doc[i].at
        BY <3>4 DEF RInv, RTypes, IsDocument
      <4> QED
        BY <3>4, <4>1, <4>2, Numbers
    <3> QED
      BY <3>6, <3>7
  <2>2. CASE ~Begun
    <3>1. pos' = fed - base
      BY <2>2 DEF GiveUp
    <3>2. pos' \in Nat /\ pos' >= pos /\ base + pos' = fed
      BY <3>1, Numbers
    <3>3. ASSUME NEW i \in 1 .. Len(doc), i > scanned PROVE doc[i].at >= fed
      <4> DEFINE k == scanned + 1
      <4>1. k \in 1 .. Len(doc)
        BY <3>3, Numbers
      <4>2. k \in Ahead
        BY <4>1, Numbers DEF Ahead, Here, RInv, InStep
      <4>3. \A j \in Ahead : k <= j
        BY AheadUnread, Numbers
      <4>4. ~(doc[k].at < fed)
        BY <2>2, <4>2, <4>3 DEF Begun, Found
      <4>5. k = i \/ k < i
        BY <3>3, Numbers
      <4>6. k < i => doc[k].end <= doc[i].at
        BY <4>1 DEF RInv, RTypes, IsDocument
      <4> HIDE DEF k
      <4> QED
        BY <4>1, <4>4, <4>5, <4>6, Numbers
    <3> QED
      BY <3>2, <3>3, Numbers
  <2> QED
    BY <2>1, <2>2
<1>3. RTypes'
  BY <1>1 DEF RInv, RTypes, GiveUp
<1>4. Offsets'
  BY <1>1, <1>2 DEF RInv, Offsets, Size
<1>5. InStep'
  <2>1. \A k \in 1 .. Len(doc) : k <= scanned => doc[k].end <= base + pos'
    BY <1>2, Numbers DEF RInv, InStep
  <2> QED
    BY <1>1, <1>2, <2>1 DEF RInv, InStep
<1>6. TextRetained'
  <2> SUFFICES ASSUME st.field # EmptyString
               PROVE  /\ pending_from \in 0 .. pos'
                      /\ \E k \in 1 .. scanned : doc[k].end = base + pending_from
    BY <1>1 DEF TextRetained
  <2>1. pending_from \in 0 .. pos /\ \E k \in 1 .. scanned : doc[k].end = base + pending_from
    BY DEF RInv, TextRetained
  <2> QED
    BY <1>2, <2>1, Numbers
<1> QED
  BY <1>3, <1>4, <1>5, <1>6 DEF RInv

(* A read of a construct, whatever it is, keeps the offsets.               *)
LEMMA ReadKeepsOffsets ==
    ASSUME RInv, NEW k, NEW kind, Read(k, kind), pending_from' \in Int
    PROVE  Offsets' /\ InStep'
<1>1. /\ doc' = doc /\ fed' = fed /\ base' = base
      /\ pos' \in Nat /\ base + pos' = doc[k].end /\ doc[k].end <= fed /\ InStep'
  BY ReadMoves
<1> QED
  BY <1>1 DEF RInv, Offsets, Size

(* The types of a state the parser goes to.                                *)
LEMMA StateKeepsTypes ==
    ASSUME RInv, doc' = doc, st' \in State, scanning' \in BOOLEAN, rows' \in Seq(Seq(Cell))
    PROVE  RTypes'
BY DEF RInv, RTypes

LEMMA TagKeeps ==
    ASSUME GrammarAssumption, RInv, NEW k \in Ahead, Tag(k)
    PROVE  RInv'
<1>0. pending_from \in Int /\ st \in State /\ rows \in Seq(Seq(Cell))
  BY DEF RInv, Offsets, RTypes
<1>1. CASE SkipConstruct(k)
  <2>1. Read(k, "skip") /\ UNCHANGED <<pending_from, st, rows>> /\ scanning' = scanning
    BY <1>1 DEF SkipConstruct
  <2>2. Offsets' /\ InStep' /\ doc' = doc
    BY <1>0, <2>1, ReadKeepsOffsets, ReadMoves
  <2>3. TextRetained'
    BY <2>1, TextStays
  <2>4. scanning' \in BOOLEAN
    BY <2>1 DEF RInv, RTypes
  <2>5. RTypes'
    BY <1>0, <2>1, <2>2, <2>4, StateKeepsTypes
  <2> QED
    BY <2>2, <2>3, <2>5 DEF RInv
<1>2. CASE OpenTag(k)
  <2>1. /\ Read(k, "open") /\ st' = Opened(st, doc[k].name)
        /\ pending_from' = (IF IsField(st) THEN doc[k].end - base ELSE pending_from)
        /\ rows' = rows /\ scanning' = scanning
    BY <1>2 DEF OpenTag
  <2>2. /\ k = scanned + 1 /\ k \in 1 .. Len(doc) /\ scanned' = k /\ doc' = doc /\ base' = base
        /\ pos' \in Nat /\ base + pos' = doc[k].end
    BY <2>1, ReadMoves
  <2>3. pending_from' \in Int
    BY <1>0, <2>1, <2>2, Numbers
  <2>4. Offsets' /\ InStep'
    BY <2>1, <2>3, ReadKeepsOffsets
  <2>5. doc[k].name \in Names
    BY <2>2, ConstructTyped DEF RInv, RTypes
  <2>6. st' \in State /\ (~IsField(st) => st'.field = st.field)
    BY <1>0, <2>1, <2>5, OpenedTyped
  <2>7. scanning' \in BOOLEAN
    BY <2>1 DEF RInv, RTypes
  <2>8. RTypes'
    BY <1>0, <2>1, <2>2, <2>6, <2>7, StateKeepsTypes
  <2>9. TextRetained'
    <3>1. CASE IsField(st)
      <4>1. pending_from' = pos'
        BY <2>1, <2>2, <3>1, Numbers
      <4>2. k \in 1 .. scanned' /\ doc'[k].end = base' + pending_from'
        BY <2>2, <4>1, Numbers
      <4>3. pending_from' \in 0 .. pos'
        BY <2>2, <4>1
      <4> QED
        BY <4>2, <4>3 DEF TextRetained
    <3>2. CASE ~IsField(st)
      BY <2>1, <2>6, <3>2, TextStays
    <3> QED
      BY <3>1, <3>2
  <2> QED
    BY <2>4, <2>8, <2>9 DEF RInv
<1>3. CASE EmptyTag(k)
  <2>1. /\ Read(k, "empty") /\ st' = SelfClosed(st, doc[k].name)
        /\ UNCHANGED <<pending_from, rows>> /\ scanning' = scanning
    BY <1>3 DEF EmptyTag
  <2>2. Offsets' /\ InStep' /\ doc' = doc /\ k \in 1 .. Len(doc)
    BY <1>0, <2>1, ReadKeepsOffsets, ReadMoves
  <2>3. doc[k].name \in Names
    BY <2>2, ConstructTyped DEF RInv, RTypes
  <2>4. st' \in State /\ st'.field = st.field
    BY <1>0, <2>1, <2>3, SelfClosedTyped
  <2>5. TextRetained'
    BY <2>1, <2>4, TextStays
  <2>6. scanning' \in BOOLEAN
    BY <2>1 DEF RInv, RTypes
  <2>7. RTypes'
    BY <1>0, <2>1, <2>2, <2>4, <2>6, StateKeepsTypes
  <2> QED
    BY <2>2, <2>5, <2>7 DEF RInv
<1>4. CASE CloseTag(k)
  <2>1. /\ Read(k, "close") /\ st' = Closed(st, Value)
        /\ UNCHANGED <<pending_from, rows>> /\ scanning' = scanning
    BY <1>4 DEF CloseTag
  <2>2. Offsets' /\ InStep' /\ doc' = doc
    BY <1>0, <2>1, ReadKeepsOffsets, ReadMoves
  <2>3. st' \in State /\ st'.field \in {EmptyString, st.field}
    BY <1>0, <2>1, ValueTyped, ClosedTyped
  <2>4. TextRetained'
    BY <2>1, <2>3, TextStays
  <2>5. scanning' \in BOOLEAN
    BY <2>1 DEF RInv, RTypes
  <2>6. RTypes'
    BY <1>0, <2>1, <2>2, <2>3, <2>5, StateKeepsTypes
  <2> QED
    BY <2>2, <2>4, <2>6 DEF RInv
<1>5. CASE ReturnRow(k)
  <2> DEFINE after == Closed(st, Value)
  <2>1. /\ Read(k, "close") /\ st' = RowTaken(after) /\ rows' = Append(rows, after.row)
        /\ pending_from' = pending_from /\ scanning' = FALSE
    BY <1>5 DEF ReturnRow
  <2>2. after \in State
    BY <1>0, ValueTyped, ClosedTyped
  <2> HIDE DEF after
  <2>3. Offsets' /\ InStep' /\ doc' = doc
    BY <1>0, <2>1, ReadKeepsOffsets, ReadMoves
  <2>4. st' \in State /\ st'.field = EmptyString
    BY <2>1, <2>2, RowTakenTyped
  <2>5. after.row \in Seq(Cell)
    BY <2>2, StateParts
  <2>6. rows' \in Seq(Seq(Cell))
    BY <1>0, <2>1, <2>5, AppendProperties
  <2>7. RTypes'
    BY <2>1, <2>3, <2>4, <2>6, StateKeepsTypes
  <2>8. TextRetained'
    BY <2>4 DEF TextRetained
  <2> QED
    BY <2>3, <2>7, <2>8 DEF RInv
<1> QED
  BY <1>1, <1>2, <1>3, <1>4, <1>5 DEF Tag

(* Every step keeps the invariant.                                         *)
LEMMA RInvKept ==
    ASSUME GrammarAssumption, StreamAssumption, RInv, [StreamNext]_streamVars
    PROVE  RInv'
<1>1. CASE \E n \in Cuts : Feed(n)
  BY <1>1, FeedKeeps
<1>2. CASE CallNext
  BY <1>2, CallNextKeeps
<1>3. CASE GiveUp
  BY <1>3, GiveUpKeeps
<1>4. CASE \E k \in Ahead : Tag(k)
  BY <1>4, TagKeeps
<1>5. CASE UNCHANGED streamVars
  BY <1>5 DEF streamVars, parser, buffer, RInv, RTypes, Offsets, InStep, TextRetained, Size
<1> QED
  BY <1>1, <1>2, <1>3, <1>4, <1>5 DEF StreamNext, Scan

(* The invariant holds throughout.                                         *)
THEOREM RInvAlways == ASSUME GrammarAssumption, StreamAssumption PROVE StreamSpec => []RInv
<1>1. StreamInit => RInv
  BY RInvHoldsFirst
<1>2. RInv /\ [StreamNext]_streamVars => RInv'
  BY RInvKept
<1> QED
  BY <1>1, <1>2, PTL DEF StreamSpec

-----------------------------------------------------------------------------
(* The properties.                                                         *)

LEMMA RInvGivesTypes ==
    ASSUME RInv
    PROVE  StreamTypeOK
<1>1. fed \in 0 .. Size(doc)
  <2>1. Size(doc) \in Nat
    BY SizeTyped DEF RInv, RTypes
  <2> QED
    BY <2>1 DEF RInv, Offsets
<1>2. base \in 0 .. fed /\ pos \in 0 .. (fed - base) /\ pending_from \in Int
  BY Numbers
<1>3. scanning \in BOOLEAN
  BY DEF RInv, RTypes
<1> QED
  BY <1>1, <1>2, <1>3 DEF RInv, RTypes, InStep, StreamTypeOK

(* The types of the parser's state; its offsets stay inside the buffer     *)
(* (rowset.cpp:380-403).                                                   *)
THEOREM StreamTyped == ASSUME GrammarAssumption, StreamAssumption PROVE StreamSpec => []StreamTypeOK
<1>1. RInv => StreamTypeOK
  BY RInvGivesTypes
<1> QED
  BY <1>1, RInvAlways, PTL

(* No construct is skipped or read twice, wherever the document is cut     *)
(* (rowset.cpp:182-247, 405-413).                                          *)
THEOREM TagsReadOnce == ASSUME GrammarAssumption, StreamAssumption PROVE StreamSpec => []NoTagLost
<1>1. RInv => NoTagLost
  <2> SUFFICES ASSUME RInv, NEW k \in 1 .. Len(doc)
               PROVE  k <= scanned <=> doc[k].end <= base + pos
    BY DEF NoTagLost, Here
  <2>1. CASE k <= scanned
    BY <2>1 DEF RInv, InStep
  <2>2. CASE k > scanned
    BY <2>2, Numbers DEF RInv, InStep
  <2> QED
    BY <2>1, <2>2, Numbers
<1> QED
  BY <1>1, RInvAlways, PTL

(* The text of an open field survives every Compact (rowset.cpp:380-403).  *)
THEOREM PendingTextKept == ASSUME GrammarAssumption, StreamAssumption PROVE StreamSpec => []TextRetained
<1>1. RInv => TextRetained
  BY DEF RInv
<1> QED
  BY <1>1, RInvAlways, PTL

-----------------------------------------------------------------------------
(* The refinement.                                                         *)

(* The two readings share their grammar.                                   *)
LEMMA OneGrammar ==
    /\ WholeDocument!EmptyString = EmptyString
    /\ WholeDocument!Unread = Unread
    /\ \A d : WholeDocument!IsDocument(d) <=> IsDocument(d)
    /\ \A s : WholeDocument!IsField(s) <=> IsField(s)
    /\ \A s : WholeDocument!RowTaken(s) = RowTaken(s)
    /\ \A s, n : /\ WholeDocument!Opened(s, n) = Opened(s, n)
                 /\ WholeDocument!SelfClosed(s, n) = SelfClosed(s, n)
                 /\ WholeDocument!Closed(s, n) = Closed(s, n)
                 /\ WholeDocument!ClosesRow(s, n) <=> ClosesRow(s, n)
<1>1. WholeDocument!EmptyString = EmptyString
  BY DEF WholeDocument!EmptyString, EmptyString
<1>2. \A d : WholeDocument!IsDocument(d) <=> IsDocument(d)
  BY DEF WholeDocument!IsDocument, IsDocument, WholeDocument!Construct, Construct,
         WholeDocument!Kinds, Kinds
<1>3. \A s : WholeDocument!IsField(s) <=> IsField(s)
  BY DEF WholeDocument!IsField, IsField
<1>4. \A s, n, v : WholeDocument!SetCell(s, n, v) = SetCell(s, n, v)
  BY DEF WholeDocument!SetCell, SetCell, WholeDocument!WithColumn, WithColumn,
         WholeDocument!ColumnFor, ColumnFor, WholeDocument!Range, Range
<1>5. WholeDocument!Unread = Unread /\ \A s : WholeDocument!RowTaken(s) = RowTaken(s)
  BY <1>1 DEF WholeDocument!Unread, Unread, WholeDocument!RowTaken, RowTaken
<1>6. \A s, n : WholeDocument!Opened(s, n) = Opened(s, n)
  BY <1>3 DEF WholeDocument!Opened, Opened
<1>7. \A s, n : WholeDocument!SelfClosed(s, n) = SelfClosed(s, n)
  BY <1>1, <1>3, <1>4 DEF WholeDocument!SelfClosed, SelfClosed
<1>8. \A s, n : WholeDocument!Closed(s, n) = Closed(s, n)
  BY <1>1, <1>3, <1>4 DEF WholeDocument!Closed, Closed
<1>9. \A s, n : WholeDocument!ClosesRow(s, n) <=> ClosesRow(s, n)
  BY DEF WholeDocument!ClosesRow, ClosesRow
<1> QED
  BY <1>1, <1>2, <1>3, <1>5, <1>6, <1>7, <1>8, <1>9

(* The construct a pending field was opened by, and the text of the field. *)
LEMMA OpenedByIs ==
    ASSUME RInv, st.field # EmptyString, NEW j \in 1 .. scanned, doc[j].end = base + pending_from
    PROVE  OpenedBy = j
BY ChosenEnd DEF OpenedBy, RInv, RTypes, InStep

(* Both readings find the same text for the field a closing tag ends.      *)
LEMMA SameValue ==
    ASSUME RInv, st.field # EmptyString, scanned < Len(doc)
    PROVE  WholeDocument!Value = Value
<1>1. PICK j \in 1 .. scanned : doc[j].end = base + pending_from
  BY DEF RInv, TextRetained
<1>2. OpenedBy = j
  BY <1>1, OpenedByIs
<1>3. j \in 1 .. (Len(doc) - 1) /\ j \in 1 .. Len(doc) /\ Len(doc) \in Nat
      /\ Len(doc) - 1 \in 0 .. Len(doc)
  BY <1>1, Numbers
<1>4. Pending(j)
  <2>1. pending_from \in 0 .. pos
    BY DEF RInv, TextRetained
  <2> QED
    BY <1>1, <2>1, Numbers DEF Pending
<1>5. ASSUME NEW k \in 1 .. (Len(doc) - 1), Pending(k) PROVE k = j
  <2>1. k \in 1 .. Len(doc) /\ doc[k].end = doc[j].end
    BY <1>1, <1>3, <1>5 DEF Pending
  <2> QED
    BY <1>3, <2>1, EndsDistinct DEF RInv, RTypes
<1>6. (CHOOSE k \in 1 .. (Len(doc) - 1) : Pending(k)) = j
  BY <1>3, <1>4, <1>5
<1>7. Value = doc[1 + j].text
  BY <1>3, <1>4, <1>6 DEF Value
<1>8. WholeDocument!Value = doc[j + 1].text
  BY <1>2, <1>3 DEF WholeDocument!Value
<1>9. 1 + j = j + 1
  BY <1>3
<1> QED
  BY <1>7, <1>8, <1>9

(* A step that reads no construct, or one that leaves the pending field.   *)
LEMMA OpenedByStays ==
    ASSUME RInv, RInv', doc' = doc, st'.field = st.field, scanned' >= scanned,
           st.field # EmptyString => base' + pending_from' = base + pending_from
    PROVE  OpenedBy' = OpenedBy
<1>1. CASE st.field = EmptyString
  BY <1>1 DEF OpenedBy
<1>2. CASE st.field # EmptyString
  <2>1. PICK j \in 1 .. scanned : doc[j].end = base + pending_from
    BY <1>2 DEF RInv, TextRetained
  <2>2. OpenedBy = j
    BY <1>2, <2>1, OpenedByIs
  <2>3. scanned \in Nat /\ scanned' \in 0 .. Len(doc') /\ Len(doc) \in Nat
    BY Numbers DEF RInv, InStep
  <2>4. j \in 1 .. scanned'
    BY <2>1, <2>3
  <2>5. (CHOOSE k \in 1 .. scanned' : doc[k].end = base + pending_from) = j
    BY <2>1, <2>3, <2>4, ChosenEnd DEF RInv, RTypes
  <2>6. OpenedBy' = (CHOOSE k \in 1 .. scanned' : doc[k].end = base + pending_from)
    BY <1>2 DEF OpenedBy
  <2> QED
    BY <2>2, <2>5, <2>6
<1> QED
  BY <1>1, <1>2

(* A step of the scanner is one of reading the whole document.             *)
LEMMA TagImplements ==
    ASSUME GrammarAssumption, RInv, RInv', NEW k \in Ahead, Tag(k)
    PROVE  WholeDocument!Next
<1> USE OneGrammar
<1>0. st \in State
  BY DEF RInv, RTypes
<1>1. CASE SkipConstruct(k)
  <2>1. Read(k, "skip") /\ UNCHANGED <<pending_from, st, rows>>
    BY <1>1 DEF SkipConstruct
  <2>2. k = scanned + 1 /\ k \in 1 .. Len(doc) /\ scanned' = k /\ doc' = doc /\ base' = base
    BY <2>1, ReadMoves
  <2>3. OpenedBy' = OpenedBy
    BY <2>1, <2>2, OpenedByStays, Numbers
  <2>4. WholeDocument!Read("skip")
    BY <2>1, <2>2, Numbers DEF Read, WholeDocument!Read
  <2> QED
    BY <2>1, <2>3, <2>4 DEF WholeDocument!Skip, WholeDocument!Next
<1>2. CASE OpenTag(k)
  <2>1. /\ Read(k, "open") /\ st' = Opened(st, doc[k].name) /\ rows' = rows
        /\ pending_from' = (IF IsField(st) THEN doc[k].end - base ELSE pending_from)
    BY <1>2 DEF OpenTag
  <2>2. k = scanned + 1 /\ k \in 1 .. Len(doc) /\ scanned' = k /\ doc' = doc /\ base' = base
    BY <2>1, ReadMoves
  <2>3. WholeDocument!Read("open")
    BY <2>1, <2>2, Numbers DEF Read, WholeDocument!Read
  <2>4. OpenedBy' = IF st'.field = EmptyString THEN 0 ELSE IF IsField(st) THEN scanned + 1 ELSE OpenedBy
    <3>1. CASE st'.field = EmptyString
      BY <3>1 DEF OpenedBy
    <3>2. CASE st'.field # EmptyString /\ IsField(st)
      <4>1. doc[k].end = base + pending_from'
        BY <2>1, <2>2, <3>2, Numbers
      <4>2. (CHOOSE j \in 1 .. scanned' : doc[j].end = base + pending_from') = k
        BY <2>2, <4>1, Numbers, ChosenEnd DEF RInv, RTypes
      <4>3. OpenedBy' = (CHOOSE j \in 1 .. scanned' : doc[j].end = base + pending_from')
        BY <2>2, <3>2 DEF OpenedBy
      <4> QED
        BY <2>2, <3>2, <4>2, <4>3
    <3>3. CASE st'.field # EmptyString /\ ~IsField(st)
      <4>1. doc[k].name \in Names
        BY <2>2, ConstructTyped DEF RInv, RTypes
      <4>2. st'.field = st.field
        BY <1>0, <2>1, <3>3, <4>1, OpenedTyped
      <4>3. OpenedBy' = OpenedBy
        BY <2>1, <2>2, <3>3, <4>2, OpenedByStays, Numbers
      <4> QED
        BY <3>3, <4>3
    <3> QED
      BY <3>1, <3>2, <3>3
  <2>5. WholeDocument!Open
    BY <2>1, <2>2, <2>3, <2>4 DEF WholeDocument!Open
  <2> QED
    BY <2>5 DEF WholeDocument!Next
<1>3. CASE EmptyTag(k)
  <2>1. Read(k, "empty") /\ st' = SelfClosed(st, doc[k].name) /\ UNCHANGED <<pending_from, rows>>
    BY <1>3 DEF EmptyTag
  <2>2. k = scanned + 1 /\ k \in 1 .. Len(doc) /\ scanned' = k /\ doc' = doc /\ base' = base
    BY <2>1, ReadMoves
  <2>3. doc[k].name \in Names
    BY <2>2, ConstructTyped DEF RInv, RTypes
  <2>4. st'.field = st.field
    BY <1>0, <2>1, <2>3, SelfClosedTyped
  <2>5. OpenedBy' = OpenedBy
    BY <2>1, <2>2, <2>4, OpenedByStays, Numbers
  <2>6. WholeDocument!Read("empty")
    BY <2>1, <2>2, Numbers DEF Read, WholeDocument!Read
  <2> QED
    BY <2>1, <2>2, <2>5, <2>6 DEF WholeDocument!SelfClose, WholeDocument!Next
<1>4. CASE CloseTag(k) \/ ReturnRow(k)
  <2> DEFINE after == Closed(st, Value)
  <2>1. Read(k, "close") /\ pending_from' = pending_from
    BY <1>4 DEF CloseTag, ReturnRow
  <2>2. /\ st' = IF ClosesRow(after, doc[k].name) THEN RowTaken(after) ELSE after
        /\ rows' = IF ClosesRow(after, doc[k].name) THEN Append(rows, after.row) ELSE rows
    BY <1>4 DEF CloseTag, ReturnRow
  <2>3. k = scanned + 1 /\ k \in 1 .. Len(doc) /\ scanned' = k /\ doc' = doc /\ base' = base
    BY <2>1, ReadMoves
  <2>4. WholeDocument!Read("close")
    BY <2>1, <2>3, Numbers DEF Read, WholeDocument!Read
  <2>5. Closed(st, WholeDocument!Value) = after
    <3>1. CASE st.field = EmptyString
      BY <1>0, <3>1, ValueTyped, ClosedTyped
    <3>2. CASE st.field # EmptyString
      <4>1. scanned < Len(doc)
        BY <2>3, Numbers
      <4> QED
        BY <3>2, <4>1, SameValue
    <3> QED
      BY <3>1, <3>2
  <2>6. st'.field \in {EmptyString, st.field}
    <3>1. after \in State /\ after.field \in {EmptyString, st.field}
      BY <1>0, ValueTyped, ClosedTyped
    <3>2. RowTaken(after).field = EmptyString
      BY <3>1, RowTakenTyped
    <3> QED
      BY <2>2, <3>1, <3>2
  <2>7. OpenedBy' = IF st'.field = EmptyString THEN 0 ELSE OpenedBy
    <3>1. CASE st'.field = EmptyString
      BY <3>1 DEF OpenedBy
    <3>2. CASE st'.field # EmptyString
      BY <2>1, <2>3, <2>6, <3>2, OpenedByStays, Numbers
    <3> QED
      BY <3>1, <3>2
  <2> HIDE DEF after
  <2>8. WholeDocument!Close
    BY <2>2, <2>3, <2>4, <2>5, <2>7 DEF WholeDocument!Close
  <2> QED
    BY <2>8 DEF WholeDocument!Next
<1> QED
  BY <1>1, <1>2, <1>3, <1>4 DEF Tag

(* However a document is cut, reading it as it arrives is reading it       *)
(* whole: every row Next returns is one ParseRowset finds, in its place    *)
(* (rowset.cpp:497-514, rowset.hpp:121-127).                               *)
THEOREM StreamImplements ==
    ASSUME GrammarAssumption, StreamAssumption
    PROVE  StreamSpec => ImplementsParseRowset
<1>1. StreamInit => WholeDocument!Init
  BY OneGrammar DEF StreamInit, WholeDocument!Init, OpenedBy, Unread
<1>2. RInv /\ RInv' /\ [StreamNext]_streamVars
        => [WholeDocument!Next]_<<doc, scanned, st, OpenedBy, rows>>
  <2> SUFFICES ASSUME RInv, RInv', [StreamNext]_streamVars
               PROVE  WholeDocument!Next \/ UNCHANGED <<doc, scanned, st, OpenedBy, rows>>
    OBVIOUS
  <2>1. CASE \E k \in Ahead : Tag(k)
    BY <2>1, TagImplements
  <2>2. CASE (\E n \in Cuts : Feed(n)) \/ CallNext \/ GiveUp \/ UNCHANGED streamVars
    <3>1. doc' = doc /\ scanned' = scanned /\ st' = st /\ rows' = rows
      BY <2>2 DEF Feed, CallNext, GiveUp, streamVars, parser
    <3>2. st.field # EmptyString => base' + pending_from' = base + pending_from
      <4>1. CASE CallNext
        BY <4>1, CallNextKeeps
      <4>2. CASE (\E n \in Cuts : Feed(n)) \/ GiveUp \/ UNCHANGED streamVars
        BY <4>2 DEF Feed, GiveUp, streamVars, parser, buffer
      <4> QED
        BY <2>2, <4>1, <4>2
    <3>3. OpenedBy' = OpenedBy
      BY <3>1, <3>2, OpenedByStays, Numbers
    <3> QED
      BY <3>1, <3>3
  <2> QED
    BY <2>1, <2>2 DEF StreamNext, Scan
<1> QED
  BY <1>1, <1>2, RInvAlways, PTL DEF StreamSpec, ImplementsParseRowset, WholeDocument!Spec
=============================================================================
