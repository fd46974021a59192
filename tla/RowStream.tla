------------------------------- MODULE RowStream -------------------------------
(***************************************************************************)
(* RowStreamParser (src/xmla/rowset.cpp): the document arrives in pieces,  *)
(* and Next gives one row at a time.                                       *)
(*                                                                         *)
(* buffer_ holds the bytes [base, fed) of the document; pos and            *)
(* pending_from are the code's offsets into it.                            *)
(***************************************************************************)
EXTENDS RowGrammar

CONSTANT Cuts          \* bound: sizes of the pieces a document arrives in

ASSUME StreamAssumption == Cuts \subseteq Nat

VARIABLES
    doc,             \* the document being sent
    fed,             \* bytes of it given to Append
    base,            \* start of buffer_
    pos,             \* pos_
    pending_from,    \* pending_from_
    st,              \* the scanner state: see RowGrammar
    scanning,        \* a Next is in its loop
    scanned,         \* history: constructs read
    rows             \* history: the rows Next returned

buffer == <<base, pos, pending_from>>
parser == <<buffer, st, scanning, scanned, rows>>

StreamInit ==
    /\ IsDocument(doc)
    /\ fed = 0 /\ base = 0 /\ pos = 0 /\ pending_from = 0
    /\ st = Unread
    /\ scanning = FALSE /\ scanned = 0 /\ rows = <<>>

Size(d) == IF d = <<>> THEN 0 ELSE d[Len(d)].end

Feed(n) ==
    /\ ~scanning
    /\ fed + n <= Size(doc)
    /\ fed' = fed + n
    /\ UNCHANGED <<doc, parser>>

(* Variants of Compact: one that forgets the pending text, one that keeps  *)
(* the text of a field that is closed, one that does not shift pos_.       *)
CompactAll ==
    /\ base' = base + pos /\ pos' = 0
    /\ pending_from' = IF st.field # EmptyString THEN pending_from - pos ELSE pending_from
CompactToField ==
    LET upto == IF pending_from < pos THEN pending_from ELSE pos
    IN  /\ base' = base + upto
        /\ pos' = pos - upto
        /\ pending_from' = pending_from - upto
CompactUnshifted ==
    LET upto == IF st.field # EmptyString /\ pending_from < pos THEN pending_from ELSE pos
    IN  /\ base' = base + upto
        /\ pending_from' = IF st.field # EmptyString THEN pending_from - upto ELSE pending_from
        /\ UNCHANGED pos

(* Compact: everything consumed goes, except the text of a pending field.  *)
Compact ==
    LET upto == IF st.field # EmptyString /\ pending_from < pos THEN pending_from ELSE pos
    IN  /\ base' = base + upto
        /\ pos' = pos - upto
        /\ pending_from' = IF st.field # EmptyString THEN pending_from - upto ELSE pending_from

CallNext ==
    /\ ~scanning
    /\ scanning' = TRUE
    /\ Compact
    /\ UNCHANGED <<doc, fed, st, scanned, rows>>

Here == base + pos

(* The first construct whose '<' is at or after pos_, and whether that     *)
(* '<' and its end have arrived.                                           *)
Ahead == {k \in 1 .. Len(doc) : doc[k].at >= Here}
Found(k) == k \in Ahead /\ \A j \in Ahead : k <= j
Begun == \E k \in Ahead : Found(k) /\ doc[k].at < fed
Whole(k) == Found(k) /\ doc[k].end <= fed

(* TextUntilMarkup from pending_from_: Compact has kept it, or it is torn. *)
Pending(k) == doc[k].end = base + pending_from /\ base <= doc[k].end
Value ==
    IF \E k \in 1 .. (Len(doc) - 1) : Pending(k)
    THEN doc[1 + CHOOSE k \in 1 .. (Len(doc) - 1) : Pending(k)].text
    ELSE "torn"

Read(k, kind) ==
    /\ scanning /\ Whole(k) /\ doc[k].kind = kind
    /\ pos' = doc[k].end - base
    /\ scanned' = scanned + 1
    /\ UNCHANGED <<doc, fed, base>>

(* Comments, CDATA, instructions, doctypes and nameless tags.              *)
SkipConstruct(k) ==
    /\ Read(k, "skip")
    /\ UNCHANGED <<pending_from, st, scanning, rows>>

OpenTag(k) ==
    /\ Read(k, "open")
    /\ st' = Opened(st, doc[k].name)
    /\ pending_from' = IF IsField(st) THEN doc[k].end - base ELSE pending_from
    /\ UNCHANGED <<scanning, rows>>

EmptyTag(k) ==
    /\ Read(k, "empty")
    /\ st' = SelfClosed(st, doc[k].name)
    /\ UNCHANGED <<pending_from, scanning, rows>>

CloseTag(k) ==
    /\ Read(k, "close")
    /\ ~ClosesRow(Closed(st, Value), doc[k].name)
    /\ st' = Closed(st, Value)
    /\ UNCHANGED <<pending_from, scanning, rows>>

(* The tag that closes the row: Next returns it.                           *)
ReturnRow(k) ==
    /\ Read(k, "close")
    /\ ClosesRow(Closed(st, Value), doc[k].name)
    /\ rows' = Append(rows, Closed(st, Value).row)
    /\ st' = RowTaken(Closed(st, Value))
    /\ scanning' = FALSE
    /\ UNCHANGED pending_from

(* No whole construct ahead: resume at the '<' of one that has begun, or   *)
(* at the end of the buffer.                                               *)
GiveUp ==
    /\ scanning /\ \A k \in Ahead : ~Whole(k)
    /\ pos' = IF Begun THEN doc[CHOOSE k \in Ahead : Found(k)].at - base ELSE fed - base
    /\ scanning' = FALSE
    /\ UNCHANGED <<doc, fed, base, pending_from, st, scanned, rows>>

Tag(k) == SkipConstruct(k) \/ OpenTag(k) \/ EmptyTag(k) \/ CloseTag(k) \/ ReturnRow(k)
Scan == GiveUp \/ \E k \in Ahead : Tag(k)

StreamNext == (\E n \in Cuts : Feed(n)) \/ CallNext \/ Scan
streamVars == <<doc, fed, parser>>
StreamSpec == StreamInit /\ [][StreamNext]_streamVars

-----------------------------------------------------------------------------
(* Properties.                                                             *)

(* The types; the offsets stay inside the buffer.                          *)
StreamTypeOK ==
    /\ IsDocument(doc)
    /\ fed \in 0 .. Size(doc) /\ base \in 0 .. fed /\ pos \in 0 .. (fed - base)
    /\ pending_from \in Int
    /\ st \in State /\ scanning \in BOOLEAN /\ scanned \in 0 .. Len(doc)
    /\ rows \in Seq(Seq(Cell))

(* What is read next is the construct after the last one read: no tag is   *)
(* skipped or read twice, wherever the document was cut                    *)
(* (rowset.cpp:182-247, 405-413).                                          *)
NoTagLost == \A k \in 1 .. Len(doc) : k <= scanned <=> doc[k].end <= Here

(* The text of an open field is in the buffer from its first byte on,      *)
(* however often the buffer was compacted under it (rowset.cpp:380-403).   *)
TextRetained ==
    st.field # EmptyString =>
        /\ pending_from \in 0 .. pos
        /\ \E k \in 1 .. scanned : doc[k].end = base + pending_from

(* The construct the pending field was opened by.                          *)
OpenedBy == IF st.field = EmptyString THEN 0
            ELSE CHOOSE k \in 1 .. scanned : doc[k].end = base + pending_from

WholeDocument == INSTANCE RowScan WITH opened <- OpenedBy

(* However the document is cut, each step is one of reading it whole, so   *)
(* the streaming and the whole-document path cannot find different rows    *)
(* (rowset.cpp:497-514, rowset.hpp:121-127).                               *)
ImplementsParseRowset == WholeDocument!Spec
=============================================================================
