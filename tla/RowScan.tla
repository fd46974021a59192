-------------------------------- MODULE RowScan --------------------------------
(***************************************************************************)
(* ParseRowset (src/xmla/rowset.cpp): the whole document is there, and its *)
(* constructs are read one after the other.  What RowStreamParser promises *)
(* is to find the same rows however the document arrives.                  *)
(***************************************************************************)
EXTENDS RowGrammar

VARIABLES
    doc,         \* the document
    scanned,     \* constructs read
    st,          \* the scanner state
    opened,      \* the construct that opened the pending field, or 0
    rows         \* the rows found

Init ==
    /\ IsDocument(doc)
    /\ scanned = 0 /\ st = Unread /\ opened = 0 /\ rows = <<>>

(* The text of the pending field runs to the next markup.                  *)
Value == IF opened \in 1 .. (Len(doc) - 1) THEN doc[opened + 1].text ELSE "torn"

Read(kind) ==
    /\ scanned < Len(doc) /\ doc[scanned + 1].kind = kind
    /\ scanned' = scanned + 1
    /\ UNCHANGED doc

Skip == Read("skip") /\ UNCHANGED <<st, opened, rows>>

Open ==
    /\ Read("open")
    /\ st' = Opened(st, doc[scanned + 1].name)
    /\ opened' = IF st'.field = EmptyString THEN 0
                 ELSE IF IsField(st) THEN scanned + 1 ELSE opened
    /\ UNCHANGED rows

SelfClose ==
    /\ Read("empty")
    /\ st' = SelfClosed(st, doc[scanned + 1].name)
    /\ UNCHANGED <<opened, rows>>

Close ==
    /\ Read("close")
    /\ LET after == Closed(st, Value)
           row == ClosesRow(after, doc[scanned + 1].name)
       IN  /\ st' = IF row THEN RowTaken(after) ELSE after
           /\ rows' = IF row THEN Append(rows, after.row) ELSE rows
           /\ opened' = IF st'.field = EmptyString THEN 0 ELSE opened

Next == Skip \/ Open \/ SelfClose \/ Close

Spec == Init /\ [][Next]_<<doc, scanned, st, opened, rows>>
=============================================================================
