------------------------------ MODULE RecordQueue ------------------------------
(***************************************************************************)
(* What a message stream promises, with no bytes, buffers or calls in it:  *)
(* the peer's records come out in the order they were written, each one    *)
(* handed to the caller or refused but never both, never twice and never   *)
(* skipped, until the caller abandons a message; after that nothing more   *)
(* comes out.                                                              *)
(***************************************************************************)
EXTENDS Naturals, Sequences

VARIABLES
    written,    \* number of records the peer has written
    next,       \* number of records taken off the stream
    returned,   \* the records handed to the caller, in the order of return
    refused,    \* the records taken off and refused with an error
    abandoned   \* the caller gave up a message part-way

qvars == <<written, next, returned, refused, abandoned>>

(* The record numbers i, i+1, ..., j as a sequence.                        *)
Range1(i, j) == [k \in 1 .. (j - i + 1) |-> i + k - 1]

Init ==
    /\ written = 0
    /\ next = 0
    /\ returned = <<>>
    /\ refused = {}
    /\ abandoned = FALSE

Write ==
    /\ written' = written + 1
    /\ UNCHANGED <<next, returned, refused, abandoned>>

Return(j) ==
    /\ ~abandoned
    /\ next' = j
    /\ returned' = returned \o Range1(next + 1, j)
    /\ UNCHANGED <<written, refused, abandoned>>

Refuse(j) ==
    /\ ~abandoned
    /\ next' = j
    /\ refused' = refused \cup ((next + 1) .. j)
    /\ UNCHANGED <<written, returned, abandoned>>

Abandon ==
    /\ abandoned' = TRUE
    /\ UNCHANGED <<written, next, returned, refused>>

Next ==
    \/ Write
    \/ \E j \in (next + 1) .. written : Return(j) \/ Refuse(j)
    \/ Abandon

Spec == Init /\ [][Next]_qvars
=============================================================================
