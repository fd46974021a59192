----------------------------- MODULE MessageStream -----------------------------
(***************************************************************************)
(* xmla::MessageStream (src/xmla/transport.cpp) over a byte channel: the   *)
(* peer writes DIME records, the network hands their bytes over in pieces  *)
(* that respect no boundary, and the two read calls cut records and whole  *)
(* messages out of one buffer that survives from call to call.             *)
(*                                                                         *)
(* Bytes are positions in the peer's output.  buffer_ is the window of     *)
(* positions [taken, arrived): Fill moves `arrived` up, an erase moves     *)
(* `taken` up, and buffer_.size() is their difference.  A record is        *)
(* decodable when the window covers Span bytes from its first position.    *)
(* The decoder knows a record's start only from the spans it added up      *)
(* itself; `at` is where the peer really put it, laid out by PeerSpan.     *)
(*                                                                         *)
(* The peer frames its output (every record complete, MB never set inside  *)
(* a message) but may forget MB on a first record and may answer with an   *)
(* encoding the client did not negotiate.                                  *)
(***************************************************************************)
EXTENDS Dime, Sequences

CONSTANTS
    Shapes,            \* the field lengths a record of the peer may have
    Chunks,            \* the numbers of bytes one Recv may hand over
    MaxBuffer,         \* max_buffer_
    MaxRecords,        \* bound: records the peer writes
    ReadsAfterAbandon  \* whether the caller calls ReceiveMessage after
                       \* AbandonMessage; Session never does

ASSUME StreamAssumption ==
    /\ Shapes \subseteq ShapeType
    /\ Chunks \subseteq Nat \ {0}
    /\ MaxBuffer \in Nat
    /\ MaxRecords \in Nat
    /\ ReadsAfterAbandon \in BOOLEAN

VARIABLES
    wire,            \* the records the peer has written
    total,           \* bytes the peer has written
    arrived,         \* bytes that reached buffer_ since the connection opened
    taken,           \* bytes erased from the front of buffer_
    in_message,      \* in_message_
    desynchronised,  \* desynchronised_
    call,            \* the read call in progress: "none", "record", "message"
    next,            \* history: number of the last record decoded and erased
    returned,        \* history: records handed to the caller, in order
    refused          \* history: records erased with an error

peer  == <<wire, total>>
hist  == <<next, returned, refused>>
vars  == <<wire, total, arrived, taken, in_message, desynchronised, call,
           next, returned, refused>>

Q == INSTANCE RecordQueue WITH written <- Len(wire), abandoned <- desynchronised

RecordType == [shape : Shapes, mb : BOOLEAN, me : BOOLEAN, negotiated : BOOLEAN,
               head : Nat, at : Nat]

Init ==
    /\ wire = <<>>
    /\ total = 0
    /\ arrived = 0
    /\ taken = 0
    /\ in_message = FALSE
    /\ desynchronised = FALSE
    /\ call = "none"
    /\ next = 0
    /\ returned = <<>>
    /\ refused = {}

-----------------------------------------------------------------------------
(* The peer.                                                               *)

(* Whether the peer's next record starts a message.                        *)
AtStart == wire = <<>> \/ wire[Len(wire)].me

(* The peer writes one record.  Its first record of a message carries MB   *)
(* and the negotiated encoding unless the peer is at fault.                *)
PeerWrites(s, mb, me, neg) ==
    /\ Len(wire) < MaxRecords
    /\ ~AtStart => ~mb /\ neg
    /\ wire' = Append(wire, [shape |-> s, mb |-> mb, me |-> me, negotiated |-> neg,
                             head |-> IF AtStart THEN Len(wire) + 1
                                      ELSE wire[Len(wire)].head,
                             at |-> total])
    /\ total' = total + PeerSpan(s)
    /\ UNCHANGED <<arrived, taken, in_message, desynchronised, call, hist>>

-----------------------------------------------------------------------------
(* Decoding from the front of buffer_.                                     *)

(* Variants of Decodes: without the check on the last padding, and off by  *)
(* one.                                                                    *)
DecodesUnpadded(i) ==
    LET s == wire[i].shape IN arrived - wire[i].at >= Span(s) - Pad(s.data)
DecodesOffByOne(i) == arrived - wire[i].at > Span(wire[i].shape)

(* DecodeRecord succeeds on record i: header, every field and its padding  *)
(* are all in the window.                                                  *)
Decodes(i) == arrived - wire[i].at >= Span(wire[i].shape)

(* The record the front of buffer_ holds the first byte of.                *)
IsFront(i) == wire[i].at = taken

(* DecodeMessageAt walks records i..j, each found where the spans of the   *)
(* ones before it put it, and stops at the first that sets ME.             *)
DecodesMessage(i, j) ==
    /\ wire[j].me
    /\ \A k \in i .. (j - 1) : /\ ~wire[k].me
                               /\ wire[k + 1].at = wire[k].at + Span(wire[k].shape)
    /\ \A k \in i .. j : Decodes(k)

Indices == 1 .. Len(wire)

(* Neither call can finish with what is buffered: the decoder threw        *)
(* IncompleteMessage.                                                      *)
Incomplete ==
    \/ /\ call = "record"
       /\ \A i \in Indices : IsFront(i) => ~Decodes(i)
    \/ /\ call = "message"
       /\ \A i \in Indices : IsFront(i) =>
            \/ ~Decodes(i)
            \/ wire[i].mb /\ \A j \in i .. Len(wire) : ~DecodesMessage(i, j)

-----------------------------------------------------------------------------
(* A variant of Fill that tests the limit on all the connection received.  *)
FillCountsAll(n) ==
    /\ Incomplete
    /\ n <= total - arrived
    /\ arrived' = arrived + n
    /\ call' = IF arrived' <= MaxBuffer THEN call ELSE "none"
    /\ UNCHANGED <<peer, taken, in_message, desynchronised, hist>>

(* Recv hands over n more bytes.  The limit is tested after they are in    *)
(* the buffer, and they stay there when it is reported.                    *)
Fill(n) ==
    /\ Incomplete
    /\ n <= total - arrived
    /\ arrived' = arrived + n
    /\ call' = IF arrived' - taken <= MaxBuffer THEN call ELSE "none"
    /\ UNCHANGED <<peer, taken, in_message, desynchronised, hist>>

(* A variant in which Recv has no deadline: only a closed peer, which this *)
(* model leaves open, would end the wait.                                  *)
FillWaits ==
    /\ Incomplete
    /\ FALSE
    /\ UNCHANGED vars

(* Recv ran into the deadline or the peer had closed: ConnectionError.     *)
FillFails ==
    /\ Incomplete
    /\ call' = "none"
    /\ UNCHANGED <<peer, arrived, taken, in_message, desynchronised, hist>>

(* Enter ReceiveRecord; an abandoned stream refuses on the spot.           *)
CallReceiveRecord ==
    /\ call = "none"
    /\ ~desynchronised
    /\ call' = "record"
    /\ UNCHANGED <<peer, arrived, taken, in_message, desynchronised, hist>>

(* ReceiveRecord decodes record i, erases it, passes the checks a first    *)
(* record must pass, and returns its payload.                              *)
ReturnRecord(i) ==
    /\ call = "record"
    /\ IsFront(i) /\ Decodes(i)
    /\ ~in_message => wire[i].mb /\ wire[i].negotiated
    /\ taken' = taken + Span(wire[i].shape)
    /\ in_message' = ~wire[i].me
    /\ call' = "none"
    /\ next' = i
    /\ returned' = Append(returned, i)
    /\ UNCHANGED <<peer, arrived, desynchronised, refused>>

(* A variant that enters the message before the checks.                    *)
RefuseRecordLate(i) ==
    /\ call = "record"
    /\ IsFront(i) /\ Decodes(i)
    /\ ~in_message
    /\ ~(wire[i].mb /\ wire[i].negotiated)
    /\ taken' = taken + Span(wire[i].shape)
    /\ in_message' = ~wire[i].me
    /\ call' = "none"
    /\ next' = i
    /\ refused' = refused \cup {i}
    /\ UNCHANGED <<peer, arrived, desynchronised, returned>>

(* ... or fails one of them.  The record has been erased by then.          *)
RefuseRecord(i) ==
    /\ call = "record"
    /\ IsFront(i) /\ Decodes(i)
    /\ ~in_message
    /\ ~(wire[i].mb /\ wire[i].negotiated)
    /\ taken' = taken + Span(wire[i].shape)
    /\ call' = "none"
    /\ next' = i
    /\ refused' = refused \cup {i}
    /\ UNCHANGED <<peer, arrived, in_message, desynchronised, returned>>

(* Enter ReceiveMessage.  It consults neither in_message_ nor              *)
(* desynchronised_.                                                        *)
CallReceiveMessage ==
    /\ call = "none"
    /\ desynchronised => ReadsAfterAbandon
    /\ call' = "message"
    /\ UNCHANGED <<peer, arrived, taken, in_message, desynchronised, hist>>

(* A variant that consumes the whole buffer with the message.              *)
ReturnMessageAndRest(i, j) ==
    /\ call = "message"
    /\ IsFront(i) /\ DecodesMessage(i, j)
    /\ wire[i].mb
    /\ wire[i].negotiated
    /\ taken' = arrived
    /\ call' = "none"
    /\ next' = j
    /\ returned' = returned \o [k \in 1 .. (j - i + 1) |-> i + k - 1]
    /\ UNCHANGED <<peer, arrived, in_message, desynchronised, refused>>

(* ReceiveMessage has a whole message, records i..j, and returns it.       *)
ReturnMessage(i, j) ==
    /\ call = "message"
    /\ IsFront(i) /\ DecodesMessage(i, j)
    /\ wire[i].mb
    /\ wire[i].negotiated
    /\ taken' = wire[j].at + Span(wire[j].shape)
    /\ call' = "none"
    /\ next' = j
    /\ returned' = returned \o [k \in 1 .. (j - i + 1) |-> i + k - 1]
    /\ UNCHANGED <<peer, arrived, in_message, desynchronised, refused>>

(* The message is erased before CheckNegotiated refuses it.                *)
RefuseMessage(i, j) ==
    /\ call = "message"
    /\ IsFront(i) /\ DecodesMessage(i, j)
    /\ wire[i].mb
    /\ ~wire[i].negotiated
    /\ taken' = wire[j].at + Span(wire[j].shape)
    /\ call' = "none"
    /\ next' = j
    /\ refused' = refused \cup (i .. j)
    /\ UNCHANGED <<peer, arrived, in_message, desynchronised, returned>>

(* A first record without MB is reported before anything is erased, so it  *)
(* is still at the front for the next call.                                *)
RefuseNoMB(i) ==
    /\ call = "message"
    /\ IsFront(i) /\ Decodes(i)
    /\ ~wire[i].mb
    /\ call' = "none"
    /\ UNCHANGED <<peer, arrived, taken, in_message, desynchronised, hist>>

(* A variant that clears the buffer and forgets to refuse later reads.     *)
AbandonQuietly ==
    /\ call = "none"
    /\ in_message
    /\ in_message' = FALSE
    /\ taken' = arrived
    /\ UNCHANGED <<peer, arrived, desynchronised, call, hist>>

(* AbandonMessage: nothing to do between messages; otherwise drop what is  *)
(* buffered and refuse to read on.                                         *)
AbandonMessage ==
    /\ call = "none"
    /\ in_message
    /\ in_message' = FALSE
    /\ desynchronised' = TRUE
    /\ taken' = arrived
    /\ UNCHANGED <<peer, arrived, call, hist>>

-----------------------------------------------------------------------------
Peer == \E s \in Shapes, mb, me, neg \in BOOLEAN : PeerWrites(s, mb, me, neg)

Receive == \/ \E n \in Chunks : Fill(n)
           \/ FillFails

(* A read call that has what it needs returns or throws.                   *)
Finish == \E i \in Indices :
    \/ ReturnRecord(i)
    \/ RefuseRecord(i)
    \/ RefuseNoMB(i)
    \/ \E j \in i .. Len(wire) : ReturnMessage(i, j) \/ RefuseMessage(i, j)

Caller == CallReceiveRecord \/ CallReceiveMessage \/ AbandonMessage

Next == Peer \/ Receive \/ Finish \/ Caller

Spec == Init /\ [][Next]_vars

(* Every wait on the socket has a deadline and the calling thread runs, so *)
(* a pending call keeps receiving or failing and returns once it can.  The *)
(* peer and the caller owe nothing.                                        *)
FairSpec == Spec /\ WF_vars(Receive) /\ WF_vars(Finish)

-----------------------------------------------------------------------------
(* Properties.                                                             *)

(* The types, and that the window is well formed: nothing is erased before *)
(* it has arrived and nothing arrives before it was written.               *)
TypeOK ==
    /\ wire \in Seq(RecordType)
    /\ total \in Nat /\ arrived \in Nat /\ taken \in Nat
    /\ taken <= arrived /\ arrived <= total
    /\ in_message \in BOOLEAN
    /\ desynchronised \in BOOLEAN
    /\ call \in {"none", "record", "message"}
    /\ next \in 0 .. Len(wire)
    /\ returned \in Seq(Nat)
    /\ refused \subseteq Nat

(* Until a message is abandoned, every erase leaves the buffer starting at *)
(* the first byte of the record after the last one decoded: no padding is  *)
(* left behind to be read as a header (dime.cpp:105-111) and no byte of a  *)
(* message packed behind another one is dropped (transport.cpp:289).       *)
Aligned ==
    ~desynchronised =>
        taken = IF next = Len(wire) THEN total ELSE wire[next + 1].at

(* The records come out in the order the peer wrote them, each returned or *)
(* refused once, whichever of the two read calls took it.                  *)
InOrderOnce ==
    /\ \A a, b \in 1 .. Len(returned) : a < b => returned[a] < returned[b]
    /\ {returned[a] : a \in 1 .. Len(returned)} \cap refused = {}
    /\ {returned[a] : a \in 1 .. Len(returned)} \cup refused = 1 .. next

(* No record of a message that failed its first-record checks is ever      *)
(* handed out, however the two read calls are mixed: the failing record    *)
(* must not leave the stream believing it is inside a message              *)
(* (transport.cpp:244-250).                                                *)
NegotiatedOnly ==
    \A a \in 1 .. Len(returned) :
        LET first == wire[wire[returned[a]].head]
        IN  first.mb /\ first.negotiated

(* The last record of what a pending call reads: the next record, or the   *)
(* last of the message that starts there, as far as it has been written.   *)
ReadEndsAt(j) ==
    /\ j \in (next + 1) .. Len(wire)
    /\ call = "record" => j = next + 1
    /\ call = "message" => \A k \in (next + 1) .. (j - 1) : ~wire[k].me

(* A read is given up for its size (transport.cpp:228) only when what it   *)
(* reads is that big: the record or the message it waits for is longer     *)
(* than max_buffer_ less the piece that went over it.  Neither a record    *)
(* taken earlier nor a later message that came along counts against it,    *)
(* and a read that was given up before does not change that.  (Only Fill   *)
(* ends a call in a step that adds bytes.)                                 *)
RefusedForSize ==
    [][(~desynchronised /\ call # "none" /\ call' = "none" /\ arrived' > arrived)
       => \E j \in Indices :
             /\ ReadEndsAt(j)
             /\ wire[j].at + Span(wire[j].shape) - wire[next + 1].at
                  > MaxBuffer - (arrived' - arrived)]_vars

(* A call waits for the network only while the peer still owes it bytes:   *)
(* with everything written already buffered, ReceiveRecord has a record if *)
(* there is one and ReceiveMessage a message if one is complete.           *)
WaitsForPeer ==
    (arrived = total /\ ~desynchronised) =>
        /\ call = "record" /\ next < Len(wire) => ~Incomplete
        /\ call = "message" /\ (\E j \in (next + 1) .. Len(wire) : wire[j].me)
                => ~Incomplete

(* Every read call returns or throws; none is left waiting for ever        *)
(* (transport.hpp:27-28).                                                  *)
CallsEnd == (call # "none") ~> (call = "none")

(* The stream implements the record queue.                                 *)
ImplementsQueue == Q!Spec

(* "Set when a message was abandoned part-way; every later read refuses"   *)
(* (transport.hpp:144).  ReceiveMessage never looks at the flag.           *)
AbandonedReadsRefuse == desynchronised => call = "none"

=============================================================================
