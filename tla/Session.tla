-------------------------------- MODULE Session --------------------------------
(***************************************************************************)
(* xmla::Session and RowCursor (src/xmla/client.cpp) with the handshake    *)
(* they run (src/xmla/auth.cpp), over one TCP connection after another.    *)
(*                                                                         *)
(* Every network wait is a step of its own, so the server's answer may     *)
(* arrive before the deadline, after it, or not at all.  An answer is a    *)
(* message of one or more records, and a record is the set of things in    *)
(* its plaintext that the client looks for:                                *)
(*   "doc"    the opening '<' of an XML document     "sid"  a SessionId    *)
(*   "code"   a faultcode    "text"  the faultstring that denies access    *)
(*   "row"    a complete row                                               *)
(*   "full"   the end of the answer's first HEAD_LIMIT bytes: the prefix a *)
(*            cursor looks at ends with this record                        *)
(*   "space", "noise"  anything else, before an opening '<'                *)
(* An answer to a handshake record is one record holding "token", a fault  *)
(* or neither.  Framing errors are MessageStream's and are left out here,  *)
(* except the two an undisciplined caller can cause.                       *)
(*                                                                         *)
(* One thread owns the session, and it holds at most one cursor.           *)
(***************************************************************************)
EXTENDS Naturals, Sequences, FiniteSets

CONSTANTS
    Answers,       \* the answers a server may give to a request: sequences of records
    MaxConns,      \* bound: connections the caller opens
    MaxRequests,   \* bound: requests the caller sends
    MaxRounds,     \* max_rounds of the handshake
    Permitted      \* what callers may permit themselves: see MayRequest, MayPull, MayOpen

Parts == {"doc", "sid", "code", "text", "row", "full", "space", "noise", "token"}
AuthAnswers == { <<{"doc", "token"}>>, <<{"doc", "code"}>>, <<{"noise"}>> }

ASSUME SessionAssumption ==
    /\ Answers \subseteq Seq(SUBSET Parts) /\ <<>> \notin Answers
    /\ MaxConns \in Nat /\ MaxRequests \in Nat
    /\ MaxRounds \in Nat \ {0}
    /\ Permitted \subseteq SUBSET {"after_error", "during_cursor", "cursor_over_reopen"}

(* What the protocol says of an answer: a SessionId is an attribute of an  *)
(* element of the envelope, and a fault replaces the body, so its code     *)
(* comes before any row or not at all.  Both come in the prefix a cursor   *)
(* keeps: the header is in front of the body, and "a SOAP Fault REPLACES   *)
(* the body, so it is in the prefix or it is not there"                    *)
(* (client.cpp:346-356).  What opens with noise is no envelope.            *)
ASSUME EnvelopeAssumption ==
    \A a \in Answers : \A k \in 1 .. Len(a) :
        /\ "sid" \in a[k] => \E m \in 1 .. k : "doc" \in a[m]
        /\ "row" \in a[k] /\ (\E m \in 1 .. Len(a) : "code" \in a[m])
                => \E m \in 1 .. k : "code" \in a[m]
        /\ "sid" \in a[k] \/ "code" \in a[k] => \A m \in 1 .. (k - 1) : "full" \notin a[m]
        /\ "noise" \in a[k] => \A m \in 1 .. Len(a) : "doc" \notin a[m] /\ "code" \notin a[m]

VARIABLES
    licences,        \* what the caller of this behaviour permits itself
    state,           \* state_
    stream,          \* stream_ is set
    first_record,    \* first_record_
    session_id,      \* session_id_: the connection it was captured on, or 0
    seal,            \* seal_: the connection whose context it wraps, or 0
    in_message,      \* stream_->in_message_
    pc,              \* where the thread is: "idle" between calls
    rounds,          \* handshake rounds done
    complete,        \* the security context has completed
    asked,           \* the request a Discover or Execute in progress sent
    cur,             \* the cursor, req = 0 when there is none
    pending,         \* what the server has received and not answered; 0 is a token
    inbox,           \* records the server has sent and the client has not read
    conn,            \* number of the current (or last) connection
    reqs,            \* requests sent so far
    erred,           \* a call on this connection failed other than by a fault
    last,            \* history: the last record sent
    id_seen,         \* history: a read that ended well gave a SessionId of this connection
    auth_refused,    \* history: the server has faulted a token of this connection
    torn,            \* history: a cursor was abandoned on this connection
    strayed,         \* history: a cursor has read a connection not its own
    outcome          \* history: how the last request or Next ended

handles == <<state, stream, first_record, session_id, seal>>
shake   == <<rounds, complete>>
net     == <<pending, inbox>>
hist    == <<last, id_seen, auth_refused, torn, strayed>>
vars    == <<licences, handles, in_message, pc, shake, asked, cur, net, conn, reqs, erred, hist, outcome>>

States == {"UNCONNECTED", "NEGOTIATED", "AUTHENTICATED", "CLOSED", "FAILED"}

NoCursor == [req |-> 0, conn |-> 0, head |-> {}, rows |-> 0, from |-> 0, whole |-> {},
             complete |-> FALSE, drained |-> FALSE, broken |-> FALSE, refused |-> FALSE]
NoOutcome == [category |-> "none", asked |-> 0, from |-> 0, whole |-> {}]

Init ==
    /\ licences \in Permitted
    /\ state = "UNCONNECTED" /\ stream = FALSE /\ first_record = TRUE
    /\ session_id = 0 /\ seal = 0
    /\ in_message = FALSE
    /\ pc = "idle" /\ rounds = 0 /\ complete = FALSE /\ asked = 0
    /\ cur = NoCursor
    /\ pending = <<>> /\ inbox = <<>>
    /\ conn = 0 /\ reqs = 0 /\ erred = FALSE
    /\ last = [conn |-> 0, first |-> TRUE, nego |-> FALSE, kind |-> "token",
               sid |-> 0, id_seen |-> FALSE]
    /\ id_seen = FALSE /\ auth_refused = FALSE /\ torn = FALSE /\ strayed = FALSE
    /\ outcome = NoOutcome

-----------------------------------------------------------------------------
(* The server answers what it received, in order and in its own time.      *)

Message(r, a) ==
    [k \in 1 .. Len(a) |-> [req |-> r, parts |-> a[k], mb |-> k = 1, me |-> k = Len(a),
                            whole |-> UNION {a[m] : m \in 1 .. Len(a)}]]

ServerAnswers(a) ==
    /\ pending # <<>>
    /\ a \in IF Head(pending) = 0 THEN AuthAnswers ELSE Answers
    /\ inbox' = inbox \o Message(Head(pending), a)
    /\ pending' = Tail(pending)
    /\ auth_refused' = (auth_refused \/ (Head(pending) = 0 /\ "code" \in a[1]))
    /\ UNCHANGED <<handles, in_message, pc, shake, asked, cur, conn, reqs, erred, last, id_seen,
                   torn, strayed, outcome>>

Server == \E a \in Answers \cup AuthAnswers : ServerAnswers(a)

-----------------------------------------------------------------------------
(* Opening and closing.                                                    *)

(* A variant of Close that keeps the seal provider.                        *)
ClosedKeepsSeal ==
    /\ stream' = FALSE
    /\ seal' = seal
    /\ pending' = <<>> /\ inbox' = <<>>
    /\ in_message' = FALSE

(* What Close leaves behind.  The old connection's traffic goes with it.   *)
Closed ==
    /\ stream' = FALSE
    /\ seal' = 0
    /\ pending' = <<>> /\ inbox' = <<>>
    /\ in_message' = FALSE

MayOpen == cur.req = 0 \/ "cursor_over_reopen" \in licences

(* Variants: a reconnect that keeps the session id, or the record flag.    *)
ResetKeepsSessionId ==
    /\ first_record' = TRUE
    /\ session_id' = session_id
    /\ id_seen' = FALSE /\ auth_refused' = FALSE /\ torn' = FALSE
ResetKeepsFirstRecord ==
    /\ first_record' = first_record
    /\ session_id' = 0
    /\ id_seen' = FALSE /\ auth_refused' = FALSE /\ torn' = FALSE

(* Everything scoped to a connection.                                      *)
Reset ==
    /\ first_record' = TRUE
    /\ session_id' = 0
    /\ id_seen' = FALSE /\ auth_refused' = FALSE /\ torn' = FALSE

(* Open on a valid target with a context: Close the old stream if there is *)
(* one, reset everything scoped to a connection, start connecting.  The    *)
(* calls Open refuses before it changes anything are left out.             *)
Open ==
    /\ pc = "idle" /\ conn < MaxConns /\ MayOpen
    /\ conn' = conn + 1
    /\ Closed
    /\ Reset
    /\ state' = IF stream THEN "CLOSED" ELSE state
    /\ pc' = "connect"
    /\ rounds' = 0 /\ complete' = FALSE
    /\ erred' = FALSE /\ outcome' = NoOutcome
    /\ UNCHANGED <<asked, cur, reqs, last, strayed>>

(* Open caught an exception: FAILED, whatever has been set up stays.       *)
OpenFailed ==
    /\ state' = "FAILED"
    /\ pc' = "idle"
    /\ UNCHANGED <<stream, first_record, session_id, seal, shake, asked, cur, conn, reqs, erred,
                   id_seen, torn, strayed, outcome>>

ConnectFails ==
    /\ pc = "connect"
    /\ OpenFailed
    /\ UNCHANGED <<in_message, net, last, auth_refused>>

Connects ==
    /\ pc = "connect"
    /\ stream' = TRUE
    /\ state' = "NEGOTIATED"
    /\ pc' = "step"
    /\ UNCHANGED <<first_record, session_id, seal, in_message, shake, asked, cur, net, conn, reqs,
                   erred, hist, outcome>>

Close ==
    /\ pc = "idle" /\ state # "CLOSED"
    /\ Closed
    /\ state' = "CLOSED"
    /\ UNCHANGED <<first_record, session_id, pc, shake, asked, cur, conn, reqs, erred, hist,
                   outcome>>

-----------------------------------------------------------------------------
(* The handshake.  The security context is external: a step may emit a     *)
(* token or not, and complete or not; its first step emits one.            *)

Record(kind) ==
    [conn |-> conn, first |-> (last.conn # conn), nego |-> (kind = "request" \/ ~first_record),
     kind |-> kind, sid |-> IF kind = "request" THEN session_id ELSE 0, id_seen |-> id_seen]

(* A variant that allows one round too many.                               *)
StepEmitsOneMore(done) ==
    /\ pc = "step" /\ rounds <= MaxRounds
    /\ complete' = done
    /\ last' = Record("token")
    /\ first_record' = FALSE
    /\ pending' = Append(pending, 0)
    /\ pc' = "auth"
    /\ UNCHANGED <<state, stream, session_id, seal, in_message, rounds, asked, cur, inbox, conn, reqs,
                   erred, id_seen, auth_refused, torn, strayed, outcome>>

(* The context emits a token; NEGO is clear on a connection's first record.*)
StepEmits(done) ==
    /\ pc = "step" /\ rounds < MaxRounds
    /\ complete' = done
    /\ last' = Record("token")
    /\ first_record' = FALSE
    /\ pending' = Append(pending, 0)
    /\ pc' = "auth"
    /\ UNCHANGED <<state, stream, session_id, seal, in_message, rounds, asked, cur, inbox, conn, reqs,
                   erred, id_seen, auth_refused, torn, strayed, outcome>>

(* The context completes without a token to send.                          *)
StepCompletes ==
    /\ pc = "step" /\ 0 < rounds /\ rounds < MaxRounds
    /\ complete' = TRUE
    /\ pc' = "seal"
    /\ UNCHANGED <<handles, in_message, rounds, asked, cur, net, conn, reqs, erred, hist, outcome>>

(* It throws, or neither completes nor emits a token; or the rounds are    *)
(* used up.                                                                *)
StepFails ==
    /\ pc = "step"
    /\ OpenFailed
    /\ UNCHANGED <<in_message, net, last, auth_refused>>

(* Variants: the last reply of a handshake is not looked at; rounds are    *)
(* not counted.                                                            *)
AuthReplyUnchecked ==
    /\ pc = "auth" /\ inbox # <<>>
    /\ inbox' = Tail(inbox)
    /\ pc' = IF complete THEN "seal" ELSE "step"
    /\ rounds' = IF complete THEN rounds ELSE rounds + 1
    /\ UNCHANGED <<handles, in_message, complete, asked, cur, pending, conn, reqs, erred, hist,
                   outcome>>
AuthReplyUncounted ==
    /\ pc = "auth" /\ inbox # <<>>
    /\ inbox' = Tail(inbox)
    /\ pc' = IF complete THEN "seal" ELSE "step"
    /\ UNCHANGED <<handles, in_message, shake, asked, cur, pending, conn, reqs, erred, hist,
                   outcome>>

(* The reply to a token arrives: a fault ends the handshake even when the  *)
(* context has completed; a completed context needs no token from it.      *)
AuthReply ==
    /\ pc = "auth" /\ inbox # <<>>
    /\ inbox' = Tail(inbox)
    /\ LET parts == Head(inbox).parts
       IN  \/ /\ "code" \in parts \/ (~complete /\ "token" \notin parts)
              /\ OpenFailed
           \/ /\ "code" \notin parts /\ complete
              /\ pc' = "seal"
              /\ UNCHANGED <<handles, shake, asked, cur, conn, reqs, erred, id_seen, torn, strayed,
                             outcome>>
           \/ /\ "code" \notin parts /\ ~complete /\ "token" \in parts
              /\ pc' = "step"
              /\ rounds' = rounds + 1
              /\ UNCHANGED <<handles, complete, asked, cur, conn, reqs, erred, id_seen, torn,
                             strayed, outcome>>
    /\ UNCHANGED <<in_message, pending, last, auth_refused>>

(* The deadline passes, or the server closes the connection.               *)
AuthReplyFails ==
    /\ pc = "auth"
    /\ OpenFailed
    /\ UNCHANGED <<in_message, net, last, auth_refused>>

MakesSealProvider ==
    /\ pc = "seal"
    /\ seal' = conn
    /\ state' = "AUTHENTICATED"
    /\ pc' = "idle"
    /\ UNCHANGED <<stream, first_record, session_id, in_message, shake, asked, cur, net, conn, reqs,
                   erred, hist, outcome>>

(* The completed context cannot seal.                                      *)
CannotSeal ==
    /\ pc = "seal"
    /\ OpenFailed
    /\ UNCHANGED <<in_message, net, last, auth_refused>>

Handshake == StepCompletes \/ StepFails \/ AuthReply \/ AuthReplyFails
               \/ MakesSealProvider \/ CannotSeal \/ \E done \in BOOLEAN : StepEmits(done)

-----------------------------------------------------------------------------
(* Discover and Execute.                                                   *)

(* An unlicensed caller sends nothing after a call failed, except when the *)
(* failure was a fault that was read to its end, and nothing while a       *)
(* cursor is still reading.                                                *)
MayRequest ==
    /\ erred => "after_error" \in licences
    /\ cur.req # 0 /\ ~cur.complete => "during_cursor" \in licences

(* RequireAuthenticated, and the envelope on the wire.                     *)
SendsRequest ==
    /\ pc = "idle" /\ state = "AUTHENTICATED" /\ MayRequest
    /\ reqs < MaxRequests
    /\ reqs' = reqs + 1

Request ==
    /\ SendsRequest
    /\ last' = Record("request")
    /\ pending' = Append(pending, reqs + 1)
    /\ asked' = reqs + 1
    /\ pc' = "reply"
    /\ outcome' = NoOutcome
    /\ UNCHANGED <<handles, in_message, shake, cur, inbox, conn, erred, id_seen, auth_refused, torn,
                   strayed>>

Failed(category, r) == outcome' = [NoOutcome EXCEPT !.category = category, !.asked = r]

(* The send itself fails, of a whole-message or a streaming request; the   *)
(* server may have received it all the same.                               *)
SendFails(received) ==
    /\ SendsRequest
    /\ IF received THEN last' = Record("request") /\ pending' = Append(pending, reqs + 1)
                   ELSE UNCHANGED <<last, pending>>
    /\ erred' = TRUE
    /\ Failed("connection", reqs + 1)
    /\ UNCHANGED <<handles, in_message, pc, shake, asked, cur, inbox, conn, id_seen, auth_refused,
                   torn, strayed>>

(* RaiseForFault, and LooksLikeXmla after it.                              *)
FaultCategory(parts) == IF "text" \in parts THEN "authorization" ELSE "server"
WholeCategory(parts) ==
    IF "code" \in parts THEN FaultCategory(parts)
    ELSE IF "doc" \in parts THEN "rows" ELSE "protocol"

(* CaptureSessionId keeps the first one it sees.                           *)
CaptureSessionId(parts) ==
    session_id' = IF session_id = 0 /\ "sid" \in parts THEN conn ELSE session_id

(* ReceiveMessage takes the first message off the buffer.                  *)
TakeMessage ==
    \E n \in 1 .. Len(inbox) :
        /\ inbox[n].me /\ \A m \in 1 .. (n - 1) : ~inbox[m].me
        /\ inbox' = SubSeq(inbox, n + 1, Len(inbox))

(* RoundtripRowset has its answer: a rowset, a fault, or not an envelope.  *)
Reply ==
    /\ pc = "reply" /\ inbox # <<>> /\ Head(inbox).mb
    /\ TakeMessage
    /\ LET answer == Head(inbox)
       IN  /\ CaptureSessionId(answer.whole)
           /\ id_seen' = (id_seen \/ "sid" \in answer.whole)
           /\ outcome' = [category |-> WholeCategory(answer.whole), asked |-> asked,
                          from |-> answer.req, whole |-> answer.whole]
           /\ erred' = (erred \/ WholeCategory(answer.whole) = "protocol")
    /\ pc' = "idle"
    /\ UNCHANGED <<state, stream, first_record, seal, in_message, shake, asked, cur, pending, conn,
                   reqs, last, auth_refused, torn, strayed>>

(* The message is taken, and UnsealMessage throws.                         *)
ReplyRefused ==
    /\ pc = "reply" /\ inbox # <<>> /\ Head(inbox).mb
    /\ TakeMessage
    /\ pc' = "idle" /\ erred' = TRUE
    /\ Failed("protocol", asked)
    /\ UNCHANGED <<handles, in_message, shake, asked, cur, pending, conn, reqs, hist>>

(* The buffer starts inside a message a cursor is reading.                 *)
ReplyNoMB ==
    /\ pc = "reply" /\ inbox # <<>> /\ ~Head(inbox).mb
    /\ pc' = "idle" /\ erred' = TRUE
    /\ Failed("protocol", asked)
    /\ UNCHANGED <<handles, in_message, shake, asked, cur, net, conn, reqs, hist>>

(* The deadline passes, or the server closes.  The session stays           *)
(* AUTHENTICATED.                                                          *)
ReplyFails ==
    /\ pc = "reply"
    /\ pc' = "idle" /\ erred' = TRUE
    /\ Failed("connection", asked)
    /\ UNCHANGED <<handles, in_message, shake, asked, cur, net, conn, reqs, hist>>

-----------------------------------------------------------------------------
(* The cursor.                                                             *)

ExecuteCursor ==
    /\ SendsRequest
    /\ cur.req = 0
    /\ last' = Record("request")
    /\ pending' = Append(pending, reqs + 1)
    /\ cur' = [NoCursor EXCEPT !.req = reqs + 1, !.conn = conn]
    /\ outcome' = NoOutcome
    /\ UNCHANGED <<handles, in_message, pc, shake, asked, inbox, conn, erred, id_seen, auth_refused,
                   torn, strayed>>

(* An unlicensed caller asks no more of a cursor that threw.               *)
MayPull == cur.broken \/ erred => "after_error" \in licences

CallNext ==
    /\ pc = "idle" /\ cur.req # 0 /\ ~cur.drained /\ MayPull
    /\ pc' = "next"
    /\ outcome' = NoOutcome
    /\ UNCHANGED <<handles, in_message, shake, asked, cur, net, conn, reqs, erred, hist>>

Ended(category) ==
    outcome' = [category |-> category, asked |-> cur.req, from |-> cur'.from, whole |-> cur'.whole]

NextRow ==
    /\ pc = "next" /\ cur.rows > 0
    /\ cur' = [cur EXCEPT !.rows = @ - 1]
    /\ pc' = "idle"
    /\ Ended("rows")
    /\ UNCHANGED <<handles, in_message, shake, asked, net, conn, reqs, erred, hist>>

NextDrained ==
    /\ pc = "next" /\ cur.rows = 0 /\ cur.complete
    /\ cur' = [cur EXCEPT !.drained = TRUE]
    /\ pc' = "idle"
    /\ Ended("drained")
    /\ UNCHANGED <<handles, in_message, shake, asked, net, conn, reqs, erred, hist>>

(* Pump's guard, with the session open ...                                 *)
NextPumps ==
    /\ pc = "next" /\ cur.rows = 0 /\ ~cur.complete
    /\ stream /\ seal # 0
    /\ pc' = "pump"
    /\ UNCHANGED <<handles, in_message, shake, asked, cur, net, conn, reqs, erred, hist, outcome>>

(* ... and with it closed.                                                 *)
NextClosed ==
    /\ pc = "next" /\ cur.rows = 0 /\ ~cur.complete
    /\ ~(stream /\ seal # 0)
    /\ cur' = [cur EXCEPT !.broken = TRUE]
    /\ pc' = "idle"
    /\ Failed("connection", cur.req)
    /\ UNCHANGED <<handles, in_message, shake, asked, net, conn, reqs, erred, hist>>

(* A variant that looks at the head of the response only until it has seen *)
(* the first of it.                                                        *)
HeadCategoryOnce(head, done) ==
    IF cur.head # {} THEN "ok"
    ELSE IF head = {} /\ ~done THEN "ok"
    ELSE IF "doc" \notin head THEN "protocol"
    ELSE IF "code" \in head THEN FaultCategory(head)
    ELSE "ok"

(* CheckHead on the plaintext so far: nothing to look at yet, not XML, a   *)
(* fault, or fine.                                                         *)
HeadCategory(head, done) ==
    IF head = {} /\ ~done THEN "ok"
    ELSE IF "doc" \notin head THEN "protocol"
    ELSE IF "code" \in head THEN FaultCategory(head)
    ELSE "ok"

(* Pump reads one record of whatever connection the session now has.  The  *)
(* provider of a connection that is gone is freed memory: what it unseals  *)
(* to is anything.  An unsealer that refused a record keeps its bytes in   *)
(* front of all that follow, and gives nothing more.                       *)
Unsealed ==
    IF cur.refused THEN {{}}
    ELSE {Head(inbox).parts} \cup (IF cur.conn = conn THEN {} ELSE {{"noise"}})

(* A variant that leaves out the record that reaches HEAD_LIMIT.           *)
FedHeadCutShort(parts) ==
    IF "full" \in cur.head \cup parts THEN cur.head \cup {"full"} ELSE cur.head \cup parts

(* Feed: head_ takes whole records until it has HEAD_LIMIT bytes.          *)
FedHead(parts) == IF "full" \in cur.head THEN cur.head ELSE cur.head \cup parts

(* The cursor once the parser and the head have been fed.                  *)
Fed(parts, record) ==
    [cur EXCEPT !.head = FedHead(parts),
                !.rows = @ + (IF "row" \in parts THEN 1 ELSE 0),
                !.from = record.req, !.whole = record.whole]

Reads(record) ==
    /\ record = Head(inbox)
    /\ inbox' = Tail(inbox)
    /\ in_message' = ~record.me
    /\ strayed' = (strayed \/ cur.conn # conn)

(* The record is unsealed, and the head of the response is looked at.      *)
Pump ==
    /\ pc = "pump" /\ inbox # <<>>
    /\ Reads(Head(inbox))
    /\ cur.refused => ~Head(inbox).me
    /\ \E parts \in Unsealed :
       LET record == Head(inbox)
           head == FedHead(parts)
           verdict == HeadCategory(head, record.me)
       IN  /\ cur' = [Fed(parts, record) EXCEPT !.complete = record.me,
                                                !.broken = @ \/ verdict # "ok"]
           /\ id_seen' = (id_seen \/ "sid" \in cur.head \cup parts)
           /\ IF verdict # "protocol" THEN CaptureSessionId(head) ELSE UNCHANGED session_id
           /\ erred' = (erred \/ verdict = "protocol")
           /\ IF verdict = "ok" THEN pc' = "next" /\ UNCHANGED outcome
                                ELSE pc' = "idle" /\ Ended(verdict)
    /\ UNCHANGED <<state, stream, first_record, seal, shake, asked, pending, conn, reqs, last,
                   auth_refused, torn>>

(* The record is taken off the stream, and then Append throws, or it was   *)
(* the last one, has been fed, and Finish finds a frame cut short.         *)
RecordRefused ==
    /\ pc = "pump" /\ inbox # <<>>
    /\ Reads(Head(inbox))
    /\ \/ cur' = [cur EXCEPT !.broken = TRUE, !.refused = TRUE]
       \/ /\ Head(inbox).me
          /\ \E parts \in Unsealed :
               cur' = [Fed(parts, Head(inbox)) EXCEPT !.broken = TRUE, !.refused = TRUE]
    /\ pc' = "idle" /\ erred' = TRUE
    /\ Failed("protocol", cur.req)
    /\ UNCHANGED <<handles, shake, asked, pending, conn, reqs, last, id_seen, auth_refused, torn>>

(* Nothing is read: the parser holds its limit without a row, the deadline *)
(* passes, or the server closes.                                           *)
PumpFails ==
    /\ pc = "pump"
    /\ cur' = [cur EXCEPT !.broken = TRUE]
    /\ pc' = "idle" /\ erred' = TRUE
    /\ Failed("connection", cur.req)
    /\ UNCHANGED <<handles, in_message, shake, asked, net, conn, reqs, hist>>

(* Destroying a cursor that has read its answer, or whose session is       *)
(* closed.                                                                 *)
DestroyCursor ==
    /\ pc = "idle" /\ cur.req # 0
    /\ cur.complete \/ ~stream
    /\ cur' = NoCursor
    /\ UNCHANGED <<handles, in_message, pc, shake, asked, net, conn, reqs, erred, hist, outcome>>

(* A variant that leaves the session as it is when nothing was read.       *)
AbandonCursorUnread ==
    /\ pc = "idle" /\ cur.req # 0
    /\ ~cur.complete /\ stream
    /\ cur' = NoCursor
    /\ state' = IF in_message THEN "FAILED" ELSE state
    /\ in_message' = FALSE
    /\ inbox' = IF in_message THEN <<>> ELSE inbox
    /\ torn' = TRUE
    /\ UNCHANGED <<stream, first_record, session_id, seal, pc, shake, asked, pending, conn, reqs,
                   erred, last, id_seen, auth_refused, strayed, outcome>>

(* Destroying any other: AbandonMessage, and the session is FAILED.        *)
AbandonCursor ==
    /\ pc = "idle" /\ cur.req # 0
    /\ ~cur.complete /\ stream
    /\ cur' = NoCursor
    /\ state' = "FAILED"
    /\ in_message' = FALSE
    /\ inbox' = IF in_message THEN <<>> ELSE inbox
    /\ torn' = TRUE
    /\ UNCHANGED <<stream, first_record, session_id, seal, pc, shake, asked, pending, conn, reqs,
                   erred, last, id_seen, auth_refused, strayed, outcome>>

-----------------------------------------------------------------------------
(* What the caller starts, and what the thread then does.                  *)
Caller ==
    \/ Open \/ Close
    \/ Request \/ (\E received \in BOOLEAN : SendFails(received))
    \/ ExecuteCursor \/ CallNext \/ DestroyCursor \/ AbandonCursor

Call ==
    \/ ConnectFails \/ Connects \/ Handshake
    \/ Reply \/ ReplyRefused \/ ReplyNoMB \/ ReplyFails
    \/ NextRow \/ NextDrained \/ NextPumps \/ NextClosed
    \/ Pump \/ RecordRefused \/ PumpFails

Next == (Server \/ Caller \/ Call) /\ UNCHANGED licences

Spec == Init /\ [][Next]_vars

(* The calling thread runs, and every wait of it has a deadline.  The      *)
(* server and the caller owe nothing.                                      *)
FairSpec == Spec /\ WF_vars(Call /\ UNCHANGED licences)

-----------------------------------------------------------------------------
(* Properties.                                                             *)

Records == [req : Nat, parts : SUBSET Parts, mb : BOOLEAN, me : BOOLEAN, whole : SUBSET Parts]

(* The types; the handshake's rounds stay within their bound.              *)
TypeOK ==
    /\ licences \in Permitted
    /\ state \in States /\ stream \in BOOLEAN /\ first_record \in BOOLEAN
    /\ session_id \in 0 .. conn /\ seal \in 0 .. conn
    /\ in_message \in BOOLEAN
    /\ pc \in {"idle", "connect", "step", "auth", "seal", "reply", "next", "pump"}
    /\ rounds \in 0 .. MaxRounds /\ complete \in BOOLEAN
    /\ asked \in 0 .. reqs
    /\ cur \in [req : 0 .. reqs, conn : 0 .. conn, head : SUBSET Parts, rows : Nat,
                from : 0 .. reqs, whole : SUBSET Parts, complete : BOOLEAN, drained : BOOLEAN,
                broken : BOOLEAN, refused : BOOLEAN]
    /\ pending \in Seq(0 .. reqs) /\ inbox \in Seq(Records)
    /\ conn \in Nat /\ reqs \in Nat /\ erred \in BOOLEAN
    /\ id_seen \in BOOLEAN /\ auth_refused \in BOOLEAN /\ torn \in BOOLEAN /\ strayed \in BOOLEAN

(* On every connection the negotiation bit is clear on the first record    *)
(* and set on every later one, across reconnects (client.cpp:97-109, 165). *)
NegoBit == last.conn # 0 => last.nego = ~last.first

(* A request carries a SessionId exactly when the client has read one on   *)
(* that very connection, by either read path and from any record: never    *)
(* BeginSession again, never the id of a dead connection.  A caller that   *)
(* keeps a cursor over an Open is left out: its cursor's head may hold the *)
(* id of the old connection (client.cpp:110, 225-237, 346-351).  An answer *)
(* has its id in the prefix a cursor keeps (EnvelopeAssumption), and the   *)
(* record that fills the prefix belongs to it (client.cpp:368-372).        *)
SessionIdCarried ==
    "cursor_over_reopen" \notin licences /\ last.kind = "request" =>
        last.sid = IF last.id_seen THEN last.conn ELSE 0

(* What the calls dereference is there: an authenticated session has its   *)
(* stream and the provider of this very connection, a provider never       *)
(* outlives its stream, and no call waits on a stream that is gone.        *)
HandlesAgree ==
    /\ state = "AUTHENTICATED" => stream /\ seal = conn
    /\ seal # 0 => stream /\ seal = conn
    /\ pc \in {"step", "auth", "seal", "reply", "pump"} => stream

(* A session is AUTHENTICATED only when the server has answered every      *)
(* token of this connection and refused none, the terminal one included    *)
(* (client.cpp:177-182, auth.cpp:122-128).                                 *)
HandshakeAccepted ==
    state = "AUTHENTICATED" => ~auth_refused /\ \A k \in 1 .. Len(pending) : pending[k] # 0

(* Once a cursor was abandoned, nothing more is sent on its connection and *)
(* nothing more is read from it (client.cpp:305-311, ARCHITECTURE.md:176). *)
TornNotUsed ==
    [][torn /\ conn' = conn =>
         /\ UNCHANGED <<last, reqs>>
         /\ stream' => Len(inbox') >= Len(inbox)]_vars

(* What a request returns, rows, an end of rows or a fault, was sent by    *)
(* the server in answer to that request, for a caller that stops where the *)
(* extension does.                                                         *)
AnswersMatch ==
    licences = {} /\ outcome.category \in {"rows", "drained", "server", "authorization"} =>
        outcome.from = outcome.asked

(* A refusal, or something that is not an envelope, never reads as rows or *)
(* as an empty rowset, however its records are cut (client.cpp:319-356),   *)
(* when a fault's code is in the prefix a cursor keeps, as                 *)
(* EnvelopeAssumption says.                                                *)
RefusedNeverRows ==
    licences = {} /\ outcome.category \in {"rows", "drained"} => WholeCategory(outcome.whole) = "rows"

(* Every call returns or throws (FR-025).                                  *)
CallsEnd == (pc # "idle") ~> (pc = "idle")

(* "the session was closed while the response was still being read"        *)
(* (client.cpp:376-383): a cursor reads no connection but its own.          *)
CursorReadsItsOwnConnection == ~strayed

(* "a permission fault is Authorization, not Server"                       *)
(* (test_client.cpp:124), whichever path reads it.                         *)
PermissionIsAuthorization ==
    outcome.category = "server" => "text" \notin outcome.whole

(* "Whatever the whole-message path accepts, this one accepts."            *)
(* (client.hpp:79)                                                         *)
CursorAcceptsWhatExecuteAccepts ==
    outcome.category = "protocol" => WholeCategory(outcome.whole) # "rows"

=============================================================================
