------------------------------ MODULE SessionProofs ------------------------------
(***************************************************************************)
(* Proofs about Session, for every set of answers, every number of         *)
(* connections, requests and rounds, and every caller.                     *)
(***************************************************************************)
EXTENDS Session, SequenceTheorems, TLAPS

-----------------------------------------------------------------------------
(* The inductive invariant.                                                *)

(* Where the thread is decides the state of the session, its stream and    *)
(* its provider.                                                           *)
Control ==
    /\ state \in States
    /\ pc \in {"idle", "connect", "step", "auth", "seal", "reply", "next", "pump"}
    /\ pc = "connect" => state # "AUTHENTICATED" /\ stream = FALSE /\ seal = 0
    /\ pc \in {"step", "auth", "seal"} => state = "NEGOTIATED" /\ stream = TRUE /\ seal = 0
    /\ state = "AUTHENTICATED" => stream = TRUE /\ seal = conn
    /\ seal # 0 => stream = TRUE /\ seal = conn
    /\ pc \in {"reply", "pump"} => stream = TRUE
    /\ pc \in {"next", "pump"} => cur.req # 0

(* The connections, and the first record of each.                          *)
Connections ==
    /\ conn \in Nat /\ reqs \in Nat /\ last.conn \in 0 .. conn /\ rounds \in 0 .. MaxRounds
    /\ first_record \in BOOLEAN
    /\ pc \in {"connect", "step", "auth", "seal"} => conn > 0
    /\ conn = 0 => last.conn = 0 /\ first_record = TRUE
    /\ conn > 0 => (last.conn = conn <=> first_record = FALSE)
    /\ pc \in {"auth", "seal"} \/ state = "AUTHENTICATED" => first_record = FALSE
    /\ pc = "step" /\ rounds > 0 => first_record = FALSE
    /\ pc = "auth" => rounds < MaxRounds
    /\ pc = "connect" => rounds = 0

(* What a torn connection is left at.                                      *)
Left == torn = TRUE => state \in {"FAILED", "CLOSED"} /\ pc = "idle" /\ cur.req = 0

Flags == torn \in BOOLEAN

CInv == Control /\ Connections /\ Left /\ Flags /\ NegoBit

(* The types of what the calls carry.                                      *)
NumbersTyped ==
    /\ session_id \in 0 .. conn /\ seal \in 0 .. conn /\ asked \in 0 .. reqs
BoolsTyped ==
    /\ stream \in BOOLEAN /\ in_message \in BOOLEAN /\ complete \in BOOLEAN
    /\ erred \in BOOLEAN /\ id_seen \in BOOLEAN /\ auth_refused \in BOOLEAN
    /\ strayed \in BOOLEAN
Cursors == [req : 0 .. reqs, conn : 0 .. conn, head : SUBSET Parts, rows : Nat,
            from : 0 .. reqs, whole : SUBSET Parts, complete : BOOLEAN, drained : BOOLEAN,
            broken : BOOLEAN, refused : BOOLEAN]
CursorTyped == cur \in Cursors
Sent(n) == [req : 0 .. n, parts : SUBSET Parts, mb : BOOLEAN, me : BOOLEAN, whole : SUBSET Parts]
NetTyped == pending \in Seq(0 .. reqs) /\ inbox \in Seq(Sent(reqs))

TInv == CInv /\ licences \in Permitted /\ NumbersTyped /\ BoolsTyped /\ CursorTyped /\ NetTyped

(* While a handshake runs, the connection carries one token or one answer  *)
(* to it, and a refusal is still to be read.                               *)
Tokens ==
    /\ pc \in {"connect", "step", "seal"} =>
         pending = <<>> /\ inbox = <<>> /\ auth_refused = FALSE
    /\ pc = "auth" =>
         \/ pending = <<0>> /\ inbox = <<>> /\ auth_refused = FALSE
         \/ /\ pending = <<>> /\ Len(inbox) = 1
            /\ auth_refused = TRUE => "code" \in inbox[1].parts
    /\ state = "AUTHENTICATED" =>
         auth_refused = FALSE /\ \A k \in 1 .. Len(pending) : pending[k] # 0

(* The invariant.                                                          *)
SInv == TInv /\ Tokens

(* The connection carries one request, or one answer, and it is r's.       *)
Carries(r) ==
    \/ pending = <<r>> /\ inbox = <<>>
    \/ /\ pending = <<>> /\ inbox # <<>>
       /\ \A k \in 1 .. Len(inbox) :
            inbox[k].req = r /\ (inbox[k].me = TRUE <=> k = Len(inbox))

(* With a caller that permits itself nothing, the connection carries what  *)
(* is being waited for, and nothing else.                                  *)
Done == cur.req = 0 \/ cur.complete = TRUE
Traffic ==
    /\ state = "AUTHENTICATED" /\ erred = FALSE /\ pc # "reply" /\ Done =>
         pending = <<>> /\ inbox = <<>>
    /\ pc = "reply" => erred = FALSE /\ Done /\ Carries(asked)
    /\ state = "AUTHENTICATED" /\ erred = FALSE /\ ~Done => Carries(cur.req)
Held ==
    /\ pc \in {"connect", "step", "auth", "seal"} => cur.req = 0 /\ erred = FALSE
    /\ cur.req # 0 /\ stream = TRUE => state = "AUTHENTICATED"
    /\ pc \in {"next", "pump"} => cur.broken = FALSE /\ erred = FALSE
    /\ pc = "pump" => cur.complete = FALSE
    /\ cur.refused = TRUE => cur.broken = TRUE
Matched ==
    /\ cur.req # 0 /\ (cur.rows > 0 \/ cur.complete = TRUE) => cur.from = cur.req
    /\ outcome.category \in {"rows", "drained", "server", "authorization"} =>
         outcome.from = outcome.asked
Exchange == Traffic /\ Held /\ Matched
XInv == SInv /\ (licences = {} => Exchange)

-----------------------------------------------------------------------------
(* The first part of the invariant, step by step.                          *)

(* Before the first call.                                                  *)
LEMMA CInvHoldsFirst == ASSUME SessionAssumption, Init PROVE CInv
<1>1. Control
  BY DEF Init, Control, States
<1>2. Connections
  BY DEF Init, Connections, SessionAssumption
<1>3. Left /\ Flags /\ NegoBit
  BY DEF Init, Left, Flags, NegoBit
<1> QED
  BY <1>1, <1>2, <1>3 DEF CInv

(* Every step keeps the session where its thread is.                       *)
LEMMA ControlKept ==
    ASSUME SessionAssumption, CInv, Next
    PROVE  Control'
<1>1. CASE Open
  BY <1>1 DEF Open, Closed, Reset, CInv, Control, Connections, States, handles, shake, net, hist
<1>2. CASE Close
  BY <1>2 DEF Close, Closed, CInv, Control, Connections, States, handles, shake, net, hist
<1>3. CASE Request
  BY <1>3 DEF Request, SendsRequest, Record, CInv, Control, Connections, States, handles, shake,
     net, hist
<1>4. ASSUME NEW received \in BOOLEAN, SendFails(received) PROVE Control'
  BY <1>4 DEF SendFails, SendsRequest, Record, Failed, CInv, Control, Connections, States,
     handles, shake, net, hist
<1>5. CASE ExecuteCursor
  BY <1>5 DEF ExecuteCursor, SendsRequest, Record, NoCursor, CInv, Control, Connections, States,
     handles, shake, net, hist
<1>6. CASE CallNext
  BY <1>6 DEF CallNext, CInv, Control, Connections, States, handles, shake, net, hist
<1>7. CASE DestroyCursor
  BY <1>7 DEF DestroyCursor, NoCursor, CInv, Control, Connections, States, handles, shake, net, hist
<1>8. CASE AbandonCursor
  BY <1>8 DEF AbandonCursor, NoCursor, CInv, Control, Connections, States, handles, shake, net, hist
<1>9. CASE ConnectFails
  BY <1>9 DEF ConnectFails, OpenFailed, CInv, Control, Connections, States, handles, shake, net,
     hist
<1>10. CASE Connects
  BY <1>10 DEF Connects, CInv, Control, Connections, States, handles, shake, net, hist
<1>11. CASE StepCompletes
  BY <1>11 DEF StepCompletes, CInv, Control, Connections, States, handles, shake, net, hist
<1>12. CASE StepFails
  BY <1>12 DEF StepFails, OpenFailed, CInv, Control, Connections, States, handles, shake, net, hist
<1>13. CASE AuthReply
  BY <1>13 DEF AuthReply, OpenFailed, CInv, Control, Connections, States, handles, shake, net, hist
<1>14. CASE AuthReplyFails
  BY <1>14 DEF AuthReplyFails, OpenFailed, CInv, Control, Connections, States, handles, shake,
     net, hist
<1>15. CASE MakesSealProvider
  BY <1>15 DEF MakesSealProvider, CInv, Control, Connections, States, handles, shake, net, hist
<1>16. CASE CannotSeal
  BY <1>16 DEF CannotSeal, OpenFailed, CInv, Control, Connections, States, handles, shake, net, hist
<1>17. ASSUME NEW done \in BOOLEAN, StepEmits(done) PROVE Control'
  BY <1>17 DEF StepEmits, Record, CInv, Control, Connections, States, handles, shake, net, hist
<1>18. CASE Reply
  BY <1>18 DEF Reply, CaptureSessionId, CInv, Control, Connections, States, handles, shake, net,
     hist
<1>19. CASE ReplyNoMB
  BY <1>19 DEF ReplyNoMB, Failed, CInv, Control, Connections, States, handles, shake, net, hist
<1>20. CASE ReplyFails
  BY <1>20 DEF ReplyFails, Failed, CInv, Control, Connections, States, handles, shake, net, hist
<1>21. CASE NextRow
  BY <1>21 DEF NextRow, Ended, CInv, Control, Connections, States, handles, shake, net, hist
<1>22. CASE NextDrained
  BY <1>22 DEF NextDrained, Ended, CInv, Control, Connections, States, handles, shake, net, hist
<1>23. CASE NextPumps
  BY <1>23 DEF NextPumps, CInv, Control, Connections, States, handles, shake, net, hist
<1>24. CASE NextClosed
  BY <1>24 DEF NextClosed, Failed, CInv, Control, Connections, States, handles, shake, net, hist
<1>25. CASE Pump
  BY <1>25 DEF Pump, Reads, Fed, CaptureSessionId, Ended, CInv, Control, Connections,
     States, handles, shake, net, hist
<1>26. CASE PumpFails
  BY <1>26 DEF PumpFails, Failed, CInv, Control, Connections, States, handles, shake, net, hist
<1>27. CASE Server
  BY <1>27 DEF Server, ServerAnswers, CInv, Control, Connections, States, handles, shake, net, hist
<1>28. CASE ReplyRefused
  BY <1>28 DEF ReplyRefused, Failed, CInv, Control, Connections, States, handles, shake,
     net, hist
<1>29. CASE RecordRefused
  BY <1>29 DEF RecordRefused, Reads, Fed, Failed, CInv, Control, Connections, States,
     handles, shake, net, hist
<1> QED
  BY <1>1, <1>2, <1>3, <1>4, <1>5, <1>6, <1>7, <1>8, <1>9, <1>10, <1>11, <1>12, <1>13,
     <1>14, <1>15, <1>16, <1>17, <1>18, <1>19, <1>20, <1>21, <1>22, <1>23, <1>24, <1>25, <1>26,
     <1>27, <1>28, <1>29 DEF Next, Caller, Call, Handshake

(* A record is sent first once per connection.                             *)
LEMMA ConnectionsKept ==
    ASSUME SessionAssumption, CInv, Next
    PROVE  Connections'
<1>1. CASE Open
  BY <1>1 DEF Open, Closed, Reset, CInv, Control, Connections, handles, shake, net, hist,
     SessionAssumption
<1>2. CASE Close
  BY <1>2 DEF Close, Closed, CInv, Control, Connections, handles, shake, net, hist,
     SessionAssumption
<1>3. CASE Request
  BY <1>3 DEF Request, SendsRequest, Record, CInv, Control, Connections, handles, shake, net,
     hist, SessionAssumption
<1>4. ASSUME NEW received \in BOOLEAN, SendFails(received) PROVE Connections'
  BY <1>4 DEF SendFails, SendsRequest, Record, Failed, CInv, Control, Connections, handles,
     shake, net, hist, SessionAssumption
<1>5. CASE ExecuteCursor
  BY <1>5 DEF ExecuteCursor, SendsRequest, Record, NoCursor, CInv, Control, Connections,
     handles, shake, net, hist, SessionAssumption
<1>6. CASE CallNext
  BY <1>6 DEF CallNext, CInv, Control, Connections, handles, shake, net, hist, SessionAssumption
<1>7. CASE DestroyCursor
  BY <1>7 DEF DestroyCursor, NoCursor, CInv, Control, Connections, handles, shake, net, hist,
     SessionAssumption
<1>8. CASE AbandonCursor
  BY <1>8 DEF AbandonCursor, NoCursor, CInv, Control, Connections, handles, shake, net, hist,
     SessionAssumption
<1>9. CASE ConnectFails
  BY <1>9 DEF ConnectFails, OpenFailed, CInv, Control, Connections, handles, shake, net, hist,
     SessionAssumption
<1>10. CASE Connects
  BY <1>10 DEF Connects, CInv, Control, Connections, handles, shake, net, hist, SessionAssumption
<1>11. CASE StepCompletes
  <2>1. /\ UNCHANGED <<conn, reqs, last, rounds, first_record, state>>
        /\ pc = "step" /\ pc' = "seal" /\ 0 < rounds
    BY <1>11 DEF StepCompletes, handles, shake, hist
  <2>2. first_record = FALSE /\ conn > 0
    BY <2>1 DEF CInv, Connections
  <2> QED
    BY <2>1, <2>2 DEF CInv, Connections
<1>12. CASE StepFails
  BY <1>12 DEF StepFails, OpenFailed, CInv, Control, Connections, handles, shake, net, hist,
     SessionAssumption
<1>13. CASE AuthReply
  <2>1. /\ UNCHANGED <<conn, reqs, last, first_record>> /\ pc = "auth"
        /\ \/ rounds' = rounds /\ pc' = "idle" /\ state' = "FAILED"
           \/ rounds' = rounds /\ pc' = "seal" /\ state' = state
           \/ rounds' = rounds + 1 /\ pc' = "step" /\ state' = state
    BY <1>13 DEF AuthReply, OpenFailed, handles, shake, hist
  <2>2. first_record = FALSE /\ conn > 0 /\ rounds < MaxRounds /\ state = "NEGOTIATED"
    BY <2>1 DEF CInv, Control, Connections
  <2>3. rounds' \in 0 .. MaxRounds
    BY <2>1, <2>2, SessionAssumption DEF CInv, Connections, SessionAssumption
  <2> QED
    BY <2>1, <2>2, <2>3 DEF CInv, Connections
<1>14. CASE AuthReplyFails
  BY <1>14 DEF AuthReplyFails, OpenFailed, CInv, Control, Connections, handles, shake, net,
     hist, SessionAssumption
<1>15. CASE MakesSealProvider
  <2>1. /\ UNCHANGED <<conn, reqs, last, rounds, first_record>>
        /\ pc = "seal" /\ pc' = "idle"
    BY <1>15 DEF MakesSealProvider, shake, hist
  <2>2. first_record = FALSE /\ conn > 0
    BY <2>1 DEF CInv, Connections
  <2> QED
    BY <2>1, <2>2 DEF CInv, Connections
<1>16. CASE CannotSeal
  BY <1>16 DEF CannotSeal, OpenFailed, CInv, Control, Connections, handles, shake, net, hist,
     SessionAssumption
<1>17. ASSUME NEW done \in BOOLEAN, StepEmits(done) PROVE Connections'
  <2>1. /\ UNCHANGED <<conn, reqs, rounds, state>> /\ first_record' = FALSE
        /\ pc = "step" /\ pc' = "auth" /\ rounds < MaxRounds
    BY <1>17 DEF StepEmits
  <2>2. last'.conn = conn
    BY <1>17 DEF StepEmits, Record
  <2>3. conn \in Nat /\ reqs \in Nat /\ rounds \in 0 .. MaxRounds /\ conn > 0
    BY <2>1 DEF CInv, Connections
  <2>4. last'.conn \in 0 .. conn'
    BY <2>1, <2>2, <2>3
  <2>5. conn' > 0 => (last'.conn = conn' <=> first_record' = FALSE)
    BY <2>1, <2>2
  <2>6. conn' \in Nat /\ reqs' \in Nat /\ rounds' \in 0 .. MaxRounds /\ conn' > 0 /\ rounds' < MaxRounds
    BY <2>1, <2>3
  <2>7. conn' # 0
    BY <2>6
  <2>8. pc' = "auth" /\ first_record' = FALSE
    BY <2>1
  <2>9. first_record' \in BOOLEAN
    BY <2>8, Zenon
  <2> QED
    BY <2>4, <2>5, <2>6, <2>7, <2>8, <2>9 DEF Connections
<1>18. CASE Reply
  BY <1>18 DEF Reply, CaptureSessionId, CInv, Control, Connections, handles, shake, net, hist,
     SessionAssumption
<1>19. CASE ReplyNoMB
  BY <1>19 DEF ReplyNoMB, Failed, CInv, Control, Connections, handles, shake, net, hist,
     SessionAssumption
<1>20. CASE ReplyFails
  BY <1>20 DEF ReplyFails, Failed, CInv, Control, Connections, handles, shake, net, hist,
     SessionAssumption
<1>21. CASE NextRow
  BY <1>21 DEF NextRow, Ended, CInv, Control, Connections, handles, shake, net, hist,
     SessionAssumption
<1>22. CASE NextDrained
  BY <1>22 DEF NextDrained, Ended, CInv, Control, Connections, handles, shake, net, hist,
     SessionAssumption
<1>23. CASE NextPumps
  BY <1>23 DEF NextPumps, CInv, Control, Connections, handles, shake, net, hist, SessionAssumption
<1>24. CASE NextClosed
  BY <1>24 DEF NextClosed, Failed, CInv, Control, Connections, handles, shake, net, hist,
     SessionAssumption
<1>25. CASE Pump
  BY <1>25 DEF Pump, Reads, Fed, CaptureSessionId, Ended, CInv, Control, Connections,
     handles, shake, net, hist, SessionAssumption
<1>26. CASE PumpFails
  BY <1>26 DEF PumpFails, Failed, CInv, Control, Connections, handles, shake, net, hist,
     SessionAssumption
<1>27. CASE Server
  BY <1>27 DEF Server, ServerAnswers, CInv, Control, Connections, handles, shake, net, hist,
     SessionAssumption
<1>28. CASE ReplyRefused
  BY <1>28 DEF ReplyRefused, Failed, CInv, Control, Connections, handles, shake, net, hist,
     SessionAssumption
<1>29. CASE RecordRefused
  BY <1>29 DEF RecordRefused, Reads, Fed, Failed, CInv, Control, Connections, handles,
     shake, net, hist, SessionAssumption
<1> QED
  BY <1>1, <1>2, <1>3, <1>4, <1>5, <1>6, <1>7, <1>8, <1>9, <1>10, <1>11, <1>12, <1>13,
     <1>14, <1>15, <1>16, <1>17, <1>18, <1>19, <1>20, <1>21, <1>22, <1>23, <1>24, <1>25, <1>26,
     <1>27, <1>28, <1>29 DEF Next, Caller, Call, Handshake

(* A torn connection is left alone.                                        *)
LEMMA LeftKept ==
    ASSUME SessionAssumption, CInv, Next
    PROVE  Left' /\ Flags'
<1>1. CASE Open
  BY <1>1 DEF Open, Closed, Reset, CInv, Control, Left, Flags, handles, shake, net, hist
<1>2. CASE Close
  BY <1>2 DEF Close, Closed, CInv, Control, Left, Flags, handles, shake, net, hist
<1>3. CASE Request
  BY <1>3 DEF Request, SendsRequest, Record, CInv, Control, Left, Flags, handles, shake, net, hist
<1>4. ASSUME NEW received \in BOOLEAN, SendFails(received) PROVE Left' /\ Flags'
  BY <1>4 DEF SendFails, SendsRequest, Record, Failed, CInv, Control, Left, Flags, handles,
     shake, net, hist
<1>5. CASE ExecuteCursor
  BY <1>5 DEF ExecuteCursor, SendsRequest, Record, NoCursor, CInv, Control, Left, Flags,
     handles, shake, net, hist
<1>6. CASE CallNext
  BY <1>6 DEF CallNext, CInv, Control, Left, Flags, handles, shake, net, hist
<1>7. CASE DestroyCursor
  BY <1>7 DEF DestroyCursor, NoCursor, CInv, Control, Left, Flags, handles, shake, net, hist
<1>8. CASE AbandonCursor
  BY <1>8 DEF AbandonCursor, NoCursor, CInv, Control, Left, Flags, handles, shake, net, hist
<1>9. CASE ConnectFails
  BY <1>9 DEF ConnectFails, OpenFailed, CInv, Control, Left, Flags, handles, shake, net, hist
<1>10. CASE Connects
  BY <1>10 DEF Connects, CInv, Control, Left, Flags, handles, shake, net, hist
<1>11. CASE StepCompletes
  BY <1>11 DEF StepCompletes, CInv, Control, Left, Flags, handles, shake, net, hist
<1>12. CASE StepFails
  BY <1>12 DEF StepFails, OpenFailed, CInv, Control, Left, Flags, handles, shake, net, hist
<1>13. CASE AuthReply
  BY <1>13 DEF AuthReply, OpenFailed, CInv, Control, Left, Flags, handles, shake, net, hist
<1>14. CASE AuthReplyFails
  BY <1>14 DEF AuthReplyFails, OpenFailed, CInv, Control, Left, Flags, handles, shake, net, hist
<1>15. CASE MakesSealProvider
  BY <1>15 DEF MakesSealProvider, CInv, Control, Left, Flags, handles, shake, net, hist
<1>16. CASE CannotSeal
  BY <1>16 DEF CannotSeal, OpenFailed, CInv, Control, Left, Flags, handles, shake, net, hist
<1>17. ASSUME NEW done \in BOOLEAN, StepEmits(done) PROVE Left' /\ Flags'
  BY <1>17 DEF StepEmits, Record, CInv, Control, Left, Flags, handles, shake, net, hist
<1>18. CASE Reply
  BY <1>18 DEF Reply, CaptureSessionId, CInv, Control, Left, Flags, handles, shake, net, hist
<1>19. CASE ReplyNoMB
  BY <1>19 DEF ReplyNoMB, Failed, CInv, Control, Left, Flags, handles, shake, net, hist
<1>20. CASE ReplyFails
  BY <1>20 DEF ReplyFails, Failed, CInv, Control, Left, Flags, handles, shake, net, hist
<1>21. CASE NextRow
  BY <1>21 DEF NextRow, Ended, CInv, Control, Left, Flags, handles, shake, net, hist
<1>22. CASE NextDrained
  BY <1>22 DEF NextDrained, Ended, CInv, Control, Left, Flags, handles, shake, net, hist
<1>23. CASE NextPumps
  BY <1>23 DEF NextPumps, CInv, Control, Left, Flags, handles, shake, net, hist
<1>24. CASE NextClosed
  BY <1>24 DEF NextClosed, Failed, CInv, Control, Left, Flags, handles, shake, net, hist
<1>25. CASE Pump
  BY <1>25 DEF Pump, Reads, Fed, CaptureSessionId, Ended, CInv, Control, Left, Flags,
     handles, shake, net, hist
<1>26. CASE PumpFails
  BY <1>26 DEF PumpFails, Failed, CInv, Control, Left, Flags, handles, shake, net, hist
<1>27. CASE Server
  BY <1>27 DEF Server, ServerAnswers, CInv, Control, Left, Flags, handles, shake, net, hist
<1>28. CASE ReplyRefused
  BY <1>28 DEF ReplyRefused, Failed, CInv, Control, Left, Flags, handles, shake, net, hist
<1>29. CASE RecordRefused
  BY <1>29 DEF RecordRefused, Reads, Fed, Failed, CInv, Control, Left, Flags, handles,
     shake, net, hist
<1> QED
  BY <1>1, <1>2, <1>3, <1>4, <1>5, <1>6, <1>7, <1>8, <1>9, <1>10, <1>11, <1>12, <1>13,
     <1>14, <1>15, <1>16, <1>17, <1>18, <1>19, <1>20, <1>21, <1>22, <1>23, <1>24, <1>25, <1>26,
     <1>27, <1>28, <1>29 DEF Next, Caller, Call, Handshake

(* The bit of each record sent.                                            *)
LEMMA NegoBitKept ==
    ASSUME SessionAssumption, CInv, Next
    PROVE  NegoBit'
<1>1. CASE Open
  BY <1>1 DEF Open, Closed, Reset, CInv, Control, Connections, NegoBit, handles, shake, net, hist
<1>2. CASE Close
  BY <1>2 DEF Close, Closed, CInv, Control, Connections, NegoBit, handles, shake, net, hist
<1>3. CASE Request
  BY <1>3 DEF Request, SendsRequest, Record, CInv, Control, Connections, NegoBit, handles,
     shake, net, hist
<1>4. ASSUME NEW received \in BOOLEAN, SendFails(received) PROVE NegoBit'
  BY <1>4 DEF SendFails, SendsRequest, Record, Failed, CInv, Control, Connections, NegoBit,
     handles, shake, net, hist
<1>5. CASE ExecuteCursor
  BY <1>5 DEF ExecuteCursor, SendsRequest, Record, NoCursor, CInv, Control, Connections,
     NegoBit, handles, shake, net, hist
<1>6. CASE CallNext
  BY <1>6 DEF CallNext, CInv, Control, Connections, NegoBit, handles, shake, net, hist
<1>7. CASE DestroyCursor
  BY <1>7 DEF DestroyCursor, NoCursor, CInv, Control, Connections, NegoBit, handles, shake, net,
     hist
<1>8. CASE AbandonCursor
  BY <1>8 DEF AbandonCursor, NoCursor, CInv, Control, Connections, NegoBit, handles, shake, net,
     hist
<1>9. CASE ConnectFails
  BY <1>9 DEF ConnectFails, OpenFailed, CInv, Control, Connections, NegoBit, handles, shake,
     net, hist
<1>10. CASE Connects
  BY <1>10 DEF Connects, CInv, Control, Connections, NegoBit, handles, shake, net, hist
<1>11. CASE StepCompletes
  BY <1>11 DEF StepCompletes, CInv, Control, Connections, NegoBit, handles, shake, net, hist
<1>12. CASE StepFails
  BY <1>12 DEF StepFails, OpenFailed, CInv, Control, Connections, NegoBit, handles, shake, net, hist
<1>13. CASE AuthReply
  BY <1>13 DEF AuthReply, OpenFailed, CInv, Control, Connections, NegoBit, handles, shake, net, hist
<1>14. CASE AuthReplyFails
  BY <1>14 DEF AuthReplyFails, OpenFailed, CInv, Control, Connections, NegoBit, handles, shake,
     net, hist
<1>15. CASE MakesSealProvider
  BY <1>15 DEF MakesSealProvider, CInv, Control, Connections, NegoBit, handles, shake, net, hist
<1>16. CASE CannotSeal
  BY <1>16 DEF CannotSeal, OpenFailed, CInv, Control, Connections, NegoBit, handles, shake, net,
     hist
<1>17. ASSUME NEW done \in BOOLEAN, StepEmits(done) PROVE NegoBit'
  BY <1>17 DEF StepEmits, Record, CInv, Control, Connections, NegoBit, handles, shake, net, hist
<1>18. CASE Reply
  BY <1>18 DEF Reply, CaptureSessionId, CInv, Control, Connections, NegoBit, handles, shake,
     net, hist
<1>19. CASE ReplyNoMB
  BY <1>19 DEF ReplyNoMB, Failed, CInv, Control, Connections, NegoBit, handles, shake, net, hist
<1>20. CASE ReplyFails
  BY <1>20 DEF ReplyFails, Failed, CInv, Control, Connections, NegoBit, handles, shake, net, hist
<1>21. CASE NextRow
  BY <1>21 DEF NextRow, Ended, CInv, Control, Connections, NegoBit, handles, shake, net, hist
<1>22. CASE NextDrained
  BY <1>22 DEF NextDrained, Ended, CInv, Control, Connections, NegoBit, handles, shake, net, hist
<1>23. CASE NextPumps
  BY <1>23 DEF NextPumps, CInv, Control, Connections, NegoBit, handles, shake, net, hist
<1>24. CASE NextClosed
  BY <1>24 DEF NextClosed, Failed, CInv, Control, Connections, NegoBit, handles, shake, net, hist
<1>25. CASE Pump
  BY <1>25 DEF Pump, Reads, Fed, CaptureSessionId, Ended, CInv, Control, Connections,
     NegoBit, handles, shake, net, hist
<1>26. CASE PumpFails
  BY <1>26 DEF PumpFails, Failed, CInv, Control, Connections, NegoBit, handles, shake, net, hist
<1>27. CASE Server
  BY <1>27 DEF Server, ServerAnswers, CInv, Control, Connections, NegoBit, handles, shake, net, hist
<1>28. CASE ReplyRefused
  BY <1>28 DEF ReplyRefused, Failed, CInv, Control, Connections, NegoBit, handles, shake,
     net, hist
<1>29. CASE RecordRefused
  BY <1>29 DEF RecordRefused, Reads, Fed, Failed, CInv, Control, Connections, NegoBit,
     handles, shake, net, hist
<1> QED
  BY <1>1, <1>2, <1>3, <1>4, <1>5, <1>6, <1>7, <1>8, <1>9, <1>10, <1>11, <1>12, <1>13,
     <1>14, <1>15, <1>16, <1>17, <1>18, <1>19, <1>20, <1>21, <1>22, <1>23, <1>24, <1>25, <1>26,
     <1>27, <1>28, <1>29 DEF Next, Caller, Call, Handshake

-----------------------------------------------------------------------------
(* The types, step by step.                                                *)

(* One more request.                                                       *)
LEMMA OneMore ==
    ASSUME NEW n \in Nat, NEW q \in Seq(0 .. n), NEW box \in Seq(Sent(n))
    PROVE  /\ Append(q, n + 1) \in Seq(0 .. (n + 1)) /\ q \in Seq(0 .. (n + 1))
           /\ box \in Seq(Sent(n + 1))
<1>1. 0 .. n \subseteq 0 .. (n + 1) /\ n + 1 \in 0 .. (n + 1)
  OBVIOUS
<1>2. Sent(n) \subseteq Sent(n + 1)
  BY <1>1 DEF Sent
<1>3. q \in Seq(0 .. (n + 1)) /\ box \in Seq(Sent(n + 1))
  BY <1>1, <1>2, SeqMonotonic
<1> QED
  BY <1>1, <1>3, AppendProperties

(* A message is its records.                                               *)
LEMMA MessageTyped ==
    ASSUME NEW n \in Nat, NEW r \in 0 .. n, NEW a \in Seq(SUBSET Parts)
    PROVE  Message(r, a) \in Seq(Sent(n)) /\ Len(Message(r, a)) = Len(a)
<1>1. Len(a) \in Nat /\ \A k \in 1 .. Len(a) : a[k] \in SUBSET Parts
  OBVIOUS
<1>2. UNION {a[m] : m \in 1 .. Len(a)} \in SUBSET Parts
  BY <1>1
<1>3. \A k \in 1 .. Len(a) : (k = 1) \in BOOLEAN /\ (k = Len(a)) \in BOOLEAN
  OBVIOUS
<1>4. Message(r, a) \in [1 .. Len(a) -> Sent(n)]
  BY <1>1, <1>2, <1>3 DEF Message, Sent
<1> QED
  BY <1>1, <1>4

(* So are the answers to a token.                                          *)
LEMMA AnswersTyped ==
    ASSUME SessionAssumption
    PROVE  /\ Answers \cup AuthAnswers \subseteq Seq(SUBSET Parts)
           /\ \A a \in AuthAnswers : Len(a) = 1
<1>1. Answers \subseteq Seq(SUBSET Parts)
  BY DEF SessionAssumption
<1>2. {"doc", "token"} \in SUBSET Parts /\ {"doc", "code"} \in SUBSET Parts /\ {"noise"} \in SUBSET Parts
  BY DEF Parts
<1>3. \A p \in SUBSET Parts : <<p>> \in Seq(SUBSET Parts) /\ Len(<<p>>) = 1
  OBVIOUS
<1>4. \A a \in AuthAnswers : a \in Seq(SUBSET Parts) /\ Len(a) = 1
  BY <1>2, <1>3 DEF AuthAnswers
<1> QED
  BY <1>1, <1>4

(* The ids and the requests.                                               *)
LEMMA NumbersKept ==
    ASSUME SessionAssumption, TInv, Next
    PROVE  NumbersTyped'
<1>1. CASE Open
  BY <1>1 DEF Open, Closed, Reset, TInv, CInv, Control, Connections, NumbersTyped, handles,
     shake, net, hist
<1>2. CASE Close
  BY <1>2 DEF Close, Closed, TInv, CInv, Control, Connections, NumbersTyped, handles, shake,
     net, hist
<1>3. CASE Request
  BY <1>3 DEF Request, SendsRequest, Record, TInv, CInv, Control, Connections, NumbersTyped,
     handles, shake, net, hist
<1>4. ASSUME NEW received \in BOOLEAN, SendFails(received) PROVE NumbersTyped'
  BY <1>4 DEF SendFails, SendsRequest, Record, Failed, TInv, CInv, Control, Connections,
     NumbersTyped, handles, shake, net, hist
<1>5. CASE ExecuteCursor
  BY <1>5 DEF ExecuteCursor, SendsRequest, Record, NoCursor, TInv, CInv, Control, Connections,
     NumbersTyped, handles, shake, net, hist
<1>6. CASE CallNext
  BY <1>6 DEF CallNext, TInv, CInv, Control, Connections, NumbersTyped, handles, shake, net, hist
<1>7. CASE DestroyCursor
  BY <1>7 DEF DestroyCursor, NoCursor, TInv, CInv, Control, Connections, NumbersTyped, handles,
     shake, net, hist
<1>8. CASE AbandonCursor
  BY <1>8 DEF AbandonCursor, NoCursor, TInv, CInv, Control, Connections, NumbersTyped, handles,
     shake, net, hist
<1>9. CASE ConnectFails
  BY <1>9 DEF ConnectFails, OpenFailed, TInv, CInv, Control, Connections, NumbersTyped, handles,
     shake, net, hist
<1>10. CASE Connects
  BY <1>10 DEF Connects, TInv, CInv, Control, Connections, NumbersTyped, handles, shake, net, hist
<1>11. CASE StepCompletes
  BY <1>11 DEF StepCompletes, TInv, CInv, Control, Connections, NumbersTyped, handles, shake,
     net, hist
<1>12. CASE StepFails
  BY <1>12 DEF StepFails, OpenFailed, TInv, CInv, Control, Connections, NumbersTyped, handles,
     shake, net, hist
<1>13. CASE AuthReply
  BY <1>13 DEF AuthReply, OpenFailed, TInv, CInv, Control, Connections, NumbersTyped, handles,
     shake, net, hist
<1>14. CASE AuthReplyFails
  BY <1>14 DEF AuthReplyFails, OpenFailed, TInv, CInv, Control, Connections, NumbersTyped,
     handles, shake, net, hist
<1>15. CASE MakesSealProvider
  BY <1>15 DEF MakesSealProvider, TInv, CInv, Control, Connections, NumbersTyped, handles,
     shake, net, hist
<1>16. CASE CannotSeal
  BY <1>16 DEF CannotSeal, OpenFailed, TInv, CInv, Control, Connections, NumbersTyped, handles,
     shake, net, hist
<1>17. ASSUME NEW done \in BOOLEAN, StepEmits(done) PROVE NumbersTyped'
  BY <1>17 DEF StepEmits, Record, TInv, CInv, Control, Connections, NumbersTyped, handles,
     shake, net, hist
<1>18. CASE Reply
  BY <1>18 DEF Reply, CaptureSessionId, TInv, CInv, Control, Connections, NumbersTyped, handles,
     shake, net, hist
<1>19. CASE ReplyNoMB
  BY <1>19 DEF ReplyNoMB, Failed, TInv, CInv, Control, Connections, NumbersTyped, handles,
     shake, net, hist
<1>20. CASE ReplyFails
  BY <1>20 DEF ReplyFails, Failed, TInv, CInv, Control, Connections, NumbersTyped, handles,
     shake, net, hist
<1>21. CASE NextRow
  BY <1>21 DEF NextRow, Ended, TInv, CInv, Control, Connections, NumbersTyped, handles, shake,
     net, hist
<1>22. CASE NextDrained
  BY <1>22 DEF NextDrained, Ended, TInv, CInv, Control, Connections, NumbersTyped, handles,
     shake, net, hist
<1>23. CASE NextPumps
  BY <1>23 DEF NextPumps, TInv, CInv, Control, Connections, NumbersTyped, handles, shake, net, hist
<1>24. CASE NextClosed
  BY <1>24 DEF NextClosed, Failed, TInv, CInv, Control, Connections, NumbersTyped, handles,
     shake, net, hist
<1>25. CASE Pump
  BY <1>25 DEF Pump, Reads, Fed, CaptureSessionId, Ended, TInv, CInv, Control, Connections,
     NumbersTyped, handles, shake, net, hist
<1>26. CASE PumpFails
  BY <1>26 DEF PumpFails, Failed, TInv, CInv, Control, Connections, NumbersTyped, handles,
     shake, net, hist
<1>27. CASE Server
  BY <1>27 DEF Server, ServerAnswers, TInv, CInv, Control, Connections, NumbersTyped, handles,
     shake, net, hist
<1>28. CASE ReplyRefused
  BY <1>28 DEF ReplyRefused, Failed, TInv, CInv, Control, Connections, NumbersTyped,
     handles, shake, net, hist
<1>29. CASE RecordRefused
  BY <1>29 DEF RecordRefused, Reads, Fed, Failed, TInv, CInv, Control, Connections,
     NumbersTyped, handles, shake, net, hist
<1> QED
  BY <1>1, <1>2, <1>3, <1>4, <1>5, <1>6, <1>7, <1>8, <1>9, <1>10, <1>11, <1>12, <1>13,
     <1>14, <1>15, <1>16, <1>17, <1>18, <1>19, <1>20, <1>21, <1>22, <1>23, <1>24, <1>25, <1>26,
     <1>27, <1>28, <1>29 DEF Next, Caller, Call, Handshake

(* The flags.                                                              *)
LEMMA BoolsKept ==
    ASSUME SessionAssumption, TInv, Next
    PROVE  BoolsTyped'
<1>1. CASE Open
  BY <1>1, Zenon DEF Open, Closed, Reset, TInv, BoolsTyped, handles, shake, net, hist
<1>2. CASE Close
  BY <1>2, Zenon DEF Close, Closed, TInv, BoolsTyped, handles, shake, net, hist
<1>3. CASE Request
  BY <1>3, Zenon DEF Request, SendsRequest, Record, TInv, BoolsTyped, handles, shake, net, hist
<1>4. ASSUME NEW received \in BOOLEAN, SendFails(received) PROVE BoolsTyped'
  BY <1>4, Zenon DEF SendFails, SendsRequest, Record, Failed, TInv, BoolsTyped, handles, shake,
     net, hist
<1>5. CASE ExecuteCursor
  BY <1>5, Zenon DEF ExecuteCursor, SendsRequest, Record, NoCursor, TInv, BoolsTyped, handles,
     shake, net, hist
<1>6. CASE CallNext
  BY <1>6, Zenon DEF CallNext, TInv, BoolsTyped, handles, shake, net, hist
<1>7. CASE DestroyCursor
  BY <1>7, Zenon DEF DestroyCursor, NoCursor, TInv, BoolsTyped, handles, shake, net, hist
<1>8. CASE AbandonCursor
  BY <1>8, Zenon DEF AbandonCursor, NoCursor, TInv, BoolsTyped, handles, shake, net, hist
<1>9. CASE ConnectFails
  BY <1>9, Zenon DEF ConnectFails, OpenFailed, TInv, BoolsTyped, handles, shake, net, hist
<1>10. CASE Connects
  BY <1>10, Zenon DEF Connects, TInv, BoolsTyped, handles, shake, net, hist
<1>11. CASE StepCompletes
  BY <1>11, Zenon DEF StepCompletes, TInv, BoolsTyped, handles, shake, net, hist
<1>12. CASE StepFails
  BY <1>12, Zenon DEF StepFails, OpenFailed, TInv, BoolsTyped, handles, shake, net, hist
<1>13. CASE AuthReply
  BY <1>13, Zenon DEF AuthReply, OpenFailed, TInv, BoolsTyped, handles, shake, net, hist
<1>14. CASE AuthReplyFails
  BY <1>14, Zenon DEF AuthReplyFails, OpenFailed, TInv, BoolsTyped, handles, shake, net, hist
<1>15. CASE MakesSealProvider
  BY <1>15, Zenon DEF MakesSealProvider, TInv, BoolsTyped, handles, shake, net, hist
<1>16. CASE CannotSeal
  BY <1>16, Zenon DEF CannotSeal, OpenFailed, TInv, BoolsTyped, handles, shake, net, hist
<1>17. ASSUME NEW done \in BOOLEAN, StepEmits(done) PROVE BoolsTyped'
  BY <1>17, Zenon DEF StepEmits, Record, TInv, BoolsTyped, handles, shake, net, hist
<1>18. CASE Reply
  BY <1>18, Zenon DEF Reply, CaptureSessionId, TInv, BoolsTyped, handles, shake, net, hist
<1>19. CASE ReplyNoMB
  BY <1>19, Zenon DEF ReplyNoMB, Failed, TInv, BoolsTyped, handles, shake, net, hist
<1>20. CASE ReplyFails
  BY <1>20, Zenon DEF ReplyFails, Failed, TInv, BoolsTyped, handles, shake, net, hist
<1>21. CASE NextRow
  BY <1>21, Zenon DEF NextRow, Ended, TInv, BoolsTyped, handles, shake, net, hist
<1>22. CASE NextDrained
  BY <1>22, Zenon DEF NextDrained, Ended, TInv, BoolsTyped, handles, shake, net, hist
<1>23. CASE NextPumps
  BY <1>23, Zenon DEF NextPumps, TInv, BoolsTyped, handles, shake, net, hist
<1>24. CASE NextClosed
  BY <1>24, Zenon DEF NextClosed, Failed, TInv, BoolsTyped, handles, shake, net, hist
<1>25. CASE Pump
  BY <1>25, Zenon DEF Pump, Reads, Fed, CaptureSessionId, Ended, TInv, BoolsTyped, handles,
     shake, net, hist
<1>26. CASE PumpFails
  BY <1>26, Zenon DEF PumpFails, Failed, TInv, BoolsTyped, handles, shake, net, hist
<1>27. CASE Server
  BY <1>27, Zenon DEF Server, ServerAnswers, TInv, BoolsTyped, handles, shake, net, hist
<1>28. CASE ReplyRefused
  BY <1>28, Zenon DEF ReplyRefused, Failed, TInv, BoolsTyped, handles, shake, net, hist
<1>29. CASE RecordRefused
  BY <1>29, Zenon DEF RecordRefused, Reads, Fed, Failed, TInv, BoolsTyped, handles, shake,
     net, hist
<1> QED
  BY <1>1, <1>2, <1>3, <1>4, <1>5, <1>6, <1>7, <1>8, <1>9, <1>10, <1>11, <1>12, <1>13,
     <1>14, <1>15, <1>16, <1>17, <1>18, <1>19, <1>20, <1>21, <1>22, <1>23, <1>24, <1>25, <1>26,
     <1>27, <1>28, <1>29 DEF Next, Caller, Call, Handshake

(* A cursor that has been fed a record.                                    *)
LEMMA FedTyped ==
    ASSUME TInv, inbox # <<>>, NEW parts \in Unsealed
    PROVE  /\ Fed(parts, Head(inbox)) \in Cursors
           /\ Fed(parts, Head(inbox)).req = cur.req
           /\ Fed(parts, Head(inbox)).from = Head(inbox).req
           /\ Fed(parts, Head(inbox)).head = FedHead(parts)
           /\ parts \in SUBSET Parts /\ Head(inbox) \in Sent(reqs)
<1>1. Head(inbox) \in Sent(reqs)
  BY DEF TInv, NetTyped
<1>2. parts \in SUBSET Parts
  BY <1>1 DEF Unsealed, Sent, Parts
<1>3. cur \in Cursors
  BY DEF TInv, CursorTyped
<1>4. FedHead(parts) \in SUBSET Parts
  BY <1>2, <1>3 DEF FedHead, Cursors
<1>5. cur.rows + (IF "row" \in parts THEN 1 ELSE 0) \in Nat
  BY <1>3 DEF Cursors
<1> QED
  BY <1>1, <1>2, <1>3, <1>4, <1>5 DEF Fed, Cursors, Sent

(* A cursor that has refused a record.                                     *)
LEMMA CursorRefused ==
    ASSUME TInv, RecordRefused
    PROVE  /\ cur'.req = cur.req /\ cur'.conn = cur.conn /\ cur'.complete = cur.complete
           /\ cur'.broken = TRUE /\ cur'.refused = TRUE
           /\ cur'.head = cur.head \/ \E parts \in Unsealed : cur'.head = FedHead(parts)
<1>1. cur \in Cursors
  BY DEF TInv, CursorTyped
<1>2. CASE cur' = [cur EXCEPT !.broken = TRUE, !.refused = TRUE]
  BY <1>1, <1>2 DEF Cursors
<1>3. ASSUME NEW parts \in Unsealed,
             cur' = [Fed(parts, Head(inbox)) EXCEPT !.broken = TRUE, !.refused = TRUE]
      PROVE  /\ cur'.req = cur.req /\ cur'.conn = cur.conn /\ cur'.complete = cur.complete
             /\ cur'.broken = TRUE /\ cur'.refused = TRUE /\ cur'.head = FedHead(parts)
  BY <1>1, <1>3 DEF Fed, Cursors
<1> QED
  BY <1>2, <1>3 DEF RecordRefused

(* The cursor.                                                             *)
LEMMA CursorKept ==
    ASSUME SessionAssumption, TInv, Next
    PROVE  CursorTyped'
<1>1. CASE Open
  BY <1>1 DEF Open, Closed, Reset, TInv, CInv, Control, Connections, CursorTyped, Cursors,
     NetTyped, Sent, handles, shake, net, hist
<1>2. CASE Close
  BY <1>2 DEF Close, Closed, TInv, CInv, Control, Connections, CursorTyped, Cursors, NetTyped,
     Sent, handles, shake, net, hist
<1>3. CASE Request
  BY <1>3 DEF Request, SendsRequest, Record, TInv, CInv, Control, Connections, CursorTyped,
     Cursors, NetTyped, Sent, handles, shake, net, hist
<1>4. ASSUME NEW received \in BOOLEAN, SendFails(received) PROVE CursorTyped'
  BY <1>4 DEF SendFails, SendsRequest, Record, Failed, TInv, CInv, Control, Connections,
     CursorTyped, Cursors, NetTyped, Sent, handles, shake, net, hist
<1>5. CASE ExecuteCursor
  <2>1. cur' = [req |-> reqs + 1, conn |-> conn, head |-> {}, rows |-> 0, from |-> 0,
                whole |-> {}, complete |-> FALSE, drained |-> FALSE, broken |-> FALSE,
                refused |-> FALSE]
    BY <1>5 DEF ExecuteCursor, NoCursor
  <2>2. conn \in Nat /\ reqs \in Nat /\ reqs' = reqs + 1 /\ conn' = conn
    BY <1>5 DEF ExecuteCursor, SendsRequest, TInv, CInv, Connections
  <2> QED
    BY <2>1, <2>2 DEF CursorTyped, Cursors
<1>6. CASE CallNext
  BY <1>6 DEF CallNext, TInv, CInv, Control, Connections, CursorTyped, Cursors, NetTyped, Sent,
     handles, shake, net, hist
<1>7. CASE DestroyCursor
  BY <1>7 DEF DestroyCursor, NoCursor, TInv, CInv, Control, Connections, CursorTyped, Cursors,
     NetTyped, Sent, handles, shake, net, hist
<1>8. CASE AbandonCursor
  BY <1>8 DEF AbandonCursor, NoCursor, TInv, CInv, Control, Connections, CursorTyped, Cursors,
     NetTyped, Sent, handles, shake, net, hist
<1>9. CASE ConnectFails
  BY <1>9 DEF ConnectFails, OpenFailed, TInv, CInv, Control, Connections, CursorTyped, Cursors,
     NetTyped, Sent, handles, shake, net, hist
<1>10. CASE Connects
  BY <1>10 DEF Connects, TInv, CInv, Control, Connections, CursorTyped, Cursors, NetTyped, Sent,
     handles, shake, net, hist
<1>11. CASE StepCompletes
  BY <1>11 DEF StepCompletes, TInv, CInv, Control, Connections, CursorTyped, Cursors, NetTyped,
     Sent, handles, shake, net, hist
<1>12. CASE StepFails
  BY <1>12 DEF StepFails, OpenFailed, TInv, CInv, Control, Connections, CursorTyped, Cursors,
     NetTyped, Sent, handles, shake, net, hist
<1>13. CASE AuthReply
  BY <1>13 DEF AuthReply, OpenFailed, TInv, CInv, Control, Connections, CursorTyped, Cursors,
     NetTyped, Sent, handles, shake, net, hist
<1>14. CASE AuthReplyFails
  BY <1>14 DEF AuthReplyFails, OpenFailed, TInv, CInv, Control, Connections, CursorTyped,
     Cursors, NetTyped, Sent, handles, shake, net, hist
<1>15. CASE MakesSealProvider
  BY <1>15 DEF MakesSealProvider, TInv, CInv, Control, Connections, CursorTyped, Cursors,
     NetTyped, Sent, handles, shake, net, hist
<1>16. CASE CannotSeal
  BY <1>16 DEF CannotSeal, OpenFailed, TInv, CInv, Control, Connections, CursorTyped, Cursors,
     NetTyped, Sent, handles, shake, net, hist
<1>17. ASSUME NEW done \in BOOLEAN, StepEmits(done) PROVE CursorTyped'
  BY <1>17 DEF StepEmits, Record, TInv, CInv, Control, Connections, CursorTyped, Cursors,
     NetTyped, Sent, handles, shake, net, hist
<1>18. CASE Reply
  BY <1>18 DEF Reply, CaptureSessionId, TInv, CInv, Control, Connections, CursorTyped, Cursors,
     NetTyped, Sent, handles, shake, net, hist
<1>19. CASE ReplyNoMB
  BY <1>19 DEF ReplyNoMB, Failed, TInv, CInv, Control, Connections, CursorTyped, Cursors,
     NetTyped, Sent, handles, shake, net, hist
<1>20. CASE ReplyFails
  BY <1>20 DEF ReplyFails, Failed, TInv, CInv, Control, Connections, CursorTyped, Cursors,
     NetTyped, Sent, handles, shake, net, hist
<1>21. CASE NextRow
  <2>1. cur \in Cursors /\ cur.rows - 1 \in Nat
    BY <1>21 DEF NextRow, TInv, CursorTyped, Cursors
  <2>2. UNCHANGED <<conn, reqs>> /\ cur' = [cur EXCEPT !.rows = cur.rows - 1]
    BY <1>21 DEF NextRow
  <2> QED
    BY <2>1, <2>2 DEF CursorTyped, Cursors
<1>22. CASE NextDrained
  BY <1>22 DEF NextDrained, Ended, TInv, CInv, Control, Connections, CursorTyped, Cursors,
     NetTyped, Sent, handles, shake, net, hist
<1>23. CASE NextPumps
  BY <1>23 DEF NextPumps, TInv, CInv, Control, Connections, CursorTyped, Cursors, NetTyped,
     Sent, handles, shake, net, hist
<1>24. CASE NextClosed
  BY <1>24 DEF NextClosed, Failed, TInv, CInv, Control, Connections, CursorTyped, Cursors,
     NetTyped, Sent, handles, shake, net, hist
<1>25. CASE Pump
  <2>1. inbox # <<>> /\ UNCHANGED <<conn, reqs>>
    BY <1>25 DEF Pump
  <2>2. PICK parts \in Unsealed :
          \E v \in BOOLEAN : cur' = [Fed(parts, Head(inbox)) EXCEPT !.complete = Head(inbox).me,
                                                                    !.broken = v]
    <3>1. PICK parts \in Unsealed :
            cur' = [Fed(parts, Head(inbox)) EXCEPT
                      !.complete = Head(inbox).me,
                      !.broken = Fed(parts, Head(inbox)).broken
                                   \/ HeadCategory(FedHead(parts), Head(inbox).me) # "ok"]
      BY <1>25 DEF Pump
    <3>2. (Fed(parts, Head(inbox)).broken
             \/ HeadCategory(FedHead(parts), Head(inbox).me) # "ok") \in BOOLEAN
      BY Zenon
    <3> QED
      BY <3>1, <3>2
  <2>3. Fed(parts, Head(inbox)) \in Cursors /\ Head(inbox) \in Sent(reqs)
    BY <2>1, FedTyped
  <2> QED
    BY <2>1, <2>2, <2>3 DEF CursorTyped, Cursors, Sent
<1>26. CASE PumpFails
  BY <1>26 DEF PumpFails, Failed, TInv, CInv, Control, Connections, CursorTyped, Cursors,
     NetTyped, Sent, handles, shake, net, hist
<1>27. CASE Server
  BY <1>27 DEF Server, ServerAnswers, TInv, CInv, Control, Connections, CursorTyped, Cursors,
     NetTyped, Sent, handles, shake, net, hist
<1>28. CASE ReplyRefused
  BY <1>28 DEF ReplyRefused, Failed, TInv, CInv, Control, Connections, CursorTyped, Cursors,
     NetTyped, Sent, handles, shake, net, hist
<1>29. CASE RecordRefused
  <2>1. inbox # <<>> /\ UNCHANGED <<conn, reqs>>
    BY <1>29 DEF RecordRefused
  <2>2. PICK c \in Cursors : cur' = [c EXCEPT !.broken = TRUE, !.refused = TRUE]
    <3>1. cur \in Cursors
      BY DEF TInv, CursorTyped
    <3>2. \A parts \in Unsealed : Fed(parts, Head(inbox)) \in Cursors
      BY <2>1, FedTyped
    <3> QED
      BY <1>29, <3>1, <3>2 DEF RecordRefused
  <2> QED
    BY <2>1, <2>2 DEF CursorTyped, Cursors
<1> QED
  BY <1>1, <1>2, <1>3, <1>4, <1>5, <1>6, <1>7, <1>8, <1>9, <1>10, <1>11, <1>12, <1>13,
     <1>14, <1>15, <1>16, <1>17, <1>18, <1>19, <1>20, <1>21, <1>22, <1>23, <1>24, <1>25, <1>26,
     <1>27, <1>28, <1>29 DEF Next, Caller, Call, Handshake

(* The traffic.                                                            *)
LEMMA NetKept ==
    ASSUME SessionAssumption, TInv, Next
    PROVE  NetTyped'
<1>1. CASE Open
  BY <1>1 DEF Open, Closed, Reset, TInv, CInv, Connections, NetTyped, Sent, handles, shake, net,
     hist
<1>2. CASE Close
  BY <1>2 DEF Close, Closed, TInv, CInv, Connections, NetTyped, Sent, handles, shake, net, hist
<1>3. CASE Request
  <2>1. reqs \in Nat /\ pending \in Seq(0 .. reqs) /\ inbox \in Seq(Sent(reqs))
    BY DEF TInv, CInv, Connections, NetTyped
  <2>2. reqs' = reqs + 1 /\ inbox' = inbox /\ pending' = Append(pending, reqs + 1)
    BY <1>3 DEF Request, SendsRequest
  <2> QED
    BY <2>1, <2>2, OneMore DEF NetTyped
<1>4. ASSUME NEW received \in BOOLEAN, SendFails(received) PROVE NetTyped'
  <2>1. reqs \in Nat /\ pending \in Seq(0 .. reqs) /\ inbox \in Seq(Sent(reqs))
    BY DEF TInv, CInv, Connections, NetTyped
  <2>2. reqs' = reqs + 1 /\ inbox' = inbox /\ (pending' = Append(pending, reqs + 1) \/ pending' = pending)
    BY <1>4 DEF SendFails, SendsRequest
  <2> QED
    BY <2>1, <2>2, OneMore DEF NetTyped
<1>5. CASE ExecuteCursor
  <2>1. reqs \in Nat /\ pending \in Seq(0 .. reqs) /\ inbox \in Seq(Sent(reqs))
    BY DEF TInv, CInv, Connections, NetTyped
  <2>2. reqs' = reqs + 1 /\ inbox' = inbox /\ pending' = Append(pending, reqs + 1)
    BY <1>5 DEF ExecuteCursor, SendsRequest
  <2> QED
    BY <2>1, <2>2, OneMore DEF NetTyped
<1>6. CASE CallNext
  BY <1>6 DEF CallNext, TInv, CInv, Connections, NetTyped, Sent, handles, shake, net, hist
<1>7. CASE DestroyCursor
  BY <1>7 DEF DestroyCursor, NoCursor, TInv, CInv, Connections, NetTyped, Sent, handles, shake,
     net, hist
<1>8. CASE AbandonCursor
  BY <1>8 DEF AbandonCursor, NoCursor, TInv, CInv, Connections, NetTyped, Sent, handles, shake,
     net, hist
<1>9. CASE ConnectFails
  BY <1>9 DEF ConnectFails, OpenFailed, TInv, CInv, Connections, NetTyped, Sent, handles, shake,
     net, hist
<1>10. CASE Connects
  BY <1>10 DEF Connects, TInv, CInv, Connections, NetTyped, Sent, handles, shake, net, hist
<1>11. CASE StepCompletes
  BY <1>11 DEF StepCompletes, TInv, CInv, Connections, NetTyped, Sent, handles, shake, net, hist
<1>12. CASE StepFails
  BY <1>12 DEF StepFails, OpenFailed, TInv, CInv, Connections, NetTyped, Sent, handles, shake,
     net, hist
<1>13. CASE AuthReply
  <2>1. inbox # <<>> /\ inbox' = Tail(inbox) /\ UNCHANGED <<pending, reqs>>
    BY <1>13 DEF AuthReply, OpenFailed
  <2> QED
    BY <2>1, HeadTailProperties DEF TInv, NetTyped
<1>14. CASE AuthReplyFails
  BY <1>14 DEF AuthReplyFails, OpenFailed, TInv, CInv, Connections, NetTyped, Sent, handles,
     shake, net, hist
<1>15. CASE MakesSealProvider
  BY <1>15 DEF MakesSealProvider, TInv, CInv, Connections, NetTyped, Sent, handles, shake, net, hist
<1>16. CASE CannotSeal
  BY <1>16 DEF CannotSeal, OpenFailed, TInv, CInv, Connections, NetTyped, Sent, handles, shake,
     net, hist
<1>17. ASSUME NEW done \in BOOLEAN, StepEmits(done) PROVE NetTyped'
  BY <1>17 DEF StepEmits, Record, TInv, CInv, Connections, NetTyped, Sent, handles, shake, net, hist
<1>18. CASE Reply
  <2>1. PICK n \in 1 .. Len(inbox) : inbox' = SubSeq(inbox, n + 1, Len(inbox))
    BY <1>18 DEF Reply, TakeMessage
  <2>2. UNCHANGED <<pending, reqs>> /\ inbox \in Seq(Sent(reqs)) /\ pending \in Seq(0 .. reqs)
    BY <1>18 DEF Reply, TInv, NetTyped
  <2>3. SubSeq(inbox, n + 1, Len(inbox)) \in Seq(Sent(reqs))
    BY <2>1, <2>2, SubSeqProperties
  <2> QED
    BY <2>1, <2>2, <2>3 DEF NetTyped
<1>19. CASE ReplyNoMB
  BY <1>19 DEF ReplyNoMB, Failed, TInv, CInv, Connections, NetTyped, Sent, handles, shake, net, hist
<1>20. CASE ReplyFails
  BY <1>20 DEF ReplyFails, Failed, TInv, CInv, Connections, NetTyped, Sent, handles, shake, net,
     hist
<1>21. CASE NextRow
  BY <1>21 DEF NextRow, Ended, TInv, CInv, Connections, NetTyped, Sent, handles, shake, net, hist
<1>22. CASE NextDrained
  BY <1>22 DEF NextDrained, Ended, TInv, CInv, Connections, NetTyped, Sent, handles, shake, net,
     hist
<1>23. CASE NextPumps
  BY <1>23 DEF NextPumps, TInv, CInv, Connections, NetTyped, Sent, handles, shake, net, hist
<1>24. CASE NextClosed
  BY <1>24 DEF NextClosed, Failed, TInv, CInv, Connections, NetTyped, Sent, handles, shake, net,
     hist
<1>25. CASE Pump
  BY <1>25 DEF Pump, Reads, Fed, CaptureSessionId, Ended, TInv, CInv, Connections, NetTyped,
     Sent, handles, shake, net, hist
<1>26. CASE PumpFails
  BY <1>26 DEF PumpFails, Failed, TInv, CInv, Connections, NetTyped, Sent, handles, shake, net, hist
<1>27. CASE Server
  <2>1. PICK a \in Answers \cup AuthAnswers : ServerAnswers(a)
    BY <1>27 DEF Server
  <2>2. pending # <<>> /\ inbox' = inbox \o Message(Head(pending), a) /\ pending' = Tail(pending)
        /\ reqs' = reqs
    BY <2>1 DEF ServerAnswers
  <2>3. reqs \in Nat /\ pending \in Seq(0 .. reqs) /\ inbox \in Seq(Sent(reqs))
    BY DEF TInv, CInv, Connections, NetTyped
  <2>4. a \in Seq(SUBSET Parts)
    BY AnswersTyped
  <2>5. Head(pending) \in 0 .. reqs /\ Tail(pending) \in Seq(0 .. reqs)
    BY <2>2, <2>3, HeadTailProperties
  <2>6. Message(Head(pending), a) \in Seq(Sent(reqs))
    BY <2>3, <2>4, <2>5, MessageTyped
  <2> QED
    BY <2>2, <2>3, <2>5, <2>6, ConcatProperties DEF NetTyped
<1>28. CASE ReplyRefused
  <2>1. PICK n \in 1 .. Len(inbox) : inbox' = SubSeq(inbox, n + 1, Len(inbox))
    BY <1>28 DEF ReplyRefused, TakeMessage
  <2>2. UNCHANGED <<pending, reqs>> /\ inbox \in Seq(Sent(reqs)) /\ pending \in Seq(0 .. reqs)
    BY <1>28 DEF ReplyRefused, TInv, NetTyped
  <2>3. SubSeq(inbox, n + 1, Len(inbox)) \in Seq(Sent(reqs))
    BY <2>1, <2>2, SubSeqProperties
  <2> QED
    BY <2>1, <2>2, <2>3 DEF NetTyped
<1>29. CASE RecordRefused
  <2>1. inbox # <<>> /\ inbox' = Tail(inbox) /\ UNCHANGED <<pending, reqs>>
    BY <1>29 DEF RecordRefused, Reads
  <2>2. inbox \in Seq(Sent(reqs)) /\ pending \in Seq(0 .. reqs)
    BY DEF TInv, NetTyped
  <2>3. Tail(inbox) \in Seq(Sent(reqs))
    BY <2>1, <2>2, HeadTailProperties
  <2> QED
    BY <2>1, <2>2, <2>3 DEF NetTyped
<1> QED
  BY <1>1, <1>2, <1>3, <1>4, <1>5, <1>6, <1>7, <1>8, <1>9, <1>10, <1>11, <1>12, <1>13,
     <1>14, <1>15, <1>16, <1>17, <1>18, <1>19, <1>20, <1>21, <1>22, <1>23, <1>24, <1>25, <1>26,
     <1>27, <1>28, <1>29 DEF Next, Caller, Call, Handshake

-----------------------------------------------------------------------------
(* The handshake.                                                          *)

(* One more request after nothing but requests.                            *)
LEMMA OnlyRequests ==
    ASSUME NEW q \in Seq(Nat), NEW n \in Nat, \A k \in 1 .. Len(q) : q[k] # 0
    PROVE  \A k \in 1 .. Len(Append(q, n + 1)) : Append(q, n + 1)[k] # 0
BY AppendProperties

(* One request less.                                                       *)
LEMMA FewerRequests ==
    ASSUME NEW q \in Seq(Nat), q # <<>>, \A k \in 1 .. Len(q) : q[k] # 0
    PROVE  Head(q) # 0 /\ \A k \in 1 .. Len(Tail(q)) : Tail(q)[k] # 0
<1>1. 1 \in 1 .. Len(q) /\ Head(q) = q[1]
  OBVIOUS
<1> QED
  BY <1>1, HeadTailProperties

(* A handshake waits for one answer at a time.                             *)
LEMMA TokensKept ==
    ASSUME SessionAssumption, SInv, Next
    PROVE  Tokens'
<1>1. CASE Open
  BY <1>1 DEF Open, Closed, Reset, SInv, TInv, CInv, Control, NetTyped, Tokens, handles, shake,
     net, hist
<1>2. CASE Close
  BY <1>2 DEF Close, Closed, SInv, TInv, CInv, Control, NetTyped, Tokens, handles, shake, net, hist
<1>3. CASE Request
  <2>1. reqs \in Nat /\ pending \in Seq(Nat)
    BY SeqMonotonic DEF SInv, TInv, CInv, Connections, NetTyped
  <2>2. state = "AUTHENTICATED" /\ pc' = "reply" /\ UNCHANGED <<state, auth_refused, inbox>> /\ pending' = Append(pending, reqs + 1)
    BY <1>3 DEF Request, SendsRequest, handles
  <2>3. pc = "idle" /\ auth_refused = FALSE /\ \A k \in 1 .. Len(pending) : pending[k] # 0
    BY <2>2, <1>3 DEF Request, SendsRequest, SInv, Tokens
  <2>4. \A k \in 1 .. Len(pending') : pending'[k] # 0
    BY <2>1, <2>2, <2>3, OnlyRequests
  <2> QED
    BY <2>2, <2>3, <2>4 DEF Tokens
<1>4. ASSUME NEW received \in BOOLEAN, SendFails(received) PROVE Tokens'
  <2>1. reqs \in Nat /\ pending \in Seq(Nat)
    BY SeqMonotonic DEF SInv, TInv, CInv, Connections, NetTyped
  <2>2. state = "AUTHENTICATED" /\ UNCHANGED <<state, pc, auth_refused, inbox>>
        /\ (pending' = Append(pending, reqs + 1) \/ pending' = pending)
    BY <1>4 DEF SendFails, SendsRequest, handles
  <2>3. pc = "idle" /\ auth_refused = FALSE /\ \A k \in 1 .. Len(pending) : pending[k] # 0
    BY <2>2, <1>4 DEF SendFails, SendsRequest, SInv, Tokens
  <2>4. \A k \in 1 .. Len(pending') : pending'[k] # 0
    BY <2>1, <2>2, <2>3, OnlyRequests
  <2> QED
    BY <2>2, <2>3, <2>4 DEF Tokens
<1>5. CASE ExecuteCursor
  <2>1. reqs \in Nat /\ pending \in Seq(Nat)
    BY SeqMonotonic DEF SInv, TInv, CInv, Connections, NetTyped
  <2>2. state = "AUTHENTICATED" /\ UNCHANGED <<state, pc, auth_refused, inbox>> /\ pending' = Append(pending, reqs + 1)
    BY <1>5 DEF ExecuteCursor, SendsRequest, handles
  <2>3. pc = "idle" /\ auth_refused = FALSE /\ \A k \in 1 .. Len(pending) : pending[k] # 0
    BY <2>2, <1>5 DEF ExecuteCursor, SendsRequest, SInv, Tokens
  <2>4. \A k \in 1 .. Len(pending') : pending'[k] # 0
    BY <2>1, <2>2, <2>3, OnlyRequests
  <2> QED
    BY <2>2, <2>3, <2>4 DEF Tokens
<1>6. CASE CallNext
  BY <1>6 DEF CallNext, SInv, TInv, CInv, Control, NetTyped, Tokens, handles, shake, net, hist
<1>7. CASE DestroyCursor
  BY <1>7 DEF DestroyCursor, NoCursor, SInv, TInv, CInv, Control, NetTyped, Tokens, handles,
     shake, net, hist
<1>8. CASE AbandonCursor
  BY <1>8 DEF AbandonCursor, NoCursor, SInv, TInv, CInv, Control, NetTyped, Tokens, handles,
     shake, net, hist
<1>9. CASE ConnectFails
  BY <1>9 DEF ConnectFails, OpenFailed, SInv, TInv, CInv, Control, NetTyped, Tokens, handles,
     shake, net, hist
<1>10. CASE Connects
  BY <1>10 DEF Connects, SInv, TInv, CInv, Control, NetTyped, Tokens, handles, shake, net, hist
<1>11. CASE StepCompletes
  BY <1>11 DEF StepCompletes, SInv, TInv, CInv, Control, NetTyped, Tokens, handles, shake, net, hist
<1>12. CASE StepFails
  BY <1>12 DEF StepFails, OpenFailed, SInv, TInv, CInv, Control, NetTyped, Tokens, handles,
     shake, net, hist
<1>13. CASE AuthReply
  <2>1. /\ pc = "auth" /\ inbox # <<>> /\ inbox' = Tail(inbox) /\ UNCHANGED <<pending, auth_refused>>
        /\ \/ pc' = "idle" /\ state' = "FAILED"
           \/ pc' \in {"seal", "step"} /\ state' = state /\ "code" \notin Head(inbox).parts
    BY <1>13 DEF AuthReply, OpenFailed, handles
  <2>2. pending = <<>> /\ Len(inbox) = 1 /\ (auth_refused = TRUE => "code" \in inbox[1].parts)
    BY <2>1 DEF SInv, Tokens
  <2>3. inbox \in Seq(Sent(reqs)) /\ auth_refused \in BOOLEAN /\ state = "NEGOTIATED"
    BY <2>1 DEF SInv, TInv, CInv, Control, NetTyped, BoolsTyped
  <2>4. Tail(inbox) = <<>> /\ Head(inbox) = inbox[1]
    BY <2>1, <2>2, <2>3, HeadTailProperties, EmptySeq
  <2>5. CASE pc' = "idle" /\ state' = "FAILED"
    BY <2>5 DEF Tokens
  <2>6. CASE pc' \in {"seal", "step"} /\ state' = state /\ "code" \notin Head(inbox).parts
    <3>1. auth_refused = FALSE
      BY <2>2, <2>3, <2>4, <2>6
    <3> QED
      BY <2>1, <2>2, <2>3, <2>4, <2>6, <3>1 DEF Tokens
  <2> QED
    BY <2>1, <2>5, <2>6
<1>14. CASE AuthReplyFails
  BY <1>14 DEF AuthReplyFails, OpenFailed, SInv, TInv, CInv, Control, NetTyped, Tokens, handles,
     shake, net, hist
<1>15. CASE MakesSealProvider
  <2>1. pc' = "idle" /\ UNCHANGED <<pending, inbox, auth_refused>>
    BY <1>15 DEF MakesSealProvider, net, hist
  <2>2. pending = <<>> /\ auth_refused = FALSE
    BY <1>15 DEF MakesSealProvider, SInv, Tokens
  <2> QED
    BY <2>1, <2>2 DEF Tokens
<1>16. CASE CannotSeal
  BY <1>16 DEF CannotSeal, OpenFailed, SInv, TInv, CInv, Control, NetTyped, Tokens, handles,
     shake, net, hist
<1>17. ASSUME NEW done \in BOOLEAN, StepEmits(done) PROVE Tokens'
  <2>1. pending = <<>> /\ inbox = <<>> /\ auth_refused = FALSE
    BY <1>17 DEF StepEmits, SInv, Tokens
  <2>2. state = "NEGOTIATED" /\ UNCHANGED <<state, inbox, auth_refused>> /\ pc' = "auth"
        /\ pending' = Append(<<>>, 0)
    BY <2>1, <1>17 DEF StepEmits, SInv, TInv, CInv, Control
  <2> QED
    BY <2>1, <2>2 DEF Tokens
<1>18. CASE Reply
  BY <1>18 DEF Reply, CaptureSessionId, SInv, TInv, CInv, Control, NetTyped, Tokens, handles,
     shake, net, hist
<1>19. CASE ReplyNoMB
  BY <1>19 DEF ReplyNoMB, Failed, SInv, TInv, CInv, Control, NetTyped, Tokens, handles, shake,
     net, hist
<1>20. CASE ReplyFails
  BY <1>20 DEF ReplyFails, Failed, SInv, TInv, CInv, Control, NetTyped, Tokens, handles, shake,
     net, hist
<1>21. CASE NextRow
  BY <1>21 DEF NextRow, Ended, SInv, TInv, CInv, Control, NetTyped, Tokens, handles, shake, net,
     hist
<1>22. CASE NextDrained
  BY <1>22 DEF NextDrained, Ended, SInv, TInv, CInv, Control, NetTyped, Tokens, handles, shake,
     net, hist
<1>23. CASE NextPumps
  BY <1>23 DEF NextPumps, SInv, TInv, CInv, Control, NetTyped, Tokens, handles, shake, net, hist
<1>24. CASE NextClosed
  BY <1>24 DEF NextClosed, Failed, SInv, TInv, CInv, Control, NetTyped, Tokens, handles, shake,
     net, hist
<1>25. CASE Pump
  BY <1>25 DEF Pump, Reads, Fed, CaptureSessionId, Ended, SInv, TInv, CInv, Control,
     NetTyped, Tokens, handles, shake, net, hist
<1>26. CASE PumpFails
  BY <1>26 DEF PumpFails, Failed, SInv, TInv, CInv, Control, NetTyped, Tokens, handles, shake,
     net, hist
<1>27. CASE Server
  <2>1. PICK a \in Answers \cup AuthAnswers : ServerAnswers(a)
    BY <1>27 DEF Server
  <2>2. pending # <<>> /\ inbox' = inbox \o Message(Head(pending), a) /\ pending' = Tail(pending)
        /\ auth_refused' = (auth_refused \/ (Head(pending) = 0 /\ "code" \in a[1]))
        /\ UNCHANGED <<pc, state>> /\ (Head(pending) = 0 => a \in AuthAnswers)
    BY <2>1 DEF ServerAnswers, handles
  <2>3. reqs \in Nat /\ pending \in Seq(0 .. reqs) /\ pending \in Seq(Nat) /\ inbox \in Seq(Sent(reqs))
    BY SeqMonotonic DEF SInv, TInv, CInv, Connections, NetTyped
  <2>4. pc \notin {"connect", "step", "seal"}
    BY <2>2 DEF SInv, Tokens
  <2>5. CASE pc = "auth"
    <3>1. pending = <<0>> /\ inbox = <<>> /\ state = "NEGOTIATED"
      BY <2>2, <2>5 DEF SInv, TInv, CInv, Control, Tokens
    <3>2. Head(pending) = 0 /\ Tail(pending) = <<>>
      BY <3>1
    <3>3. a \in Seq(SUBSET Parts) /\ Len(a) = 1
      BY <2>2, <3>2, AnswersTyped
    <3>4. Message(0, a) \in Seq(Sent(reqs)) /\ Len(Message(0, a)) = 1
      BY <2>3, <3>3, MessageTyped
    <3>5. Message(0, a)[1].parts = a[1]
      BY <3>3 DEF Message
    <3>6. inbox' = Message(0, a)
      BY <2>2, <3>1, <3>2, <3>4, ConcatEmptySeq
    <3>7. auth_refused' = TRUE => "code" \in a[1]
      BY <2>2, <3>1, <2>5 DEF SInv, Tokens
    <3> QED
      BY <2>2, <2>5, <3>1, <3>2, <3>4, <3>5, <3>6, <3>7 DEF Tokens
  <2>6. CASE state = "AUTHENTICATED"
    <3>1. Head(pending) # 0 /\ \A k \in 1 .. Len(Tail(pending)) : Tail(pending)[k] # 0
      BY <2>2, <2>3, <2>6, FewerRequests DEF SInv, Tokens
    <3>2. auth_refused' = FALSE
      BY <2>2, <2>6, <3>1 DEF SInv, Tokens
    <3>3. pc # "auth"
      BY <2>6 DEF SInv, TInv, CInv, Control
    <3> QED
      BY <2>2, <2>4, <3>1, <3>2, <3>3 DEF Tokens
  <2>7. CASE pc # "auth" /\ state # "AUTHENTICATED"
    BY <2>2, <2>4, <2>7 DEF Tokens
  <2> QED
    BY <2>5, <2>6, <2>7
<1>28. CASE ReplyRefused
  BY <1>28 DEF ReplyRefused, Failed, SInv, TInv, CInv, Control, NetTyped, Tokens, handles,
     shake, net, hist
<1>29. CASE RecordRefused
  BY <1>29 DEF RecordRefused, Reads, Fed, Failed, SInv, TInv, CInv, Control, NetTyped,
     Tokens, handles, shake, net, hist
<1> QED
  BY <1>1, <1>2, <1>3, <1>4, <1>5, <1>6, <1>7, <1>8, <1>9, <1>10, <1>11, <1>12, <1>13,
     <1>14, <1>15, <1>16, <1>17, <1>18, <1>19, <1>20, <1>21, <1>22, <1>23, <1>24, <1>25, <1>26,
     <1>27, <1>28, <1>29 DEF Next, Caller, Call, Handshake

-----------------------------------------------------------------------------
(* One request at a time.                                                  *)

(* What a caller without a licence may do.                                 *)
LEMMA Unlicensed ==
    ASSUME SInv, licences = {}
    PROVE  /\ MayRequest => erred = FALSE /\ Done
           /\ MayPull => cur.broken = FALSE /\ erred = FALSE
           /\ MayOpen => cur.req = 0
<1>1. erred \in BOOLEAN /\ cur.complete \in BOOLEAN /\ cur.broken \in BOOLEAN
  BY DEF SInv, TInv, BoolsTyped, CursorTyped, Cursors
<1>2. "after_error" \notin licences /\ "during_cursor" \notin licences /\ "cursor_over_reopen" \notin licences
  OBVIOUS
<1> QED
  BY <1>1, <1>2, Zenon DEF MayRequest, MayPull, MayOpen, Done

(* Reading an answer leaves the rest of it.                                *)
LEMMA HeadOfAnswer ==
    ASSUME SInv, NEW r, Carries(r), inbox # <<>>
    PROVE  /\ pending = <<>> /\ Head(inbox).req = r /\ Head(inbox).me \in BOOLEAN
           /\ Head(inbox).me = TRUE => Tail(inbox) = <<>>
           /\ Head(inbox).me = FALSE => Tail(inbox) # <<>>
           /\ \A k \in 1 .. Len(Tail(inbox)) :
                /\ Tail(inbox)[k].req = r
                /\ Tail(inbox)[k].me = TRUE <=> k = Len(Tail(inbox))
<1>1. inbox \in Seq(Sent(reqs)) /\ Len(inbox) \in Nat /\ Len(inbox) > 0
  BY LenProperties, EmptySeq DEF SInv, TInv, NetTyped
<1>2. pending = <<>> /\ \A k \in 1 .. Len(inbox) : inbox[k].req = r /\ (inbox[k].me = TRUE <=> k = Len(inbox))
  BY DEF Carries
<1>3. Head(inbox) = inbox[1] /\ Head(inbox) \in Sent(reqs)
  BY <1>1
<1>4. Tail(inbox) \in Seq(Sent(reqs)) /\ Len(Tail(inbox)) = Len(inbox) - 1
      /\ \A k \in 1 .. Len(Tail(inbox)) : Tail(inbox)[k] = inbox[k + 1]
  BY <1>1, HeadTailProperties
<1>5. Tail(inbox) = <<>> <=> Len(inbox) = 1
  BY <1>1, <1>4, EmptySeq
<1>6. Head(inbox).req = r /\ (Head(inbox).me = TRUE <=> Len(inbox) = 1)
  <2>1. 1 \in 1 .. Len(inbox)
    BY <1>1
  <2>2. inbox[1].req = r /\ (inbox[1].me = TRUE <=> 1 = Len(inbox))
    BY <1>2, <2>1
  <2> QED
    BY <1>3, <2>2
<1>7. Head(inbox).me \in BOOLEAN
  BY <1>3 DEF Sent
<1>8. \A k \in 1 .. Len(Tail(inbox)) :
        Tail(inbox)[k].req = r /\ (Tail(inbox)[k].me = TRUE <=> k = Len(Tail(inbox)))
  <2> TAKE k \in 1 .. Len(Tail(inbox))
  <2>1. k + 1 \in 1 .. Len(inbox) /\ (k + 1 = Len(inbox) <=> k = Len(Tail(inbox)))
    BY <1>1, <1>4
  <2> QED
    BY <1>2, <1>4, <2>1
<1>9. Head(inbox).me = FALSE => Len(inbox) # 1
  BY <1>6
<1> QED
  BY <1>2, <1>5, <1>6, <1>7, <1>8, <1>9

(* The first message of a connection that carries one answer is all of it. *)
LEMMA WholeAnswer ==
    ASSUME SInv, NEW r, Carries(r), inbox # <<>>, TakeMessage
    PROVE  inbox' = <<>>
<1>1. PICK n \in 1 .. Len(inbox) : inbox[n].me /\ inbox' = SubSeq(inbox, n + 1, Len(inbox))
  BY DEF TakeMessage
<1>2. inbox \in Seq(Sent(reqs)) /\ Len(inbox) \in Nat
  BY LenProperties DEF SInv, TInv, NetTyped
<1>3. inbox[n] \in Sent(reqs)
  BY <1>2, ElementOfSeq
<1>4. inbox[n].me \in BOOLEAN
  BY <1>3 DEF Sent
<1>5. inbox[n].me = TRUE
  BY <1>1, <1>4, Zenon
<1>6. n = Len(inbox)
  BY <1>1, <1>5 DEF Carries
<1> QED
  BY <1>1, <1>2, <1>6, SubSeqEmpty

(* The server answers what the connection carries.                         *)
LEMMA AnswersCarried ==
    ASSUME SessionAssumption, SInv, NEW r, Carries(r), Server
    PROVE  /\ pending' = <<>> /\ inbox' # <<>>
           /\ \A k \in 1 .. Len(inbox') : inbox'[k].req = r /\ (inbox'[k].me = TRUE <=> k = Len(inbox'))
<1>1. PICK a \in Answers \cup AuthAnswers : ServerAnswers(a)
  BY DEF Server
<1>2. pending # <<>> /\ inbox' = inbox \o Message(Head(pending), a) /\ pending' = Tail(pending)
  BY <1>1 DEF ServerAnswers
<1>3. pending = <<r>> /\ inbox = <<>>
  BY <1>2 DEF Carries
<1>4. Head(pending) = r /\ Tail(pending) = <<>>
  BY <1>3
<1>5. reqs \in Nat /\ r \in 0 .. reqs
  BY <1>2, <1>4, HeadTailProperties DEF SInv, TInv, CInv, Connections, NetTyped
<1>6. a \in Seq(SUBSET Parts) /\ a # <<>>
  BY AnswersTyped, EmptySeq DEF SessionAssumption
<1>7. Message(r, a) \in Seq(Sent(reqs)) /\ Len(Message(r, a)) = Len(a)
  BY <1>5, <1>6, MessageTyped
<1>8. inbox' = Message(r, a)
  BY <1>2, <1>3, <1>4, <1>7, ConcatEmptySeq
<1>9. \A k \in 1 .. Len(a) : Message(r, a)[k].req = r /\ Message(r, a)[k].me = (k = Len(a))
  BY DEF Message
<1>10. \A k \in 1 .. Len(a) : Message(r, a)[k].me = TRUE <=> k = Len(a)
  BY <1>9, Zenon
<1>11. Message(r, a) # <<>>
  BY <1>6, <1>7, EmptySeq
<1> QED
  BY <1>2, <1>4, <1>7, <1>8, <1>9, <1>10, <1>11

(* What the cursor holds.                                                  *)
LEMMA HeldKept ==
    ASSUME SessionAssumption, SInv, Exchange, licences = {}, Next
    PROVE  Held'
<1>1. CASE Open
  <2>1. cur.req = 0
    BY <1>1, Unlicensed DEF Open
  <2>2. pc' = "connect" /\ erred' = FALSE /\ stream' = FALSE /\ cur' = cur
    BY <1>1 DEF Open, Closed
  <2> QED
    BY <2>1, <2>2 DEF Held, Exchange
<1>2. CASE Close
  BY <1>2 DEF Close, Closed, SInv, TInv, CInv, Control, BoolsTyped, CursorTyped, Cursors,
     Exchange, Held, Done, handles, shake, net, hist
<1>3. CASE Request
  BY <1>3 DEF Request, SendsRequest, Record, SInv, TInv, CInv, Control, BoolsTyped, CursorTyped,
     Cursors, Exchange, Held, Done, handles, shake, net, hist
<1>4. ASSUME NEW received \in BOOLEAN, SendFails(received) PROVE Held'
  BY <1>4 DEF SendFails, SendsRequest, Record, Failed, SInv, TInv, CInv, Control, BoolsTyped,
     CursorTyped, Cursors, Exchange, Held, Done, handles, shake, net, hist
<1>5. CASE ExecuteCursor
  BY <1>5 DEF ExecuteCursor, SendsRequest, Record, NoCursor, SInv, TInv, CInv, Control,
     BoolsTyped, CursorTyped, Cursors, Exchange, Held, Done, handles, shake, net, hist
<1>6. CASE CallNext
  <2>1. cur.broken = FALSE /\ erred = FALSE /\ pc' = "next" /\ UNCHANGED <<cur, erred, state, stream>>
    BY <1>6, Unlicensed DEF CallNext, handles
  <2> QED
    BY <2>1 DEF Held, Exchange
<1>7. CASE DestroyCursor
  BY <1>7 DEF DestroyCursor, NoCursor, SInv, TInv, CInv, Control, BoolsTyped, CursorTyped,
     Cursors, Exchange, Held, Done, handles, shake, net, hist
<1>8. CASE AbandonCursor
  BY <1>8 DEF AbandonCursor, NoCursor, SInv, TInv, CInv, Control, BoolsTyped, CursorTyped,
     Cursors, Exchange, Held, Done, handles, shake, net, hist
<1>9. CASE ConnectFails
  BY <1>9 DEF ConnectFails, OpenFailed, SInv, TInv, CInv, Control, BoolsTyped, CursorTyped,
     Cursors, Exchange, Held, Done, handles, shake, net, hist
<1>10. CASE Connects
  BY <1>10 DEF Connects, SInv, TInv, CInv, Control, BoolsTyped, CursorTyped, Cursors, Exchange,
     Held, Done, handles, shake, net, hist
<1>11. CASE StepCompletes
  BY <1>11 DEF StepCompletes, SInv, TInv, CInv, Control, BoolsTyped, CursorTyped, Cursors,
     Exchange, Held, Done, handles, shake, net, hist
<1>12. CASE StepFails
  BY <1>12 DEF StepFails, OpenFailed, SInv, TInv, CInv, Control, BoolsTyped, CursorTyped,
     Cursors, Exchange, Held, Done, handles, shake, net, hist
<1>13. CASE AuthReply
  BY <1>13 DEF AuthReply, OpenFailed, SInv, TInv, CInv, Control, BoolsTyped, CursorTyped,
     Cursors, Exchange, Held, Done, handles, shake, net, hist
<1>14. CASE AuthReplyFails
  BY <1>14 DEF AuthReplyFails, OpenFailed, SInv, TInv, CInv, Control, BoolsTyped, CursorTyped,
     Cursors, Exchange, Held, Done, handles, shake, net, hist
<1>15. CASE MakesSealProvider
  BY <1>15 DEF MakesSealProvider, SInv, TInv, CInv, Control, BoolsTyped, CursorTyped, Cursors,
     Exchange, Held, Done, handles, shake, net, hist
<1>16. CASE CannotSeal
  BY <1>16 DEF CannotSeal, OpenFailed, SInv, TInv, CInv, Control, BoolsTyped, CursorTyped,
     Cursors, Exchange, Held, Done, handles, shake, net, hist
<1>17. ASSUME NEW done \in BOOLEAN, StepEmits(done) PROVE Held'
  BY <1>17 DEF StepEmits, Record, SInv, TInv, CInv, Control, BoolsTyped, CursorTyped, Cursors,
     Exchange, Held, Done, handles, shake, net, hist
<1>18. CASE Reply
  BY <1>18 DEF Reply, CaptureSessionId, SInv, TInv, CInv, Control, BoolsTyped, CursorTyped,
     Cursors, Exchange, Held, Done, handles, shake, net, hist
<1>19. CASE ReplyNoMB
  BY <1>19 DEF ReplyNoMB, Failed, SInv, TInv, CInv, Control, BoolsTyped, CursorTyped, Cursors,
     Exchange, Held, Done, handles, shake, net, hist
<1>20. CASE ReplyFails
  BY <1>20 DEF ReplyFails, Failed, SInv, TInv, CInv, Control, BoolsTyped, CursorTyped, Cursors,
     Exchange, Held, Done, handles, shake, net, hist
<1>21. CASE NextRow
  BY <1>21 DEF NextRow, Ended, SInv, TInv, CInv, Control, BoolsTyped, CursorTyped, Cursors,
     Exchange, Held, Done, handles, shake, net, hist
<1>22. CASE NextDrained
  BY <1>22 DEF NextDrained, Ended, SInv, TInv, CInv, Control, BoolsTyped, CursorTyped, Cursors,
     Exchange, Held, Done, handles, shake, net, hist
<1>23. CASE NextPumps
  BY <1>23 DEF NextPumps, SInv, TInv, CInv, Control, BoolsTyped, CursorTyped, Cursors, Exchange,
     Held, Done, handles, shake, net, hist
<1>24. CASE NextClosed
  BY <1>24 DEF NextClosed, Failed, SInv, TInv, CInv, Control, BoolsTyped, CursorTyped, Cursors,
     Exchange, Held, Done, handles, shake, net, hist
<1>25. CASE Pump
  BY <1>25 DEF Pump, Reads, Fed, CaptureSessionId, Ended, SInv, TInv, CInv, Control,
     BoolsTyped, CursorTyped, Cursors, Exchange, Held, Done, handles, shake, net, hist
<1>26. CASE PumpFails
  BY <1>26 DEF PumpFails, Failed, SInv, TInv, CInv, Control, BoolsTyped, CursorTyped, Cursors,
     Exchange, Held, Done, handles, shake, net, hist
<1>27. CASE Server
  BY <1>27 DEF Server, ServerAnswers, SInv, TInv, CInv, Control, BoolsTyped, CursorTyped,
     Cursors, Exchange, Held, Done, handles, shake, net, hist
<1>28. CASE ReplyRefused
  BY <1>28 DEF ReplyRefused, Failed, SInv, TInv, CInv, Control, BoolsTyped, CursorTyped,
     Cursors, Exchange, Held, Done, handles, shake, net, hist
<1>29. CASE RecordRefused
  <2>1. pc = "pump" /\ pc' = "idle" /\ UNCHANGED <<state, stream>>
    BY <1>29 DEF RecordRefused, handles
  <2>2. cur'.req = cur.req /\ cur'.broken = TRUE
    BY <1>29, CursorRefused DEF SInv, TInv
  <2> QED
    BY <2>1, <2>2 DEF Held, Exchange
<1> QED
  BY <1>1, <1>2, <1>3, <1>4, <1>5, <1>6, <1>7, <1>8, <1>9, <1>10, <1>11, <1>12, <1>13,
     <1>14, <1>15, <1>16, <1>17, <1>18, <1>19, <1>20, <1>21, <1>22, <1>23, <1>24, <1>25, <1>26,
     <1>27, <1>28, <1>29 DEF Next, Caller, Call, Handshake

(* What the calls return.                                                  *)
LEMMA MatchedKept ==
    ASSUME SessionAssumption, SInv, Exchange, licences = {}, Next
    PROVE  Matched'
<1>1. CASE Open
  BY <1>1 DEF Open, Closed, Reset, SInv, TInv, CInv, Control, Exchange, Held, Matched, Done,
     NoOutcome, handles, shake, net, hist
<1>2. CASE Close
  BY <1>2 DEF Close, Closed, SInv, TInv, CInv, Control, Exchange, Held, Matched, Done,
     NoOutcome, handles, shake, net, hist
<1>3. CASE Request
  BY <1>3 DEF Request, SendsRequest, Record, SInv, TInv, CInv, Control, Exchange, Held, Matched,
     Done, NoOutcome, handles, shake, net, hist
<1>4. ASSUME NEW received \in BOOLEAN, SendFails(received) PROVE Matched'
  BY <1>4 DEF SendFails, SendsRequest, Record, Failed, SInv, TInv, CInv, Control, Exchange,
     Held, Matched, Done, NoOutcome, handles, shake, net, hist
<1>5. CASE ExecuteCursor
  BY <1>5 DEF ExecuteCursor, SendsRequest, Record, NoCursor, SInv, TInv, CInv, Control,
     Exchange, Held, Matched, Done, NoOutcome, handles, shake, net, hist
<1>6. CASE CallNext
  BY <1>6 DEF CallNext, SInv, TInv, CInv, Control, Exchange, Held, Matched, Done, NoOutcome,
     handles, shake, net, hist
<1>7. CASE DestroyCursor
  BY <1>7 DEF DestroyCursor, NoCursor, SInv, TInv, CInv, Control, Exchange, Held, Matched, Done,
     NoOutcome, handles, shake, net, hist
<1>8. CASE AbandonCursor
  BY <1>8 DEF AbandonCursor, NoCursor, SInv, TInv, CInv, Control, Exchange, Held, Matched, Done,
     NoOutcome, handles, shake, net, hist
<1>9. CASE ConnectFails
  BY <1>9 DEF ConnectFails, OpenFailed, SInv, TInv, CInv, Control, Exchange, Held, Matched,
     Done, NoOutcome, handles, shake, net, hist
<1>10. CASE Connects
  BY <1>10 DEF Connects, SInv, TInv, CInv, Control, Exchange, Held, Matched, Done, NoOutcome,
     handles, shake, net, hist
<1>11. CASE StepCompletes
  BY <1>11 DEF StepCompletes, SInv, TInv, CInv, Control, Exchange, Held, Matched, Done,
     NoOutcome, handles, shake, net, hist
<1>12. CASE StepFails
  BY <1>12 DEF StepFails, OpenFailed, SInv, TInv, CInv, Control, Exchange, Held, Matched, Done,
     NoOutcome, handles, shake, net, hist
<1>13. CASE AuthReply
  BY <1>13 DEF AuthReply, OpenFailed, SInv, TInv, CInv, Control, Exchange, Held, Matched, Done,
     NoOutcome, handles, shake, net, hist
<1>14. CASE AuthReplyFails
  BY <1>14 DEF AuthReplyFails, OpenFailed, SInv, TInv, CInv, Control, Exchange, Held, Matched,
     Done, NoOutcome, handles, shake, net, hist
<1>15. CASE MakesSealProvider
  BY <1>15 DEF MakesSealProvider, SInv, TInv, CInv, Control, Exchange, Held, Matched, Done,
     NoOutcome, handles, shake, net, hist
<1>16. CASE CannotSeal
  BY <1>16 DEF CannotSeal, OpenFailed, SInv, TInv, CInv, Control, Exchange, Held, Matched, Done,
     NoOutcome, handles, shake, net, hist
<1>17. ASSUME NEW done \in BOOLEAN, StepEmits(done) PROVE Matched'
  BY <1>17 DEF StepEmits, Record, SInv, TInv, CInv, Control, Exchange, Held, Matched, Done,
     NoOutcome, handles, shake, net, hist
<1>18. CASE Reply
  <2>1. inbox # <<>> /\ Carries(asked)
    BY <1>18 DEF Reply, Exchange, Traffic
  <2>2. Head(inbox).req = asked
    BY <2>1, HeadOfAnswer
  <2>3. outcome'.from = Head(inbox).req /\ outcome'.asked = asked /\ cur' = cur
    BY <1>18 DEF Reply
  <2> QED
    BY <2>2, <2>3 DEF Matched, Exchange
<1>19. CASE ReplyNoMB
  BY <1>19 DEF ReplyNoMB, Failed, SInv, TInv, CInv, Control, Exchange, Held, Matched, Done,
     NoOutcome, handles, shake, net, hist
<1>20. CASE ReplyFails
  BY <1>20 DEF ReplyFails, Failed, SInv, TInv, CInv, Control, Exchange, Held, Matched, Done,
     NoOutcome, handles, shake, net, hist
<1>21. CASE NextRow
  BY <1>21 DEF NextRow, Ended, SInv, TInv, CInv, Control, Exchange, Held, Matched, Done,
     NoOutcome, handles, shake, net, hist
<1>22. CASE NextDrained
  BY <1>22 DEF NextDrained, Ended, SInv, TInv, CInv, Control, Exchange, Held, Matched, Done,
     NoOutcome, handles, shake, net, hist
<1>23. CASE NextPumps
  BY <1>23 DEF NextPumps, SInv, TInv, CInv, Control, Exchange, Held, Matched, Done, NoOutcome,
     handles, shake, net, hist
<1>24. CASE NextClosed
  BY <1>24 DEF NextClosed, Failed, SInv, TInv, CInv, Control, Exchange, Held, Matched, Done,
     NoOutcome, handles, shake, net, hist
<1>25. CASE Pump
  <2>1. inbox # <<>> /\ Carries(cur.req)
    BY <1>25 DEF Pump, Exchange, Traffic, Held, Done, SInv, TInv, CInv, Control
  <2>2. Head(inbox).req = cur.req
    BY <2>1, HeadOfAnswer
  <2>3. PICK parts \in Unsealed :
          /\ \E v : cur' = [Fed(parts, Head(inbox)) EXCEPT !.complete = Head(inbox).me,
                                                           !.broken = v]
          /\ outcome' = outcome \/ \E v : Ended(v)
    BY <1>25 DEF Pump
  <2>4. Fed(parts, Head(inbox)) \in Cursors /\ Fed(parts, Head(inbox)).req = cur.req
        /\ Fed(parts, Head(inbox)).from = Head(inbox).req
    BY <2>1, FedTyped DEF SInv
  <2>5. cur'.req = cur.req /\ cur'.from = Head(inbox).req
    BY <2>3, <2>4 DEF Cursors
  <2>6. outcome' = outcome \/ (outcome'.asked = cur.req /\ outcome'.from = cur'.from)
    BY <2>3 DEF Ended
  <2> QED
    BY <2>2, <2>5, <2>6 DEF Matched, Exchange
<1>26. CASE PumpFails
  BY <1>26 DEF PumpFails, Failed, SInv, TInv, CInv, Control, Exchange, Held, Matched, Done,
     NoOutcome, handles, shake, net, hist
<1>27. CASE Server
  BY <1>27 DEF Server, ServerAnswers, SInv, TInv, CInv, Control, Exchange, Held, Matched, Done,
     NoOutcome, handles, shake, net, hist
<1>28. CASE ReplyRefused
  BY <1>28 DEF ReplyRefused, Failed, SInv, TInv, CInv, Control, Exchange, Held, Matched,
     Done, NoOutcome, handles, shake, net, hist
<1>29. CASE RecordRefused
  <2>1. inbox # <<>> /\ Carries(cur.req)
    BY <1>29 DEF RecordRefused, Exchange, Traffic, Held, Done, SInv, TInv, CInv, Control
  <2>2. Head(inbox).req = cur.req
    BY <2>1, HeadOfAnswer
  <2>3. outcome'.category = "protocol"
    BY <1>29 DEF RecordRefused, Failed, NoOutcome
  <2>4. CASE cur' = [cur EXCEPT !.broken = TRUE, !.refused = TRUE]
    BY <2>3, <2>4 DEF Matched, Exchange, SInv, TInv, CursorTyped, Cursors
  <2>5. CASE \E parts \in Unsealed :
               cur' = [Fed(parts, Head(inbox)) EXCEPT !.broken = TRUE, !.refused = TRUE]
    <3>1. PICK parts \in Unsealed :
            cur' = [Fed(parts, Head(inbox)) EXCEPT !.broken = TRUE, !.refused = TRUE]
      BY <2>5
    <3>2. Fed(parts, Head(inbox)) \in Cursors /\ Fed(parts, Head(inbox)).req = cur.req
          /\ Fed(parts, Head(inbox)).from = Head(inbox).req
      BY <2>1, FedTyped DEF SInv
    <3>3. cur'.req = cur.req /\ cur'.from = cur.req
      BY <2>2, <3>1, <3>2 DEF Cursors
    <3> QED
      BY <2>3, <3>3 DEF Matched
  <2> QED
    BY <1>29, <2>4, <2>5 DEF RecordRefused
<1> QED
  BY <1>1, <1>2, <1>3, <1>4, <1>5, <1>6, <1>7, <1>8, <1>9, <1>10, <1>11, <1>12, <1>13,
     <1>14, <1>15, <1>16, <1>17, <1>18, <1>19, <1>20, <1>21, <1>22, <1>23, <1>24, <1>25, <1>26,
     <1>27, <1>28, <1>29 DEF Next, Caller, Call, Handshake

(* What the connection carries.                                            *)
LEMMA TrafficKept ==
    ASSUME SessionAssumption, SInv, Exchange, licences = {}, Next
    PROVE  Traffic'
<1>1. CASE Open
  BY <1>1 DEF Open, Closed, Reset, SInv, TInv, CInv, Control, Exchange, Held, Traffic, Done,
     Carries, handles, shake, net, hist
<1>2. CASE Close
  BY <1>2 DEF Close, Closed, SInv, TInv, CInv, Control, Exchange, Held, Traffic, Done, Carries,
     handles, shake, net, hist
<1>3. CASE Request
  <2>1. erred = FALSE /\ Done /\ state = "AUTHENTICATED" /\ pc = "idle"
    BY <1>3, Unlicensed DEF Request, SendsRequest
  <2>2. pending = <<>> /\ inbox = <<>>
    BY <2>1 DEF Exchange, Traffic
  <2>3. pending' = <<reqs + 1>> /\ inbox' = <<>> /\ erred' = FALSE
    BY <2>1, <2>2, <1>3 DEF Request
  <2>4. pc' = "reply" /\ asked' = reqs + 1 /\ cur' = cur
    BY <1>3 DEF Request
  <2> QED
    BY <2>1, <2>3, <2>4 DEF Traffic, Carries, Done
<1>4. ASSUME NEW received \in BOOLEAN, SendFails(received) PROVE Traffic'
  BY <1>4 DEF SendFails, SendsRequest, Record, Failed, SInv, TInv, CInv, Control, Exchange,
     Held, Traffic, Done, Carries, handles, shake, net, hist
<1>5. CASE ExecuteCursor
  <2>1. erred = FALSE /\ Done /\ state = "AUTHENTICATED" /\ pc = "idle"
    BY <1>5, Unlicensed DEF ExecuteCursor, SendsRequest
  <2>2. pending = <<>> /\ inbox = <<>>
    BY <2>1 DEF Exchange, Traffic
  <2>3. pending' = <<reqs + 1>> /\ inbox' = <<>> /\ erred' = FALSE
    BY <2>1, <2>2, <1>5 DEF ExecuteCursor
  <2>4. cur'.req = reqs + 1 /\ cur'.complete = FALSE /\ pc' = "idle" /\ reqs + 1 # 0
    BY <2>1, <1>5 DEF ExecuteCursor, NoCursor, SInv, TInv, CInv, Connections
  <2> QED
    BY <2>3, <2>4 DEF Traffic, Carries, Done
<1>6. CASE CallNext
  BY <1>6 DEF CallNext, SInv, TInv, CInv, Control, Exchange, Held, Traffic, Done, Carries,
     handles, shake, net, hist
<1>7. CASE DestroyCursor
  BY <1>7 DEF DestroyCursor, NoCursor, SInv, TInv, CInv, Control, Exchange, Held, Traffic, Done,
     Carries, handles, shake, net, hist
<1>8. CASE AbandonCursor
  BY <1>8 DEF AbandonCursor, NoCursor, SInv, TInv, CInv, Control, Exchange, Held, Traffic, Done,
     Carries, handles, shake, net, hist
<1>9. CASE ConnectFails
  BY <1>9 DEF ConnectFails, OpenFailed, SInv, TInv, CInv, Control, Exchange, Held, Traffic,
     Done, Carries, handles, shake, net, hist
<1>10. CASE Connects
  BY <1>10 DEF Connects, SInv, TInv, CInv, Control, Exchange, Held, Traffic, Done, Carries,
     handles, shake, net, hist
<1>11. CASE StepCompletes
  BY <1>11 DEF StepCompletes, SInv, TInv, CInv, Control, Exchange, Held, Traffic, Done, Carries,
     handles, shake, net, hist
<1>12. CASE StepFails
  BY <1>12 DEF StepFails, OpenFailed, SInv, TInv, CInv, Control, Exchange, Held, Traffic, Done,
     Carries, handles, shake, net, hist
<1>13. CASE AuthReply
  BY <1>13 DEF AuthReply, OpenFailed, SInv, TInv, CInv, Control, Exchange, Held, Traffic, Done,
     Carries, handles, shake, net, hist
<1>14. CASE AuthReplyFails
  BY <1>14 DEF AuthReplyFails, OpenFailed, SInv, TInv, CInv, Control, Exchange, Held, Traffic,
     Done, Carries, handles, shake, net, hist
<1>15. CASE MakesSealProvider
  <2>1. pending = <<>> /\ inbox = <<>> /\ cur.req = 0
    BY <1>15 DEF MakesSealProvider, SInv, Tokens, Exchange, Held
  <2>2. UNCHANGED <<pending, inbox, cur>> /\ pc' = "idle"
    BY <1>15 DEF MakesSealProvider, net
  <2> QED
    BY <2>1, <2>2 DEF Traffic, Done
<1>16. CASE CannotSeal
  BY <1>16 DEF CannotSeal, OpenFailed, SInv, TInv, CInv, Control, Exchange, Held, Traffic, Done,
     Carries, handles, shake, net, hist
<1>17. ASSUME NEW done \in BOOLEAN, StepEmits(done) PROVE Traffic'
  BY <1>17 DEF StepEmits, Record, SInv, TInv, CInv, Control, Exchange, Held, Traffic, Done,
     Carries, handles, shake, net, hist
<1>18. CASE Reply
  <2>1. inbox # <<>> /\ Carries(asked) /\ Done
    BY <1>18 DEF Reply, Exchange, Traffic
  <2>2. pending = <<>> /\ inbox' = <<>>
    BY <2>1, <1>18, HeadOfAnswer, WholeAnswer DEF Reply
  <2>3. UNCHANGED <<pending, cur>> /\ pc' = "idle"
    BY <1>18 DEF Reply
  <2> QED
    BY <2>1, <2>2, <2>3 DEF Traffic, Done
<1>19. CASE ReplyNoMB
  BY <1>19 DEF ReplyNoMB, Failed, SInv, TInv, CInv, Control, Exchange, Held, Traffic, Done,
     Carries, handles, shake, net, hist
<1>20. CASE ReplyFails
  BY <1>20 DEF ReplyFails, Failed, SInv, TInv, CInv, Control, Exchange, Held, Traffic, Done,
     Carries, handles, shake, net, hist
<1>21. CASE NextRow
  BY <1>21 DEF NextRow, Ended, SInv, TInv, CInv, Control, Exchange, Held, Traffic, Done,
     Carries, handles, shake, net, hist
<1>22. CASE NextDrained
  BY <1>22 DEF NextDrained, Ended, SInv, TInv, CInv, Control, Exchange, Held, Traffic, Done,
     Carries, handles, shake, net, hist
<1>23. CASE NextPumps
  BY <1>23 DEF NextPumps, SInv, TInv, CInv, Control, Exchange, Held, Traffic, Done, Carries,
     handles, shake, net, hist
<1>24. CASE NextClosed
  BY <1>24 DEF NextClosed, Failed, SInv, TInv, CInv, Control, Exchange, Held, Traffic, Done,
     Carries, handles, shake, net, hist
<1>25. CASE Pump
  <2>1. inbox # <<>> /\ Carries(cur.req) /\ ~Done /\ inbox' = Tail(inbox) /\ pending' = pending
    BY <1>25 DEF Pump, Reads, Exchange, Traffic, Held, Done, SInv, TInv, CInv, Control
  <2>2. cur'.req = cur.req /\ cur'.complete = Head(inbox).me /\ pc' # "reply"
    BY <1>25 DEF Pump, Fed, SInv, TInv, CursorTyped, Cursors
  <2>3. CASE Head(inbox).me = TRUE
    <3>1. pending' = <<>> /\ inbox' = <<>> /\ cur'.complete = TRUE
      BY <2>1, <2>2, <2>3, HeadOfAnswer
    <3> QED
      BY <2>2, <3>1 DEF Traffic, Done
  <2>4. CASE Head(inbox).me = FALSE
    <3>1. /\ pending' = <<>> /\ inbox' # <<>>
          /\ \A k \in 1 .. Len(inbox') :
               inbox'[k].req = cur.req /\ (inbox'[k].me = TRUE <=> k = Len(inbox'))
      BY <2>1, <2>4, HeadOfAnswer
    <3>2. cur'.req # 0 /\ cur'.complete # TRUE
      BY <2>1, <2>2, <2>4 DEF Done
    <3> QED
      BY <2>2, <3>1, <3>2 DEF Traffic, Done, Carries
  <2> QED
    BY <2>1, <2>3, <2>4, HeadOfAnswer
<1>26. CASE PumpFails
  BY <1>26 DEF PumpFails, Failed, SInv, TInv, CInv, Control, Exchange, Held, Traffic, Done,
     Carries, handles, shake, net, hist
<1>27. CASE Server
  <2>1. UNCHANGED <<pc, state, erred, cur, asked>> /\ pending # <<>>
    BY <1>27 DEF Server, ServerAnswers, handles
  <2>2. pc = "reply" => Carries(asked)'
    BY <2>1, <1>27, AnswersCarried DEF Exchange, Traffic, Carries
  <2>3. state = "AUTHENTICATED" /\ erred = FALSE /\ ~Done => Carries(cur.req)'
    BY <2>1, <1>27, AnswersCarried DEF Exchange, Traffic, Carries
  <2>4. ~(state = "AUTHENTICATED" /\ erred = FALSE /\ pc # "reply" /\ Done)
    BY <2>1 DEF Exchange, Traffic
  <2>5. pc = "reply" => erred = FALSE /\ Done
    BY DEF Exchange, Traffic
  <2> QED
    BY <2>1, <2>2, <2>3, <2>4, <2>5 DEF Traffic, Done
<1>28. CASE ReplyRefused
  BY <1>28 DEF ReplyRefused, Failed, SInv, TInv, CInv, Control, Exchange, Held, Traffic,
     Done, Carries, handles, shake, net, hist
<1>29. CASE RecordRefused
  BY <1>29 DEF RecordRefused, Reads, Fed, Failed, SInv, TInv, CInv, Control, Exchange, Held,
     Traffic, Done, Carries, handles, shake, net, hist
<1> QED
  BY <1>1, <1>2, <1>3, <1>4, <1>5, <1>6, <1>7, <1>8, <1>9, <1>10, <1>11, <1>12, <1>13,
     <1>14, <1>15, <1>16, <1>17, <1>18, <1>19, <1>20, <1>21, <1>22, <1>23, <1>24, <1>25, <1>26,
     <1>27, <1>28, <1>29 DEF Next, Caller, Call, Handshake

(* A step of a torn connection sends nothing and reads nothing.            *)
LEMMA TornKept ==
    ASSUME SessionAssumption, SInv, Next
    PROVE  torn = TRUE /\ conn' = conn =>
             UNCHANGED <<last, reqs>> /\ (stream' = TRUE => Len(inbox') >= Len(inbox))
<1>1. CASE Open
  BY <1>1 DEF Open, Closed, Reset, SInv, TInv, CInv, Control, Left, Connections, NetTyped,
     handles, shake, net, hist
<1>2. CASE Close
  BY <1>2 DEF Close, Closed, SInv, TInv, CInv, Control, Left, Connections, NetTyped, handles,
     shake, net, hist
<1>3. CASE Request
  BY <1>3 DEF Request, SendsRequest, Record, SInv, TInv, CInv, Control, Left, Connections,
     NetTyped, handles, shake, net, hist
<1>4. ASSUME NEW received \in BOOLEAN, SendFails(received) PROVE torn = TRUE /\ conn' = conn =>
           UNCHANGED <<last, reqs>> /\ (stream' = TRUE => Len(inbox') >= Len(inbox))
  BY <1>4 DEF SendFails, SendsRequest, Record, Failed, SInv, TInv, CInv, Control, Left,
     Connections, NetTyped, handles, shake, net, hist
<1>5. CASE ExecuteCursor
  BY <1>5 DEF ExecuteCursor, SendsRequest, Record, NoCursor, SInv, TInv, CInv, Control, Left,
     Connections, NetTyped, handles, shake, net, hist
<1>6. CASE CallNext
  BY <1>6 DEF CallNext, SInv, TInv, CInv, Control, Left, Connections, NetTyped, handles, shake,
     net, hist
<1>7. CASE DestroyCursor
  BY <1>7 DEF DestroyCursor, NoCursor, SInv, TInv, CInv, Control, Left, Connections, NetTyped,
     handles, shake, net, hist
<1>8. CASE AbandonCursor
  BY <1>8 DEF AbandonCursor, NoCursor, SInv, TInv, CInv, Control, Left, Connections, NetTyped,
     handles, shake, net, hist
<1>9. CASE ConnectFails
  BY <1>9 DEF ConnectFails, OpenFailed, SInv, TInv, CInv, Control, Left, Connections, NetTyped,
     handles, shake, net, hist
<1>10. CASE Connects
  BY <1>10 DEF Connects, SInv, TInv, CInv, Control, Left, Connections, NetTyped, handles, shake,
     net, hist
<1>11. CASE StepCompletes
  BY <1>11 DEF StepCompletes, SInv, TInv, CInv, Control, Left, Connections, NetTyped, handles,
     shake, net, hist
<1>12. CASE StepFails
  BY <1>12 DEF StepFails, OpenFailed, SInv, TInv, CInv, Control, Left, Connections, NetTyped,
     handles, shake, net, hist
<1>13. CASE AuthReply
  BY <1>13 DEF AuthReply, OpenFailed, SInv, TInv, CInv, Control, Left, Connections, NetTyped,
     handles, shake, net, hist
<1>14. CASE AuthReplyFails
  BY <1>14 DEF AuthReplyFails, OpenFailed, SInv, TInv, CInv, Control, Left, Connections,
     NetTyped, handles, shake, net, hist
<1>15. CASE MakesSealProvider
  BY <1>15 DEF MakesSealProvider, SInv, TInv, CInv, Control, Left, Connections, NetTyped,
     handles, shake, net, hist
<1>16. CASE CannotSeal
  BY <1>16 DEF CannotSeal, OpenFailed, SInv, TInv, CInv, Control, Left, Connections, NetTyped,
     handles, shake, net, hist
<1>17. ASSUME NEW done \in BOOLEAN, StepEmits(done) PROVE torn = TRUE /\ conn' = conn =>
           UNCHANGED <<last, reqs>> /\ (stream' = TRUE => Len(inbox') >= Len(inbox))
  BY <1>17 DEF StepEmits, Record, SInv, TInv, CInv, Control, Left, Connections, NetTyped,
     handles, shake, net, hist
<1>18. CASE Reply
  BY <1>18 DEF Reply, CaptureSessionId, SInv, TInv, CInv, Control, Left, Connections, NetTyped,
     handles, shake, net, hist
<1>19. CASE ReplyNoMB
  BY <1>19 DEF ReplyNoMB, Failed, SInv, TInv, CInv, Control, Left, Connections, NetTyped,
     handles, shake, net, hist
<1>20. CASE ReplyFails
  BY <1>20 DEF ReplyFails, Failed, SInv, TInv, CInv, Control, Left, Connections, NetTyped,
     handles, shake, net, hist
<1>21. CASE NextRow
  BY <1>21 DEF NextRow, Ended, SInv, TInv, CInv, Control, Left, Connections, NetTyped, handles,
     shake, net, hist
<1>22. CASE NextDrained
  BY <1>22 DEF NextDrained, Ended, SInv, TInv, CInv, Control, Left, Connections, NetTyped,
     handles, shake, net, hist
<1>23. CASE NextPumps
  BY <1>23 DEF NextPumps, SInv, TInv, CInv, Control, Left, Connections, NetTyped, handles,
     shake, net, hist
<1>24. CASE NextClosed
  BY <1>24 DEF NextClosed, Failed, SInv, TInv, CInv, Control, Left, Connections, NetTyped,
     handles, shake, net, hist
<1>25. CASE Pump
  BY <1>25 DEF Pump, Reads, Fed, CaptureSessionId, Ended, SInv, TInv, CInv, Control, Left,
     Connections, NetTyped, handles, shake, net, hist
<1>26. CASE PumpFails
  BY <1>26 DEF PumpFails, Failed, SInv, TInv, CInv, Control, Left, Connections, NetTyped,
     handles, shake, net, hist
<1>27. CASE Server
  <2>1. PICK a \in Answers \cup AuthAnswers : ServerAnswers(a)
    BY <1>27 DEF Server
  <2>2. pending # <<>> /\ inbox' = inbox \o Message(Head(pending), a) /\ UNCHANGED <<last, reqs>>
    BY <2>1 DEF ServerAnswers
  <2>3. reqs \in Nat /\ pending \in Seq(0 .. reqs) /\ inbox \in Seq(Sent(reqs))
    BY DEF SInv, TInv, CInv, Connections, NetTyped
  <2>4. a \in Seq(SUBSET Parts) /\ Head(pending) \in 0 .. reqs
    BY <2>2, <2>3, AnswersTyped, HeadTailProperties
  <2>5. Message(Head(pending), a) \in Seq(Sent(reqs))
    BY <2>3, <2>4, MessageTyped
  <2>6. Len(inbox') = Len(inbox) + Len(Message(Head(pending), a))
    BY <2>2, <2>3, <2>5, ConcatProperties
  <2> QED
    BY <2>2, <2>3, <2>5, <2>6, LenProperties
<1>28. CASE ReplyRefused
  BY <1>28 DEF ReplyRefused, Failed, SInv, TInv, CInv, Control, Left, Connections, NetTyped,
     handles, shake, net, hist
<1>29. CASE RecordRefused
  BY <1>29 DEF RecordRefused, Reads, Fed, Failed, SInv, TInv, CInv, Control, Left,
     Connections, NetTyped, handles, shake, net, hist
<1> QED
  BY <1>1, <1>2, <1>3, <1>4, <1>5, <1>6, <1>7, <1>8, <1>9, <1>10, <1>11, <1>12, <1>13,
     <1>14, <1>15, <1>16, <1>17, <1>18, <1>19, <1>20, <1>21, <1>22, <1>23, <1>24, <1>25, <1>26,
     <1>27, <1>28, <1>29 DEF Next, Caller, Call, Handshake

-----------------------------------------------------------------------------
(* The theorems.                                                           *)

(* The invariant holds at first ...                                        *)
LEMMA SInvHoldsFirst == ASSUME SessionAssumption, Init PROVE SInv
<1>1. CInv
  BY CInvHoldsFirst
<1>2. licences \in Permitted /\ NumbersTyped
  BY DEF Init, NumbersTyped
<1>3. BoolsTyped
  BY Zenon DEF Init, BoolsTyped
<1>4. CursorTyped
  BY DEF Init, CursorTyped, Cursors, NoCursor
<1>5. NetTyped
  BY DEF Init, NetTyped
<1>6. Tokens
  BY DEF Init, Tokens
<1> QED
  BY <1>1, <1>2, <1>3, <1>4, <1>5, <1>6 DEF SInv, TInv

(* ... and every step keeps it.                                            *)
LEMMA SInvKept ==
    ASSUME SessionAssumption, SInv, [Next]_vars
    PROVE  SInv'
<1>1. CASE Next
  <2>1. CInv'
    BY <1>1, ControlKept, ConnectionsKept, LeftKept, NegoBitKept DEF SInv, TInv, CInv
  <2>2. licences' \in Permitted
    BY <1>1 DEF Next, SInv, TInv
  <2>3. NumbersTyped' /\ BoolsTyped' /\ CursorTyped' /\ NetTyped'
    BY <1>1, NumbersKept, BoolsKept, CursorKept, NetKept DEF SInv
  <2> QED
    BY <1>1, <2>1, <2>2, <2>3, TokensKept DEF SInv, TInv
<1>2. CASE UNCHANGED vars
  <2>1. Control' /\ Left' /\ Flags' /\ NegoBit'
    BY <1>2 DEF SInv, TInv, CInv, Control, Left, Flags, NegoBit, vars, handles, shake, net, hist
  <2>2. Connections'
    BY <1>2 DEF SInv, TInv, CInv, Connections, vars, handles, shake, net, hist
  <2>3. licences' \in Permitted /\ NumbersTyped' /\ NetTyped'
    BY <1>2 DEF SInv, TInv, NumbersTyped, NetTyped, vars, handles, shake, net, hist
  <2>4. BoolsTyped'
    BY <1>2, Zenon DEF SInv, TInv, BoolsTyped, vars, handles, shake, net, hist
  <2>5. CursorTyped'
    BY <1>2 DEF SInv, TInv, CursorTyped, Cursors, vars, handles, shake, net, hist
  <2>6. Tokens'
    BY <1>2 DEF SInv, Tokens, vars, handles, shake, net, hist
  <2> QED
    BY <2>1, <2>2, <2>3, <2>4, <2>5, <2>6 DEF SInv, TInv, CInv
<1> QED
  BY <1>1, <1>2

(* The invariant: where the thread is decides what the session holds, and  *)
(* what the connection carries (client.cpp:130-215).                       *)
THEOREM SInvAlways == ASSUME SessionAssumption PROVE Spec => []SInv
<1>1. Init => SInv
  BY SInvHoldsFirst
<1>2. SInv /\ [Next]_vars => SInv'
  BY SInvKept
<1> QED
  BY <1>1, <1>2, PTL DEF Spec

(* Every variable keeps its type, and the rounds their bound.              *)
THEOREM SessionTyped == ASSUME SessionAssumption PROVE Spec => []TypeOK
<1>1. ASSUME SInv PROVE TypeOK
  <2>1. conn \in Nat /\ reqs \in Nat /\ first_record \in BOOLEAN /\ torn \in BOOLEAN
        /\ rounds \in 0 .. MaxRounds /\ state \in States
        /\ pc \in {"idle", "connect", "step", "auth", "seal", "reply", "next", "pump"}
    BY <1>1 DEF SInv, TInv, CInv, Control, Connections, Flags
  <2>2. Sent(reqs) \subseteq Records
    BY <2>1 DEF Sent, Records
  <2>3. pending \in Seq(0 .. reqs) /\ inbox \in Seq(Records)
    BY <1>1, <2>2, SeqMonotonic DEF SInv, TInv, NetTyped
  <2> QED
    BY <1>1, <2>1, <2>3, Zenon
       DEF TypeOK, SInv, TInv, NumbersTyped, BoolsTyped, CursorTyped, Cursors
<1> QED
  BY <1>1, SInvAlways, PTL

(* The negotiation bit is clear on exactly the first record of every       *)
(* connection (client.cpp:97-109, 165).                                    *)
THEOREM NegotiationBit == ASSUME SessionAssumption PROVE Spec => []NegoBit
<1>1. SInv => NegoBit
  BY DEF SInv, TInv, CInv
<1> QED
  BY <1>1, SInvAlways, PTL

(* What a call dereferences is there, and no provider outlives its stream  *)
(* (client.cpp:56-74, 130-215, 376-383).                                   *)
THEOREM HandlesConsistent == ASSUME SessionAssumption PROVE Spec => []HandlesAgree
<1>1. SInv => HandlesAgree
  BY DEF SInv, TInv, CInv, Control, HandlesAgree
<1> QED
  BY <1>1, SInvAlways, PTL

(* A session is AUTHENTICATED only when the server refused no token of     *)
(* this connection and answered every one (auth.cpp:60-140).               *)
THEOREM AcceptedOnly == ASSUME SessionAssumption PROVE Spec => []HandshakeAccepted
<1>1. ASSUME SInv PROVE HandshakeAccepted
  <2>1. CASE state = "AUTHENTICATED"
    <3>1. auth_refused = FALSE /\ \A k \in 1 .. Len(pending) : pending[k] # 0
      BY <1>1, <2>1 DEF SInv, Tokens
    <3> QED
      BY <3>1, Zenon DEF HandshakeAccepted
  <2>2. CASE state # "AUTHENTICATED"
    BY <2>2 DEF HandshakeAccepted
  <2> QED
    BY <2>1, <2>2
<1> QED
  BY <1>1, SInvAlways, PTL

(* A connection on which a cursor was abandoned is never used again        *)
(* (client.cpp:305-311).                                                   *)
THEOREM TornLeftAlone == ASSUME SessionAssumption PROVE Spec => TornNotUsed
<1>1. ASSUME SInv, [Next]_vars
      PROVE  torn /\ conn' = conn =>
               UNCHANGED <<last, reqs>> /\ (stream' => Len(inbox') >= Len(inbox))
  <2>1. torn = TRUE /\ conn' = conn =>
          UNCHANGED <<last, reqs>> /\ (stream' = TRUE => Len(inbox') >= Len(inbox))
    <3>1. CASE Next
      BY <1>1, <3>1, TornKept
    <3>2. CASE UNCHANGED vars
      <4>1. UNCHANGED <<last, reqs, inbox>>
        BY <3>2 DEF vars, net, hist
      <4>2. Len(inbox) >= Len(inbox)
        BY <1>1, LenProperties DEF SInv, TInv, NetTyped
      <4> QED
        BY <4>1, <4>2
    <3> QED
      BY <1>1, <3>1, <3>2
  <2>2. torn \in BOOLEAN /\ stream' \in BOOLEAN
    BY <1>1, SInvKept DEF SInv, TInv, CInv, Flags, BoolsTyped
  <2> QED
    BY <2>1, <2>2, Zenon
<1> QED
  BY <1>1, SInvAlways, PTL DEF Spec, TornNotUsed

(* A caller that permits itself nothing has one request at a time on its   *)
(* connection.                                                             *)
LEMMA ExchangeKept ==
    ASSUME SessionAssumption, SInv, Exchange, licences = {}, [Next]_vars
    PROVE  Exchange'
<1>1. CASE Next
  BY <1>1, HeldKept, MatchedKept, TrafficKept DEF Exchange
<1>2. CASE UNCHANGED vars
  BY <1>2 DEF Exchange, Held, Matched, Traffic, Carries, Done, vars, handles, shake, net, hist
<1> QED
  BY <1>1, <1>2

LEMMA XInvHolds ==
    ASSUME SessionAssumption
    PROVE  (Init => XInv) /\ (XInv /\ [Next]_vars => XInv')
<1>1. Init => XInv
  <2>1. ASSUME Init PROVE Exchange
    BY <2>1 DEF Init, Exchange, Held, Matched, Traffic, Carries, Done, NoCursor, NoOutcome
  <2> QED
    BY <2>1, SInvHoldsFirst DEF XInv
<1>2. XInv /\ [Next]_vars => XInv'
  <2>1. ASSUME [Next]_vars PROVE licences' = licences
    BY <2>1 DEF Next, vars
  <2> QED
    BY <2>1, SInvKept, ExchangeKept DEF XInv
<1> QED
  BY <1>1, <1>2

(* What a request returns was sent by the server in answer to that very    *)
(* request, whatever the server answers and however its answers are cut    *)
(* (client.cpp:186-223, 359-419).                                          *)
THEOREM AnswersMatchAlways == ASSUME SessionAssumption PROVE Spec => []AnswersMatch
<1>1. Init => XInv
  BY XInvHolds
<1>2. XInv /\ [Next]_vars => XInv'
  BY XInvHolds
<1>3. XInv => AnswersMatch
  BY DEF XInv, Exchange, Matched, AnswersMatch
<1> QED
  BY <1>1, <1>2, <1>3, PTL DEF Spec

-----------------------------------------------------------------------------
(* The SessionId.                                                          *)

(* Messages lie in the buffer one behind the other: a record ends one      *)
(* exactly when the next begins one, and the last one ends one.            *)
Framed(box) ==
    /\ \A k \in 1 .. Len(box) : k < Len(box) => (box[k].me = TRUE <=> box[k + 1].mb = TRUE)
    /\ box # <<>> => box[Len(box)].me = TRUE

(* Before a SessionId comes the '<' of its document: in the buffer, or in  *)
(* the head the cursor has read.                                           *)
DocBefore(box, k) ==
    \E m \in 1 .. k : "doc" \in box[m].parts /\ \A l \in (m + 1) .. k : box[l].mb = FALSE
SidsWithin(msg) == \A k \in 1 .. Len(msg) : "sid" \in msg[k].parts => DocBefore(msg, k)
DocHeld(box, h, k) == "doc" \in h /\ \A l \in 1 .. k : box[l].mb = FALSE
SidsFollow(box, h) ==
    \A k \in 1 .. Len(box) : "sid" \in box[k].parts => DocBefore(box, k) \/ DocHeld(box, h, k)

(* It comes in the prefix a cursor keeps of that document.                 *)
Begins(box, l, k) == \E j \in l .. k : box[j].mb = TRUE
InPrefix(box, h) ==
    \A k \in 1 .. Len(box) : "sid" \in box[k].parts =>
        /\ "full" \in h => Begins(box, 1, k)
        /\ \A l \in 1 .. (k - 1) : "full" \in box[l].parts => Begins(box, l + 1, k)
PrefixWithin(msg) ==
    \A k \in 1 .. Len(msg) : "sid" \in msg[k].parts => \A l \in 1 .. (k - 1) : "full" \notin msg[l].parts
Follows(box, h) == SidsFollow(box, h) /\ InPrefix(box, h)

(* A message half read is being read by the cursor, and a cursor that      *)
(* reads no such message has read nothing.  What a cursor that refused a   *)
(* record has lost of its message counts as read.                          *)
HalfRead ==
    inbox # <<>> /\ inbox[1].mb = FALSE =>
        cur.req # 0 /\ cur.complete = FALSE /\ in_message = TRUE
Fresh ==
    /\ cur.req # 0 /\ cur.complete = FALSE /\ cur.refused = FALSE /\ stream = TRUE
    /\ inbox = <<>> \/ inbox[1].mb = TRUE
    => cur.head = {}
HeadRead == IF cur.refused = TRUE THEN {"doc"} ELSE cur.head
Opening == {"connect", "step", "auth", "seal"}
Attended == (pc \in Opening => cur.req = 0) /\ (pc = "pump" => cur.complete = FALSE)
NoStream == stream = FALSE => pending = <<>> /\ inbox = <<>>
MessagesInv ==
    NoStream /\ Attended /\ HalfRead /\ Fresh /\ Framed(inbox) /\ Follows(inbox, HeadRead)

(* The id is the connection's, and known as soon as it has been read.      *)
Careful == "cursor_over_reopen" \notin licences
IdsInv ==
    /\ cur.req # 0 => cur.conn = conn
    /\ session_id = IF id_seen = TRUE THEN conn ELSE 0
    /\ "sid" \in cur.head => "doc" \in cur.head
    /\ cur.req # 0 /\ cur.refused = FALSE /\ "sid" \in cur.head => id_seen = TRUE
    /\ last.kind = "request" => last.sid = IF last.id_seen = TRUE THEN last.conn ELSE 0

(* The first record is taken.                                              *)
LEMMA TailFramed ==
    ASSUME NEW n, NEW box \in Seq(Sent(n)), box # <<>>, Framed(box)
    PROVE  /\ Tail(box) \in Seq(Sent(n)) /\ Framed(Tail(box))
           /\ Tail(box) # <<>> => (box[1].me = TRUE <=> Tail(box)[1].mb = TRUE)
<1>1. /\ Tail(box) \in Seq(Sent(n)) /\ Len(Tail(box)) = Len(box) - 1 /\ Len(box) \in Nat
      /\ \A k \in 1 .. Len(Tail(box)) : Tail(box)[k] = box[k + 1]
  BY HeadTailProperties, LenProperties
<1>2. ASSUME Tail(box) # <<>>
      PROVE  /\ Len(Tail(box)) \in 1 .. Len(Tail(box)) /\ 1 \in 1 .. Len(box) /\ 1 < Len(box)
             /\ 1 \in 1 .. Len(Tail(box)) /\ Len(Tail(box)) + 1 = Len(box)
  BY <1>1, <1>2, EmptySeq
<1>3. \A k \in 1 .. Len(Tail(box)) : k < Len(Tail(box)) =>
         (Tail(box)[k].me = TRUE <=> Tail(box)[k + 1].mb = TRUE)
  <2> SUFFICES ASSUME NEW k \in 1 .. Len(Tail(box)), k < Len(Tail(box))
               PROVE  Tail(box)[k].me = TRUE <=> Tail(box)[k + 1].mb = TRUE
    OBVIOUS
  <2>1. k + 1 \in 1 .. Len(Tail(box)) /\ k + 1 \in 1 .. Len(box) /\ k + 1 < Len(box)
    BY <1>1
  <2> QED
    BY <1>1, <2>1 DEF Framed
<1>4. Tail(box) # <<>> => Tail(box)[Len(Tail(box))].me = TRUE
  BY <1>1, <1>2 DEF Framed
<1>5. Tail(box) # <<>> => (box[1].me = TRUE <=> Tail(box)[1].mb = TRUE)
  BY <1>1, <1>2 DEF Framed
<1> QED
  BY <1>1, <1>3, <1>4, <1>5 DEF Framed

(* A message is taken.                                                     *)
LEMMA RestFramed ==
    ASSUME NEW n, NEW box \in Seq(Sent(n)), Framed(box), NEW m \in 1 .. Len(box),
           box[m].me = TRUE
    PROVE  LET rest == SubSeq(box, m + 1, Len(box))
           IN  /\ rest \in Seq(Sent(n)) /\ Framed(rest)
               /\ rest # <<>> => rest[1].mb = TRUE
               /\ Len(rest) = Len(box) - m
               /\ \A k \in 1 .. Len(rest) : rest[k] = box[k + m]
               /\ rest # <<>> => box[m + 1].mb = TRUE
<1> DEFINE rest == SubSeq(box, m + 1, Len(box))
<1>1. Len(box) \in Nat /\ m \in Nat /\ m <= Len(box)
  BY LenProperties
<1>2. rest \in Seq(Sent(n)) /\ Len(rest) = Len(box) - m
  BY <1>1, SubSeqProperties
<1>3. \A k \in 1 .. Len(rest) : rest[k] = box[k + m]
  <2> TAKE k \in 1 .. Len(rest)
  <2>1. k \in 1 .. (Len(box) - (m + 1) + 1) /\ (m + 1) + k - 1 = k + m
    BY <1>1, <1>2
  <2> QED
    BY <1>1, <2>1, SubSeqProperties
<1> HIDE DEF rest
<1>4. ASSUME rest # <<>>
      PROVE  /\ Len(rest) \in 1 .. Len(rest) /\ 1 \in 1 .. Len(rest) /\ Len(rest) + m = Len(box)
             /\ m < Len(box) /\ 1 + m = m + 1
  BY <1>1, <1>2, <1>4, EmptySeq
<1>5. \A k \in 1 .. Len(rest) : k < Len(rest) => (rest[k].me = TRUE <=> rest[k + 1].mb = TRUE)
  <2> SUFFICES ASSUME NEW k \in 1 .. Len(rest), k < Len(rest)
               PROVE  rest[k].me = TRUE <=> rest[k + 1].mb = TRUE
    OBVIOUS
  <2>1. /\ k + 1 \in 1 .. Len(rest) /\ k + m \in 1 .. Len(box) /\ k + m < Len(box)
        /\ (k + 1) + m = (k + m) + 1
    BY <1>1, <1>2
  <2>2. rest[k] = box[k + m] /\ rest[k + 1] = box[(k + m) + 1]
    BY <1>3, <2>1
  <2> QED
    BY <2>1, <2>2 DEF Framed
<1>6. rest # <<>> => box[m + 1].mb = TRUE
  BY <1>4 DEF Framed
<1>7. rest # <<>> => rest[1].mb = TRUE /\ rest[Len(rest)].me = TRUE
  <2> SUFFICES ASSUME rest # <<>> PROVE rest[1].mb = TRUE /\ rest[Len(rest)].me = TRUE
    OBVIOUS
  <2>1. rest[1] = box[m + 1] /\ rest[Len(rest)] = box[Len(box)]
    BY <1>3, <1>4
  <2>2. box # <<>>
    BY <1>1, EmptySeq
  <2> QED
    BY <1>6, <2>1, <2>2 DEF Framed
<1> QED
  BY <1>2, <1>3, <1>5, <1>6, <1>7 DEF Framed, rest

(* What is left after a message starts with a message of its own.          *)
LEMMA RestStarts ==
    ASSUME NEW n, NEW box \in Seq(Sent(n)), Framed(box), NEW m \in 1 .. Len(box),
           box[m].me = TRUE, SubSeq(box, m + 1, Len(box)) # <<>>
    PROVE  SubSeq(box, m + 1, Len(box))[1].mb = TRUE
BY RestFramed

(* A message arrives.                                                      *)
LEMMA JoinFramed ==
    ASSUME NEW n, NEW box \in Seq(Sent(n)), NEW msg \in Seq(Sent(n)), Framed(box), Framed(msg),
           msg # <<>>, msg[1].mb = TRUE
    PROVE  Framed(box \o msg)
<1> DEFINE all == box \o msg
<1>1. /\ all \in Seq(Sent(n)) /\ Len(all) = Len(box) + Len(msg) /\ Len(box) \in Nat
      /\ Len(msg) \in Nat /\ Len(msg) > 0
  BY ConcatProperties, LenProperties, EmptySeq
<1>2. \A k \in 1 .. Len(box) : all[k] = box[k]
  BY <1>1, ConcatProperties
<1>3. \A k \in 1 .. Len(msg) : all[Len(box) + k] = msg[k]
  <2> TAKE k \in 1 .. Len(msg)
  <2>1. Len(box) + k \in 1 .. (Len(box) + Len(msg)) /\ ~(Len(box) + k <= Len(box))
        /\ (Len(box) + k) - Len(box) = k
    BY <1>1
  <2> QED
    BY <2>1, ConcatProperties
<1> HIDE DEF all
<1>4. \A k \in 1 .. Len(all) : k < Len(all) => (all[k].me = TRUE <=> all[k + 1].mb = TRUE)
  <2> SUFFICES ASSUME NEW k \in 1 .. Len(all), k < Len(all)
               PROVE  all[k].me = TRUE <=> all[k + 1].mb = TRUE
    OBVIOUS
  <2>1. CASE k < Len(box)
    <3>1. k \in 1 .. Len(box) /\ k + 1 \in 1 .. Len(box)
      BY <1>1, <2>1
    <3> QED
      BY <1>2, <2>1, <3>1 DEF Framed
  <2>2. CASE k = Len(box)
    <3>1. k \in 1 .. Len(box) /\ 1 \in 1 .. Len(msg) /\ box # <<>>
      BY <1>1, <2>2, EmptySeq
    <3>2. all[k].me = TRUE
      BY <1>2, <2>2, <3>1 DEF Framed
    <3>3. all[k + 1] = msg[1]
      BY <1>3, <2>2, <3>1
    <3> QED
      BY <3>2, <3>3
  <2>3. CASE k > Len(box)
    <3>1. PICK j \in 1 .. Len(msg) : k = Len(box) + j /\ j < Len(msg)
      <4>1. k - Len(box) \in 1 .. Len(msg) /\ k = Len(box) + (k - Len(box)) /\ k - Len(box) < Len(msg)
        BY <1>1, <2>3
      <4> QED
        BY <4>1
    <3>2. j + 1 \in 1 .. Len(msg) /\ k + 1 = Len(box) + (j + 1)
      BY <1>1, <3>1
    <3>3. all[k] = msg[j] /\ all[k + 1] = msg[j + 1]
      BY <1>3, <3>1, <3>2
    <3> QED
      BY <3>1, <3>3 DEF Framed
  <2>4. k < Len(box) \/ k = Len(box) \/ k > Len(box)
    BY <1>1
  <2> QED
    BY <2>1, <2>2, <2>3, <2>4
<1>5. all # <<>> /\ all[Len(all)].me = TRUE
  <2>1. Len(msg) \in 1 .. Len(msg) /\ Len(all) = Len(box) + Len(msg) /\ Len(all) # 0
    BY <1>1
  <2>2. all[Len(all)] = msg[Len(msg)]
    BY <1>3, <2>1
  <2> QED
    BY <1>1, <2>1, <2>2, EmptySeq DEF Framed
<1> QED
  BY <1>4, <1>5 DEF Framed, all

(* A record the cursor reads, and a message taken as a whole, leave every  *)
(* SessionId behind its document.                                          *)
LEMMA TailFollows ==
    ASSUME NEW n, NEW box \in Seq(Sent(n)), box # <<>>, NEW h, SidsFollow(box, h)
    PROVE  SidsFollow(Tail(box), h \cup box[1].parts)
<1>1. /\ Len(Tail(box)) = Len(box) - 1 /\ Len(box) \in Nat
      /\ \A k \in 1 .. Len(Tail(box)) : Tail(box)[k] = box[k + 1]
  BY HeadTailProperties, LenProperties
<1> SUFFICES ASSUME NEW k \in 1 .. Len(Tail(box)), "sid" \in Tail(box)[k].parts
             PROVE  DocBefore(Tail(box), k) \/ DocHeld(Tail(box), h \cup box[1].parts, k)
  BY DEF SidsFollow
<1>2. k + 1 \in 1 .. Len(box) /\ "sid" \in box[k + 1].parts
  BY <1>1
<1>3. \A l \in 1 .. k : l + 1 \in 1 .. (k + 1) /\ Tail(box)[l] = box[l + 1]
  BY <1>1
<1>4. CASE DocHeld(box, h, k + 1)
  BY <1>3, <1>4 DEF DocHeld
<1>5. CASE DocBefore(box, k + 1)
  <2>1. PICK m \in 1 .. (k + 1) :
           "doc" \in box[m].parts /\ \A l \in (m + 1) .. (k + 1) : box[l].mb = FALSE
    BY <1>5 DEF DocBefore
  <2>2. CASE m = 1
    <3>1. \A l \in 1 .. k : l + 1 \in (m + 1) .. (k + 1)
      BY <2>2
    <3> QED
      BY <1>3, <2>1, <2>2, <3>1 DEF DocHeld
  <2>3. CASE m # 1
    <3>1. m - 1 \in 1 .. k /\ (m - 1) + 1 = m /\ \A l \in ((m - 1) + 1) .. k : l \in 1 .. k /\ l + 1 \in (m + 1) .. (k + 1)
      BY <2>3
    <3>2. "doc" \in Tail(box)[m - 1].parts
      BY <1>3, <2>1, <3>1
    <3>3. \A l \in ((m - 1) + 1) .. k : Tail(box)[l].mb = FALSE
      BY <1>3, <2>1, <3>1
    <3> QED
      BY <3>1, <3>2, <3>3 DEF DocBefore
  <2> QED
    BY <2>2, <2>3
<1> QED
  BY <1>2, <1>4, <1>5 DEF SidsFollow

(* ... and in the prefix of it.                                            *)
LEMMA TailInPrefix ==
    ASSUME NEW n, NEW box \in Seq(Sent(n)), box # <<>>, NEW h, InPrefix(box, h),
           box[1].mb = TRUE => "full" \notin h
    PROVE  InPrefix(Tail(box), h \cup box[1].parts)
<1>1. /\ Len(Tail(box)) = Len(box) - 1 /\ Len(box) \in Nat
      /\ \A k \in 1 .. Len(Tail(box)) : Tail(box)[k] = box[k + 1]
  BY HeadTailProperties, LenProperties
<1> SUFFICES ASSUME NEW k \in 1 .. Len(Tail(box)), "sid" \in Tail(box)[k].parts
             PROVE  /\ "full" \in h \cup box[1].parts => Begins(Tail(box), 1, k)
                    /\ \A l \in 1 .. (k - 1) : "full" \in Tail(box)[l].parts => Begins(Tail(box), l + 1, k)
  BY DEF InPrefix
<1>2. k + 1 \in 1 .. Len(box) /\ "sid" \in box[k + 1].parts
  BY <1>1
<1>3. /\ "full" \in h => Begins(box, 1, k + 1)
      /\ \A l \in 1 .. ((k + 1) - 1) : "full" \in box[l].parts => Begins(box, l + 1, k + 1)
  BY <1>2 DEF InPrefix
<1>4. ASSUME NEW l \in 1 .. k, Begins(box, l + 1, k + 1) PROVE Begins(Tail(box), l, k)
  <2>1. PICK j \in (l + 1) .. (k + 1) : box[j].mb = TRUE
    BY <1>4 DEF Begins
  <2>2. j - 1 \in l .. k /\ j - 1 \in 1 .. Len(Tail(box)) /\ (j - 1) + 1 = j
    BY <1>1
  <2>3. Tail(box)[j - 1] = box[j]
    BY <1>1, <2>2
  <2> QED
    BY <2>1, <2>2, <2>3 DEF Begins
<1>5. ASSUME "full" \in h PROVE Begins(box, 1 + 1, k + 1)
  <2>1. PICK j \in 1 .. (k + 1) : box[j].mb = TRUE
    BY <1>3, <1>5 DEF Begins
  <2>2. j # 1
    BY <1>5, <2>1
  <2>3. j \in (1 + 1) .. (k + 1)
    BY <2>2
  <2> QED
    BY <2>1, <2>3 DEF Begins
<1>6. "full" \in box[1].parts => Begins(box, 1 + 1, k + 1)
  <2>1. 1 \in 1 .. ((k + 1) - 1)
    OBVIOUS
  <2> QED
    BY <1>3, <2>1
<1>7. 1 \in 1 .. k
  OBVIOUS
<1>8. ASSUME NEW l \in 1 .. (k - 1), "full" \in Tail(box)[l].parts PROVE Begins(Tail(box), l + 1, k)
  <2>1. l \in 1 .. Len(Tail(box)) /\ l + 1 \in 1 .. ((k + 1) - 1) /\ l + 1 \in 1 .. k
    BY <1>1
  <2>2. "full" \in box[l + 1].parts
    BY <1>1, <1>8, <2>1
  <2>3. Begins(box, (l + 1) + 1, k + 1)
    BY <1>3, <2>1, <2>2
  <2> QED
    BY <1>4, <2>1, <2>3
<1> QED
  BY <1>4, <1>5, <1>6, <1>7, <1>8

(* Of a message whose prefix has been read, nothing more is looked for.    *)
LEMMA FullFollows ==
    ASSUME NEW box, NEW g, Follows(box, g), "full" \in g, NEW h, h \subseteq g
    PROVE  Follows(box, h)
<1>1. InPrefix(box, h)
  BY DEF Follows, InPrefix
<1>2. ASSUME NEW k \in 1 .. Len(box), "sid" \in box[k].parts PROVE DocBefore(box, k)
  <2>1. DocBefore(box, k) \/ DocHeld(box, g, k)
    BY <1>2 DEF Follows, SidsFollow
  <2>2. Begins(box, 1, k)
    BY <1>2 DEF Follows, InPrefix
  <2> QED
    BY <2>1, <2>2 DEF Begins, DocHeld
<1> QED
  BY <1>1, <1>2 DEF Follows, SidsFollow

(* A cursor that refuses a record loses the document with it.              *)
LEMMA LostFollows ==
    ASSUME NEW box, NEW g, Follows(box, g)
    PROVE  Follows(box, {"doc"})
<1>1. InPrefix(box, {"doc"})
  BY DEF Follows, InPrefix
<1>2. SidsFollow(box, {"doc"})
  BY DEF Follows, SidsFollow, DocHeld
<1> QED
  BY <1>1, <1>2 DEF Follows

(* A cursor that begins with a message has read nothing of it.             *)
LEMMA FreshFollows ==
    ASSUME NEW n, NEW box \in Seq(Sent(n)), NEW g, Follows(box, g), box = <<>> \/ box[1].mb # FALSE
    PROVE  Follows(box, {})
<1>1. InPrefix(box, {})
  BY DEF Follows, InPrefix
<1>2. SidsFollow(box, {})
  <2> SUFFICES ASSUME NEW k \in 1 .. Len(box), "sid" \in box[k].parts
               PROVE  DocBefore(box, k)
    BY DEF SidsFollow
  <2>1. 1 \in 1 .. k /\ box # <<>>
    BY EmptySeq, LenProperties
  <2>2. ~DocHeld(box, g, k)
    BY <2>1 DEF DocHeld
  <2> QED
    BY <2>2 DEF Follows, SidsFollow
<1> QED
  BY <1>1, <1>2 DEF Follows

(* The record the cursor reads, into the head it keeps.                    *)
LEMMA ReadFollows ==
    ASSUME NEW n, NEW box \in Seq(Sent(n)), box # <<>>, NEW h, Follows(box, h),
           box[1].mb = TRUE => "full" \notin h
    PROVE  /\ Follows(Tail(box), IF "full" \in h THEN h ELSE h \cup box[1].parts)
           /\ Follows(Tail(box), {"doc"})
<1>1. Follows(Tail(box), h \cup box[1].parts)
  BY TailFollows, TailInPrefix DEF Follows
<1>2. "full" \in h => Follows(Tail(box), h)
  BY <1>1, FullFollows
<1> QED
  BY <1>1, <1>2, LostFollows

LEMMA RestInPrefix ==
    ASSUME NEW n, NEW box \in Seq(Sent(n)), NEW h, Framed(box), InPrefix(box, h),
           NEW m \in 1 .. Len(box), box[m].me = TRUE, NEW g
    PROVE  InPrefix(SubSeq(box, m + 1, Len(box)), g)
<1> DEFINE rest == SubSeq(box, m + 1, Len(box))
<1>1. /\ rest # <<>> => rest[1].mb = TRUE
      /\ Len(rest) = Len(box) - m
      /\ \A k \in 1 .. Len(rest) : rest[k] = box[k + m]
      /\ rest \in Seq(Sent(n))
  BY RestFramed
<1>2. Len(box) \in Nat
  BY LenProperties
<1> HIDE DEF rest
<1> SUFFICES ASSUME NEW k \in 1 .. Len(rest), "sid" \in rest[k].parts
             PROVE  /\ Begins(rest, 1, k)
                    /\ \A l \in 1 .. (k - 1) : "full" \in rest[l].parts => Begins(rest, l + 1, k)
  BY DEF InPrefix, rest
<1>3. k + m \in 1 .. Len(box) /\ "sid" \in box[k + m].parts /\ rest # <<>> /\ 1 \in 1 .. k
  BY <1>1, <1>2, EmptySeq
<1>4. Begins(rest, 1, k)
  BY <1>1, <1>3 DEF Begins
<1>5. ASSUME NEW l \in 1 .. (k - 1), "full" \in rest[l].parts PROVE Begins(rest, l + 1, k)
  <2>1. l \in 1 .. Len(rest) /\ l + m \in 1 .. ((k + m) - 1)
    BY <1>1, <1>2
  <2>2. "full" \in box[l + m].parts
    BY <1>1, <1>5, <2>1
  <2>3. PICK j \in ((l + m) + 1) .. (k + m) : box[j].mb = TRUE
    BY <1>3, <2>1, <2>2 DEF InPrefix, Begins
  <2>4. j - m \in (l + 1) .. k /\ j - m \in 1 .. Len(rest) /\ (j - m) + m = j
    <3>1. PICK d \in Nat, e \in Nat : d = Len(rest) /\ e = Len(box) /\ d = e - m
      BY <1>1, <1>2, LenProperties
    <3>2. j \in Int /\ m \in Int /\ k \in Int /\ l \in Int /\ l >= 1 /\ k <= d /\ (l + m) + 1 <= j /\ j <= k + m
      BY <3>1
    <3> QED
      BY <3>1, <3>2
  <2>5. rest[j - m] = box[j]
    BY <1>1, <2>4
  <2>6. rest[j - m].mb = TRUE
    BY <2>3, <2>5
  <2> QED
    BY <2>4, <2>6 DEF Begins
<1> QED
  BY <1>4, <1>5

LEMMA RestFollows ==
    ASSUME NEW n, NEW box \in Seq(Sent(n)), NEW h, Framed(box), SidsFollow(box, h),
           NEW m \in 1 .. Len(box), box[m].me = TRUE, NEW g
    PROVE  SidsFollow(SubSeq(box, m + 1, Len(box)), g)
<1> DEFINE rest == SubSeq(box, m + 1, Len(box))
<1>1. /\ rest # <<>> => box[m + 1].mb = TRUE
      /\ Len(rest) = Len(box) - m
      /\ \A k \in 1 .. Len(rest) : rest[k] = box[k + m]
      /\ rest \in Seq(Sent(n))
  BY RestFramed
<1>2. Len(box) \in Nat
  BY LenProperties
<1> HIDE DEF rest
<1> SUFFICES ASSUME NEW k \in 1 .. Len(rest), "sid" \in rest[k].parts
             PROVE  DocBefore(rest, k)
  BY DEF SidsFollow, rest
<1>3. k + m \in 1 .. Len(box) /\ "sid" \in box[k + m].parts /\ rest # <<>>
  BY <1>1, <1>2, EmptySeq
<1>4. m + 1 \in 1 .. (k + m) /\ box[m + 1].mb # FALSE
  <2>1. m + 1 \in 1 .. (k + m)
    BY <1>1, <1>2
  <2>2. box[m + 1].mb = TRUE
    BY <1>1, <1>3
  <2> QED
    BY <2>1, <2>2
<1>5. ~DocHeld(box, h, k + m)
  BY <1>4 DEF DocHeld
<1>6. PICK j \in 1 .. (k + m) :
         "doc" \in box[j].parts /\ \A l \in (j + 1) .. (k + m) : box[l].mb = FALSE
  BY <1>3, <1>5 DEF SidsFollow, DocBefore
<1>7. j > m
  <2> SUFFICES ASSUME ~(j > m) PROVE FALSE
    OBVIOUS
  <2>1. m + 1 \in (j + 1) .. (k + m)
    OBVIOUS
  <2> QED
    BY <1>4, <1>6, <2>1
<1>8. /\ j - m \in 1 .. k /\ j - m \in 1 .. Len(rest) /\ (j - m) + m = j
      /\ \A l \in ((j - m) + 1) .. k : l \in 1 .. Len(rest) /\ l + m \in (j + 1) .. (k + m)
  BY <1>1, <1>2, <1>7
<1>9. "doc" \in rest[j - m].parts
  BY <1>1, <1>6, <1>8
<1>10. \A l \in ((j - m) + 1) .. k : rest[l].mb = FALSE
  BY <1>1, <1>6, <1>8
<1> QED
  BY <1>8, <1>9, <1>10 DEF DocBefore

(* What an answer is as a message.                                         *)
LEMMA MessageFollows ==
    ASSUME SessionAssumption, EnvelopeAssumption, NEW r, NEW a \in Answers \cup AuthAnswers
    PROVE  /\ Len(Message(r, a)) = Len(a) /\ Len(a) \in Nat /\ a # <<>> /\ Message(r, a) # <<>>
           /\ Framed(Message(r, a)) /\ Message(r, a)[1].mb = TRUE
           /\ SidsWithin(Message(r, a)) /\ PrefixWithin(Message(r, a))
<1>1. a \in Seq(SUBSET Parts) /\ a # <<>> /\ (a \in AuthAnswers => Len(a) = 1)
  BY AnswersTyped, EmptySeq DEF SessionAssumption
<1>2. Len(a) \in Nat /\ Len(a) > 0
  BY <1>1, LenProperties, EmptySeq
<1> DEFINE msg == Message(r, a)
<1>3. /\ Len(msg) = Len(a)
      /\ \A k \in 1 .. Len(a) : msg[k].parts = a[k] /\ msg[k].mb = (k = 1) /\ msg[k].me = (k = Len(a))
  BY <1>2 DEF Message
<1> HIDE DEF msg
<1>4. \A k \in 1 .. Len(a) : (msg[k].mb = TRUE <=> k = 1) /\ (msg[k].mb = FALSE <=> k # 1)
         /\ (msg[k].me = TRUE <=> k = Len(a))
  BY <1>3, Zenon
<1>5. msg # <<>>
  BY <1>2, <1>3, EmptySeq
<1>6. Framed(msg) /\ msg[1].mb = TRUE
  <2>1. 1 \in 1 .. Len(a) /\ Len(a) \in 1 .. Len(a)
    BY <1>2
  <2>2. ASSUME NEW k \in 1 .. Len(a), k < Len(a) PROVE k + 1 \in 1 .. Len(a) /\ k + 1 # 1 /\ k # Len(a)
    BY <1>2, <2>2
  <2> QED
    BY <1>3, <1>4, <2>1, <2>2 DEF Framed
<1>7. ASSUME NEW k \in 1 .. Len(a), "sid" \in msg[k].parts PROVE DocBefore(msg, k)
  <2>1. \E m \in 1 .. k : "doc" \in a[m]
    <3>1. CASE a \in Answers
      BY <1>3, <1>7, <3>1 DEF EnvelopeAssumption
    <3>2. CASE a \in AuthAnswers
      BY <1>1, <1>3, <1>7, <3>2 DEF AuthAnswers
    <3> QED
      BY <3>1, <3>2
  <2>2. PICK m \in 1 .. k : "doc" \in a[m]
    BY <2>1
  <2>3. m \in 1 .. Len(a) /\ \A l \in (m + 1) .. k : l \in 1 .. Len(a) /\ l # 1
    BY <1>2
  <2> QED
    BY <1>3, <1>4, <2>2, <2>3 DEF DocBefore
<1>8. ASSUME NEW k \in 1 .. Len(a), "sid" \in msg[k].parts, NEW l \in 1 .. (k - 1)
      PROVE  "full" \notin msg[l].parts
  <2>1. l \in 1 .. Len(a)
    BY <1>2
  <2>2. "full" \notin a[l]
    <3>1. CASE a \in Answers
      BY <1>3, <1>8, <3>1 DEF EnvelopeAssumption
    <3>2. CASE a \in AuthAnswers
      BY <1>1, <1>2, <3>2
    <3> QED
      BY <3>1, <3>2
  <2> QED
    BY <1>3, <2>1, <2>2
<1> QED
  BY <1>1, <1>2, <1>3, <1>5, <1>6, <1>7, <1>8 DEF SidsWithin, PrefixWithin, msg

(* A message arrives behind what is in the buffer.                         *)
Begun(msg) == msg # <<>> /\ msg[1].mb = TRUE
LEMMA JoinInPrefix ==
    ASSUME NEW n, NEW box \in Seq(Sent(n)), NEW msg \in Seq(Sent(n)), NEW h,
           InPrefix(box, h), PrefixWithin(msg), Begun(msg)
    PROVE  InPrefix(box \o msg, h)
<1> DEFINE all == box \o msg
<1>1. /\ Len(all) = Len(box) + Len(msg) /\ Len(box) \in Nat /\ Len(msg) \in Nat
      /\ \A k \in 1 .. Len(box) : all[k] = box[k]
      /\ \A k \in 1 .. Len(msg) : all[Len(box) + k] = msg[k]
  <2>1. Len(all) = Len(box) + Len(msg) /\ Len(box) \in Nat /\ Len(msg) \in Nat
    BY ConcatProperties, LenProperties
  <2>2. ASSUME NEW k \in 1 .. Len(box) PROVE all[k] = box[k]
    BY <2>1, ConcatProperties
  <2>3. ASSUME NEW k \in 1 .. Len(msg) PROVE all[Len(box) + k] = msg[k]
    BY <2>1, ConcatProperties
  <2> QED
    BY <2>1, <2>2, <2>3
<1> HIDE DEF all
<1> SUFFICES ASSUME NEW k \in 1 .. Len(all), "sid" \in all[k].parts
             PROVE  /\ "full" \in h => Begins(all, 1, k)
                    /\ \A l \in 1 .. (k - 1) : "full" \in all[l].parts => Begins(all, l + 1, k)
  BY DEF InPrefix, all
<1>2. CASE k <= Len(box)
  <2>1. k \in 1 .. Len(box) /\ "sid" \in box[k].parts /\ \A l \in 1 .. k : all[l] = box[l]
    BY <1>1, <1>2
  <2>2. ASSUME NEW l \in 1 .. k, Begins(box, l, k) PROVE Begins(all, l, k)
    BY <2>1, <2>2 DEF Begins
  <2>3. "full" \in h => Begins(all, 1, k)
    BY <2>1, <2>2 DEF InPrefix
  <2>4. ASSUME NEW l \in 1 .. (k - 1), "full" \in all[l].parts PROVE Begins(all, l + 1, k)
    <3>1. l \in 1 .. k /\ l + 1 \in 1 .. k
      OBVIOUS
    <3> QED
      BY <2>1, <2>2, <2>4, <3>1 DEF InPrefix
  <2> QED
    BY <2>3, <2>4
<1>3. CASE ~(k <= Len(box))
  <2>1. PICK j \in 1 .. Len(msg) : k = Len(box) + j
    <3>1. k - Len(box) \in 1 .. Len(msg) /\ k = Len(box) + (k - Len(box))
      BY <1>1, <1>3
    <3> QED
      BY <3>1
  <2>2. "sid" \in msg[j].parts
    BY <1>1, <2>1
  <2>3. 1 \in 1 .. Len(msg) /\ Len(box) + 1 \in 1 .. k /\ all[Len(box) + 1].mb = TRUE
    BY <1>1, <2>1 DEF Begun
  <2>4. ASSUME NEW l \in 1 .. (k - 1), "full" \in all[l].parts PROVE Begins(all, l + 1, k)
    <3>1. CASE l <= Len(box)
      <4>1. Len(box) + 1 \in (l + 1) .. k
        BY <1>1, <2>3, <3>1
      <4> QED
        BY <2>3, <4>1 DEF Begins
    <3>2. CASE ~(l <= Len(box))
      <4>1. l - Len(box) \in 1 .. (j - 1) /\ l - Len(box) \in 1 .. Len(msg) /\ l = Len(box) + (l - Len(box))
        BY <1>1, <2>1, <3>2
      <4>2. all[l] = msg[l - Len(box)]
        BY <1>1, <4>1
      <4> QED
        BY <2>2, <2>4, <4>1, <4>2 DEF PrefixWithin
    <3> QED
      BY <3>1, <3>2
  <2> QED
    BY <2>3, <2>4 DEF Begins
<1> QED
  BY <1>2, <1>3

LEMMA JoinFollows ==
    ASSUME NEW n, NEW box \in Seq(Sent(n)), NEW msg \in Seq(Sent(n)), NEW h,
           SidsFollow(box, h), SidsWithin(msg)
    PROVE  SidsFollow(box \o msg, h)
<1> DEFINE all == box \o msg
<1>1. /\ Len(all) = Len(box) + Len(msg) /\ Len(box) \in Nat /\ Len(msg) \in Nat
      /\ \A k \in 1 .. Len(box) : all[k] = box[k]
      /\ \A k \in 1 .. Len(msg) : all[Len(box) + k] = msg[k]
  <2>1. Len(all) = Len(box) + Len(msg) /\ Len(box) \in Nat /\ Len(msg) \in Nat
    BY ConcatProperties, LenProperties
  <2>2. ASSUME NEW k \in 1 .. Len(box) PROVE all[k] = box[k]
    BY <2>1, ConcatProperties
  <2>3. ASSUME NEW k \in 1 .. Len(msg) PROVE all[Len(box) + k] = msg[k]
    BY <2>1, ConcatProperties
  <2> QED
    BY <2>1, <2>2, <2>3
<1> HIDE DEF all
<1> SUFFICES ASSUME NEW k \in 1 .. Len(all), "sid" \in all[k].parts
             PROVE  DocBefore(all, k) \/ DocHeld(all, h, k)
  BY DEF SidsFollow, all
<1>2. CASE k <= Len(box)
  <2>1. k \in 1 .. Len(box) /\ "sid" \in box[k].parts /\ \A l \in 1 .. k : all[l] = box[l]
    BY <1>1, <1>2
  <2>2. DocBefore(box, k) \/ DocHeld(box, h, k)
    BY <2>1 DEF SidsFollow
  <2>3. CASE DocHeld(box, h, k)
    BY <2>1, <2>3 DEF DocHeld
  <2>4. CASE DocBefore(box, k)
    <3>1. PICK m \in 1 .. k :
             "doc" \in box[m].parts /\ \A l \in (m + 1) .. k : box[l].mb = FALSE
      BY <2>4 DEF DocBefore
    <3>2. \A l \in (m + 1) .. k : l \in 1 .. k
      OBVIOUS
    <3> QED
      BY <2>1, <3>1, <3>2 DEF DocBefore
  <2> QED
    BY <2>2, <2>3, <2>4
<1>3. CASE ~(k <= Len(box))
  <2>1. PICK j \in 1 .. Len(msg) : k = Len(box) + j
    <3>1. k - Len(box) \in 1 .. Len(msg) /\ k = Len(box) + (k - Len(box))
      BY <1>1, <1>3
    <3> QED
      BY <3>1
  <2>2. "sid" \in msg[j].parts
    BY <1>1, <2>1
  <2>3. PICK m \in 1 .. j :
           "doc" \in msg[m].parts /\ \A l \in (m + 1) .. j : msg[l].mb = FALSE
    BY <2>2 DEF DocBefore, SidsWithin
  <2>4. Len(box) + m \in 1 .. k /\ all[Len(box) + m] = msg[m]
    BY <1>1, <2>1
  <2>5. ASSUME NEW l \in ((Len(box) + m) + 1) .. k PROVE all[l].mb = FALSE
    <3>1. l - Len(box) \in (m + 1) .. j /\ l - Len(box) \in 1 .. Len(msg)
          /\ l = Len(box) + (l - Len(box))
      BY <1>1, <2>1
    <3>2. all[l] = msg[l - Len(box)]
      BY <1>1, <3>1
    <3> QED
      BY <2>3, <3>1, <3>2
  <2> QED
    BY <2>3, <2>4, <2>5 DEF DocBefore
<1> QED
  BY <1>2, <1>3

(* Steps that leave alone what the connection carries and what has been    *)
(* read of it.                                                             *)
Aside ==
    /\ UNCHANGED <<inbox, pending, in_message, conn, session_id, id_seen, last>>
    /\ cur'.req = cur.req /\ cur'.conn = cur.conn /\ cur'.head = cur.head
    /\ cur'.complete = cur.complete /\ cur'.refused = cur.refused
    /\ stream' = stream \/ (stream' = TRUE /\ pc = "connect")
    /\ pc' \in Opening => pc \in Opening
    /\ pc' = "pump" => cur.complete = FALSE

LEMMA StepsAside ==
    ASSUME SInv, Next
    PROVE  \/ Aside
           \/ Open \/ Close \/ Request \/ (\E received \in BOOLEAN : SendFails(received))
           \/ ExecuteCursor \/ DestroyCursor \/ AbandonCursor \/ AuthReply
           \/ (\E done \in BOOLEAN : StepEmits(done)) \/ Reply \/ ReplyRefused
           \/ Pump \/ RecordRefused \/ Server
<1> USE DEF Aside, Opening, handles, shake, net, hist
<1>1. cur \in Cursors
  BY DEF SInv, TInv, CursorTyped
<1>2. CASE CallNext \/ ReplyNoMB \/ ReplyFails
  BY <1>2 DEF CallNext, ReplyNoMB, ReplyFails
<1>3. CASE NextRow \/ NextDrained \/ NextClosed \/ PumpFails
  BY <1>1, <1>3 DEF NextRow, NextDrained, NextClosed, PumpFails, Cursors
<1>4. CASE ConnectFails \/ StepFails \/ AuthReplyFails \/ CannotSeal
  BY <1>4 DEF ConnectFails, StepFails, AuthReplyFails, CannotSeal, OpenFailed
<1>5. CASE Connects \/ StepCompletes \/ MakesSealProvider
  BY <1>5 DEF Connects, StepCompletes, MakesSealProvider
<1>6. CASE NextPumps
  <2>1. cur.complete = FALSE
    <3>1. cur.complete \in BOOLEAN
      BY <1>1 DEF Cursors
    <3> QED
      BY <1>6, <3>1, Zenon DEF NextPumps
  <2> QED
    BY <1>6, <2>1 DEF NextPumps
<1> QED
  BY <1>2, <1>3, <1>4, <1>5, <1>6 DEF Next, Caller, Call, Handshake

(* What a cursor's head is fed.                                            *)
LEMMA HeadFed ==
    ASSUME SInv, MessagesInv, "sid" \in cur.head => "doc" \in cur.head, cur.conn = conn,
           inbox # <<>>, cur.req # 0, cur.complete = FALSE, stream = TRUE,
           NEW parts \in Unsealed
    PROVE  /\ parts = IF cur.refused = TRUE THEN {} ELSE inbox[1].parts
           /\ inbox[1].mb = TRUE => "full" \notin HeadRead
           /\ FedHead(parts) = IF "full" \in cur.head THEN cur.head ELSE cur.head \cup parts
           /\ "sid" \in FedHead(parts) => "doc" \in FedHead(parts)
           /\ "sid" \in FedHead(parts) <=> "sid" \in cur.head \cup parts
<1>1. cur.refused \in BOOLEAN /\ 1 \in 1 .. Len(inbox) /\ Head(inbox) = inbox[1]
  BY LenProperties, EmptySeq DEF SInv, TInv, NetTyped, CursorTyped, Cursors
<1>2. parts = IF cur.refused = TRUE THEN {} ELSE inbox[1].parts
  <2>1. CASE cur.refused = TRUE
    BY <2>1 DEF Unsealed
  <2>2. CASE cur.refused = FALSE
    BY <1>1, <2>2 DEF Unsealed
  <2> QED
    BY <1>1, <2>1, <2>2
<1>3. inbox[1].mb = TRUE => "full" \notin HeadRead
  BY <1>1 DEF MessagesInv, Fresh, HeadRead
<1>4. FedHead(parts) = IF "full" \in cur.head THEN cur.head ELSE cur.head \cup parts
  BY DEF FedHead
<1>5. CASE cur.refused = TRUE
  BY <1>2, <1>3, <1>4, <1>5
<1>6. CASE cur.refused = FALSE
  <2>1. HeadRead = cur.head /\ parts = inbox[1].parts
    BY <1>2, <1>6 DEF HeadRead
  <2>2. "sid" \in parts => DocBefore(inbox, 1) \/ DocHeld(inbox, cur.head, 1)
    BY <1>1, <2>1 DEF MessagesInv, Follows, SidsFollow
  <2>3. "sid" \in parts => "doc" \in cur.head \cup parts
    BY <1>1, <2>1, <2>2 DEF DocBefore, DocHeld
  <2>4. ASSUME "sid" \in parts PROVE "full" \notin cur.head
    <3>1. "full" \in cur.head => Begins(inbox, 1, 1)
      BY <1>1, <2>1, <2>4 DEF MessagesInv, Follows, InPrefix
    <3>2. Begins(inbox, 1, 1) => inbox[1].mb = TRUE
      BY DEF Begins
    <3> QED
      BY <1>3, <2>1, <3>1, <3>2
  <2> QED
    BY <1>2, <1>3, <1>4, <2>3, <2>4
<1> QED
  BY <1>1, <1>5, <1>6

(* Messages stay in a row, and half a message belongs to the cursor.       *)
LEMMA MessagesKept ==
    ASSUME SessionAssumption, EnvelopeAssumption, SInv, MessagesInv,
           IdsInv, Careful, Next
    PROVE  MessagesInv'
<1> USE DEF MessagesInv, NoStream, HalfRead, Attended, Opening
<1>1. inbox \in Seq(Sent(reqs)) /\ cur \in Cursors /\ stream \in BOOLEAN /\ in_message \in BOOLEAN
      /\ cur.complete \in BOOLEAN /\ cur.refused \in BOOLEAN /\ (cur.req # 0 => cur.conn = conn)
  BY DEF SInv, TInv, NetTyped, CursorTyped, Cursors, BoolsTyped, IdsInv
<1>2. \A h : Framed(<<>>) /\ Follows(<<>>, h)
  BY DEF Framed, Follows, SidsFollow, InPrefix
<1>3. CASE Aside
  BY <1>3 DEF Aside, Fresh, HeadRead
<1>4. CASE Open \/ Close
  <2>1. pending' = <<>> /\ inbox' = <<>> /\ stream' = FALSE /\ cur' = cur
        /\ pc' \in {"connect", "idle"}
    BY <1>4 DEF Open, Close, Closed
  <2>2. pc' = "connect" => cur.req = 0
    <3>1. CASE Open
      BY <3>1, Zenon DEF Open, MayOpen, Careful
    <3>2. CASE Close
      BY <3>2 DEF Close
    <3> QED
      BY <1>4, <3>1, <3>2
  <2> QED
    BY <1>2, <2>1, <2>2 DEF Fresh
<1>5. CASE Request \/ \E received \in BOOLEAN : SendFails(received)
  <2>1. stream = TRUE /\ UNCHANGED <<stream, inbox, in_message, cur>> /\ pc' \in {"idle", "reply"}
    BY <1>5 DEF Request, SendFails, SendsRequest, handles, SInv, TInv, CInv, Control
  <2> QED
    BY <2>1 DEF Fresh, HeadRead
<1>6. CASE ExecuteCursor
  <2>1. /\ stream = TRUE /\ UNCHANGED <<stream, inbox, in_message>> /\ cur.req = 0
        /\ pc' = "idle" /\ cur'.head = {} /\ cur'.refused = FALSE
    BY <1>6 DEF ExecuteCursor, SendsRequest, NoCursor, handles, SInv, TInv, CInv, Control
  <2>2. inbox = <<>> \/ inbox[1].mb # FALSE
    BY <2>1
  <2>3. Follows(inbox, {})
    BY <1>1, <2>2, FreshFollows
  <2> QED
    BY <2>1, <2>2, <2>3 DEF Fresh, HeadRead
<1>7. CASE DestroyCursor
  <2>1. /\ UNCHANGED <<stream, inbox, pending, in_message>> /\ (cur.complete = TRUE \/ stream = FALSE)
        /\ pc' = "idle" /\ cur' = NoCursor
    BY <1>1, <1>7, Zenon DEF DestroyCursor, handles, net
  <2>2. inbox = <<>> \/ inbox[1].mb # FALSE
    BY <2>1
  <2>3. Follows(inbox, {})
    BY <1>1, <2>2, FreshFollows
  <2> QED
    BY <2>1, <2>2, <2>3 DEF Fresh, HeadRead, NoCursor
<1>8. CASE AbandonCursor
  <2>1. /\ UNCHANGED <<stream, pending>> /\ stream = TRUE /\ (inbox' = <<>> \/ (inbox' = inbox /\ in_message = FALSE))
        /\ pc' = "idle" /\ cur' = NoCursor
    BY <1>1, <1>8, Zenon DEF AbandonCursor
  <2>2. CASE inbox' = <<>>
    BY <1>2, <2>1, <2>2 DEF Fresh, HeadRead, NoCursor
  <2>3. CASE inbox' = inbox /\ in_message = FALSE
    <3>1. inbox = <<>> \/ inbox[1].mb # FALSE
      BY <2>3
    <3>2. Follows(inbox, {})
      BY <1>1, <3>1, FreshFollows
    <3> QED
      BY <2>1, <2>3, <3>1, <3>2 DEF Fresh, HeadRead, NoCursor
  <2> QED
    BY <2>1, <2>2, <2>3
<1>9. CASE AuthReply
  <2>1. pc = "auth" /\ inbox # <<>> /\ inbox' = Tail(inbox) /\ UNCHANGED <<stream, pending, cur>>
        /\ pc' # "pump"
    BY <1>9 DEF AuthReply, OpenFailed, handles
  <2>2. pending = <<>> /\ Len(inbox) = 1
    BY <2>1 DEF SInv, Tokens
  <2>3. Tail(inbox) = <<>>
    BY <1>1, <2>1, <2>2, HeadTailProperties, EmptySeq
  <2>4. cur.req = 0 /\ cur'.req = 0
    BY <2>1
  <2>5. Follows(<<>>, HeadRead') /\ Framed(<<>>)
    BY <1>2
  <2>6. Fresh'
    BY <2>4 DEF Fresh
  <2> QED
    BY <2>1, <2>3, <2>4, <2>5, <2>6
<1>10. CASE \E done \in BOOLEAN : StepEmits(done)
  <2>1. stream = TRUE /\ UNCHANGED <<stream, inbox, in_message, cur>> /\ pc = "step" /\ pc' = "auth"
    BY <1>10 DEF StepEmits, SInv, TInv, CInv, Control
  <2> QED
    BY <2>1 DEF Fresh, HeadRead
<1>11. CASE Reply \/ ReplyRefused
  <2>1. PICK n \in 1 .. Len(inbox) : inbox[n].me /\ inbox' = SubSeq(inbox, n + 1, Len(inbox))
    BY <1>11 DEF Reply, ReplyRefused, TakeMessage
  <2>2. inbox[n] \in Sent(reqs)
    BY <1>1, <2>1, ElementOfSeq
  <2>3. inbox[n].me = TRUE
    BY <2>1, <2>2, Zenon DEF Sent
  <2>4. UNCHANGED <<stream, pending, cur, in_message>> /\ stream = TRUE /\ pc' = "idle"
        /\ inbox # <<>> /\ Head(inbox).mb
    BY <1>11 DEF Reply, ReplyRefused, handles, SInv, TInv, CInv, Control
  <2>5. Framed(inbox') /\ (inbox' # <<>> => inbox'[1].mb = TRUE)
    <3> DEFINE rest == SubSeq(inbox, n + 1, Len(inbox))
    <3>1. inbox \in Seq(Sent(reqs)) /\ Framed(inbox)
      BY <1>1
    <3>2. Framed(rest)
      BY <2>3, <3>1, RestFramed
    <3>3. ASSUME rest # <<>> PROVE rest[1].mb = TRUE
      BY <2>3, <3>1, <3>3, RestStarts
    <3> QED
      BY <2>1, <3>2, <3>3
  <2>6. Follows(inbox', HeadRead)
    BY <1>1, <2>1, <2>3, RestFollows, RestInPrefix DEF Follows
  <2>7. inbox[1].mb = TRUE
    <3>1. Head(inbox) = inbox[1] /\ inbox[1] \in Sent(reqs)
      BY <1>1, <2>1, <2>4, ElementOfSeq
    <3>2. inbox[1].mb \in BOOLEAN
      BY <3>1 DEF Sent
    <3> QED
      BY <2>4, <3>1, <3>2, Zenon
  <2>8. Fresh' /\ HeadRead' = HeadRead
    BY <2>4, <2>7 DEF Fresh, HeadRead
  <2> QED
    BY <2>4, <2>5, <2>6, <2>8
<1>12. CASE Pump \/ RecordRefused
  <2>1. inbox # <<>> /\ inbox' = Tail(inbox) /\ UNCHANGED <<stream, pending>> /\ stream = TRUE
        /\ pc = "pump" /\ cur.req # 0 /\ cur.complete = FALSE /\ pc' # "pump" /\ pc' \notin Opening
        /\ in_message' = ~Head(inbox).me
    BY <1>12 DEF Pump, RecordRefused, Reads, handles, SInv, TInv, CInv, Control
  <2>2. Head(inbox) = inbox[1] /\ inbox[1] \in Sent(reqs) /\ inbox[1].me \in BOOLEAN
    <3>1. Head(inbox) = inbox[1] /\ inbox[1] \in Sent(reqs)
      BY <1>1, <2>1, EmptySeq, LenProperties
    <3> QED
      BY <3>1 DEF Sent
  <2>3. /\ Framed(Tail(inbox)) /\ (Tail(inbox) = <<>> => inbox[1].me = TRUE)
        /\ Tail(inbox) # <<>> => (inbox[1].me = TRUE <=> Tail(inbox)[1].mb = TRUE)
    <3>1. ASSUME Tail(inbox) = <<>> PROVE inbox[1].me = TRUE
      <4>1. Len(Tail(inbox)) = Len(inbox) - 1 /\ Len(inbox) \in Nat
        BY <1>1, <2>1, HeadTailProperties, LenProperties
      <4>2. Len(Tail(inbox)) = 0
        BY <3>1, EmptySeq
      <4>3. Len(inbox) = 1
        BY <4>1, <4>2
      <4> QED
        BY <2>1, <4>3 DEF Framed
    <3> QED
      BY <1>1, <2>1, <3>1, TailFramed
  <2>4. inbox[1].mb = TRUE => "full" \notin HeadRead
    BY <1>1, <2>1 DEF Fresh, HeadRead
  <2>5. /\ Follows(Tail(inbox), IF "full" \in HeadRead THEN HeadRead ELSE HeadRead \cup inbox[1].parts)
        /\ Follows(Tail(inbox), {"doc"})
    BY <1>1, <2>1, <2>4, ReadFollows
  <2>6. CASE Pump
    <3>1. PICK parts \in Unsealed :
             /\ cur'.req = cur.req /\ cur'.complete = Head(inbox).me
             /\ cur'.head = FedHead(parts) /\ cur'.refused = cur.refused
      BY <1>1, <2>6 DEF Pump, Fed, Cursors
    <3>2. /\ parts = IF cur.refused = TRUE THEN {} ELSE inbox[1].parts
          /\ FedHead(parts) = IF "full" \in cur.head THEN cur.head ELSE cur.head \cup parts
      BY <1>1, <2>1, HeadFed DEF IdsInv
    <3>3. Follows(Tail(inbox), HeadRead')
      <4>1. CASE cur.refused = TRUE
        BY <2>5, <3>1, <4>1 DEF HeadRead
      <4>2. CASE cur.refused = FALSE
        BY <2>5, <3>1, <3>2, <4>2 DEF HeadRead
      <4> QED
        BY <1>1, <4>1, <4>2
    <3>4. Fresh'
      BY <2>1, <2>2, <2>3, <3>1 DEF Fresh
    <3> QED
      BY <2>1, <2>2, <2>3, <3>1, <3>3, <3>4
  <2>7. CASE RecordRefused
    <3>1. cur'.req = cur.req /\ cur'.complete = cur.complete /\ cur'.refused = TRUE
      BY <2>7, CursorRefused DEF SInv, TInv
    <3>2. Fresh' /\ HeadRead' = {"doc"}
      BY <3>1 DEF Fresh, HeadRead
    <3> QED
      BY <2>1, <2>2, <2>3, <2>5, <3>1, <3>2
  <2> QED
    BY <1>12, <2>6, <2>7
<1>13. CASE Server
  <2>1. PICK a \in Answers \cup AuthAnswers : ServerAnswers(a)
    BY <1>13 DEF Server
  <2>2. /\ pending # <<>> /\ inbox' = inbox \o Message(Head(pending), a)
        /\ UNCHANGED <<stream, in_message, cur, pc>>
    BY <2>1 DEF ServerAnswers, handles
  <2>3. Message(Head(pending), a) \in Seq(Sent(reqs))
    <3>1. a \in Seq(SUBSET Parts)
      BY AnswersTyped
    <3>2. Head(pending) \in 0 .. reqs /\ reqs \in Nat
      BY <2>2, HeadTailProperties DEF SInv, TInv, CInv, Connections, NetTyped
    <3> QED
      BY <3>1, <3>2, MessageTyped
  <2>4. PICK msg : msg = Message(Head(pending), a)
    OBVIOUS
  <2>5. /\ Len(msg) = Len(a) /\ msg # <<>> /\ Framed(msg) /\ msg[1].mb = TRUE
        /\ SidsWithin(msg) /\ PrefixWithin(msg)
    BY <2>4, MessageFollows
  <2>6. /\ inbox' = inbox \o msg /\ Framed(inbox \o msg) /\ Follows(inbox \o msg, HeadRead)
        /\ Len(inbox \o msg) = Len(inbox) + Len(msg)
        /\ \A k \in 1 .. Len(inbox) : (inbox \o msg)[k] = inbox[k]
        /\ \A k \in 1 .. Len(msg) : (inbox \o msg)[Len(inbox) + k] = msg[k]
    <3>1. msg \in Seq(Sent(reqs)) /\ inbox' = inbox \o msg
      BY <2>2, <2>3, <2>4
    <3>2. inbox \in Seq(Sent(reqs)) /\ Framed(inbox) /\ Follows(inbox, HeadRead)
      BY <1>1
    <3>3. /\ Framed(inbox \o msg)
          /\ Len(inbox \o msg) = Len(inbox) + Len(msg)
          /\ \A k \in 1 .. Len(inbox) : (inbox \o msg)[k] = inbox[k]
          /\ \A k \in 1 .. Len(msg) : (inbox \o msg)[Len(inbox) + k] = msg[k]
      <4>1. msg # <<>> /\ msg[1].mb = TRUE /\ Framed(msg)
        BY <2>5
      <4>2. Framed(inbox \o msg)
        BY <3>1, <3>2, <4>1, JoinFramed
      <4>3. Len(inbox \o msg) = Len(inbox) + Len(msg)
        BY <3>1, <3>2, ConcatProperties
      <4>4. ASSUME NEW k \in 1 .. Len(inbox) PROVE (inbox \o msg)[k] = inbox[k]
        BY <3>1, <3>2, ConcatProperties
      <4>5. ASSUME NEW k \in 1 .. Len(msg) PROVE (inbox \o msg)[Len(inbox) + k] = msg[k]
        BY <3>1, <3>2, ConcatProperties
      <4> QED
        BY <4>2, <4>3, <4>4, <4>5
    <3>4. Follows(inbox \o msg, HeadRead)
      <4>1. SidsFollow(inbox, HeadRead) /\ InPrefix(inbox, HeadRead)
        BY <3>2 DEF Follows
      <4>2. SidsFollow(inbox \o msg, HeadRead)
        BY <2>5, <3>1, <3>2, <4>1, JoinFollows
      <4>3. InPrefix(inbox \o msg, HeadRead)
        <5>1. PrefixWithin(msg) /\ Begun(msg)
          BY <2>5 DEF Begun
        <5> QED
          BY <3>1, <3>2, <4>1, <5>1, JoinInPrefix
      <4> QED
        BY <4>2, <4>3 DEF Follows
    <3> QED
      BY <3>1, <3>3, <3>4
  <2>7. CASE inbox = <<>>
    <3>1. 1 \in 1 .. Len(msg) /\ Len(inbox) = 0
      BY <2>3, <2>4, <2>5, <2>7, LenProperties, EmptySeq
    <3>2. inbox'[1].mb = TRUE
      BY <2>5, <2>6, <3>1
    <3>3. Fresh' /\ HeadRead' = HeadRead
      BY <2>2, <2>7 DEF Fresh, HeadRead
    <3> QED
      BY <2>2, <2>6, <3>2, <3>3
  <2>8. CASE inbox # <<>>
    <3>1. 1 \in 1 .. Len(inbox)
      BY <1>1, <2>8, LenProperties, EmptySeq
    <3>2. inbox'[1] = inbox[1]
      BY <2>6, <3>1
    <3>3. Fresh' /\ HeadRead' = HeadRead
      BY <2>2, <2>8, <3>2 DEF Fresh, HeadRead
    <3> QED
      BY <2>2, <2>6, <2>8, <3>2, <3>3
  <2> QED
    BY <2>7, <2>8
<1> QED
  BY <1>3, <1>4, <1>5, <1>6, <1>7, <1>8, <1>9, <1>10, <1>11, <1>12, <1>13, StepsAside

(* What a head that opens a document is taken for.                         *)
LEMMA VerdictOfDocument ==
    ASSUME NEW head, NEW done, "doc" \in head
    PROVE  HeadCategory(head, done) # "protocol"
BY DEF HeadCategory, FaultCategory

(* The id is known as soon as it has been read, and of this connection.    *)
LEMMA IdsKept ==
    ASSUME SessionAssumption, SInv, Careful, MessagesInv, IdsInv, Next
    PROVE  IdsInv'
<1> USE DEF IdsInv
<1>1. cur \in Cursors /\ id_seen \in BOOLEAN /\ session_id \in 0 .. conn /\ conn \in Nat
  BY DEF SInv, TInv, CInv, Connections, CursorTyped, BoolsTyped, NumbersTyped
<1>2. CASE Aside
  BY <1>2 DEF Aside
<1>3. CASE Open
  <2>1. cur.req = 0
    BY <1>3, Zenon DEF Open, MayOpen, Careful
  <2>2. session_id' = 0 /\ id_seen' = FALSE /\ UNCHANGED <<cur, last>>
    BY <1>3 DEF Open, Reset
  <2> QED
    BY <2>1, <2>2
<1>4. CASE Close \/ DestroyCursor \/ AbandonCursor \/ AuthReply
  <2>1. /\ UNCHANGED <<conn, session_id, id_seen, last>>
        /\ cur' = cur \/ cur' = NoCursor
    BY <1>4 DEF Close, DestroyCursor, AbandonCursor, AuthReply, OpenFailed, handles, hist
  <2> QED
    BY <2>1 DEF NoCursor
<1>5. CASE Request \/ ReplyRefused \/ \E received \in BOOLEAN : SendFails(received)
  <2>1. UNCHANGED <<conn, session_id, id_seen, cur>> /\ (last' = last \/ last' = Record("request"))
    BY <1>5 DEF Request, ReplyRefused, SendFails, handles, hist
  <2> QED
    BY <2>1 DEF Record
<1>6. CASE ExecuteCursor
  <2>1. /\ UNCHANGED <<conn, session_id, id_seen>> /\ last' = Record("request")
        /\ cur'.conn = conn /\ cur'.head = {}
    BY <1>6 DEF ExecuteCursor, NoCursor, handles
  <2> QED
    BY <2>1 DEF Record
<1>7. CASE \E done \in BOOLEAN : StepEmits(done)
  <2>1. UNCHANGED <<conn, session_id, id_seen, cur>> /\ last' = Record("token")
    BY <1>7 DEF StepEmits
  <2> QED
    BY <2>1 DEF Record
<1>8. CASE Server
  <2>1. UNCHANGED <<conn, session_id, id_seen, cur, last>>
    BY <1>8 DEF Server, ServerAnswers, handles
  <2> QED
    BY <2>1
<1>9. CASE Reply
  <2>1. PICK whole : /\ UNCHANGED <<conn, cur, last>>
                     /\ session_id' = IF session_id = 0 /\ "sid" \in whole THEN conn ELSE session_id
                     /\ id_seen' = (id_seen \/ "sid" \in whole)
    BY <1>9 DEF Reply, CaptureSessionId
  <2>2. id_seen' = TRUE <=> id_seen = TRUE \/ "sid" \in whole
    BY <1>1, <2>1, Zenon
  <2> QED
    BY <1>1, <2>1, <2>2
<1>10. CASE Pump
  <2>1. inbox # <<>> /\ cur.conn = conn /\ cur.req # 0 /\ stream = TRUE /\ cur.complete = FALSE
    BY <1>10 DEF Pump, SInv, TInv, CInv, Control, MessagesInv, Attended
  <2>2. PICK parts \in Unsealed :
        /\ cur' = [Fed(parts, Head(inbox)) EXCEPT
                     !.complete = Head(inbox).me,
                     !.broken = @ \/ HeadCategory(FedHead(parts), Head(inbox).me) # "ok"]
        /\ id_seen' = (id_seen \/ "sid" \in cur.head \cup parts)
        /\ IF HeadCategory(FedHead(parts), Head(inbox).me) # "protocol"
             THEN CaptureSessionId(FedHead(parts)) ELSE UNCHANGED session_id
    BY <1>10 DEF Pump
  <2>3. UNCHANGED <<conn, last>>
    BY <1>10 DEF Pump
  <2>4. /\ cur'.req = cur.req /\ cur'.conn = cur.conn /\ cur'.head = FedHead(parts)
        /\ cur'.refused = cur.refused
    BY <1>1, <2>2 DEF Fed, Cursors
  <2>5. /\ "sid" \in FedHead(parts) => "doc" \in FedHead(parts)
        /\ "sid" \in FedHead(parts) <=> "sid" \in cur.head \cup parts
    BY <2>1, HeadFed
  <2>6. "sid" \in FedHead(parts) => HeadCategory(FedHead(parts), Head(inbox).me) # "protocol"
    BY <2>5, VerdictOfDocument
  <2>7. session_id' = IF session_id = 0 /\ "sid" \in FedHead(parts) THEN conn ELSE session_id
    BY <2>2, <2>6 DEF CaptureSessionId
  <2>8. id_seen' = TRUE <=> id_seen = TRUE \/ "sid" \in FedHead(parts)
    BY <1>1, <2>2, <2>5, Zenon
  <2> QED
    BY <1>1, <2>1, <2>3, <2>4, <2>5, <2>7, <2>8
<1>11. CASE RecordRefused
  <2>1. inbox # <<>> /\ cur.conn = conn /\ cur.req # 0 /\ stream = TRUE /\ cur.complete = FALSE
    BY <1>11 DEF RecordRefused, SInv, TInv, CInv, Control, MessagesInv, Attended
  <2>2. UNCHANGED <<conn, last, session_id, id_seen>>
    BY <1>11 DEF RecordRefused, Reads, handles, hist
  <2>3. /\ cur'.req = cur.req /\ cur'.conn = cur.conn /\ cur'.refused = TRUE
        /\ cur'.head = cur.head \/ \E parts \in Unsealed : cur'.head = FedHead(parts)
    BY <1>11, CursorRefused DEF SInv, TInv
  <2>4. \A parts \in Unsealed : "sid" \in FedHead(parts) => "doc" \in FedHead(parts)
    BY <2>1, HeadFed
  <2> QED
    BY <1>1, <2>1, <2>2, <2>3, <2>4
<1> QED
  BY <1>2, <1>3, <1>4, <1>5, <1>6, <1>7, <1>8, <1>9, <1>10, <1>11, StepsAside

(* A caller that opens no connection under a cursor of another.            *)
IInv == SInv /\ (Careful => MessagesInv /\ IdsInv)

LEMMA IInvHolds ==
    ASSUME SessionAssumption, EnvelopeAssumption
    PROVE  (Init => IInv) /\ (IInv /\ [Next]_vars => IInv')
<1>1. Init => IInv
  <2>1. ASSUME Init PROVE MessagesInv /\ IdsInv
    BY <2>1 DEF Init, MessagesInv, NoStream, Attended, Opening, HalfRead, Fresh, Framed,
       Follows, SidsFollow, InPrefix, HeadRead, IdsInv, NoCursor
  <2> QED
    BY <2>1, SInvHoldsFirst DEF IInv
<1>2. IInv /\ [Next]_vars => IInv'
  <2> SUFFICES ASSUME IInv, [Next]_vars, Careful' PROVE MessagesInv' /\ IdsInv'
    BY SInvKept DEF IInv
  <2>1. Careful /\ MessagesInv /\ IdsInv
    BY DEF Next, vars, Careful, IInv
  <2>2. CASE Next
    BY <2>1, <2>2, MessagesKept, IdsKept DEF IInv
  <2>3. CASE UNCHANGED vars
    BY <2>1, <2>3 DEF MessagesInv, NoStream, Attended, HalfRead, Fresh, HeadRead, IdsInv, vars,
       handles, net, hist
  <2> QED
    BY <2>2, <2>3
<1> QED
  BY <1>1, <1>2

(* A request carries the SessionId of its connection exactly when one has  *)
(* been read on it, whoever read it (client.cpp:110, 225-237, 346-351).    *)
THEOREM SessionIdAlwaysCarried ==
    ASSUME SessionAssumption, EnvelopeAssumption
    PROVE  Spec => []SessionIdCarried
<1>1. Init => IInv
  BY IInvHolds
<1>2. IInv /\ [Next]_vars => IInv'
  BY IInvHolds
<1>3. IInv => SessionIdCarried
  <2> SUFFICES ASSUME IInv, Careful, last.kind = "request"
               PROVE  last.sid = IF last.id_seen THEN last.conn ELSE 0
    BY DEF SessionIdCarried, Careful
  <2> QED
    BY DEF IInv, IdsInv
<1> QED
  BY <1>1, <1>2, <1>3, PTL DEF Spec

-----------------------------------------------------------------------------
(* Refusals.                                                               *)

(* What is still to come tells, with what has been read, what the answer   *)
(* is: its records are parts of it, and a fault is in it before any row    *)
(* and before its end, in the prefix a cursor keeps.                       *)
ToldIn(box, h, k) ==
    \E m \in 1 .. k : /\ "code" \in box[m].parts
                      /\ "full" \notin h /\ \A l \in 1 .. (m - 1) : "full" \notin box[l].parts
Tells(box, h) ==
    \A k \in 1 .. Len(box) :
        /\ h \subseteq box[k].whole /\ \A m \in 1 .. Len(box) : box[m].parts \subseteq box[k].whole
        /\ "code" \in box[k].whole /\ ("row" \in box[k].parts \/ k = Len(box)) =>
             "code" \in h \/ ToldIn(box, h, k)
Reading ==
    state = "AUTHENTICATED" /\ erred = FALSE /\ ~Done =>
        (inbox = <<>> => cur.head = {}) /\ Tells(inbox, cur.head)

(* A cursor that has a row, or its end, is reading a rowset.               *)
RowsTrue ==
    /\ pc = "pump" => cur.rows = 0
    /\ cur.req # 0 /\ cur.broken = FALSE /\ (cur.rows > 0 \/ cur.complete = TRUE) =>
         WholeCategory(cur.whole) = "rows"
    /\ outcome.category \in {"rows", "drained"} => WholeCategory(outcome.whole) = "rows"

(* The rest of an answer tells, with the record read.                      *)
KeptHead(h, parts) == IF "full" \in h THEN h ELSE h \cup parts
LEMMA TailTells ==
    ASSUME NEW n, NEW box \in Seq(Sent(n)), box # <<>>, NEW h, Tells(box, h)
    PROVE  Tells(Tail(box), KeptHead(h, box[1].parts))
<1>1. /\ Len(Tail(box)) = Len(box) - 1 /\ Len(box) \in Nat
      /\ \A k \in 1 .. Len(Tail(box)) : Tail(box)[k] = box[k + 1]
  BY HeadTailProperties, LenProperties
<1>2. 1 \in 1 .. Len(box) /\ \A k \in 1 .. Len(Tail(box)) : k + 1 \in 1 .. Len(box)
  BY <1>1, EmptySeq
<1> DEFINE g == KeptHead(h, box[1].parts)
<1> HIDE DEF g
<1> SUFFICES ASSUME NEW k \in 1 .. Len(Tail(box))
             PROVE  /\ g \subseteq Tail(box)[k].whole
                    /\ \A m \in 1 .. Len(Tail(box)) : Tail(box)[m].parts \subseteq Tail(box)[k].whole
                    /\ "code" \in Tail(box)[k].whole /\ ("row" \in Tail(box)[k].parts \/ k = Len(Tail(box))) =>
                         "code" \in g \/ ToldIn(Tail(box), g, k)
  BY DEF Tells, g
<1>3. g \subseteq Tail(box)[k].whole
  BY <1>1, <1>2 DEF Tells, g, KeptHead
<1>4. \A m \in 1 .. Len(Tail(box)) : Tail(box)[m].parts \subseteq Tail(box)[k].whole
  BY <1>1, <1>2 DEF Tells
<1>5. ASSUME "code" \in Tail(box)[k].whole, "row" \in Tail(box)[k].parts \/ k = Len(Tail(box))
      PROVE  "code" \in g \/ ToldIn(Tail(box), g, k)
  <2>1. k + 1 \in 1 .. Len(box) /\ Tail(box)[k] = box[k + 1]
        /\ (k = Len(Tail(box)) => k + 1 = Len(box))
    <3>1. k = Len(Tail(box)) => k + 1 = Len(box)
      BY <1>1
    <3>2. k + 1 \in 1 .. Len(box)
      BY <1>2
    <3>3. Tail(box)[k] = box[k + 1]
      BY <1>1
    <3> QED
      BY <3>1, <3>2, <3>3
  <2>2. "code" \in h \/ ToldIn(box, h, k + 1)
    BY <1>5, <2>1 DEF Tells
  <2>3. "code" \in h => "code" \in g
    BY DEF g, KeptHead
  <2>4. CASE ToldIn(box, h, k + 1)
    <3>1. PICK m \in 1 .. (k + 1) :
            /\ "code" \in box[m].parts
            /\ "full" \notin h /\ \A l \in 1 .. (m - 1) : "full" \notin box[l].parts
      BY <2>4 DEF ToldIn
    <3>2. CASE m = 1
      BY <3>1, <3>2 DEF g, KeptHead
    <3>3. CASE m # 1
      <4>1. m - 1 \in 1 .. k /\ m - 1 \in 1 .. Len(Tail(box)) /\ (m - 1) + 1 = m /\ 1 \in 1 .. (m - 1)
        BY <1>1, <3>3
      <4>2. Tail(box)[m - 1] = box[m]
        BY <1>1, <4>1
      <4>3. "full" \notin g
        BY <3>1, <4>1 DEF g, KeptHead
      <4>4. ASSUME NEW l \in 1 .. ((m - 1) - 1) PROVE "full" \notin Tail(box)[l].parts
        <5>1. l \in 1 .. Len(Tail(box)) /\ l + 1 \in 1 .. (m - 1)
          BY <1>1, <4>1
        <5> QED
          BY <1>1, <3>1, <5>1
      <4> QED
        BY <3>1, <4>1, <4>2, <4>3, <4>4 DEF ToldIn
    <3> QED
      BY <3>2, <3>3
  <2> QED
    BY <2>2, <2>3, <2>4
<1> QED
  BY <1>3, <1>4, <1>5

(* So does a whole answer.                                                 *)
LEMMA MessageTells ==
    ASSUME SessionAssumption, EnvelopeAssumption, NEW r, NEW a \in Answers
    PROVE  Tells(Message(r, a), {}) /\ Message(r, a) # <<>>
<1>1. a \in Seq(SUBSET Parts) /\ a # <<>> /\ Len(a) \in Nat /\ Len(a) # 0
  BY LenProperties, EmptySeq DEF SessionAssumption
<1> DEFINE msg == Message(r, a)
<1>2. /\ Len(msg) = Len(a) /\ msg # <<>>
      /\ \A k \in 1 .. Len(a) : msg[k].parts = a[k] /\ msg[k].whole = UNION {a[m] : m \in 1 .. Len(a)}
  BY <1>1 DEF Message
<1> HIDE DEF msg
<1>3. \A k \in 1 .. Len(a) : "code" \in msg[k].whole <=> \E m \in 1 .. Len(a) : "code" \in a[m]
  BY <1>2
<1>4. ASSUME NEW k \in 1 .. Len(a), "code" \in msg[k].whole, "row" \in msg[k].parts \/ k = Len(a)
      PROVE  ToldIn(msg, {}, k)
  <2>1. PICK m \in 1 .. k : "code" \in a[m]
    BY <1>2, <1>3, <1>4 DEF EnvelopeAssumption
  <2>2. m \in 1 .. Len(a) /\ \A l \in 1 .. (m - 1) : l \in 1 .. Len(a)
    BY <1>1
  <2>3. \A l \in 1 .. (m - 1) : "full" \notin a[l]
    BY <2>1, <2>2 DEF EnvelopeAssumption
  <2> QED
    BY <1>2, <2>1, <2>2, <2>3 DEF ToldIn
<1>5. \A k \in 1 .. Len(a) : \A m \in 1 .. Len(a) : msg[m].parts \subseteq msg[k].whole
  BY <1>2
<1> QED
  BY <1>2, <1>4, <1>5 DEF Tells, msg

(* What the cursor takes for rows is rows.                                 *)
LEMMA ReadAsRows ==
    ASSUME NEW head, NEW whole, NEW done, head \subseteq whole,
           HeadCategory(head, done) = "ok", head # {} \/ done = TRUE,
           "code" \in whole => "code" \in head
    PROVE  WholeCategory(whole) = "rows"
BY DEF HeadCategory, FaultCategory, WholeCategory

(* Every step keeps what is read, and what it is read as.                  *)
LEMMA RefusalsKept ==
    ASSUME SessionAssumption, EnvelopeAssumption, SInv, Exchange, Reading, RowsTrue,
           licences = {}, cur.req # 0 => cur.conn = conn, Next
    PROVE  Reading' /\ RowsTrue'
<1>1. cur \in Cursors /\ erred \in BOOLEAN /\ inbox \in Seq(Sent(reqs)) /\ Tells(<<>>, {})
  BY DEF SInv, TInv, CursorTyped, BoolsTyped, NetTyped, Tells
<1>2. CASE ConnectFails \/ StepFails \/ AuthReplyFails \/ CannotSeal
  BY <1>2 DEF ConnectFails, StepFails, AuthReplyFails, CannotSeal, OpenFailed, Reading, RowsTrue
<1>3. CASE Connects \/ StepCompletes \/ AuthReply \/ \E done \in BOOLEAN : StepEmits(done)
  <2>1. state' # "AUTHENTICATED" /\ pc' # "pump" /\ UNCHANGED <<cur, outcome>>
    BY <1>3 DEF Connects, StepCompletes, AuthReply, StepEmits, OpenFailed, handles, SInv, TInv, CInv, Control
  <2> QED
    BY <2>1 DEF Reading, RowsTrue
<1>4. CASE Open \/ Close
  <2>1. state' # "AUTHENTICATED" /\ pc' # "pump" /\ cur' = cur /\ (outcome' = outcome \/ outcome' = NoOutcome)
    BY <1>4 DEF Open, Close, Closed, SInv, TInv, CInv, Control
  <2> QED
    BY <2>1 DEF Reading, RowsTrue, NoOutcome
<1>5. CASE MakesSealProvider
  <2>1. cur.req = 0 /\ UNCHANGED <<cur, outcome>> /\ pc' = "idle"
    BY <1>5 DEF MakesSealProvider, Exchange, Held
  <2> QED
    BY <2>1 DEF Reading, RowsTrue, Done
<1>6. CASE Request
  <2>1. Done /\ cur' = cur /\ pc' = "reply" /\ outcome' = NoOutcome
    BY <1>6, Unlicensed DEF Request, SendsRequest
  <2> QED
    BY <2>1 DEF Reading, RowsTrue, Done, NoOutcome
<1>7. CASE ReplyNoMB \/ ReplyRefused \/ ReplyFails \/ \E received \in BOOLEAN : SendFails(received)
  <2>1. /\ erred' = TRUE /\ cur' = cur /\ pc' = "idle"
        /\ outcome'.category \in {"connection", "protocol"}
    BY <1>7 DEF ReplyNoMB, ReplyRefused, ReplyFails, SendFails, SendsRequest, Failed, NoOutcome
  <2> QED
    BY <2>1 DEF Reading, RowsTrue
<1>8. CASE ExecuteCursor
  <2>1. Done /\ erred = FALSE /\ state = "AUTHENTICATED" /\ pc = "idle"
    BY <1>8, Unlicensed DEF ExecuteCursor, SendsRequest
  <2>2. inbox = <<>> /\ inbox' = inbox
    BY <1>8, <2>1 DEF ExecuteCursor, Exchange, Traffic
  <2>3. /\ cur'.head = {} /\ cur'.rows = 0 /\ cur'.complete = FALSE /\ pc' = "idle"
        /\ outcome' = NoOutcome
    BY <1>8, <2>1 DEF ExecuteCursor, NoCursor
  <2> QED
    BY <1>1, <2>2, <2>3 DEF Reading, RowsTrue, NoOutcome
<1>9. CASE CallNext
  BY <1>9 DEF CallNext, Reading, RowsTrue, Done, NoOutcome, handles, net
<1>10. CASE DestroyCursor
  BY <1>10 DEF DestroyCursor, Reading, RowsTrue, Done, NoCursor
<1>11. CASE AbandonCursor
  BY <1>11 DEF AbandonCursor, Reading, RowsTrue, NoCursor
<1>12. CASE Reply
  <2>1. Done /\ cur' = cur /\ pc' = "idle"
    BY <1>12 DEF Reply, Exchange, Traffic
  <2>2. outcome'.category = WholeCategory(outcome'.whole)
    BY <1>12 DEF Reply
  <2>3. outcome'.category # "drained"
    BY <2>2 DEF WholeCategory, FaultCategory
  <2> QED
    BY <2>1, <2>2, <2>3 DEF Reading, RowsTrue, Done
<1>13. CASE NextRow \/ NextDrained
  <2>1. /\ pc' = "idle" /\ UNCHANGED <<state, erred, inbox>>
        /\ cur'.req = cur.req /\ cur'.head = cur.head /\ cur'.complete = cur.complete
        /\ cur'.whole = cur.whole /\ outcome'.whole = cur.whole
    BY <1>1, <1>13 DEF NextRow, NextDrained, Ended, Cursors, handles, net
  <2>2. cur.req # 0 /\ cur.broken = FALSE
    BY <1>13 DEF NextRow, NextDrained, SInv, TInv, CInv, Control, Exchange, Held
  <2>3. cur.rows > 0 \/ cur.complete = TRUE
    BY <1>1, <1>13, Zenon DEF NextRow, NextDrained, Cursors
  <2>4. WholeCategory(cur.whole) = "rows"
    BY <2>2, <2>3 DEF RowsTrue
  <2> QED
    BY <2>1, <2>4 DEF Reading, RowsTrue, Done
<1>14. CASE NextPumps
  BY <1>14 DEF NextPumps, Reading, RowsTrue, Done, handles, net
<1>15. CASE NextClosed
  <2>1. /\ pc' = "idle" /\ UNCHANGED <<state, erred, inbox>> /\ outcome'.category = "connection"
        /\ cur'.req = cur.req /\ cur'.head = cur.head /\ cur'.complete = cur.complete
        /\ cur'.broken = TRUE
    BY <1>1, <1>15 DEF NextClosed, Failed, NoOutcome, Cursors, handles, net
  <2> QED
    BY <2>1 DEF Reading, RowsTrue, Done
<1>16. CASE PumpFails
  <2>1. pc' = "idle" /\ erred' = TRUE /\ outcome'.category = "connection" /\ cur'.broken = TRUE
    BY <1>1, <1>16 DEF PumpFails, Failed, NoOutcome, Cursors
  <2> QED
    BY <2>1 DEF Reading, RowsTrue
<1>17. CASE Pump
  <2>1. /\ pc = "pump" /\ inbox # <<>> /\ inbox' = Tail(inbox) /\ state' = state
        /\ cur.req # 0 /\ cur.broken = FALSE /\ erred = FALSE /\ cur.complete = FALSE
        /\ cur.rows = 0 /\ state = "AUTHENTICATED" /\ cur.refused # TRUE
    BY <1>17 DEF Pump, Reads, SInv, TInv, CInv, Control, Exchange, Held, RowsTrue
  <2>2. Carries(cur.req) /\ Tells(inbox, cur.head) /\ cur.conn = conn
    BY <2>1 DEF Exchange, Traffic, Reading, Done
  <2>3. Head(inbox) = inbox[1] /\ inbox[1] \in Sent(reqs) /\ 1 \in 1 .. Len(inbox)
    BY <1>1, <2>1, LenProperties, EmptySeq
  <2> DEFINE parts == inbox[1].parts
             head == KeptHead(cur.head, parts)
             verdict == HeadCategory(head, inbox[1].me)
  <2>4. Unsealed = {parts} /\ FedHead(parts) = head
    <3>1. cur.refused = FALSE
      BY <1>1, <2>1 DEF Cursors
    <3> QED
      BY <2>2, <2>3, <3>1 DEF Unsealed, FedHead, KeptHead
  <2>5. /\ cur'.req = cur.req /\ cur'.head = head /\ cur'.complete = inbox[1].me
        /\ cur'.rows = IF "row" \in parts THEN 1 ELSE 0
        /\ cur'.whole = inbox[1].whole
    BY <1>1, <1>17, <2>1, <2>3, <2>4 DEF Pump, Fed, Cursors
  <2>6. verdict # "ok" => cur'.broken = TRUE
    <3>1. PICK p \in Unsealed :
            cur' = [Fed(p, Head(inbox)) EXCEPT
                      !.complete = Head(inbox).me,
                      !.broken = @ \/ HeadCategory(FedHead(p), Head(inbox).me) # "ok"]
      BY <1>17 DEF Pump
    <3>2. verdict = HeadCategory(FedHead(p), Head(inbox).me)
      BY <2>3, <2>4
    <3> HIDE DEF verdict, head, parts
    <3>3. cur'.broken = (cur.broken \/ verdict # "ok")
      BY <1>1, <3>1, <3>2 DEF Fed, Cursors
    <3> QED
      BY <3>3
  <2>7. /\ verdict = "ok" => pc' = "next" /\ outcome' = outcome
        /\ verdict # "ok" => pc' = "idle" /\ outcome'.category = verdict
    <3>1. IF verdict = "ok" THEN pc' = "next" /\ UNCHANGED outcome
                            ELSE pc' = "idle" /\ Ended(verdict)
      BY <1>17, <2>3, <2>4 DEF Pump
    <3> HIDE DEF verdict
    <3> QED
      BY <3>1 DEF Ended
  <2>8. verdict \notin {"rows", "drained"}
    BY DEF HeadCategory, FaultCategory
  <2>9. Tells(Tail(inbox), head)
    BY <1>1, <2>1, <2>2, TailTells
  <2>10. inbox[1].me = TRUE \/ Tail(inbox) # <<>>
    BY <2>1, <2>2, <2>3, HeadOfAnswer DEF Sent
  <2>11. ASSUME verdict = "ok", "row" \in parts \/ inbox[1].me = TRUE
         PROVE  WholeCategory(inbox[1].whole) = "rows"
    <3>1. inbox[1].me = TRUE <=> 1 = Len(inbox)
      BY <2>1, <2>2, <2>3 DEF Carries
    <3>2. head \subseteq inbox[1].whole
      BY <2>2, <2>3 DEF Tells, KeptHead
    <3>3. "code" \in inbox[1].whole => "code" \in head
      <4> SUFFICES ASSUME "code" \in inbox[1].whole PROVE "code" \in head
        OBVIOUS
      <4>1. "code" \in cur.head \/ ToldIn(inbox, cur.head, 1)
        BY <2>2, <2>3, <2>11, <3>1 DEF Tells
      <4>2. ToldIn(inbox, cur.head, 1) => "code" \in parts /\ "full" \notin cur.head
        BY DEF ToldIn
      <4> QED
        BY <4>1, <4>2 DEF KeptHead
    <3>4. head # {} \/ inbox[1].me = TRUE
      BY <2>11 DEF KeptHead
    <3> HIDE DEF head
    <3> QED
      BY <2>11, <3>2, <3>3, <3>4, ReadAsRows
  <2>12. Reading'
    <3> HIDE DEF head
    <3> QED
      BY <2>1, <2>5, <2>9, <2>10 DEF Reading, Done
  <2>13. RowsTrue'
    <3>1. cur'.rows > 0 => "row" \in parts
      BY <2>5
    <3> HIDE DEF verdict, parts
    <3> QED
      BY <2>1, <2>5, <2>6, <2>7, <2>8, <2>11, <3>1 DEF RowsTrue
  <2> QED
    BY <2>12, <2>13
<1>18. CASE Server
  <2>1. PICK a \in Answers \cup AuthAnswers : ServerAnswers(a)
    BY <1>18 DEF Server
  <2>2. /\ pending # <<>> /\ inbox' = inbox \o Message(Head(pending), a)
        /\ a \in IF Head(pending) = 0 THEN AuthAnswers ELSE Answers
        /\ UNCHANGED <<state, pc, erred, cur, outcome>>
    BY <2>1 DEF ServerAnswers, handles
  <2>3. ASSUME state = "AUTHENTICATED", erred = FALSE, ~Done
        PROVE  inbox' # <<>> /\ Tells(inbox', cur.head)
    <3>1. pending = <<cur.req>> /\ inbox = <<>> /\ cur.head = {} /\ cur.req # 0
      BY <2>2, <2>3 DEF Exchange, Traffic, Carries, Reading, Done
    <3>2. Head(pending) = cur.req /\ a \in Answers
      BY <2>2, <3>1
    <3>3. Tells(Message(cur.req, a), {}) /\ Message(cur.req, a) # <<>>
      BY <3>2, MessageTells
    <3>4. inbox' = Message(cur.req, a)
      <4>1. a \in Seq(SUBSET Parts) /\ reqs \in Nat /\ cur.req \in 0 .. reqs
        BY <1>1, <3>2 DEF SessionAssumption, Cursors, SInv, TInv, CInv, Connections
      <4>2. Message(cur.req, a) \in Seq(Sent(reqs))
        BY <4>1, MessageTyped
      <4> QED
        BY <2>2, <3>1, <3>2, <4>2, ConcatEmptySeq
    <3> QED
      BY <3>1, <3>3, <3>4
  <2> QED
    BY <2>2, <2>3 DEF Reading, RowsTrue, Done
<1>19. CASE RecordRefused
  <2>1. pc' = "idle" /\ erred' = TRUE /\ outcome'.category = "protocol"
    BY <1>19 DEF RecordRefused, Failed, NoOutcome
  <2>2. cur'.broken = TRUE
    BY <1>19, CursorRefused DEF SInv, TInv
  <2> QED
    BY <2>1, <2>2 DEF Reading, RowsTrue
<1> QED
  BY <1>2, <1>3, <1>4, <1>5, <1>6, <1>7, <1>8, <1>9, <1>10, <1>11, <1>12, <1>13, <1>14, <1>15,
     <1>16, <1>17, <1>18, <1>19 DEF Next, Caller, Call, Handshake

(* The invariant of a caller without a licence.                            *)
RInv == IInv /\ XInv /\ (licences = {} => Reading /\ RowsTrue)

(* A refusal, or something that is not an envelope, never reads as rows or *)
(* as an empty rowset, however its records are cut and whichever path      *)
(* reads it (client.cpp:319-363).                                          *)
THEOREM RefusedNeverRead ==
    ASSUME SessionAssumption, EnvelopeAssumption
    PROVE  Spec => []RefusedNeverRows
<1>1. Init => RInv
  <2>1. ASSUME Init PROVE Reading /\ RowsTrue
    BY <2>1 DEF Init, Reading, RowsTrue, NoCursor, NoOutcome
  <2> QED
    BY <2>1, IInvHolds, XInvHolds DEF RInv
<1>2. RInv /\ [Next]_vars => RInv'
  <2> SUFFICES ASSUME RInv, [Next]_vars, licences' = {} PROVE Reading' /\ RowsTrue'
    BY IInvHolds, XInvHolds DEF RInv
  <2>1. licences = {}
    BY DEF Next, vars
  <2>2. SInv /\ Exchange /\ Reading /\ RowsTrue /\ (cur.req # 0 => cur.conn = conn)
    <3>1. Careful
      BY <2>1, Zenon DEF Careful
    <3> QED
      BY <2>1, <3>1 DEF RInv, IInv, XInv, IdsInv
  <2>3. CASE Next
    BY <2>1, <2>2, <2>3, RefusalsKept
  <2>4. CASE UNCHANGED vars
    BY <2>2, <2>4 DEF Reading, RowsTrue, Done, vars, handles, net
  <2> QED
    BY <2>3, <2>4
<1>3. RInv => RefusedNeverRows
  BY DEF RInv, RowsTrue, RefusedNeverRows
<1> QED
  BY <1>1, <1>2, <1>3, PTL DEF Spec

=============================================================================
