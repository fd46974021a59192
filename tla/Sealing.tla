-------------------------------- MODULE Sealing --------------------------------
(***************************************************************************)
(* The frame layer (src/xmla/sealing.cpp): SealMessage on one side, the    *)
(* incremental Unsealer on the other.                                      *)
(*                                                                         *)
(* Ciphertext is counted, not stored.  A frame is where it starts (at),    *)
(* its two declared sizes, and the plaintext it seals, an interval         *)
(* [from, to) of the plaintext of the message.  What the receiver holds is *)
(* an interval of that plaintext too, so that a lost, repeated or swapped  *)
(* piece shows as Torn.  buf and offset are positions in the message:      *)
(* buffer_ holds the bytes [buf, fed).                                     *)
(***************************************************************************)
EXTENDS Integers, Sequences

CONSTANTS
    HEADER_LEN, BOM_LEN, MAX_FRAME_BODY,
    Shapes,        \* what a provider may make of a payload: [data, token] sizes
    Pieces,        \* plaintext sizes the peer may put into a frame
    MaxChunks,     \* what MaxChunk of a provider may return
    Bodies,        \* sizes of the body given to SealMessage
    MaxFrames,     \* bound: frames of a message
    Reads          \* bound: sizes of the pieces the ciphertext arrives in

ASSUME SealingAssumption ==
    /\ HEADER_LEN \in Nat \ {0} /\ BOM_LEN \in Nat \ {0} /\ MAX_FRAME_BODY \in Nat \ {0}
    /\ Shapes \subseteq [data : Nat, token : Nat]
    /\ Pieces \subseteq Nat /\ MaxChunks \subseteq Nat /\ Bodies \subseteq Nat
    /\ MaxFrames \in Nat /\ Reads \subseteq Nat

VARIABLES
    sender,      \* "client" runs SealMessage, "peer" seals any pieces
    chunk,       \* what MaxChunk returns
    body,        \* size of the body SealMessage was given
    has_bom,     \* the plaintext starts with the byte order mark
    frames,      \* the frames sealed so far
    wire,        \* their bytes
    text,        \* their plaintext
    sealing,     \* "on", "done", or "refused": SealFrame threw
    fed,         \* bytes given to Append
    buf,         \* start of buffer_
    calling,     \* "loop" in an Append, "threw" after one that threw, else "no"
    offset,      \* where the loop is
    plain,       \* plain, what this Append has unsealed
    head,        \* head_
    settled,     \* bom_settled_
    given,       \* what the calls have returned so far
    ended        \* "no", "ok" or "short": what Finish said

sent == <<sender, chunk, body, has_bom, frames, wire, text, sealing>>
unsealer == <<buf, calling, offset, plain, head, settled, given, ended>>
sealingVars == <<sent, fed, unsealer>>

Torn == [from |-> -1, to |-> -1]
None(p) == [from |-> p, to |-> p]
Spans == [from : Nat, to : Nat] \cup {Torn}
Size(s) == s.to - s.from

(* insert(end(), ...): s followed by t.                                    *)
Join(s, t) ==
    IF s = Torn \/ t = Torn THEN Torn
    ELSE IF s.from = s.to THEN t
    ELSE IF t.from = t.to THEN s
    ELSE IF s.to = t.from THEN [from |-> s.from, to |-> t.to] ELSE Torn

FrameLen(f) == HEADER_LEN + f.data + f.token

SealingInit ==
    /\ sender \in {"client", "peer"}
    /\ \/ sender = "client" /\ chunk \in MaxChunks /\ body \in Bodies
       \/ sender = "peer" /\ chunk = 0 /\ body = 0
    /\ has_bom \in IF sender = "client" THEN {TRUE} ELSE BOOLEAN
    /\ frames = <<>> /\ wire = 0 /\ text = 0 /\ sealing = "on"
    /\ fed = 0 /\ buf = 0 /\ calling = "no" /\ offset = 0
    /\ plain = None(0) /\ head = None(0) /\ settled = FALSE /\ given = None(0)
    /\ ended = "no"

-----------------------------------------------------------------------------
(* Sealing.                                                                *)

(* SealFrame on the next size bytes of plaintext.                          *)
SealFrame(size, shape) ==
    IF shape.data > MAX_FRAME_BODY \/ shape.token > MAX_FRAME_BODY
    THEN sealing' = "refused" /\ UNCHANGED <<frames, wire, text>>
    ELSE LET f == [at |-> wire, data |-> shape.data, token |-> shape.token,
                   from |-> text, to |-> text + size]
         IN  /\ frames' = Append(frames, f)
             /\ wire' = wire + FrameLen(f)
             /\ text' = text + size
             /\ UNCHANGED sealing

Chunk == IF chunk = 0 \/ chunk > MAX_FRAME_BODY THEN MAX_FRAME_BODY ELSE chunk
Least(m, n) == IF m < n THEN m ELSE n

(* A variant that counts the mark in the body.                             *)
PieceCountsMark == IF frames = <<>> THEN BOM_LEN ELSE Least(Chunk, body - text)

(* What SealMessage seals next: the mark first, in a frame of its own.     *)
Piece == IF frames = <<>> THEN BOM_LEN ELSE Least(Chunk, BOM_LEN + body - text)

SealMessage ==
    /\ sender = "client" /\ sealing = "on"
    /\ IF frames # <<>> /\ Piece <= 0
       THEN sealing' = "done" /\ UNCHANGED <<frames, wire, text>>
       ELSE \E shape \in Shapes : SealFrame(Piece, shape)
    /\ UNCHANGED <<sender, chunk, body, has_bom, fed, unsealer>>

(* The peer cuts its plaintext as it likes.  A plaintext shorter than the  *)
(* mark is not one that starts with it.                                    *)
PeerSeals ==
    /\ sender = "peer" /\ sealing = "on"
    /\ \/ /\ Len(frames) < MaxFrames
          /\ \E size \in Pieces, shape \in Shapes :
                /\ shape.data <= MAX_FRAME_BODY /\ shape.token <= MAX_FRAME_BODY
                /\ SealFrame(size, shape)
       \/ /\ has_bom => text >= BOM_LEN
          /\ sealing' = "done" /\ UNCHANGED <<frames, wire, text>>
    /\ UNCHANGED <<sender, chunk, body, has_bom, fed, unsealer>>

-----------------------------------------------------------------------------
(* Unsealing.  The message may be cut anywhere, so the caller may run out  *)
(* of bytes before the sender's last.                                      *)

CallAppend(n) ==
    /\ sealing = "done" /\ ended = "no" /\ calling # "loop"
    /\ fed + n <= wire
    /\ fed' = fed + n
    /\ calling' = "loop" /\ offset' = buf /\ plain' = None(0)
    /\ UNCHANGED <<sent, buf, head, settled, given, ended>>

(* The frame whose header is at the loop's offset.                         *)
FrameHere == CHOOSE k \in 1 .. Len(frames) : frames[k].at = offset

(* Variants: the sizes compared with the bytes from the header on; a frame *)
(* taken only once a byte after it is there.                               *)
ArrivedCountingHeader ==
    /\ fed - offset >= HEADER_LEN
    /\ frames[FrameHere].data + frames[FrameHere].token <= fed - offset
ArrivedNotLast ==
    /\ fed - offset >= HEADER_LEN
    /\ frames[FrameHere].data + frames[FrameHere].token < fed - (offset + HEADER_LEN)

(* The loop's two conditions: a whole header, and the whole of its frame.  *)
Arrived ==
    /\ fed - offset >= HEADER_LEN
    /\ LET available == fed - (offset + HEADER_LEN)
           f == frames[FrameHere]
       IN  ~(f.data > available \/ f.token > available - f.data)

UnsealFrame ==
    /\ calling = "loop" /\ Arrived
    /\ offset' = offset + FrameLen(frames[FrameHere])
    /\ plain' = Join(plain, [from |-> frames[FrameHere].from, to |-> frames[FrameHere].to])
    /\ UNCHANGED <<sent, fed, buf, calling, head, settled, given, ended>>

(* A variant that has erased what the loop went past.                      *)
RefuseFrameErased ==
    /\ calling = "loop" /\ Arrived
    /\ calling' = "threw" /\ plain' = None(0) /\ offset' = offset
    /\ buf' = offset
    /\ UNCHANGED <<sent, fed, head, settled, given, ended>>

(* The provider throws: buffer_ still holds every frame of this Append.    *)
RefuseFrame ==
    /\ calling = "loop" /\ Arrived
    /\ calling' = "threw" /\ plain' = None(0) /\ offset' = buf
    /\ UNCHANGED <<sent, fed, buf, head, settled, given, ended>>

IsBOM(held) == Size(held) >= BOM_LEN /\ held.from = 0 /\ has_bom
WithoutBOM(held) == IF IsBOM(held) THEN [held EXCEPT !.from = BOM_LEN] ELSE held

(* Variants: the mark looked for in every piece; a short one settled.      *)
SettleEachPiece(held) ==
    /\ settled' = TRUE /\ head' = None(0)
    /\ given' = Join(given, WithoutBOM(held))
SettleDropsHead(held) ==
    IF Size(held) < BOM_LEN
    THEN head' = plain /\ UNCHANGED <<settled, given>>
    ELSE /\ settled' = TRUE /\ head' = None(0)
         /\ given' = Join(given, WithoutBOM(held))

(* What Append holds back until it knows whether it starts with the mark.  *)
Settle(held) ==
    IF Size(held) < BOM_LEN
    THEN head' = held /\ UNCHANGED <<settled, given>>
    ELSE /\ settled' = TRUE /\ head' = None(0)
         /\ given' = Join(given, WithoutBOM(held))

(* The rest of Append, when the loop stops.                                *)
EndAppend ==
    /\ calling = "loop" /\ ~Arrived
    /\ calling' = "no" /\ buf' = offset /\ plain' = None(0)
    /\ IF settled THEN given' = Join(given, plain) /\ UNCHANGED <<head, settled>>
                  ELSE Settle(Join(head, plain))
    /\ UNCHANGED <<sent, fed, offset, ended>>

(* A variant whose only test is the loop's.                                *)
FinishesShortHeader == IF fed - buf < HEADER_LEN THEN "ok" ELSE "short"

(* Finish: what is left in buffer_ is a frame that did not all arrive.     *)
Finishes == IF fed = buf THEN "ok" ELSE "short"

(* Finish, and Flush when it did not throw.  Both are called after an      *)
(* Append that returned.                                                   *)
FinishAndFlush ==
    /\ sealing = "done" /\ ended = "no" /\ calling = "no"
    /\ ended' = Finishes
    /\ IF ended' = "ok" /\ ~settled
       THEN settled' = TRUE /\ head' = None(0) /\ given' = Join(given, WithoutBOM(head))
       ELSE UNCHANGED <<settled, head, given>>
    /\ UNCHANGED <<sent, fed, buf, calling, offset, plain>>

Seal == SealMessage \/ PeerSeals
Unseal == (\E n \in Reads : CallAppend(n)) \/ UnsealFrame \/ RefuseFrame \/ EndAppend
            \/ FinishAndFlush

SealingNext == Seal \/ Unseal
SealingSpec == SealingInit /\ [][SealingNext]_sealingVars

-----------------------------------------------------------------------------
(* Properties.                                                             *)

Frame == [at : Nat, data : Nat, token : Nat, from : Nat, to : Nat]

(* The types; no bytes are unsealed before they arrived.                   *)
SealTypeOK ==
    /\ sender \in {"client", "peer"} /\ chunk \in Nat /\ body \in Nat /\ has_bom \in BOOLEAN
    /\ frames \in Seq(Frame) /\ wire \in Nat /\ text \in Nat
    /\ sealing \in {"on", "done", "refused"}
    /\ fed \in 0 .. wire /\ buf \in 0 .. fed /\ offset \in buf .. fed
    /\ calling \in {"no", "loop", "threw"} /\ settled \in BOOLEAN
    /\ plain \in Spans /\ head \in Spans /\ given \in Spans
    /\ ended \in {"no", "ok", "short"}

FrameEnd(k) == IF k = 0 THEN 0 ELSE frames[k].at + FrameLen(frames[k])
TextEnd(k) == IF k = 0 THEN 0 ELSE frames[k].to

(* The last frame that lies whole before position p, 0 when none does.     *)
WholeBefore(p) ==
    CHOOSE k \in 0 .. Len(frames) :
        /\ FrameEnd(k) <= p
        /\ k < Len(frames) => FrameEnd(k + 1) > p

(* Where the document starts in a plaintext of which n bytes are there.    *)
Start(n) == IF has_bom /\ n >= BOM_LEN THEN BOM_LEN ELSE 0

(* Between two calls, what was returned and what is held back are together *)
(* the plaintext of exactly the frames before buffer_, in order and        *)
(* without the mark: nothing is lost, repeated or swapped, however the     *)
(* frames were cut, also after one was refused and its Append thrown away  *)
(* (sealing.cpp:53-96).                                                    *)
PlainInOrder ==
    LET n == TextEnd(WholeBefore(buf))
        held == Join(given, head)
    IN  calling # "loop" =>
            IF n > Start(n) THEN held = [from |-> Start(n), to |-> n]
                            ELSE held # Torn /\ Size(held) = 0

(* Once an Append returned, every frame that has arrived is unsealed, and  *)
(* plaintext is held back exactly while it is too short to tell a mark     *)
(* from the document; the end of the message releases even that            *)
(* (sealing.cpp:58-95, 111-122).                                           *)
FramesUnsealed == calling = "no" /\ fed > 0 => buf = FrameEnd(WholeBefore(fed))
HeldForMark ==
    calling # "loop" =>
        /\ settled <=> (TextEnd(WholeBefore(buf)) >= BOM_LEN \/ ended = "ok")
        /\ settled => Size(head) = 0
NothingWaits == FramesUnsealed /\ HeldForMark

(* A message ends well exactly when it ends with a frame; one cut inside a *)
(* header or inside a body is reported, never returned short               *)
(* (sealing.hpp:71-91, sealing.cpp:98-109).                                *)
EndExact ==
    ended # "no" => (ended = "ok" <=> fed = FrameEnd(WholeBefore(fed)))

(* What the whole of a message SealMessage sealed unseals to is the body   *)
(* it was given (sealing.cpp:32-51, 124-131).                              *)
BodyCarried ==
    sender = "client" /\ sealing = "done" /\ fed = wire /\ ended = "ok" =>
        IF body = 0 THEN Size(given) = 0
                    ELSE given = [from |-> BOM_LEN, to |-> BOM_LEN + body]

=============================================================================
