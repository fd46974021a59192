----------------------------- MODULE SealingProofs -----------------------------
(***************************************************************************)
(* Proofs about Sealing, for every header, mark and frame size, every      *)
(* number of frames, and every way the plaintext and the ciphertext are    *)
(* cut.                                                                    *)
(***************************************************************************)
EXTENDS Sealing, SequenceTheorems, TLAPS

-----------------------------------------------------------------------------
(* Intervals of the plaintext.                                             *)

Held == [from : Nat, to : Nat]

(* s is the plaintext from a to b; where b is a, any empty interval.       *)
Interval(s, a, b) ==
    /\ s \in Held
    /\ IF a = b THEN s.from = s.to ELSE s.from = a /\ s.to = b

(* A piece of the plaintext is a span, and is not the torn one.            *)
LEMMA HeldIsNotTorn ==
    ASSUME NEW s \in Held
    PROVE  s # Torn /\ s \in Spans /\ s.from \in Nat /\ s.to \in Nat
           /\ s = [from |-> s.from, to |-> s.to]
<1>1. s.from \in Nat /\ s.to \in Nat /\ s = [from |-> s.from, to |-> s.to] /\ s \in Spans
  BY DEF Held, Spans
<1>2. Torn.from = -1
  BY DEF Torn
<1> QED
  BY <1>1, <1>2, SMT

(* Joining the plaintext from a to b and that from b to c.                 *)
LEMMA JoinIntervals ==
    ASSUME NEW a \in Nat, NEW b \in Nat, NEW c \in Nat, a <= b, b <= c,
           NEW s, NEW t, Interval(s, a, b), Interval(t, b, c)
    PROVE  Interval(Join(s, t), a, c)
<1>1. s \in Held /\ t \in Held
  BY DEF Interval
<1>2. s # Torn /\ t # Torn /\ s.from \in Nat /\ s.to \in Nat /\ t.from \in Nat /\ t.to \in Nat
  BY <1>1, HeldIsNotTorn
<1>3. CASE s.from = s.to
  <2>1. a = b
    BY <1>3, <1>2 DEF Interval
  <2>2. Join(s, t) = t
    BY <1>2, <1>3 DEF Join
  <2> QED
    BY <2>1, <2>2
<1>4. CASE s.from # s.to /\ t.from = t.to
  <2>1. b = c
    BY <1>4, <1>2 DEF Interval
  <2>2. Join(s, t) = s
    BY <1>2, <1>4 DEF Join
  <2> QED
    BY <2>1, <2>2
<1>5. CASE s.from # s.to /\ t.from # t.to
  <2>1. a # b /\ b # c /\ s.from = a /\ s.to = b /\ t.from = b /\ t.to = c
    BY <1>5 DEF Interval
  <2>2. Join(s, t) = [from |-> a, to |-> c]
    BY <1>2, <1>5, <2>1 DEF Join
  <2> QED
    BY <2>1, <2>2 DEF Interval, Held
<1> QED
  BY <1>3, <1>4, <1>5

-----------------------------------------------------------------------------
(* The inductive invariant.                                                *)

Types ==
    /\ sender \in {"client", "peer"} /\ chunk \in Nat /\ body \in Nat /\ has_bom \in BOOLEAN
    /\ frames \in Seq(Frame) /\ wire \in Nat /\ text \in Nat
    /\ sealing \in {"on", "done", "refused"}
    /\ fed \in 0 .. wire
    /\ calling \in {"no", "loop", "threw"} /\ settled \in BOOLEAN
    /\ ended \in {"no", "ok", "short"}

(* The frames lie end to end, in the ciphertext and in the plaintext.      *)
Layout ==
    /\ \A k \in 0 .. Len(frames) : FrameEnd(k) \in Nat /\ TextEnd(k) \in Nat
    /\ \A k \in 1 .. Len(frames) : frames[k].at = FrameEnd(k - 1) /\ frames[k].from = TextEnd(k - 1)
    /\ \A j, k \in 0 .. Len(frames) : j < k => FrameEnd(j) < FrameEnd(k) /\ TextEnd(j) <= TextEnd(k)
    /\ wire = FrameEnd(Len(frames)) /\ text = TextEnd(Len(frames))

(* Nothing is received of a message that is not all there.                 *)
Phases ==
    /\ sealing # "done" => fed = 0 /\ calling = "no" /\ ended = "no"
    /\ ended # "no" => calling = "no"
    /\ ended = "ok" <=> (ended # "no" /\ fed = buf)

(* What SealMessage has sealed of its body.                                *)
Sealed ==
    sender = "client" =>
        /\ has_bom = TRUE
        /\ frames = <<>> => sealing # "done" /\ text = 0
        /\ frames # <<>> => BOM_LEN <= text /\ text <= BOM_LEN + body
        /\ sealing = "done" => text = BOM_LEN + body

(* The first k frames are out of the buffer, the loop is past the first j: *)
(* what was returned and what is held back are the plaintext of the first  *)
(* k, and plain that of the others.                                        *)
Receiving(k, j) ==
    /\ k <= j /\ buf = FrameEnd(k) /\ offset = FrameEnd(j) /\ offset <= fed
    /\ Interval(plain, TextEnd(k), TextEnd(j))
    /\ calling # "loop" => j = k
    /\ calling = "no" /\ k < Len(frames) => fed < FrameEnd(k + 1)
    /\ settled => (TextEnd(k) >= BOM_LEN \/ ended = "ok")
                    /\ Interval(head, 0, 0) /\ Interval(given, Start(TextEnd(k)), TextEnd(k))
    /\ ~settled => TextEnd(k) < BOM_LEN /\ ended # "ok"
                    /\ Interval(head, 0, TextEnd(k)) /\ Interval(given, 0, 0)

Received == \E k, j \in 0 .. Len(frames) : Receiving(k, j)

SInv == Types /\ Layout /\ Phases /\ Sealed /\ Received

-----------------------------------------------------------------------------
(* Consequences.                                                           *)

(* The last whole frame before a position is the one whose end is not      *)
(* after it and whose successor's is.                                      *)
LEMMA WholeBeforeIs ==
    ASSUME Types, Layout, NEW p \in Nat, NEW k \in 0 .. Len(frames), FrameEnd(k) <= p,
           k < Len(frames) => FrameEnd(k + 1) > p
    PROVE  WholeBefore(p) = k
<1> DEFINE n == Len(frames)
           P(i) == FrameEnd(i) <= p /\ (i < n => FrameEnd(i + 1) > p)
<1>0. n \in Nat
  BY LenProperties DEF Types
<1>1. ASSUME NEW i \in 0 .. n, P(i) PROVE i = k
  <2>1. CASE i < k
    <3>1. i + 1 \in 0 .. n /\ (i + 1 = k \/ i + 1 < k)
      BY <1>0, <2>1
    <3>2. FrameEnd(i + 1) <= FrameEnd(k) /\ FrameEnd(i + 1) \in Nat /\ FrameEnd(k) \in Nat
      BY <3>1 DEF Layout
    <3> QED
      BY <1>0, <1>1, <2>1, <3>2
  <2>2. CASE k < i
    <3>1. k + 1 \in 0 .. n /\ (k + 1 = i \/ k + 1 < i)
      BY <1>0, <2>2
    <3>2. FrameEnd(k + 1) <= FrameEnd(i) /\ FrameEnd(k + 1) \in Nat /\ FrameEnd(i) \in Nat
      BY <3>1 DEF Layout
    <3> QED
      BY <1>0, <1>1, <2>2, <3>2
  <2> QED
    BY <1>0, <2>1, <2>2
<1>2. P(k)
  OBVIOUS
<1> QED
  BY <1>1, <1>2 DEF WholeBefore

(* The ends of the frames are in order.                                    *)
LEMMA FrameEndsGrow ==
    ASSUME Types, Layout, NEW j \in 0 .. Len(frames), NEW k \in 0 .. Len(frames), j <= k
    PROVE  /\ FrameEnd(j) \in Nat /\ FrameEnd(k) \in Nat /\ FrameEnd(j) <= FrameEnd(k)
           /\ TextEnd(j) \in Nat /\ TextEnd(k) \in Nat /\ TextEnd(j) <= TextEnd(k)
BY DEF Layout

(* A frame that was sealed is a frame.                                     *)
LEMMA FrameTyped ==
    ASSUME Types, NEW k \in 1 .. Len(frames)
    PROVE  frames[k] \in Frame /\ frames[k].data \in Nat /\ frames[k].token \in Nat
<1>1. frames[k] \in Frame
  <2>1. frames \in Seq(Frame)
    BY DEF Types
  <2> QED
    BY <2>1, ElementOfSeq
<1> QED
  BY <1>1 DEF Frame

(* The frame at the loop's offset is the one after the first j.            *)
LEMMA FrameHereIs ==
    ASSUME SealingAssumption, Types, Layout, NEW j \in 0 .. Len(frames), offset = FrameEnd(j),
           fed - offset >= HEADER_LEN
    PROVE  /\ j + 1 \in 1 .. Len(frames) /\ FrameHere = j + 1
           /\ FrameEnd(j + 1) = offset + FrameLen(frames[j + 1])
           /\ frames[j + 1].from = TextEnd(j) /\ frames[j + 1].to = TextEnd(j + 1)
<1> DEFINE n == Len(frames)
<1>0. n \in Nat /\ HEADER_LEN \in Nat \ {0} /\ fed \in Nat /\ wire \in Nat /\ fed <= wire
  BY LenProperties DEF Types, SealingAssumption
<1>1. FrameEnd(j) \in Nat /\ FrameEnd(n) = wire
  BY <1>0 DEF Layout
<1>2. FrameEnd(j) < FrameEnd(n)
  BY <1>0, <1>1
<1>3. j < n
  <2>1. j # n
    BY <1>0, <1>1, <1>2
  <2> QED
    BY <1>0, <2>1
<1>4. j + 1 \in 1 .. n /\ j + 1 \in 0 .. n /\ (j + 1) - 1 = j
  BY <1>0, <1>3
<1>5. frames[j + 1].at = offset /\ frames[j + 1].from = TextEnd(j)
  BY <1>4 DEF Layout
<1>6. ASSUME NEW i \in 1 .. n, frames[i].at = offset PROVE i = j + 1
  <2>0. i - 1 \in 0 .. n
    BY <1>0, <1>6
  <2>1. i - 1 \in 0 .. n /\ FrameEnd(i - 1) = FrameEnd(j)
    BY <1>6, <2>0 DEF Layout
  <2>2. ~(i - 1 < j) /\ ~(j < i - 1)
    BY <2>1, <1>1 DEF Layout
  <2> QED
    BY <1>0, <2>1, <2>2
<1>7. FrameHere = j + 1
  BY <1>4, <1>5, <1>6 DEF FrameHere
<1>8. FrameEnd(j + 1) = frames[j + 1].at + FrameLen(frames[j + 1]) /\ TextEnd(j + 1) = frames[j + 1].to
  BY <1>0, <1>4 DEF FrameEnd, TextEnd
<1> QED
  BY <1>4, <1>5, <1>7, <1>8

(* The two comparisons of the loop are one, with no sum that could pass the  *)
(* end of the buffer.                                                      *)
LEMMA FitsArithmetic ==
    ASSUME NEW n \in Nat, NEW o \in Nat, NEW h \in Nat, NEW a \in Nat, NEW b \in Nat
    PROVE  (a > n - (o + h) \/ b > n - (o + h) - a) <=> n < o + h + a + b
OBVIOUS

(* Whether the loop has the frame after the first j: exactly when its last *)
(* byte is there.                                                          *)
LEMMA ArrivedIs ==
    ASSUME SealingAssumption, Types, Layout, NEW j \in 0 .. Len(frames), offset = FrameEnd(j), offset <= fed
    PROVE  /\ Arrived => j < Len(frames) /\ FrameEnd(j + 1) <= fed
           /\ ~Arrived /\ j < Len(frames) => fed < FrameEnd(j + 1)
<1> DEFINE n == Len(frames)
           f == frames[j + 1]
<1>0. n \in Nat /\ HEADER_LEN \in Nat \ {0} /\ fed \in Nat /\ offset \in Nat /\ j \in Nat
  BY LenProperties DEF Types, SealingAssumption, Layout
<1>1. CASE fed - offset >= HEADER_LEN
  <2>1. /\ j + 1 \in 1 .. n /\ FrameHere = j + 1
        /\ FrameEnd(j + 1) = offset + FrameLen(f)
    BY <1>1, FrameHereIs
  <2>2. f.data \in Nat /\ f.token \in Nat
    BY <2>1, FrameTyped
  <2>3. FrameEnd(j + 1) = offset + HEADER_LEN + f.data + f.token
    BY <1>0, <2>1, <2>2 DEF FrameLen
  <2>4. Arrived <=> ~(f.data > fed - (offset + HEADER_LEN)
                       \/ f.token > fed - (offset + HEADER_LEN) - f.data)
    BY <1>1, <2>1 DEF Arrived
  <2>5. (f.data > fed - (offset + HEADER_LEN) \/ f.token > fed - (offset + HEADER_LEN) - f.data)
           <=> fed < offset + HEADER_LEN + f.data + f.token
    BY <1>0, <2>2, FitsArithmetic
  <2>6. Arrived <=> ~(fed < FrameEnd(j + 1))
    BY <2>3, <2>4, <2>5
  <2>7. j < n /\ FrameEnd(j + 1) \in Nat
    BY <1>0, <2>1, <2>2, <2>3
  <2> HIDE DEF f
  <2> QED
    BY <1>0, <2>6, <2>7
<1>2. CASE ~(fed - offset >= HEADER_LEN)
  <2>1. ~Arrived
    BY <1>2 DEF Arrived
  <2>2. ASSUME j < n PROVE fed < FrameEnd(j + 1)
    <3>1. j + 1 \in 1 .. n /\ frames[j + 1].at = FrameEnd(j)
      <4>1. j + 1 \in 1 .. n /\ (j + 1) - 1 = j
        BY <1>0, <2>2
      <4> QED
        BY <4>1 DEF Layout
    <3>2. f.data \in Nat /\ f.token \in Nat
      BY <3>1, FrameTyped
    <3>3. FrameEnd(j + 1) = FrameEnd(j) + HEADER_LEN + f.data + f.token
      <4>1. FrameEnd(j + 1) = f.at + FrameLen(f)
        BY <1>0 DEF FrameEnd
      <4> QED
        BY <4>1, <3>1, <3>2, <1>0 DEF FrameLen
    <3> HIDE DEF f
    <3> QED
      BY <1>0, <1>2, <3>2, <3>3
  <2> QED
    BY <2>1, <2>2
<1> QED
  BY <1>1, <1>2

(* Empty plaintext may be taken to lie anywhere.                           *)
LEMMA EmptyAnywhere ==
    ASSUME NEW s, Interval(s, 0, 0), NEW a \in Nat
    PROVE  Interval(s, a, a)
BY DEF Interval

(* None is empty plaintext.                                                *)
LEMMA NoneIsEmpty ==
    ASSUME NEW a \in Nat
    PROVE  Interval(None(0), a, a)
BY DEF None, Interval, Held

(* The size of the plaintext before n.                                     *)
LEMMA SizeOfHead ==
    ASSUME NEW s, NEW n \in Nat, Interval(s, 0, n)
    PROVE  Size(s) = n /\ s.from \in Nat /\ s.to \in Nat /\ (n # 0 => s.from = 0 /\ s.to = n)
BY DEF Interval, Held, Size

(* The document starts inside the plaintext that is there.                 *)
LEMMA StartTyped ==
    ASSUME SealingAssumption, NEW n \in Nat
    PROVE  Start(n) \in Nat /\ Start(n) <= n /\ (n < BOM_LEN => Start(n) = 0)
BY DEF SealingAssumption, Start

(* What is left of a plaintext once the mark is taken off.                 *)
LEMMA WithoutBOMIs ==
    ASSUME SealingAssumption, NEW s, NEW n \in Nat, Interval(s, 0, n)
    PROVE  Interval(WithoutBOM(s), Start(n), n)
<1>0. BOM_LEN \in Nat \ {0}
  BY DEF SealingAssumption
<1>1. s \in Held /\ Size(s) = n /\ s.from \in Nat /\ s.to \in Nat /\ (n # 0 => s.from = 0 /\ s.to = n)
  BY SizeOfHead DEF Interval
<1>2. CASE IsBOM(s)
  <2>1. n >= BOM_LEN /\ has_bom /\ n # 0
    BY <1>0, <1>1, <1>2 DEF IsBOM
  <2>2. WithoutBOM(s) = [from |-> BOM_LEN, to |-> n]
    BY <1>0, <1>1, <1>2, <2>1 DEF WithoutBOM, Held
  <2>3. Start(n) = BOM_LEN
    BY <2>1 DEF Start
  <2> QED
    BY <1>0, <2>1, <2>2, <2>3 DEF Interval, Held
<1>3. CASE ~IsBOM(s)
  <2>1. ~(n >= BOM_LEN /\ has_bom)
    BY <1>0, <1>1, <1>3 DEF IsBOM
  <2>2. WithoutBOM(s) = s /\ Start(n) = 0
    BY <1>3, <2>1 DEF WithoutBOM, Start
  <2> QED
    BY <2>2
<1> QED
  BY <1>2, <1>3

-----------------------------------------------------------------------------
(* The initial states.                                                     *)

(* The invariant holds before the first frame.                             *)
LEMMA SInvHoldsFirst ==
    ASSUME SealingAssumption, SealingInit
    PROVE  SInv
<1>0. Len(frames) = 0 /\ frames \in Seq(Frame)
  BY DEF SealingInit
<1>1. Types
  <2>1. has_bom \in BOOLEAN
    BY DEF SealingInit
  <2>2. sender \in {"client", "peer"} /\ chunk \in Nat /\ body \in Nat
    <3>1. CASE chunk \in MaxChunks /\ body \in Bodies
      BY <3>1 DEF SealingInit, SealingAssumption
    <3>2. CASE chunk = 0 /\ body = 0
      BY <3>2 DEF SealingInit
    <3> QED
      BY <3>1, <3>2 DEF SealingInit
  <2>3. wire = 0 /\ text = 0 /\ fed = 0 /\ sealing = "on" /\ calling = "no" /\ ended = "no"
    BY DEF SealingInit
  <2>4. settled \in BOOLEAN
    BY DEF SealingInit
  <2>5. fed \in 0 .. wire /\ wire \in Nat /\ text \in Nat
    BY <2>3
  <2> QED
    BY <1>0, <2>1, <2>2, <2>3, <2>4, <2>5 DEF Types
<1>2. Layout
  BY <1>0 DEF SealingInit, Layout, FrameEnd, TextEnd
<1>3. Phases /\ Sealed
  <2>1. sender = "client" => has_bom = TRUE
    BY DEF SealingInit
  <2> QED
    BY <2>1 DEF SealingInit, Phases, Sealed
<1>4. Receiving(0, 0)
  <2>1. Interval(None(0), 0, 0)
    BY NoneIsEmpty
  <2>2. BOM_LEN \in Nat \ {0}
    BY DEF SealingAssumption
  <2> QED
    BY <1>0, <2>1, <2>2 DEF SealingInit, Receiving, FrameEnd, TextEnd
<1> QED
  BY <1>0, <1>1, <1>2, <1>3, <1>4 DEF SInv, Received

-----------------------------------------------------------------------------
(* Sealing.                                                                *)

(* A frame put after the others.                                           *)
LEMMA AppendFrame ==
    ASSUME SealingAssumption, Types, Layout, NEW f \in Frame, NEW n \in Nat, n = Len(frames),
           frames' = Append(frames, f), f.at = wire, f.from = text, f.from <= f.to,
           wire' = wire + FrameLen(f), text' = f.to
    PROVE  /\ frames' \in Seq(Frame) /\ wire' \in Nat /\ text' \in Nat /\ wire' > wire
           /\ Layout' /\ Len(frames') = n + 1
           /\ \A k \in 0 .. n : FrameEnd(k)' = FrameEnd(k) /\ TextEnd(k)' = TextEnd(k)
           /\ FrameEnd(n + 1)' = wire'
<1>0. n \in Nat /\ frames \in Seq(Frame) /\ HEADER_LEN \in Nat \ {0}
      /\ f.data \in Nat /\ f.token \in Nat /\ f.at \in Nat /\ f.from \in Nat /\ f.to \in Nat
      /\ wire \in Nat /\ text \in Nat
  BY LenProperties DEF Types, SealingAssumption, Frame
<1>1. /\ frames' \in Seq(Frame) /\ Len(frames') = n + 1 /\ frames'[n + 1] = f
      /\ \A i \in 1 .. n : frames'[i] = frames[i]
  BY <1>0, AppendProperties
<1>2. FrameLen(f) \in Nat /\ FrameLen(f) > 0
  <2>1. FrameLen(f) = HEADER_LEN + f.data + f.token
    BY DEF FrameLen
  <2>2. \A h \in Nat \ {0}, a, b \in Nat : h + a + b \in Nat /\ h + a + b > 0
    OBVIOUS
  <2> QED
    BY <1>0, <2>1, <2>2
<1>3. \A k \in 0 .. n : FrameEnd(k)' = FrameEnd(k) /\ TextEnd(k)' = TextEnd(k)
  BY <1>0, <1>1 DEF FrameEnd, TextEnd, FrameLen
<1>4. FrameEnd(n + 1)' = wire' /\ TextEnd(n + 1)' = text'
  <2>1. n + 1 # 0
    BY <1>0
  <2>2. FrameEnd(n + 1)' = frames'[n + 1].at + FrameLen(frames'[n + 1])
    BY <2>1 DEF FrameEnd, FrameLen
  <2>3. TextEnd(n + 1)' = frames'[n + 1].to
    BY <2>1 DEF TextEnd
  <2> QED
    BY <1>1, <2>2, <2>3
<1>5. wire' \in Nat /\ text' \in Nat /\ wire' > wire /\ text' >= text
  BY <1>0, <1>2
<1>6. Layout'
  <2>1. \A k \in 0 .. (n + 1) : FrameEnd(k)' \in Nat /\ TextEnd(k)' \in Nat
    <3> TAKE k \in 0 .. (n + 1)
    <3>1. CASE k \in 0 .. n
      BY <1>3, <3>1 DEF Layout
    <3>2. CASE k = n + 1
      BY <1>4, <1>5, <3>2
    <3> QED
      BY <1>0, <3>1, <3>2
  <2>2. \A k \in 1 .. (n + 1) : /\ frames'[k].at = FrameEnd(k - 1)'
                               /\ frames'[k].from = TextEnd(k - 1)'
    <3> TAKE k \in 1 .. (n + 1)
    <3>1. k - 1 \in 0 .. n
      BY <1>0
    <3>2. FrameEnd(k - 1)' = FrameEnd(k - 1) /\ TextEnd(k - 1)' = TextEnd(k - 1)
      BY <1>3, <3>1
    <3>3. CASE k \in 1 .. n
      <4>1. frames[k].at = FrameEnd(k - 1) /\ frames[k].from = TextEnd(k - 1)
        BY <3>3 DEF Layout
      <4> QED
        BY <1>1, <3>2, <3>3, <4>1
    <3>4. CASE k = n + 1
      <4>1. k - 1 = n
        BY <1>0, <3>4
      <4>2. wire = FrameEnd(n) /\ text = TextEnd(n)
        BY DEF Layout
      <4> QED
        BY <1>1, <3>2, <3>4, <4>1, <4>2
    <3> QED
      BY <1>0, <3>3, <3>4
  <2>3. ASSUME NEW j \in 0 .. (n + 1), NEW k \in 0 .. (n + 1), j < k
        PROVE  FrameEnd(j)' < FrameEnd(k)' /\ TextEnd(j)' <= TextEnd(k)'
    <3>1. j \in 0 .. n
      BY <1>0, <2>3
    <3>2. CASE k \in 0 .. n
      <4>1. FrameEnd(j)' = FrameEnd(j) /\ TextEnd(j)' = TextEnd(j)
            /\ FrameEnd(k)' = FrameEnd(k) /\ TextEnd(k)' = TextEnd(k)
        BY <1>3, <3>1, <3>2
      <4>2. FrameEnd(j) < FrameEnd(k) /\ TextEnd(j) <= TextEnd(k)
        BY <2>3, <3>1, <3>2 DEF Layout
      <4> QED
        BY <4>1, <4>2
    <3>3. CASE k = n + 1
      <4>1. FrameEnd(j) <= wire /\ TextEnd(j) <= text /\ FrameEnd(j) \in Nat /\ TextEnd(j) \in Nat
        <5>1. wire = FrameEnd(n) /\ text = TextEnd(n) /\ n \in 0 .. n /\ j <= n
          BY <1>0, <3>1 DEF Layout
        <5> QED
          BY <3>1, <5>1, FrameEndsGrow
      <4>2. FrameEnd(j)' = FrameEnd(j) /\ TextEnd(j)' = TextEnd(j)
        BY <1>3, <3>1
      <4>3. FrameEnd(k)' = wire' /\ TextEnd(k)' = text'
        BY <1>4, <3>3
      <4> QED
        BY <1>0, <1>5, <4>1, <4>2, <4>3
    <3> QED
      BY <1>0, <3>2, <3>3
  <2>4. Len(frames') = n + 1 /\ wire' = FrameEnd(n + 1)' /\ text' = TextEnd(n + 1)'
    BY <1>1, <1>4
  <2> QED
    BY <2>1, <2>2, <2>3, <2>4 DEF Layout
<1> QED
  BY <1>1, <1>3, <1>4, <1>5, <1>6

(* A step that seals nothing.                                              *)
LEMMA FramesKept ==
    ASSUME UNCHANGED <<frames, wire, text>>
    PROVE  /\ Layout => Layout'
           /\ \A k \in Nat : FrameEnd(k)' = FrameEnd(k) /\ TextEnd(k)' = TextEnd(k)
<1>1. \A k : FrameEnd(k)' = FrameEnd(k) /\ TextEnd(k)' = TextEnd(k)
  BY DEF FrameEnd, TextEnd, FrameLen
<1> QED
  BY <1>1 DEF Layout

(* A step of the sender that seals nothing.                                *)
LEMMA SenderStops ==
    ASSUME SealingAssumption, SInv, sealing = "on", sealing' \in {"refused", "done"},
           UNCHANGED <<frames, wire, text>>, UNCHANGED <<sender, chunk, body, has_bom, fed, unsealer>>
    PROVE  Types' /\ Layout' /\ Phases' /\ Received'
<1>1. Types'
  <2>1. has_bom' = has_bom /\ has_bom \in BOOLEAN
    BY DEF SInv, Types
  <2>2. settled' = settled /\ settled \in BOOLEAN
    BY DEF SInv, Types, unsealer
  <2> QED
    BY <2>1, <2>2 DEF SInv, Types, unsealer
<1>2. Phases'
  BY DEF SInv, Phases, unsealer
<1>3. Layout'
  BY FramesKept DEF SInv
<1>4. PICK k \in 0 .. Len(frames), j \in 0 .. Len(frames) : Receiving(k, j)
  BY DEF SInv, Received
<1>5. /\ FrameEnd(k)' = FrameEnd(k) /\ TextEnd(k)' = TextEnd(k)
      /\ FrameEnd(j)' = FrameEnd(j) /\ TextEnd(j)' = TextEnd(j)
      /\ FrameEnd(k + 1)' = FrameEnd(k + 1)
  BY FramesKept
<1>6. Start(TextEnd(k))' = Start(TextEnd(k))
  BY <1>5 DEF Start
<1>7. Receiving(k, j)'
  BY <1>4, <1>5, <1>6 DEF Receiving, unsealer
<1> QED
  BY <1>1, <1>2, <1>3, <1>4, <1>7 DEF Received

(* One step of either sender, while no byte has been received.             *)
LEMMA SealFrameKeeps ==
    ASSUME SealingAssumption, SInv, sealing = "on", NEW size \in Nat, NEW shape \in Shapes,
           SealFrame(size, shape), UNCHANGED <<sender, chunk, body, has_bom, fed, unsealer>>
    PROVE  /\ Types' /\ Layout' /\ Phases' /\ Received'
           /\ sealing' # "done"
           /\ \/ frames' = frames /\ text' = text
              \/ frames' # <<>> /\ text' = text + size
<1>0. /\ fed = 0 /\ calling = "no" /\ ended = "no"
      /\ shape.data \in Nat /\ shape.token \in Nat /\ wire \in Nat /\ text \in Nat
  BY DEF SInv, Types, Phases, SealingAssumption
<1>1. CASE sealing' = "refused" /\ UNCHANGED <<frames, wire, text>>
  <2>1. sealing' \in {"refused", "done"} /\ sealing' # "done"
    BY <1>1
  <2>2. Types' /\ Layout' /\ Phases' /\ Received'
    BY <1>1, <2>1, SenderStops
  <2> QED
    BY <1>1, <2>1, <2>2
<1>2. CASE sealing' = sealing /\ sealing' # "refused"
  <2> DEFINE f == [at |-> wire, data |-> shape.data, token |-> shape.token,
                   from |-> text, to |-> text + size]
  <2>1. /\ frames' = Append(frames, f) /\ wire' = wire + FrameLen(f) /\ text' = f.to
        /\ f \in Frame /\ f.at = wire /\ f.from = text /\ f.from <= f.to
    BY <1>0, <1>2 DEF SealFrame, Frame
  <2> HIDE DEF f
  <2>5. PICK n \in Nat : n = Len(frames)
    BY LenProperties DEF SInv, Types
  <2>2. /\ frames' \in Seq(Frame) /\ wire' \in Nat /\ text' \in Nat /\ wire' > wire
        /\ Layout' /\ Len(frames') = n + 1
        /\ \A k \in 0 .. n : FrameEnd(k)' = FrameEnd(k) /\ TextEnd(k)' = TextEnd(k)
        /\ FrameEnd(n + 1)' = wire'
    BY <2>1, <2>5, AppendFrame DEF SInv
  <2>3. Types' /\ Phases'
    BY <1>0, <1>2, <2>2 DEF SInv, Types, Phases, unsealer
  <2>4. PICK k \in 0 .. n, j \in 0 .. n : Receiving(k, j)
    BY <2>5 DEF SInv, Received
  <2>6. FrameEnd(k)' = FrameEnd(k) /\ TextEnd(k)' = TextEnd(k)
        /\ FrameEnd(j)' = FrameEnd(j) /\ TextEnd(j)' = TextEnd(j)
    BY <2>2
  <2>7. Start(TextEnd(k))' = Start(TextEnd(k))
    BY <2>6 DEF Start
  <2>8. k < Len(frames') => fed' < FrameEnd(k + 1)'
    <3>1. CASE k < n
      <4>1. k + 1 \in 0 .. n
        BY <2>5, <3>1
      <4>2. FrameEnd(k + 1)' = FrameEnd(k + 1)
        BY <2>2, <4>1
      <4>3. fed < FrameEnd(k + 1) /\ fed' = fed
        BY <1>0, <2>4, <2>5, <3>1 DEF Receiving
      <4> QED
        BY <4>2, <4>3
    <3>2. CASE k = n
      <4>1. FrameEnd(k + 1)' = wire' /\ fed' = 0 /\ wire' > 0
        BY <1>0, <2>2, <3>2
      <4> QED
        BY <4>1
    <3> QED
      BY <2>5, <3>1, <3>2
  <2>9. Receiving(k, j)'
    BY <2>4, <2>6, <2>7, <2>8 DEF Receiving, unsealer
  <2>10. k \in 0 .. Len(frames') /\ j \in 0 .. Len(frames')
    BY <2>2, <2>5
  <2>11. frames' # <<>> /\ text' = text + size
    <3>1. text' = text + size
      BY <2>1 DEF f
    <3> QED
      BY <2>2, <2>5, <3>1
  <2> QED
    BY <1>2, <2>2, <2>3, <2>9, <2>10, <2>11 DEF Received
<1> QED
  BY <1>1, <1>2 DEF SealFrame

(* A step of the sender keeps the invariant (sealing.cpp:32-51, 124-131).  *)
LEMMA SealKeeps ==
    ASSUME SealingAssumption, SInv, Seal
    PROVE  SInv'
<1>0. /\ BOM_LEN \in Nat \ {0} /\ MAX_FRAME_BODY \in Nat \ {0} /\ text \in Nat /\ body \in Nat
      /\ chunk \in Nat
  BY DEF SInv, Types, SealingAssumption
<1>1. CASE SealMessage
  <2>0. sender = "client" /\ sealing = "on" /\ UNCHANGED <<sender, chunk, body, has_bom, fed, unsealer>>
    BY <1>1 DEF SealMessage
  <2>1. CASE frames # <<>> /\ Piece <= 0
    <3>1. sealing' = "done" /\ UNCHANGED <<frames, wire, text>>
      BY <1>1, <2>1 DEF SealMessage
    <3>2. text >= BOM_LEN + body
      BY <1>0, <2>1 DEF Piece, Least, Chunk
    <3>3. Sealed'
      BY <1>0, <2>0, <2>1, <3>1, <3>2 DEF SInv, Sealed
    <3> QED
      BY <2>0, <3>1, <3>3, SenderStops DEF SInv
  <2>2. CASE ~(frames # <<>> /\ Piece <= 0)
    <3>1. PICK shape \in Shapes : SealFrame(Piece, shape)
      BY <1>1, <2>2 DEF SealMessage
    <3>2. /\ frames = <<>> => Piece = BOM_LEN
          /\ frames # <<>> => Piece \in Nat /\ text + Piece <= BOM_LEN + body
      BY <1>0, <2>2 DEF Piece, Least, Chunk
    <3>3. Piece \in Nat
      BY <1>0, <3>2
    <3>4. /\ Types' /\ Layout' /\ Phases' /\ Received'
          /\ sealing' # "done"
          /\ \/ frames' = frames /\ text' = text
             \/ frames' # <<>> /\ text' = text + Piece
      BY <2>0, <3>1, <3>3, SealFrameKeeps
    <3>5. Sealed'
      BY <1>0, <2>0, <3>2, <3>3, <3>4 DEF SInv, Sealed
    <3> QED
      BY <3>4, <3>5 DEF SInv
  <2> QED
    BY <2>1, <2>2
<1>2. CASE PeerSeals
  <2>0. sender = "peer" /\ sealing = "on" /\ UNCHANGED <<sender, chunk, body, has_bom, fed, unsealer>>
    BY <1>2 DEF PeerSeals
  <2>1. Sealed'
    BY <2>0 DEF Sealed
  <2>2. CASE sealing' = "done" /\ UNCHANGED <<frames, wire, text>>
    BY <2>0, <2>1, <2>2, SenderStops DEF SInv
  <2>3. CASE \E size \in Pieces, shape \in Shapes : SealFrame(size, shape)
    <3>1. PICK size \in Pieces, shape \in Shapes : SealFrame(size, shape)
      BY <2>3
    <3>2. size \in Nat
      BY DEF SealingAssumption
    <3> QED
      BY <2>0, <2>1, <3>1, <3>2, SealFrameKeeps DEF SInv
  <2> QED
    BY <1>2, <2>2, <2>3 DEF PeerSeals
<1> QED
  BY <1>1, <1>2 DEF Seal
-----------------------------------------------------------------------------
(* Unsealing.                                                              *)

(* A step of the receiver leaves the message alone.                        *)
LEMMA MessageKept ==
    ASSUME SInv, UNCHANGED sent,
           fed' \in 0 .. wire, calling' \in {"no", "loop", "threw"}, settled' \in BOOLEAN,
           ended' \in {"no", "ok", "short"}
    PROVE  /\ Types' /\ Layout' /\ Sealed' /\ frames' = frames
           /\ \A k \in Nat : FrameEnd(k)' = FrameEnd(k) /\ TextEnd(k)' = TextEnd(k)
           /\ \A n \in Nat : Start(n)' = Start(n)
<1>1. Types'
  <2>1. has_bom' = has_bom /\ has_bom \in BOOLEAN
    BY DEF SInv, Types, sent
  <2>2. wire' = wire /\ fed' \in 0 .. wire'
    BY DEF sent
  <2> QED
    BY <2>1, <2>2 DEF SInv, Types, sent
<1>2. Layout' /\ \A k \in Nat : FrameEnd(k)' = FrameEnd(k) /\ TextEnd(k)' = TextEnd(k)
  BY FramesKept DEF SInv, sent
<1>3. Sealed'
  BY DEF SInv, Sealed, sent
<1>4. \A n \in Nat : Start(n)' = Start(n)
  BY DEF Start, sent
<1> QED
  BY <1>1, <1>2, <1>3, <1>4 DEF sent

(* Where the receiver is, and the arithmetic of it.                        *)
LEMMA Whereabouts ==
    ASSUME SInv, NEW k \in 0 .. Len(frames), NEW j \in 0 .. Len(frames), Receiving(k, j)
    PROVE  /\ Len(frames) \in Nat /\ k \in Nat /\ j \in Nat /\ fed \in Nat /\ wire \in Nat
           /\ buf \in Nat /\ offset \in Nat /\ buf <= offset /\ offset <= fed /\ fed <= wire
           /\ TextEnd(k) \in Nat /\ TextEnd(j) \in Nat /\ TextEnd(k) <= TextEnd(j)
<1>1. Len(frames) \in Nat /\ fed \in 0 .. wire /\ wire \in Nat
  BY LenProperties DEF SInv, Types
<1>2. FrameEnd(k) <= FrameEnd(j) /\ FrameEnd(k) \in Nat /\ FrameEnd(j) \in Nat
      /\ TextEnd(k) \in Nat /\ TextEnd(j) \in Nat /\ TextEnd(k) <= TextEnd(j)
  BY FrameEndsGrow DEF SInv, Receiving
<1> QED
  BY <1>1, <1>2 DEF Receiving

(* A call of Append: nothing of the buffer is read yet                     *)
(* (sealing.cpp:53-57).                                                    *)
LEMMA CallAppendKeeps ==
    ASSUME SealingAssumption, SInv, NEW n \in Reads, CallAppend(n)
    PROVE  SInv'
<1>1. PICK k \in 0 .. Len(frames), j \in 0 .. Len(frames) : Receiving(k, j)
  BY DEF SInv, Received
<1>2. n \in Nat
  BY DEF SealingAssumption
<1>3. /\ Len(frames) \in Nat /\ k \in Nat /\ fed \in Nat /\ wire \in Nat
      /\ buf \in Nat /\ buf <= fed /\ TextEnd(k) \in Nat
  BY <1>1, Whereabouts
<1>4. /\ Types' /\ Layout' /\ Sealed' /\ frames' = frames
      /\ \A i \in Nat : FrameEnd(i)' = FrameEnd(i) /\ TextEnd(i)' = TextEnd(i)
      /\ \A i \in Nat : Start(i)' = Start(i)
  <2>1. fed' \in 0 .. wire /\ calling' = "loop" /\ UNCHANGED sent
    BY <1>2, <1>3 DEF CallAppend
  <2>2. settled' \in BOOLEAN
    BY DEF CallAppend, SInv, Types
  <2>3. ended' = "no"
    BY DEF CallAppend
  <2> QED
    BY <2>1, <2>2, <2>3, MessageKept
<1>5. Phases'
  BY DEF CallAppend, sent, Phases
<1>6. Start(TextEnd(k))' = Start(TextEnd(k)) /\ TextEnd(k)' = TextEnd(k) /\ FrameEnd(k)' = FrameEnd(k)
  <2>1. TextEnd(k)' = TextEnd(k) /\ FrameEnd(k)' = FrameEnd(k)
    BY <1>3, <1>4
  <2> QED
    BY <2>1 DEF Start, CallAppend, sent
<1>7. Receiving(k, k)'
  <2>1. Interval(None(0), TextEnd(k), TextEnd(k))
    BY <1>3, NoneIsEmpty
  <2>2. buf' = FrameEnd(k)' /\ offset' = FrameEnd(k)' /\ offset' <= fed'
    BY <1>1, <1>2, <1>3, <1>6 DEF Receiving, CallAppend
  <2> QED
    BY <1>1, <1>3, <1>6, <2>1, <2>2 DEF Receiving, CallAppend
<1> QED
  BY <1>4, <1>5, <1>7 DEF SInv, Received

(* A turn of the loop of Append moves past one frame (sealing.cpp:58-83).  *)
LEMMA UnsealFrameKeeps ==
    ASSUME SealingAssumption, SInv, UnsealFrame
    PROVE  SInv'
<1>1. PICK k \in 0 .. Len(frames), j \in 0 .. Len(frames) : Receiving(k, j)
  BY DEF SInv, Received
<1>2. /\ Len(frames) \in Nat /\ k \in Nat /\ j \in Nat /\ fed \in Nat /\ wire \in Nat
      /\ buf \in Nat /\ offset \in Nat /\ offset <= fed
      /\ TextEnd(k) \in Nat /\ TextEnd(j) \in Nat /\ TextEnd(k) <= TextEnd(j)
  BY <1>1, Whereabouts
<1>3. /\ Types' /\ Layout' /\ Sealed' /\ frames' = frames
      /\ \A i \in Nat : FrameEnd(i)' = FrameEnd(i) /\ TextEnd(i)' = TextEnd(i)
      /\ \A i \in Nat : Start(i)' = Start(i)
  <2>1. fed' = fed /\ calling' = calling /\ UNCHANGED sent /\ settled' = settled /\ ended' = ended
    BY DEF UnsealFrame
  <2>2. fed' \in 0 .. wire /\ calling' \in {"no", "loop", "threw"} /\ ended' \in {"no", "ok", "short"}
    BY <2>1 DEF SInv, Types
  <2>3. settled' \in BOOLEAN
    BY <2>1 DEF SInv, Types
  <2> QED
    BY <2>1, <2>2, <2>3, MessageKept
<1>4. Phases'
  BY DEF UnsealFrame, sent, Phases, SInv
<1>5. j < Len(frames) /\ FrameEnd(j + 1) <= fed
  BY <1>1, ArrivedIs DEF UnsealFrame, Receiving, SInv
<1>6. j + 1 \in 0 .. Len(frames) /\ j + 1 \in Nat /\ k <= j + 1 /\ k <= j
  BY <1>1, <1>2, <1>5 DEF Receiving
<1>7. /\ FrameHere = j + 1 /\ FrameEnd(j + 1) = offset + FrameLen(frames[j + 1])
      /\ frames[j + 1].from = TextEnd(j) /\ frames[j + 1].to = TextEnd(j + 1)
  <2>1. offset = FrameEnd(j) /\ fed - offset >= HEADER_LEN
    BY <1>1 DEF Receiving, UnsealFrame, Arrived
  <2> QED
    BY <2>1, FrameHereIs DEF SInv
<1>8. TextEnd(j + 1) \in Nat /\ TextEnd(j) <= TextEnd(j + 1)
  BY <1>2, <1>6, FrameEndsGrow DEF SInv
<1>9. Interval(plain', TextEnd(k), TextEnd(j + 1))
  <2> DEFINE t == [from |-> TextEnd(j), to |-> TextEnd(j + 1)]
  <2>1. Interval(t, TextEnd(j), TextEnd(j + 1))
    BY <1>2, <1>8 DEF Interval, Held
  <2>2. Interval(plain, TextEnd(k), TextEnd(j))
    BY <1>1 DEF Receiving
  <2>3. plain' = Join(plain, t)
    BY <1>7 DEF UnsealFrame
  <2> HIDE DEF t
  <2> QED
    BY <1>2, <1>8, <2>1, <2>2, <2>3, JoinIntervals
<1>10. offset' = FrameEnd(j + 1) /\ offset' <= fed
  BY <1>5, <1>7 DEF UnsealFrame
<1>11. /\ TextEnd(k)' = TextEnd(k) /\ FrameEnd(k)' = FrameEnd(k)
       /\ TextEnd(j + 1)' = TextEnd(j + 1) /\ FrameEnd(j + 1)' = FrameEnd(j + 1)
  BY <1>2, <1>3, <1>6
<1>12. Start(TextEnd(k))' = Start(TextEnd(k))
  BY <1>11 DEF Start, UnsealFrame, sent
<1>13. Receiving(k, j + 1)'
  BY <1>1, <1>6, <1>9, <1>10, <1>11, <1>12 DEF Receiving, UnsealFrame
<1> QED
  BY <1>3, <1>4, <1>6, <1>13 DEF SInv, Received

(* An Append that throws leaves the receiver where it was before the call  *)
(* (sealing.cpp:80).                                                       *)
LEMMA RefuseFrameKeeps ==
    ASSUME SealingAssumption, SInv, RefuseFrame
    PROVE  SInv'
<1>1. PICK k \in 0 .. Len(frames), j \in 0 .. Len(frames) : Receiving(k, j)
  BY DEF SInv, Received
<1>2. /\ k \in Nat /\ buf \in Nat /\ offset \in Nat /\ buf <= offset /\ offset <= fed
      /\ fed \in Nat /\ TextEnd(k) \in Nat
  BY <1>1, Whereabouts
<1>3. /\ Types' /\ Layout' /\ Sealed' /\ frames' = frames
      /\ \A i \in Nat : FrameEnd(i)' = FrameEnd(i) /\ TextEnd(i)' = TextEnd(i)
      /\ \A i \in Nat : Start(i)' = Start(i)
  <2>1. fed' = fed /\ calling' = "threw" /\ UNCHANGED sent /\ settled' = settled /\ ended' = ended
    BY DEF RefuseFrame
  <2>2. fed' \in 0 .. wire /\ ended' \in {"no", "ok", "short"}
    BY <2>1 DEF SInv, Types
  <2>3. settled' \in BOOLEAN
    BY <2>1 DEF SInv, Types
  <2> QED
    BY <2>1, <2>2, <2>3, MessageKept
<1>4. Phases'
  BY DEF RefuseFrame, sent, Phases, SInv
<1>5. TextEnd(k)' = TextEnd(k) /\ FrameEnd(k)' = FrameEnd(k)
  BY <1>2, <1>3
<1>6. Start(TextEnd(k))' = Start(TextEnd(k))
  BY <1>5 DEF Start, RefuseFrame, sent
<1>7. Interval(plain', TextEnd(k), TextEnd(k))
  BY <1>2, NoneIsEmpty DEF RefuseFrame
<1>8. offset' = buf /\ buf <= fed
  BY <1>2 DEF RefuseFrame
<1>9. Receiving(k, k)'
  BY <1>1, <1>2, <1>5, <1>6, <1>7, <1>8 DEF Receiving, RefuseFrame
<1> QED
  BY <1>3, <1>4, <1>9 DEF SInv, Received

(* What an Append that ends does with n bytes of plaintext of which it had *)
(* not settled the start.                                                  *)
LEMMA Settles ==
    ASSUME SealingAssumption, NEW held, NEW n \in Nat, Interval(held, 0, n), Interval(given, 0, 0),
           settled = FALSE, Settle(held)
    PROVE  /\ settled' \in BOOLEAN
           /\ settled' => n >= BOM_LEN /\ Interval(head', 0, 0) /\ Interval(given', Start(n), n)
           /\ ~settled' => n < BOM_LEN /\ Interval(head', 0, n) /\ Interval(given', 0, 0)
<1>0. BOM_LEN \in Nat
  BY DEF SealingAssumption
<1>1. Size(held) = n
  BY SizeOfHead
<1>2. CASE n < BOM_LEN
  <2>1. head' = held /\ given' = given /\ settled' = FALSE
    BY <1>1, <1>2 DEF Settle
  <2> QED
    BY <1>2, <2>1
<1>3. CASE ~(n < BOM_LEN)
  <2>1. head' = None(0) /\ given' = Join(given, WithoutBOM(held)) /\ settled' = TRUE
    BY <1>1, <1>3 DEF Settle
  <2>2. Interval(WithoutBOM(held), Start(n), n)
    BY WithoutBOMIs
  <2>3. Start(n) \in Nat /\ Start(n) <= n
    BY StartTyped
  <2>4. Interval(given', Start(n), n)
    BY <2>1, <2>2, <2>3, EmptyAnywhere, JoinIntervals
  <2>5. Interval(head', 0, 0)
    BY <2>1, NoneIsEmpty
  <2> QED
    BY <1>0, <1>3, <2>1, <2>4, <2>5
<1> QED
  BY <1>2, <1>3

(* An Append that returns takes the frames it went past out of the buffer  *)
(* (sealing.cpp:84-95).                                                    *)
LEMMA EndAppendKeeps ==
    ASSUME SealingAssumption, SInv, EndAppend
    PROVE  SInv'
<1>1. PICK k \in 0 .. Len(frames), j \in 0 .. Len(frames) : Receiving(k, j)
  BY DEF SInv, Received
<1>2. /\ Len(frames) \in Nat /\ k \in Nat /\ j \in Nat /\ fed \in Nat /\ offset \in Nat /\ offset <= fed
      /\ TextEnd(k) \in Nat /\ TextEnd(j) \in Nat /\ TextEnd(k) <= TextEnd(j)
  BY <1>1, Whereabouts
<1>3. calling = "loop" /\ ended = "no" /\ BOM_LEN \in Nat \ {0}
  BY DEF EndAppend, SInv, Phases, SealingAssumption
<1>4. Interval(plain, TextEnd(k), TextEnd(j))
  BY <1>1 DEF Receiving
<1>5. /\ settled' \in BOOLEAN
      /\ settled' => TextEnd(j) >= BOM_LEN /\ Interval(head', 0, 0)
                       /\ Interval(given', Start(TextEnd(j)), TextEnd(j))
      /\ ~settled' => TextEnd(j) < BOM_LEN /\ Interval(head', 0, TextEnd(j)) /\ Interval(given', 0, 0)
  <2>1. CASE settled = TRUE
    <3>1. /\ TextEnd(k) >= BOM_LEN /\ Interval(head, 0, 0)
          /\ Interval(given, Start(TextEnd(k)), TextEnd(k))
      BY <1>1, <1>3, <2>1 DEF Receiving
    <3>2. settled' = TRUE /\ head' = head /\ given' = Join(given, plain)
      BY <2>1 DEF EndAppend
    <3>3. Start(TextEnd(j)) = Start(TextEnd(k)) /\ TextEnd(j) >= BOM_LEN
      BY <1>2, <1>3, <3>1 DEF Start
    <3>4. Start(TextEnd(k)) \in Nat /\ Start(TextEnd(k)) <= TextEnd(k)
      BY <1>2, StartTyped
    <3>5. Interval(given', Start(TextEnd(k)), TextEnd(j))
      BY <1>2, <1>4, <3>1, <3>2, <3>4, JoinIntervals
    <3> QED
      BY <3>1, <3>2, <3>3, <3>5
  <2>2. CASE settled = FALSE
    <3>1. Interval(head, 0, TextEnd(k)) /\ Interval(given, 0, 0)
      BY <1>1, <2>2 DEF Receiving
    <3>2. Interval(Join(head, plain), 0, TextEnd(j))
      BY <1>2, <1>4, <3>1, JoinIntervals
    <3>3. Settle(Join(head, plain))
      BY <2>2 DEF EndAppend
    <3> QED
      BY <1>2, <2>2, <3>1, <3>2, <3>3, Settles
  <2> QED
    BY <2>1, <2>2 DEF SInv, Types
<1>6. /\ Types' /\ Layout' /\ Sealed' /\ frames' = frames
      /\ \A i \in Nat : FrameEnd(i)' = FrameEnd(i) /\ TextEnd(i)' = TextEnd(i)
      /\ \A i \in Nat : Start(i)' = Start(i)
  <2>1. fed' = fed /\ calling' = "no" /\ UNCHANGED sent /\ ended' = ended
    BY DEF EndAppend
  <2>2. fed' \in 0 .. wire /\ ended' \in {"no", "ok", "short"}
    BY <2>1 DEF SInv, Types
  <2> QED
    BY <1>5, <2>1, <2>2, MessageKept
<1>7. Phases'
  BY <1>3 DEF EndAppend, sent, Phases, SInv
<1>8. TextEnd(j)' = TextEnd(j) /\ FrameEnd(j)' = FrameEnd(j) /\ FrameEnd(j + 1)' = FrameEnd(j + 1)
  BY <1>2, <1>6
<1>9. Start(TextEnd(j))' = Start(TextEnd(j))
  BY <1>8 DEF Start, EndAppend, sent
<1>10. Interval(plain', TextEnd(j), TextEnd(j))
  BY <1>2, NoneIsEmpty DEF EndAppend
<1>11. j < Len(frames) => fed < FrameEnd(j + 1)
  BY <1>1, ArrivedIs DEF EndAppend, Receiving, SInv
<1>12. buf' = FrameEnd(j) /\ offset' = FrameEnd(j) /\ offset' <= fed' /\ fed' = fed
       /\ ended' = "no" /\ calling' = "no"
  BY <1>1, <1>2, <1>3 DEF EndAppend, Receiving
<1>13. Receiving(j, j)'
  BY <1>2, <1>5, <1>6, <1>8, <1>9, <1>10, <1>11, <1>12 DEF Receiving
<1> QED
  BY <1>6, <1>7, <1>13 DEF SInv, Received

(* Finish and Flush at the end of the message (sealing.cpp:98-122).        *)
LEMMA FinishKeeps ==
    ASSUME SealingAssumption, SInv, FinishAndFlush
    PROVE  SInv'
<1>1. PICK k \in 0 .. Len(frames), j \in 0 .. Len(frames) : Receiving(k, j)
  BY DEF SInv, Received
<1>2. /\ Len(frames) \in Nat /\ k \in Nat /\ fed \in Nat /\ buf \in Nat
      /\ offset \in Nat /\ TextEnd(k) \in Nat
  BY <1>1, Whereabouts
<1>3. calling = "no" /\ ended = "no" /\ j = k /\ BOM_LEN \in Nat \ {0}
  BY <1>1 DEF FinishAndFlush, Receiving, SealingAssumption
<1>4. ended' = (IF fed = buf THEN "ok" ELSE "short")
  BY DEF FinishAndFlush, Finishes
<1>5. /\ settled' \in BOOLEAN
      /\ settled' => (TextEnd(k) >= BOM_LEN \/ ended' = "ok") /\ Interval(head', 0, 0)
                       /\ Interval(given', Start(TextEnd(k)), TextEnd(k))
      /\ ~settled' => TextEnd(k) < BOM_LEN /\ ended' # "ok"
                       /\ Interval(head', 0, TextEnd(k)) /\ Interval(given', 0, 0)
  <2>1. CASE settled = TRUE
    <3>1. settled' = TRUE /\ head' = head /\ given' = given
      BY <2>1 DEF FinishAndFlush
    <3> QED
      BY <1>1, <1>3, <2>1, <3>1 DEF Receiving
  <2>2. CASE settled = FALSE /\ ended' = "ok"
    <3>1. Interval(head, 0, TextEnd(k)) /\ Interval(given, 0, 0)
      BY <1>1, <2>2 DEF Receiving
    <3>2. settled' = TRUE /\ head' = None(0) /\ given' = Join(given, WithoutBOM(head))
      BY <2>2 DEF FinishAndFlush
    <3>3. Interval(WithoutBOM(head), Start(TextEnd(k)), TextEnd(k))
      BY <1>2, <3>1, WithoutBOMIs
    <3>4. Start(TextEnd(k)) \in Nat /\ Start(TextEnd(k)) <= TextEnd(k)
      BY <1>2, StartTyped
    <3>5. Interval(given', Start(TextEnd(k)), TextEnd(k))
      BY <1>2, <3>1, <3>2, <3>3, <3>4, EmptyAnywhere, JoinIntervals
    <3>6. Interval(head', 0, 0)
      BY <3>2, NoneIsEmpty
    <3> QED
      BY <2>2, <3>2, <3>5, <3>6
  <2>3. CASE settled = FALSE /\ ended' # "ok"
    <3>1. settled' = FALSE /\ head' = head /\ given' = given
      BY <2>3 DEF FinishAndFlush
    <3> QED
      BY <1>1, <2>3, <3>1 DEF Receiving
  <2> QED
    BY <2>1, <2>2, <2>3 DEF SInv, Types
<1>6. /\ Types' /\ Layout' /\ Sealed' /\ frames' = frames
      /\ \A i \in Nat : FrameEnd(i)' = FrameEnd(i) /\ TextEnd(i)' = TextEnd(i)
      /\ \A i \in Nat : Start(i)' = Start(i)
  <2>1. fed' = fed /\ calling' = calling /\ UNCHANGED sent
    BY DEF FinishAndFlush
  <2>2. fed' \in 0 .. wire /\ calling' \in {"no", "loop", "threw"} /\ ended' \in {"no", "ok", "short"}
    BY <1>4, <2>1 DEF SInv, Types
  <2> QED
    BY <1>5, <2>1, <2>2, MessageKept
<1>7. Phases'
  BY <1>3, <1>4 DEF FinishAndFlush, sent, Phases, SInv
<1>8. TextEnd(k)' = TextEnd(k) /\ FrameEnd(k)' = FrameEnd(k) /\ FrameEnd(k + 1)' = FrameEnd(k + 1)
  BY <1>2, <1>6
<1>9. Start(TextEnd(k))' = Start(TextEnd(k))
  BY <1>8 DEF Start, FinishAndFlush, sent
<1>10. Receiving(k, k)'
  BY <1>1, <1>2, <1>3, <1>5, <1>6, <1>8, <1>9 DEF Receiving, FinishAndFlush
<1> QED
  BY <1>6, <1>7, <1>10 DEF SInv, Received

(* Where the receiver is and what it holds agree, in every state: the      *)
(* inductive invariant from which the properties below follow.             *)
THEOREM SInvAlways == ASSUME SealingAssumption PROVE SealingSpec => []SInv
<1>1. SealingInit => SInv
  BY SInvHoldsFirst
<1>2. SInv /\ [SealingNext]_sealingVars => SInv'
  <2> SUFFICES ASSUME SInv, [SealingNext]_sealingVars
               PROVE  SInv'
    OBVIOUS
  <2>1. CASE Seal
    BY <2>1, SealKeeps
  <2>2. CASE \E n \in Reads : CallAppend(n)
    BY <2>2, CallAppendKeeps
  <2>3. CASE UnsealFrame
    BY <2>3, UnsealFrameKeeps
  <2>4. CASE RefuseFrame
    BY <2>4, RefuseFrameKeeps
  <2>5. CASE EndAppend
    BY <2>5, EndAppendKeeps
  <2>6. CASE FinishAndFlush
    BY <2>6, FinishKeeps
  <2>7. CASE UNCHANGED sealingVars
    <3>1. /\ Types' /\ Layout' /\ Sealed' /\ frames' = frames
      <4>1. UNCHANGED sent /\ fed' = fed /\ calling' = calling /\ ended' = ended /\ settled' = settled
        BY <2>7 DEF sealingVars, unsealer
      <4>2. settled' \in BOOLEAN
        BY <4>1 DEF SInv, Types
      <4>3. fed' \in 0 .. wire /\ calling' \in {"no", "loop", "threw"} /\ ended' \in {"no", "ok", "short"}
        BY <4>1 DEF SInv, Types
      <4> QED
        BY <4>1, <4>2, <4>3, MessageKept
    <3>2. Phases'
      BY <2>7 DEF sealingVars, unsealer, sent, Phases, SInv
    <3>3. PICK k \in 0 .. Len(frames), j \in 0 .. Len(frames) : Receiving(k, j)
      BY DEF SInv, Received
    <3>4. Receiving(k, j)'
      BY <2>7, <3>3 DEF Receiving, sealingVars, unsealer, sent, FrameEnd, TextEnd, FrameLen, Start
    <3> QED
      BY <3>1, <3>2, <3>3, <3>4 DEF SInv, Received
  <2> QED
    BY <2>1, <2>2, <2>3, <2>4, <2>5, <2>6, <2>7 DEF SealingNext, Unseal
<1> QED
  BY <1>1, <1>2, PTL DEF SealingSpec

-----------------------------------------------------------------------------
(* The properties.                                                         *)

(* The types of Sealing's state, and that the loop of Append never gets    *)
(* past the bytes that have arrived (sealing.cpp:53-83).                   *)
THEOREM SealingTyped == ASSUME SealingAssumption PROVE SealingSpec => []SealTypeOK
<1>1. SInv => SealTypeOK
  <2> SUFFICES ASSUME SInv PROVE SealTypeOK
    OBVIOUS
  <2>1. PICK k \in 0 .. Len(frames), j \in 0 .. Len(frames) : Receiving(k, j)
    BY DEF SInv, Received
  <2>2. buf \in 0 .. fed /\ offset \in buf .. fed
    BY <2>1, Whereabouts
  <2>3. plain \in Held /\ head \in Held /\ given \in Held
    BY <2>1 DEF Receiving, Interval, SInv, Types
  <2>4. plain \in Spans /\ head \in Spans /\ given \in Spans
    BY <2>3, HeldIsNotTorn
  <2>5. has_bom \in BOOLEAN
    BY DEF SInv, Types
  <2>6. settled \in BOOLEAN
    BY DEF SInv, Types
  <2> QED
    BY <2>2, <2>4, <2>5, <2>6 DEF SInv, Types, SealTypeOK
<1> QED
  BY <1>1, SInvAlways, PTL

(* Nothing of the plaintext is lost, repeated or swapped, and the mark is  *)
(* taken off once, however the plaintext was cut into frames and the       *)
(* frames into pieces, and also when an Append is called again after one   *)
(* that threw (sealing.cpp:53-96).                                         *)
THEOREM PlaintextInOrder == ASSUME SealingAssumption PROVE SealingSpec => []PlainInOrder
<1>1. SInv => PlainInOrder
  <2> SUFFICES ASSUME SInv, calling # "loop",
                      NEW n, n = TextEnd(WholeBefore(buf)), NEW held, held = Join(given, head)
               PROVE  IF n > Start(n) THEN held = [from |-> Start(n), to |-> n]
                                      ELSE held # Torn /\ Size(held) = 0
    BY DEF PlainInOrder
  <2>1. PICK k \in 0 .. Len(frames), j \in 0 .. Len(frames) : Receiving(k, j)
    BY DEF SInv, Received
  <2>2. /\ Len(frames) \in Nat /\ k \in Nat /\ buf \in Nat /\ TextEnd(k) \in Nat
    BY <2>1, Whereabouts
  <2>3. WholeBefore(buf) = k
    <3>1. FrameEnd(k) = buf
      BY <2>1 DEF Receiving
    <3>2. k < Len(frames) => FrameEnd(k + 1) > buf
      <4> SUFFICES ASSUME k < Len(frames) PROVE FrameEnd(k + 1) > buf
        OBVIOUS
      <4>1. k + 1 \in 0 .. Len(frames) /\ k < k + 1
        BY <2>2
      <4>2. FrameEnd(k) < FrameEnd(k + 1) /\ FrameEnd(k + 1) \in Nat
        BY <4>1 DEF SInv, Layout
      <4> QED
        BY <2>2, <3>1, <4>2
    <3> QED
      BY <2>2, <3>1, <3>2, WholeBeforeIs DEF SInv
  <2>4. n = TextEnd(k) /\ n \in Nat /\ Start(n) \in Nat /\ Start(n) <= n /\ (n < BOM_LEN => Start(n) = 0)
    BY <2>2, <2>3, StartTyped
  <2>5. Interval(held, Start(n), n)
    <3>1. CASE settled = TRUE
      <4>1. Interval(head, n, n) /\ Interval(given, Start(n), n)
        BY <2>1, <2>4, <3>1, EmptyAnywhere DEF Receiving
      <4> QED
        BY <2>4, <4>1, JoinIntervals
    <3>2. CASE settled = FALSE
      <4>1. Interval(head, 0, n) /\ Interval(given, 0, 0) /\ Start(n) = 0
        BY <2>1, <2>4, <3>2 DEF Receiving
      <4> QED
        BY <2>4, <4>1, JoinIntervals
    <3> QED
      BY <3>1, <3>2 DEF SInv, Types
  <2>6. held # Torn /\ held.from \in Nat /\ held.to \in Nat /\ held = [from |-> held.from, to |-> held.to]
    BY <2>5, HeldIsNotTorn DEF Interval
  <2>7. CASE n > Start(n)
    BY <2>4, <2>5, <2>6, <2>7 DEF Interval
  <2>8. CASE ~(n > Start(n))
    <3>1. n = Start(n)
      BY <2>4, <2>8
    <3>2. held.from = held.to
      BY <2>5, <3>1 DEF Interval
    <3>3. Size(held) = 0
      BY <2>6, <3>2 DEF Size
    <3> QED
      BY <2>6, <2>8, <3>3
  <2> QED
    BY <2>7, <2>8
<1> QED
  BY <1>1, SInvAlways, PTL

(* An Append that returned has unsealed every whole frame, and holds back  *)
(* plaintext only while it cannot tell the mark from the document          *)
(* (sealing.cpp:58-95, 111-122).                                           *)
THEOREM NothingHeldBack == ASSUME SealingAssumption PROVE SealingSpec => []NothingWaits
<1>1. SInv => NothingWaits
  <2> SUFFICES ASSUME SInv PROVE NothingWaits
    OBVIOUS
  <2>1. PICK k \in 0 .. Len(frames), j \in 0 .. Len(frames) : Receiving(k, j)
    BY DEF SInv, Received
  <2>2. /\ Len(frames) \in Nat /\ k \in Nat /\ buf \in Nat /\ fed \in Nat /\ TextEnd(k) \in Nat
        /\ buf <= offset /\ offset <= fed /\ offset \in Nat
    BY <2>1, Whereabouts
  <2>3. FrameEnd(k) = buf /\ FrameEnd(k) \in Nat
    BY <2>1, <2>2 DEF Receiving
  <2>4. k < Len(frames) => FrameEnd(k + 1) > buf
    <3> SUFFICES ASSUME k < Len(frames) PROVE FrameEnd(k + 1) > buf
      OBVIOUS
    <3>1. k + 1 \in 0 .. Len(frames) /\ k < k + 1
      BY <2>2
    <3>2. FrameEnd(k) < FrameEnd(k + 1) /\ FrameEnd(k + 1) \in Nat
      BY <3>1 DEF SInv, Layout
    <3> QED
      BY <2>2, <2>3, <3>2
  <2>5. FramesUnsealed
    <3> SUFFICES ASSUME calling = "no" PROVE buf = FrameEnd(WholeBefore(fed))
      BY DEF FramesUnsealed
    <3>1. k < Len(frames) => FrameEnd(k + 1) > fed
      <4> SUFFICES ASSUME k < Len(frames) PROVE FrameEnd(k + 1) > fed
        OBVIOUS
      <4>1. fed < FrameEnd(k + 1)
        BY <2>1 DEF Receiving
      <4>2. k + 1 \in 0 .. Len(frames)
        BY <2>2
      <4>3. FrameEnd(k + 1) \in Nat
        BY <4>2 DEF SInv, Layout
      <4> QED
        BY <2>2, <4>1, <4>3
    <3>2. FrameEnd(k) <= fed
      BY <2>2, <2>3
    <3>3. WholeBefore(fed) = k
      BY <2>2, <3>1, <3>2, WholeBeforeIs DEF SInv
    <3> QED
      BY <2>3, <3>3
  <2>6. HeldForMark
    <3> SUFFICES ASSUME calling # "loop"
                 PROVE  /\ settled <=> (TextEnd(WholeBefore(buf)) >= BOM_LEN \/ ended = "ok")
                        /\ settled => Size(head) = 0
      BY DEF HeldForMark
    <3>1. WholeBefore(buf) = k
      BY <2>2, <2>3, <2>4, WholeBeforeIs DEF SInv
    <3>2. CASE settled = TRUE
      <4>1. (TextEnd(k) >= BOM_LEN \/ ended = "ok") /\ Interval(head, 0, 0)
        BY <2>1, <3>2 DEF Receiving
      <4>2. Size(head) = 0
        BY <4>1, SizeOfHead
      <4> QED
        BY <3>1, <3>2, <4>1, <4>2
    <3>3. CASE settled = FALSE
      <4>1. TextEnd(k) < BOM_LEN /\ ended # "ok"
        BY <2>1, <3>3 DEF Receiving
      <4>2. ~(TextEnd(k) >= BOM_LEN)
        BY <2>2, <4>1 DEF SealingAssumption
      <4> QED
        BY <3>1, <3>3, <4>1, <4>2
    <3> QED
      BY <3>2, <3>3 DEF SInv, Types
  <2> QED
    BY <2>5, <2>6 DEF NothingWaits
<1> QED
  BY <1>1, SInvAlways, PTL

(* A message cut inside a frame is always reported, and one that ends with *)
(* a frame never (sealing.cpp:98-109).                                     *)
THEOREM EndReported == ASSUME SealingAssumption PROVE SealingSpec => []EndExact
<1>1. SInv => EndExact
  <2> SUFFICES ASSUME SInv, ended # "no" PROVE ended = "ok" <=> fed = FrameEnd(WholeBefore(fed))
    BY DEF EndExact
  <2>1. PICK k \in 0 .. Len(frames), j \in 0 .. Len(frames) : Receiving(k, j)
    BY DEF SInv, Received
  <2>2. /\ Len(frames) \in Nat /\ k \in Nat /\ buf \in Nat /\ fed \in Nat
        /\ buf <= offset /\ offset <= fed /\ offset \in Nat
    BY <2>1, Whereabouts
  <2>3. calling = "no" /\ (ended = "ok" <=> fed = buf)
    BY DEF SInv, Phases
  <2>4. FrameEnd(k) = buf /\ FrameEnd(k) <= fed
    BY <2>1, <2>2 DEF Receiving
  <2>5. k < Len(frames) => FrameEnd(k + 1) > fed
    <3> SUFFICES ASSUME k < Len(frames) PROVE FrameEnd(k + 1) > fed
      OBVIOUS
    <3>1. fed < FrameEnd(k + 1)
      BY <2>1, <2>3 DEF Receiving
    <3>2. k + 1 \in 0 .. Len(frames)
      BY <2>2
    <3>3. FrameEnd(k + 1) \in Nat
      BY <3>2 DEF SInv, Layout
    <3> QED
      BY <2>2, <3>1, <3>3
  <2>6. WholeBefore(fed) = k
    BY <2>2, <2>4, <2>5, WholeBeforeIs DEF SInv
  <2> QED
    BY <2>3, <2>4, <2>6
<1> QED
  BY <1>1, SInvAlways, PTL

(* The body given to SealMessage is what the whole of its message unseals  *)
(* to, for every chunk size and every cut (sealing.cpp:32-51, 124-131).    *)
THEOREM SealedBodyCarried == ASSUME SealingAssumption PROVE SealingSpec => []BodyCarried
<1>1. SInv => BodyCarried
  <2> SUFFICES ASSUME SInv, sender = "client", sealing = "done", fed = wire, ended = "ok"
               PROVE  IF body = 0 THEN Size(given) = 0
                                  ELSE given = [from |-> BOM_LEN, to |-> BOM_LEN + body]
    BY DEF BodyCarried
  <2>1. PICK k \in 0 .. Len(frames), j \in 0 .. Len(frames) : Receiving(k, j)
    BY DEF SInv, Received
  <2>2. /\ Len(frames) \in Nat /\ k \in Nat /\ buf \in Nat /\ fed \in Nat /\ wire \in Nat
        /\ body \in Nat /\ BOM_LEN \in Nat
    BY <2>1, Whereabouts DEF SealingAssumption, SInv, Types
  <2>3. FrameEnd(k) = wire
    BY <2>1 DEF SInv, Phases, Receiving
  <2>4. k = Len(frames)
    <3>1. ~(k < Len(frames))
      <4>1. k < Len(frames) => FrameEnd(k) < FrameEnd(Len(frames))
        BY <2>2 DEF SInv, Layout
      <4> QED
        BY <2>2, <2>3, <4>1 DEF SInv, Layout
    <3> QED
      BY <2>2, <3>1
  <2>5. TextEnd(k) = BOM_LEN + body /\ has_bom = TRUE
    BY <2>4 DEF SInv, Layout, Sealed
  <2>6. Start(TextEnd(k)) = BOM_LEN
    BY <2>2, <2>5 DEF Start
  <2>7. settled = TRUE
    BY <2>1 DEF Receiving, SInv, Types
  <2>8. Interval(given, BOM_LEN, BOM_LEN + body)
    BY <2>1, <2>5, <2>6, <2>7 DEF Receiving
  <2>9. given.from \in Nat /\ given.to \in Nat /\ given = [from |-> given.from, to |-> given.to]
    BY <2>8, HeldIsNotTorn DEF Interval
  <2>10. CASE body = 0
    <3>1. given.from = given.to
      BY <2>2, <2>8, <2>10 DEF Interval
    <3> QED
      BY <2>9, <2>10, <3>1 DEF Size
  <2>11. CASE body # 0
    <3>1. given.from = BOM_LEN /\ given.to = BOM_LEN + body
      <4>1. BOM_LEN # BOM_LEN + body
        BY <2>2, <2>11
      <4> QED
        BY <2>8, <4>1 DEF Interval
    <3> QED
      BY <2>9, <2>11, <3>1
  <2> QED
    BY <2>10, <2>11
<1> QED
  BY <1>1, SInvAlways, PTL
=============================================================================
