-------------------------- MODULE MessageStreamProofs --------------------------
(***************************************************************************)
(* Proofs about MessageStream, for every set of record shapes, every read  *)
(* size, every buffer limit and every number of records.                   *)
(***************************************************************************)
EXTENDS MessageStream, SequenceTheorems, Induction, TLAPS

-----------------------------------------------------------------------------
(* The decoder's arithmetic.                                               *)

(* Pad brings a length to the next multiple of four and adds at most three *)
(* (dime.cpp:24-26).                                                       *)
LEMMA PadAligns ==
    ASSUME NEW n \in Nat
    PROVE  Pad(n) \in Nat /\ Pad(n) <= 3 /\ (n + Pad(n)) % 4 = 0
BY SMT DEF Pad

(* Padding a field is rounding its length up.                              *)
LEMMA RoundUpIsPad ==
    ASSUME NEW n \in Nat
    PROVE  RoundUp(n) = n + Pad(n)
<1> DEFINE p == Pad(n)
<1>0. p \in Nat /\ p <= 3 /\ (n + p) % 4 = 0
  BY PadAligns
<1> HIDE DEF p
<1>1. n + p \in n .. (n + 3)
  BY <1>0, SMT
<1>2. ASSUME NEW m \in n .. (n + 3), m % 4 = 0 PROVE m = n + p
  BY <1>0, <1>2, SMT
<1> QED
  BY <1>0, <1>1, <1>2 DEF RoundUp, p

(* The decoder's idea of a record's length is the peer's: padding each     *)
(* field on its own adds up to the bytes the peer wrote.                   *)
LEMMA SpanIsPeerSpan ==
    ASSUME NEW s \in ShapeType
    PROVE  Span(s) = PeerSpan(s) /\ Span(s) \in Nat /\ Span(s) >= HEADER_LEN
<1>1. s.options \in Nat /\ s.id \in Nat /\ s.type_ \in Nat /\ s.data \in Nat
  BY DEF ShapeType
<1>2. /\ RoundUp(s.options) = s.options + Pad(s.options)
      /\ RoundUp(s.id) = s.id + Pad(s.id)
      /\ RoundUp(s.type_) = s.type_ + Pad(s.type_)
      /\ RoundUp(s.data) = s.data + Pad(s.data)
  BY <1>1, RoundUpIsPad
<1>3. /\ Pad(s.options) \in Nat /\ Pad(s.id) \in Nat
      /\ Pad(s.type_) \in Nat /\ Pad(s.data) \in Nat
  BY <1>1, PadAligns
<1> QED
  BY <1>1, <1>2, <1>3, SMT DEF Span, PeerSpan, HEADER_LEN

-----------------------------------------------------------------------------
(* The inductive invariant.                                                *)

(* Where record k + 1 starts, or will start.                               *)
Boundary(k) == IF k = Len(wire) THEN total ELSE wire[k + 1].at

(* The peer's records lie end to end.                                      *)
Layout ==
    /\ Boundary(0) = 0
    /\ \A i \in Indices : wire[i].at + PeerSpan(wire[i].shape) = Boundary(i)
    /\ \A i \in Indices : wire[i].at < total
    /\ \A i, j \in Indices : i < j => wire[i].at < wire[j].at

(* The peer's MB and ME bits bracket its messages.                         *)
Bracketing ==
    /\ \A i \in Indices : wire[i].head \in 1 .. i
    /\ \A i \in Indices : wire[i].mb => wire[i].head = i
    /\ \A i, j \in Indices :
          (i <= j /\ \A k \in i .. (j - 1) : ~wire[k].me) => wire[j].head = wire[i].head

(* What in_message_ and a pending call stand for.                          *)
Accepted(i) == wire[wire[i].head].mb /\ wire[wire[i].head].negotiated
Flags ==
    /\ call # "none" => ~desynchronised
    /\ in_message => next \in Indices /\ ~wire[next].me /\ Accepted(next)

IInv == TypeOK /\ Layout /\ Bracketing /\ Flags /\ Aligned
          /\ InOrderOnce /\ NegotiatedOnly
-----------------------------------------------------------------------------
(* Facts about the front of the buffer.                                    *)

(* The type of one record of the peer's output.                            *)
LEMMA RecordTyped ==
    ASSUME StreamAssumption, TypeOK, NEW i \in Indices
    PROVE  /\ wire[i] \in RecordType
           /\ wire[i].at \in Nat
           /\ wire[i].shape \in ShapeType
           /\ i \in Nat /\ 1 <= i /\ i <= Len(wire) /\ Len(wire) \in Nat
<1>1. wire \in Seq(RecordType)
  BY DEF TypeOK
<1>2. wire[i] \in RecordType
  BY <1>1, ElementOfSeq DEF Indices
<1>3. wire[i].at \in Nat /\ wire[i].shape \in Shapes
  BY <1>2 DEF RecordType
<1>4. Len(wire) \in Nat
  BY <1>1, LenProperties
<1> QED
  BY <1>2, <1>3, <1>4, SMT DEF StreamAssumption, Indices

(* Before anything is abandoned, the only record that can be at the front  *)
(* of the buffer is the one after the last record decoded.                 *)
LEMMA FrontIsNext ==
    ASSUME StreamAssumption, TypeOK, Layout, Aligned, ~desynchronised,
           NEW i \in Indices, IsFront(i)
    PROVE  i = next + 1
<1>1. wire[i].at \in Nat /\ wire[i].at = taken /\ Len(wire) \in Nat /\ i \in Nat
  BY RecordTyped DEF IsFront
<1>2. total \in Nat /\ wire[i].at < total /\ next \in 0 .. Len(wire)
  BY DEF TypeOK, Layout
<1>3. next # Len(wire)
  BY <1>1, <1>2, SMT DEF Aligned
<1>4. next + 1 \in Indices /\ next \in Nat
  BY <1>1, <1>2, <1>3, SMT DEF Indices
<1>5. wire[next + 1].at = wire[i].at /\ wire[next + 1].at \in Nat
  BY <1>1, <1>3, <1>4, RecordTyped DEF Aligned
<1>6. i < next + 1 => wire[i].at < wire[next + 1].at
  BY <1>4 DEF Layout
<1>7. next + 1 < i => wire[next + 1].at < wire[i].at
  BY <1>4 DEF Layout
<1> QED
  BY <1>1, <1>4, <1>5, <1>6, <1>7, SMT

(* Erasing a record by the decoder's span lands on the next record.        *)
LEMMA SpanReachesNext ==
    ASSUME StreamAssumption, TypeOK, Layout, NEW i \in Indices
    PROVE  /\ wire[i].at + Span(wire[i].shape) = Boundary(i)
           /\ Boundary(i) \in Nat /\ wire[i].at \in Nat /\ Span(wire[i].shape) \in Nat
<1>1. wire[i].shape \in ShapeType /\ wire[i].at \in Nat
  BY RecordTyped
<1>2. Span(wire[i].shape) = PeerSpan(wire[i].shape) /\ Span(wire[i].shape) \in Nat
  BY <1>1, SpanIsPeerSpan
<1>3. wire[i].at + Span(wire[i].shape) = Boundary(i)
  BY <1>2 DEF Layout
<1> QED
  BY <1>1, <1>2, <1>3, SMT

-----------------------------------------------------------------------------
(* Preservation, one lemma per kind of step.                               *)

LEMMA InitInv == StreamAssumption /\ Init => IInv
<1> SUFFICES ASSUME StreamAssumption, Init PROVE IInv
  OBVIOUS
<1> USE DEF Init, Indices
<1>0. Len(wire) = 0 /\ wire \in Seq(RecordType) /\ returned \in Seq(Nat)
  BY DEF Init
<1>1. TypeOK
  <2>1. next \in 0 .. Len(wire)
    BY <1>0
  <2>2. total \in Nat /\ arrived \in Nat /\ taken \in Nat /\ taken <= arrived /\ arrived <= total
    OBVIOUS
  <2>3. /\ in_message \in BOOLEAN /\ desynchronised \in BOOLEAN
        /\ call \in {"none", "record", "message"} /\ refused \subseteq Nat
    OBVIOUS
  <2> QED
    BY <1>0, <2>1, <2>2, <2>3, Zenon DEF TypeOK
<1>2. Layout /\ Bracketing /\ Flags /\ Aligned
  BY DEF Layout, Boundary, Bracketing, Flags, Aligned
<1>3. InOrderOnce
  BY DEF InOrderOnce
<1>4. NegotiatedOnly
  BY DEF NegotiatedOnly
<1> QED
  BY <1>1, <1>2, <1>3, <1>4 DEF IInv

(* Steps that touch neither the peer's output nor what has been erased.    *)
LEMMA QuietInv ==
    ASSUME StreamAssumption, ~ReadsAfterAbandon, IInv,
           \/ FillFails \/ CallReceiveRecord \/ CallReceiveMessage
           \/ (\E n \in Chunks : Fill(n))
           \/ (\E i \in Indices : RefuseNoMB(i))
           \/ UNCHANGED vars
    PROVE  IInv'
<1> USE DEF peer, hist, vars
<1>1. /\ UNCHANGED <<wire, total, taken, next, returned, refused, in_message, desynchronised>>
      /\ call' \in {"none", "record", "message"}
      /\ call' # "none" => ~desynchronised
  BY DEF FillFails, CallReceiveRecord, CallReceiveMessage, Fill, RefuseNoMB, IInv, Flags, TypeOK
<1>2. arrived' \in Nat /\ arrived <= arrived' /\ arrived' <= total
  <2>0. arrived \in Nat /\ total \in Nat /\ arrived <= total
    BY DEF IInv, TypeOK
  <2>1. CASE \E n \in Chunks : Fill(n)
    <3>1. PICK n \in Chunks : Fill(n)
      BY <2>1
    <3>2. n \in Nat
      BY StreamAssumption DEF StreamAssumption
    <3>3. arrived' = arrived + n /\ n <= total - arrived
      BY <3>1 DEF Fill
    <3> QED
      BY <2>0, <3>2, <3>3, SMT
  <2>2. CASE ~\E n \in Chunks : Fill(n)
    <3>1. arrived' = arrived
      BY <2>2 DEF FillFails, CallReceiveRecord, CallReceiveMessage, RefuseNoMB
    <3> QED
      BY <2>0, <3>1, SMT
  <2> QED
    BY <2>1, <2>2
<1>3. TypeOK'
  BY <1>1, <1>2, SMT DEF IInv, TypeOK
<1>4a. Layout' /\ Bracketing'
  BY <1>1, Zenon DEF IInv, Layout, Boundary, Bracketing, Indices
<1>4b. Aligned' /\ InOrderOnce' /\ NegotiatedOnly'
  BY <1>1, Zenon DEF IInv, Aligned, InOrderOnce, NegotiatedOnly
<1>5. Flags'
  BY <1>1, <1>2 DEF IInv, Flags, Accepted, Indices
<1> QED
  BY <1>3, <1>4a, <1>4b, <1>5 DEF IInv

-----------------------------------------------------------------------------
(* Steps that take records off the front of the buffer.                    *)

(* Appending the numbers n+1, ..., j to a sequence of numbers.             *)
LEMMA AppendRange ==
    ASSUME NEW s \in Seq(Nat), NEW n \in Nat, NEW j \in Nat, n < j
    PROVE  LET t == s \o Q!Range1(n + 1, j) IN
           /\ t \in Seq(Nat)
           /\ Len(s) \in Nat
           /\ Len(t) = Len(s) + (j - n)
           /\ \A a \in 1 .. Len(s) : t[a] = s[a]
           /\ \A a \in (Len(s) + 1) .. Len(t) : t[a] = n + (a - Len(s))
<1> DEFINE t == s \o Q!Range1(n + 1, j)
<1> DEFINE r == Q!Range1(n + 1, j)
<1>1. r = [k \in 1 .. (j - n) |-> n + k]
  BY DEF Q!Range1
<1>2. r \in Seq(Nat) /\ Len(r) = j - n
  <2>1. j - n \in Nat
    BY SMT
  <2>2. r \in [1 .. (j - n) -> Nat]
    BY <1>1, SMT
  <2>3. r \in Seq(Nat)
    BY <2>1, <2>2, SeqDef
  <2>4. Len(r) \in Nat /\ 1 .. Len(r) = 1 .. (j - n)
    BY <2>2, <2>3, LenProperties
  <2> QED
    BY <2>1, <2>3, <2>4, SMT
<1>3. \A k \in 1 .. (j - n) : r[k] = n + k
  BY <1>1
<1>4. Len(s) \in Nat
  BY LenProperties
<1>5a. t = s \o r
  OBVIOUS
<1> HIDE DEF r, t
<1>5. /\ t \in Seq(Nat)
      /\ Len(t) = Len(s) + Len(r)
      /\ \A a \in 1 .. Len(s) + Len(r) :
             t[a] = IF a <= Len(s) THEN s[a] ELSE r[a - Len(s)]
  BY <1>2, <1>5a, ConcatProperties
<1>6. ASSUME NEW a \in 1 .. Len(s) PROVE t[a] = s[a]
  <2>1. a \in 1 .. Len(s) + Len(r) /\ a <= Len(s)
    BY <1>2, <1>4, SMT
  <2> QED
    BY <1>5, <2>1
<1>7. ASSUME NEW a \in (Len(s) + 1) .. Len(t) PROVE t[a] = n + (a - Len(s))
  <2>1. a \in 1 .. Len(s) + Len(r) /\ ~(a <= Len(s)) /\ a - Len(s) \in 1 .. (j - n)
    BY <1>2, <1>4, <1>5, SMT
  <2> QED
    BY <1>3, <1>5, <2>1
<1> QED
  BY <1>2, <1>4, <1>5, <1>6, <1>7 DEF t

(* Boundaries are ordered as the records are.                              *)
LEMMA BoundaryGrows ==
    ASSUME StreamAssumption, TypeOK, Layout, NEW j \in Indices,
           next < j
    PROVE  Boundary(next) \in Nat /\ Boundary(j) \in Nat /\ Boundary(next) <= Boundary(j)
<1>1. /\ next \in Nat /\ j \in Nat /\ Len(wire) \in Nat /\ next # Len(wire)
      /\ next + 1 \in Indices /\ (next + 1 = j \/ next + 1 < j)
  BY RecordTyped, SMT DEF TypeOK, Indices
<1>2. Boundary(next) = wire[next + 1].at /\ wire[next + 1].at \in Nat
  BY <1>1, RecordTyped DEF Boundary
<1>3. next + 1 < j => wire[next + 1].at < wire[j].at
  BY <1>1 DEF Layout
<1>4. /\ wire[j].at \in Nat /\ Span(wire[j].shape) \in Nat /\ Boundary(j) \in Nat
      /\ wire[j].at + Span(wire[j].shape) = Boundary(j)
  BY SpanReachesNext
<1>5. next + 1 = j => wire[next + 1].at = wire[j].at
  BY <1>1
<1> QED
  BY <1>1, <1>2, <1>3, <1>4, <1>5, SMT

(* Taking records next+1..j off the stream, whole and in one piece.        *)
Consumes(j) ==
    /\ next < j
    /\ Boundary(j) <= arrived
    /\ UNCHANGED <<wire, total, arrived, desynchronised>>
    /\ call' = "none"
    /\ next' = j
    /\ taken' = Boundary(j)
    /\ in_message' \in BOOLEAN
    /\ in_message' => ~wire[j].me /\ Accepted(j)
    /\ \/ /\ \A k \in (next + 1) .. j : Accepted(k)
          /\ returned' = returned \o Q!Range1(next + 1, j)
          /\ refused' = refused
       \/ /\ returned' = returned
          /\ refused' = refused \cup ((next + 1) .. j)

LEMMA ConsumesOrder ==
    ASSUME StreamAssumption, IInv, NEW j \in Indices, Consumes(j)
    PROVE  InOrderOnce' /\ NegotiatedOnly' /\ returned' \in Seq(Nat) /\ refused' \subseteq Nat
<1>1. /\ next \in Nat /\ j \in Nat /\ next < j /\ next' = j /\ wire' = wire
      /\ returned \in Seq(Nat) /\ refused \subseteq Nat /\ Len(returned) \in Nat
  BY RecordTyped, LenProperties, SMT DEF IInv, TypeOK, Indices, Consumes
<1>2. /\ \A a, b \in 1 .. Len(returned) : a < b => returned[a] < returned[b]
      /\ {returned[a] : a \in 1 .. Len(returned)} \cap refused = {}
      /\ {returned[a] : a \in 1 .. Len(returned)} \cup refused = 1 .. next
  BY DEF IInv, InOrderOnce
<1>3. \A a \in 1 .. Len(returned) : Accepted(returned[a])
  BY DEF IInv, NegotiatedOnly, Accepted
<1>4. CASE /\ \A k \in (next + 1) .. j : Accepted(k)
           /\ returned' = returned \o Q!Range1(next + 1, j)
           /\ refused' = refused
  <2>1. /\ returned' \in Seq(Nat)
        /\ Len(returned') = Len(returned) + (j - next)
        /\ \A a \in 1 .. Len(returned) : returned'[a] = returned[a]
        /\ \A a \in (Len(returned) + 1) .. Len(returned') :
               returned'[a] = next + (a - Len(returned))
    <3> DEFINE t == returned \o Q!Range1(next + 1, j)
    <3>1. /\ t \in Seq(Nat)
          /\ Len(t) = Len(returned) + (j - next)
          /\ \A a \in 1 .. Len(returned) : t[a] = returned[a]
          /\ \A a \in (Len(returned) + 1) .. Len(t) : t[a] = next + (a - Len(returned))
      BY <1>1, AppendRange
    <3>2. returned' = t
      BY <1>4
    <3> HIDE DEF t
    <3> QED
      BY <3>1, <3>2
  <2>2. \A a \in 1 .. Len(returned) : returned'[a] \in 1 .. next /\ returned'[a] \notin refused
    BY <1>2, <2>1
  <2>3. \A a \in 1 .. Len(returned') :
            \/ a \in 1 .. Len(returned)
            \/ a \in (Len(returned) + 1) .. Len(returned') /\ returned'[a] \in (next + 1) .. j
    BY <1>1, <2>1, SMT
  <2>4. ASSUME NEW a \in 1 .. Len(returned'), NEW b \in 1 .. Len(returned'), a < b
        PROVE  returned'[a] < returned'[b]
    <3>1. CASE b \in 1 .. Len(returned)
      <4>1. a \in 1 .. Len(returned)
        BY <1>1, <2>4, <3>1, SMT
      <4> QED
        BY <1>2, <2>1, <2>4, <3>1, <4>1
    <3>2. CASE b \in (Len(returned) + 1) .. Len(returned')
      <4>1. CASE a \in 1 .. Len(returned)
        <5>1. returned'[a] \in 1 .. next
          BY <2>2, <4>1
        <5>2. returned'[b] = next + (b - Len(returned)) /\ b - Len(returned) >= 1
          BY <1>1, <2>1, <3>2, SMT
        <5>3. b - Len(returned) \in Int
          BY <1>1, <3>2, SMT
        <5> QED
          BY <1>1, <5>1, <5>2, <5>3, SMT
      <4>2. CASE a \in (Len(returned) + 1) .. Len(returned')
        BY <1>1, <2>1, <2>4, <3>2, <4>2, SMT
      <4> QED
        BY <2>3, <4>1, <4>2
    <3> QED
      BY <2>3, <3>1, <3>2
  <2>5. {returned'[a] : a \in 1 .. Len(returned')} \cap refused = {}
    <3>1. refused \subseteq 1 .. next
      BY <1>2
    <3>2. \A k \in (next + 1) .. j : k \notin refused
      BY <1>1, <3>1, SMT
    <3> QED
      BY <2>2, <2>3, <3>2
  <2>6. 1 .. j = (1 .. next) \cup ((next + 1) .. j)
    BY <1>1, SMT
  <2>7. {returned'[a] : a \in 1 .. Len(returned')} \cup refused \subseteq 1 .. j
    BY <1>2, <2>2, <2>3, <2>6
  <2>8. ASSUME NEW k \in 1 .. j
        PROVE  k \in {returned'[a] : a \in 1 .. Len(returned')} \cup refused
    <3>1. CASE k \in (next + 1) .. j
      <4> DEFINE a == Len(returned) + (k - next)
      <4>1. a \in 1 .. Len(returned') /\ a \in (Len(returned) + 1) .. Len(returned')
        BY <1>1, <2>1, <3>1, SMT
      <4>2. returned'[a] = next + (a - Len(returned))
        BY <2>1, <4>1
      <4>3. returned'[a] = k
        BY <1>1, <3>1, <4>2, SMT
      <4> QED
        BY <4>1, <4>3
    <3>2. CASE k \in 1 .. next
      <4>1. k \in refused \/ \E a \in 1 .. Len(returned) : returned[a] = k
        BY <1>2, <3>2
      <4>2. 1 .. Len(returned) \subseteq 1 .. Len(returned')
        BY <1>1, <2>1, SMT
      <4> QED
        BY <2>1, <4>1, <4>2
    <3> QED
      BY <2>6, <3>1, <3>2
  <2>9. \A a \in 1 .. Len(returned') : Accepted(returned'[a])
    BY <1>3, <1>4, <2>1, <2>3
  <2> QED
    BY <1>1, <1>4, <2>1, <2>4, <2>5, <2>7, <2>8, <2>9 DEF InOrderOnce, NegotiatedOnly, Accepted
<1>5. CASE /\ returned' = returned
           /\ refused' = refused \cup ((next + 1) .. j)
  <2>1. 1 .. j = (1 .. next) \cup ((next + 1) .. j) /\ (1 .. next) \cap ((next + 1) .. j) = {}
    BY <1>1, SMT
  <2>2. refused' \subseteq Nat
    BY <1>1, <1>5, SMT
  <2> QED
    BY <1>1, <1>2, <1>3, <1>5, <2>1, <2>2 DEF InOrderOnce, NegotiatedOnly, Accepted
<1> QED
  BY <1>4, <1>5 DEF Consumes

LEMMA ConsumesInv ==
    ASSUME StreamAssumption, IInv, ~desynchronised, NEW j \in Indices, Consumes(j)
    PROVE  IInv'
<1>1. InOrderOnce' /\ NegotiatedOnly' /\ returned' \in Seq(Nat) /\ refused' \subseteq Nat
  BY ConsumesOrder
<1>2. /\ Boundary(next) \in Nat /\ Boundary(j) \in Nat /\ Boundary(next) <= Boundary(j)
      /\ taken = Boundary(next)
  BY BoundaryGrows DEF IInv, Aligned, Boundary, Consumes
<1>3. taken' \in Nat /\ taken <= taken' /\ taken' <= arrived /\ taken \in Nat /\ arrived \in Nat
  BY <1>2 DEF Consumes, IInv, TypeOK
<1>4. TypeOK'
  <2>1. next' \in 0 .. Len(wire')
    BY RecordTyped, SMT DEF Consumes, IInv
  <2> QED
    BY <1>1, <1>3, <2>1 DEF TypeOK, Consumes, IInv
<1>5. Layout' /\ Bracketing'
  BY DEF Consumes, IInv, Layout, Boundary, Bracketing, Indices
<1>6. Flags'
  BY DEF Consumes, IInv, Flags, Accepted, Indices
<1>7. Aligned'
  BY DEF Consumes, Aligned, Boundary
<1> QED
  BY <1>1, <1>4, <1>5, <1>6, <1>7 DEF IInv

-----------------------------------------------------------------------------
(* The calls that take records off the stream are instances of Consumes.   *)

(* Inside a message the record in front does not start one, and it belongs *)
(* to a message whose first record passed the checks.                      *)
LEMMA InsideMessage ==
    ASSUME StreamAssumption, IInv, in_message, next + 1 \in Indices
    PROVE  ~wire[next + 1].mb /\ Accepted(next + 1)
<1>1. next \in Indices /\ ~wire[next].me /\ Accepted(next)
  BY DEF IInv, Flags
<1>2. next \in Nat /\ next \in next .. ((next + 1) - 1) /\ next <= next + 1
      /\ \A k \in next .. ((next + 1) - 1) : k = next
  BY <1>1, RecordTyped, SMT DEF IInv
<1>3. wire[next + 1].head = wire[next].head
  BY <1>1, <1>2 DEF IInv, Bracketing
<1>4. wire[next].head \in 1 .. next
  BY <1>1 DEF IInv, Bracketing
<1>5. wire[next + 1].head # next + 1
  BY <1>2, <1>3, <1>4, SMT
<1> QED
  BY <1>1, <1>3, <1>5 DEF IInv, Bracketing, Accepted

(* What a call that decodes the front record knows.                        *)
LEMMA FrontDecoded ==
    ASSUME StreamAssumption, IInv, ~desynchronised, NEW i \in Indices, IsFront(i)
    PROVE  /\ i = next + 1 /\ next < i /\ i \in Nat /\ next \in Nat
           /\ taken + Span(wire[i].shape) = Boundary(i)
           /\ Decodes(i) => Boundary(i) <= arrived
<1>1. i = next + 1 /\ i \in Nat /\ next \in 0 .. Len(wire)
  BY FrontIsNext, RecordTyped DEF IInv, TypeOK
<1>2. /\ wire[i].at + Span(wire[i].shape) = Boundary(i)
      /\ Boundary(i) \in Nat /\ wire[i].at \in Nat /\ Span(wire[i].shape) \in Nat
  BY SpanReachesNext DEF IInv
<1>3. arrived \in Nat /\ wire[i].at = taken
  BY DEF IInv, TypeOK, IsFront
<1>4. Decodes(i) => Boundary(i) <= arrived
  BY <1>2, <1>3, SMT DEF Decodes
<1>5. next < i /\ next \in Nat
  BY <1>1, RecordTyped, SMT DEF IInv
<1> QED
  BY <1>1, <1>2, <1>3, <1>4, <1>5

LEMMA ReturnRecordConsumes ==
    ASSUME StreamAssumption, IInv, NEW i \in Indices, ReturnRecord(i)
    PROVE  ~desynchronised /\ Consumes(i)
<1>1. ~desynchronised /\ IsFront(i) /\ Decodes(i)
  BY DEF ReturnRecord, IInv, Flags
<1>2. i = next + 1 /\ next < i /\ taken + Span(wire[i].shape) = Boundary(i)
      /\ Boundary(i) <= arrived /\ i \in Nat /\ next \in Nat
  BY <1>1, FrontDecoded
<1>3. Accepted(i)
  <2>1. CASE in_message
    BY <1>2, <2>1, InsideMessage
  <2>2. CASE ~in_message
    BY <2>2 DEF ReturnRecord, Accepted, IInv, Bracketing
  <2> QED
    BY <2>1, <2>2
<1>4. \A k \in (next + 1) .. i : Accepted(k)
  <2>1. \A k \in (next + 1) .. i : k = i
    BY <1>2, SMT
  <2> QED
    BY <1>3, <2>1
<1>5. returned' = returned \o Q!Range1(next + 1, i)
  <2>1. Q!Range1(next + 1, i) = <<i>>
    <3>1. i - (next + 1) + 1 = 1 /\ (next + 1) + 1 - 1 = i
      BY <1>2, SMT
    <3>2. Q!Range1(next + 1, i) = [k \in 1 .. 1 |-> (next + 1) + k - 1]
      BY <3>1 DEF Q!Range1
    <3>3. \A k \in 1 .. 1 : (next + 1) + k - 1 = i
      BY <1>2, SMT
    <3> QED
      BY <3>2, <3>3
  <2>2. returned' = Append(returned, i) /\ returned \in Seq(Nat)
    BY DEF ReturnRecord, IInv, TypeOK
  <2> QED
    BY <1>2, <2>1, <2>2, AppendIsConcat
<1>6. in_message' \in BOOLEAN /\ (in_message' => ~wire[i].me /\ Accepted(i))
  BY <1>3, Zenon DEF ReturnRecord
<1> QED
  BY <1>1, <1>2, <1>4, <1>5, <1>6 DEF ReturnRecord, Consumes, peer

LEMMA RefuseRecordConsumes ==
    ASSUME StreamAssumption, IInv, NEW i \in Indices, RefuseRecord(i)
    PROVE  ~desynchronised /\ Consumes(i)
<1>1. ~desynchronised /\ IsFront(i) /\ Decodes(i)
  BY DEF RefuseRecord, IInv, Flags
<1>2. i = next + 1 /\ next < i /\ taken + Span(wire[i].shape) = Boundary(i)
      /\ Boundary(i) <= arrived /\ i \in Nat /\ next \in Nat
  BY <1>1, FrontDecoded
<1>3. refused' = refused \cup ((next + 1) .. i)
  <2>1. (next + 1) .. i = {i}
    BY <1>2, SMT
  <2> QED
    BY <2>1 DEF RefuseRecord
<1>4. in_message' = FALSE
  BY DEF RefuseRecord, IInv, TypeOK
<1> QED
  BY <1>1, <1>2, <1>3, <1>4 DEF RefuseRecord, Consumes, peer

(* A message whose first record is in front and carries MB.                *)
LEMMA MessageDecoded ==
    ASSUME StreamAssumption, IInv, ~desynchronised,
           NEW i \in Indices, NEW j \in i .. Len(wire),
           IsFront(i), DecodesMessage(i, j), wire[i].mb
    PROVE  /\ j \in Indices /\ i = next + 1 /\ next < j /\ i \in Nat /\ j \in Nat
           /\ wire[j].at + Span(wire[j].shape) = Boundary(j)
           /\ Boundary(j) <= arrived
           /\ ~in_message
           /\ \A k \in i .. j : wire[k].head = i
<1>1. i \in Nat /\ Len(wire) \in Nat /\ 1 <= i /\ i = next + 1 /\ next \in Nat
  BY RecordTyped, FrontDecoded DEF IInv
<1>2. j \in Indices /\ j \in Nat /\ next < j /\ j \in i .. j /\ i <= j
  BY <1>1, SMT DEF Indices
<1>3. /\ wire[j].at + Span(wire[j].shape) = Boundary(j)
      /\ Boundary(j) \in Nat /\ wire[j].at \in Nat /\ Span(wire[j].shape) \in Nat
  BY <1>2, SpanReachesNext DEF IInv
<1>4. Boundary(j) <= arrived
  <2>1. Decodes(j) /\ arrived \in Nat
    BY <1>2 DEF DecodesMessage, IInv, TypeOK
  <2> QED
    BY <1>3, <2>1, SMT DEF Decodes
<1>5. ~in_message
  BY <1>1, InsideMessage
<1>6. \A k \in i .. j : wire[k].head = i
  <2>1. SUFFICES ASSUME NEW k \in i .. j PROVE wire[k].head = i
    OBVIOUS
  <2>2. k \in Indices /\ i <= k /\ (i .. (k - 1)) \subseteq (i .. (j - 1))
    BY <1>1, <1>2, SMT DEF Indices
  <2>3. \A m \in i .. (k - 1) : ~wire[m].me
    BY <2>2 DEF DecodesMessage
  <2> QED
    BY <2>2, <2>3 DEF IInv, Bracketing
<1> QED
  BY <1>1, <1>2, <1>3, <1>4, <1>5, <1>6

LEMMA ReturnMessageConsumes ==
    ASSUME StreamAssumption, IInv, NEW i \in Indices, NEW j \in i .. Len(wire),
           ReturnMessage(i, j)
    PROVE  ~desynchronised /\ j \in Indices /\ Consumes(j)
<1>1. ~desynchronised /\ IsFront(i) /\ DecodesMessage(i, j) /\ wire[i].mb /\ wire[i].negotiated
  BY DEF ReturnMessage, IInv, Flags
<1>2. /\ j \in Indices /\ i = next + 1 /\ next < j
      /\ wire[j].at + Span(wire[j].shape) = Boundary(j)
      /\ Boundary(j) <= arrived
      /\ ~in_message
      /\ \A k \in i .. j : wire[k].head = i
  BY <1>1, MessageDecoded
<1>3. \A k \in (next + 1) .. j : Accepted(k)
  BY <1>1, <1>2 DEF Accepted
<1>4. returned' = returned \o Q!Range1(next + 1, j)
  BY <1>2 DEF ReturnMessage, Q!Range1
<1>5. in_message' = FALSE
  BY <1>2 DEF ReturnMessage, IInv, TypeOK
<1> QED
  BY <1>1, <1>2, <1>3, <1>4, <1>5 DEF ReturnMessage, Consumes, peer

LEMMA RefuseMessageConsumes ==
    ASSUME StreamAssumption, IInv, NEW i \in Indices, NEW j \in i .. Len(wire),
           RefuseMessage(i, j)
    PROVE  ~desynchronised /\ j \in Indices /\ Consumes(j)
<1>1. ~desynchronised /\ IsFront(i) /\ DecodesMessage(i, j) /\ wire[i].mb
  BY DEF RefuseMessage, IInv, Flags
<1>2. /\ j \in Indices /\ i = next + 1 /\ next < j
      /\ wire[j].at + Span(wire[j].shape) = Boundary(j)
      /\ Boundary(j) <= arrived
      /\ ~in_message
  BY <1>1, MessageDecoded
<1>3. in_message' = FALSE
  BY <1>2 DEF RefuseMessage, IInv, TypeOK
<1> QED
  BY <1>1, <1>2, <1>3 DEF RefuseMessage, Consumes, peer

LEMMA AbandonInv ==
    ASSUME StreamAssumption, IInv, AbandonMessage
    PROVE  IInv'
<1> USE DEF peer, hist
<1>1. TypeOK'
  <2>1. taken' \in Nat /\ taken' <= arrived'
    BY SMT DEF AbandonMessage, IInv, TypeOK
  <2> QED
    BY <2>1 DEF AbandonMessage, IInv, TypeOK
<1>2. Layout' /\ Bracketing' /\ InOrderOnce' /\ NegotiatedOnly'
  BY DEF AbandonMessage, IInv, Layout, Boundary, Bracketing, InOrderOnce, NegotiatedOnly, Indices
<1>3. Flags' /\ Aligned'
  BY DEF AbandonMessage, Flags, Aligned
<1> QED
  BY <1>1, <1>2, <1>3 DEF IInv

-----------------------------------------------------------------------------
(* A record more from the peer.                                            *)

LEMMA PeerInv ==
    ASSUME StreamAssumption, IInv, NEW s \in Shapes, NEW mb \in BOOLEAN,
           NEW me \in BOOLEAN, NEW neg \in BOOLEAN, PeerWrites(s, mb, me, neg)
    PROVE  IInv'
<1> DEFINE n == Len(wire)
           head == IF AtStart THEN n + 1 ELSE wire[n].head
           rec == [shape |-> s, mb |-> mb, me |-> me, negotiated |-> neg,
                   head |-> head, at |-> total]
<1>1. /\ wire \in Seq(RecordType) /\ n \in Nat /\ Indices = 1 .. n
      /\ total \in Nat /\ PeerSpan(s) \in Nat /\ 12 <= PeerSpan(s)
  <2>1. s \in ShapeType
    BY DEF StreamAssumption
  <2>2. Span(s) = PeerSpan(s) /\ Span(s) \in Nat /\ Span(s) >= 12
    BY <2>1, SpanIsPeerSpan DEF HEADER_LEN
  <2>3. 12 <= PeerSpan(s)
    BY <2>2, SMT
  <2> QED
    BY <2>2, <2>3, LenProperties DEF IInv, TypeOK, Indices
<1>2. ~AtStart => n \in Indices /\ ~wire[n].me /\ head = wire[n].head
  <2>1. wire # <<>> => n # 0
    BY <1>1, EmptySeq
  <2> QED
    BY <1>1, <2>1, SMT DEF AtStart
<1>3. head \in 1 .. (n + 1)
  <2>1. CASE AtStart
    BY <1>1, <2>1, SMT
  <2>2. CASE ~AtStart
    <3>1. wire[n].head \in 1 .. n
      BY <1>2, <2>2 DEF IInv, Bracketing
    <3> QED
      BY <1>1, <1>2, <2>2, <3>1, SMT
  <2> QED
    BY <2>1, <2>2
<1>4. rec \in RecordType
  <2>1. head \in Nat
    BY <1>3, SMT
  <2> HIDE DEF head
  <2> QED
    BY <1>1, <2>1 DEF RecordType
<1>5. /\ wire' = Append(wire, rec)
      /\ total' = total + PeerSpan(s)
      /\ UNCHANGED <<arrived, taken, in_message, desynchronised, call, next, returned,
                     refused>>
  BY DEF PeerWrites, hist
<1>6. /\ rec.shape = s /\ rec.mb = mb /\ rec.me = me /\ rec.negotiated = neg
      /\ rec.head = head /\ rec.at = total
  OBVIOUS
<1>7. mb => AtStart
  BY DEF PeerWrites
<1> HIDE DEF rec, head
<1>8. /\ wire' \in Seq(RecordType)
      /\ Len(wire') = n + 1
      /\ \A k \in 1 .. n : wire'[k] = wire[k]
      /\ wire'[n + 1] = rec
  BY <1>1, <1>4, <1>5, AppendProperties
<1> HIDE DEF n
<1>9. /\ Indices' = 1 .. (n + 1)
      /\ \A k \in 1 .. (n + 1) : k \in 1 .. n \/ k = n + 1
      /\ n + 1 \notin 1 .. n
  BY <1>1, <1>8, SMT DEF Indices
<1>10. total' \in Nat /\ total <= total' /\ total < total' /\ total + 12 <= total'
  BY <1>1, <1>5, SMT
<1> DEFINE NewBoundary(k) == IF k = Len(wire') THEN total' ELSE wire'[k + 1].at
<1>11. /\ NewBoundary(n + 1) = total'
       /\ NewBoundary(n) = total
       /\ Boundary(n) = total
       /\ \A k \in 0 .. n : NewBoundary(k) = Boundary(k)
  <2>1. NewBoundary(n + 1) = total'
    BY <1>8
  <2>2. NewBoundary(n) = total
    <3>1. n # n + 1
      BY <1>1, SMT
    <3> QED
      BY <1>6, <1>8, <3>1
  <2>3. Boundary(n) = total
    BY DEF Boundary, n
  <2>4. ASSUME NEW k \in 0 .. n, k # n PROVE NewBoundary(k) = Boundary(k)
    <3>1. k + 1 \in 1 .. n /\ k # n + 1
      BY <1>1, <2>4, SMT
    <3> QED
      BY <1>8, <2>4, <3>1 DEF Boundary, n
  <2> HIDE DEF NewBoundary
  <2>5. ASSUME NEW k \in 0 .. n PROVE NewBoundary(k) = Boundary(k)
    BY <2>2, <2>3, <2>4
  <2> QED
    BY <2>1, <2>2, <2>3, <2>5
<1>11b. \A k : Boundary(k)' = NewBoundary(k)
  BY DEF Boundary
<1> HIDE DEF NewBoundary
<1>12. TypeOK'
  <2>1. /\ arrived \in Nat /\ taken \in Nat /\ taken <= arrived /\ arrived <= total
        /\ next \in 0 .. n
    BY DEF IInv, TypeOK, n
  <2>2. arrived <= total' /\ next \in 0 .. (n + 1)
    BY <1>1, <1>10, <2>1, SMT
  <2> QED
    BY <1>5, <1>8, <1>10, <2>1, <2>2 DEF IInv, TypeOK
<1>13. Layout'
  <2>1. Boundary(0)' = 0
    <3>1. 0 \in 0 .. n /\ Boundary(0) = 0
      BY <1>1, SMT DEF IInv, Layout
    <3> QED
      BY <1>11, <1>11b, <3>1
  <2>2. \A i \in 1 .. (n + 1) : wire'[i].at + PeerSpan(wire'[i].shape) = NewBoundary(i)
    <3>1. \A i \in 1 .. n : wire[i].at + PeerSpan(wire[i].shape) = Boundary(i) /\ i \in 0 .. n
      BY <1>1, SMT DEF IInv, Layout
    <3> QED
      BY <1>5, <1>6, <1>8, <1>9, <1>11, <3>1
  <2>3. \A i \in 1 .. n : wire[i].at \in Nat /\ wire[i].at < total
    BY <1>1, RecordTyped DEF IInv, Layout
  <2>4. \A i \in 1 .. (n + 1) : wire'[i].at < total'
    BY <1>1, <1>6, <1>8, <1>9, <1>10, <2>3, SMT
  <2>5. ASSUME NEW i \in 1 .. (n + 1), NEW j \in 1 .. (n + 1), i < j
        PROVE  wire'[i].at < wire'[j].at
    <3>1. i \in 1 .. n
      BY <1>1, <2>5, SMT
    <3>2. CASE j \in 1 .. n
      BY <1>1, <1>8, <2>5, <3>1, <3>2 DEF IInv, Layout
    <3>3. CASE j = n + 1
      BY <1>6, <1>8, <2>3, <3>1, <3>3
    <3> QED
      BY <1>9, <3>2, <3>3
  <2> QED
    BY <1>9, <1>11b, <2>1, <2>2, <2>4, <2>5 DEF Layout
<1>14. Bracketing'
  <2>1. \A i \in 1 .. (n + 1) : wire'[i].head \in 1 .. i
    BY <1>1, <1>3, <1>6, <1>8, <1>9 DEF IInv, Bracketing
  <2>2. \A i \in 1 .. (n + 1) : wire'[i].mb => wire'[i].head = i
    <3>1. mb => head = n + 1
      BY <1>7 DEF head, n
    <3> QED
      BY <1>1, <1>6, <1>8, <1>9, <3>1 DEF IInv, Bracketing
  <2>3. ASSUME NEW i \in 1 .. (n + 1), NEW j \in 1 .. (n + 1), i <= j,
               \A k \in i .. (j - 1) : ~wire'[k].me
        PROVE  wire'[j].head = wire'[i].head
    <3>1. CASE j \in 1 .. n
      <4>1. i \in 1 .. n /\ (i .. (j - 1)) \subseteq 1 .. n
        BY <1>1, <2>3, <3>1, SMT
      <4>2. \A k \in i .. (j - 1) : ~wire[k].me
        BY <1>8, <2>3, <4>1
      <4> QED
        BY <1>1, <1>8, <2>3, <3>1, <4>1, <4>2 DEF IInv, Bracketing
    <3>2. CASE j = n + 1 /\ i \in 1 .. n
      <4>1. n \in 1 .. n /\ i <= n /\ n \in i .. (j - 1)
            /\ (i .. (n - 1)) \subseteq (i .. (j - 1)) /\ (i .. (j - 1)) \subseteq 1 .. n
        BY <1>1, <3>2, SMT
      <4>2. \A k \in i .. (j - 1) : ~wire[k].me
        BY <1>8, <2>3, <4>1
      <4>3. wire # <<>>
        BY <1>1, <4>1, EmptySeq DEF n
      <4>4. ~AtStart
        BY <4>1, <4>2, <4>3 DEF AtStart, n
      <4>5. wire[n].head = wire[i].head
        BY <1>1, <3>2, <4>1, <4>2 DEF IInv, Bracketing
      <4> QED
        BY <1>2, <1>6, <1>8, <3>2, <4>4, <4>5
    <3>3. CASE j = n + 1 /\ i = n + 1
      BY <3>3
    <3> QED
      BY <1>9, <3>1, <3>2, <3>3
  <2> QED
    BY <1>9, <2>1, <2>2, <2>3 DEF Bracketing
<1>15. ASSUME NEW k \in 1 .. n PROVE Accepted(k)' = Accepted(k)
  <2>1. wire[k].head \in 1 .. n
    <3>1. wire[k].head \in 1 .. k
      BY <1>1 DEF IInv, Bracketing
    <3> QED
      BY <1>1, <3>1, SMT
  <2> QED
    BY <1>8, <2>1 DEF Accepted
<1>16. Flags'
  BY <1>1, <1>5, <1>8, <1>9, <1>15 DEF IInv, Flags
<1>17. Aligned'
  <2>1. next \in 0 .. n
    BY DEF IInv, TypeOK, n
  <2> QED
    BY <1>5, <1>11, <1>11b, <2>1 DEF IInv, Aligned, Boundary
<1>18. InOrderOnce'
  BY <1>5 DEF IInv, InOrderOnce
<1>19. NegotiatedOnly'
  <2>1. ASSUME NEW a \in 1 .. Len(returned) PROVE returned[a] \in 1 .. n
    <3>1. returned[a] \in 1 .. next /\ next \in 0 .. n
      BY DEF IInv, InOrderOnce, TypeOK, n
    <3> QED
      BY <1>1, <3>1, SMT
  <2>2. \A a \in 1 .. Len(returned) : Accepted(returned[a])
    BY DEF IInv, NegotiatedOnly, Accepted
  <2>3. \A a \in 1 .. Len(returned) : Accepted(returned[a])'
    BY <1>5, <1>15, <2>1, <2>2
  <2> QED
    BY <1>5, <2>3 DEF NegotiatedOnly, Accepted
<1> QED
  BY <1>12, <1>13, <1>14, <1>16, <1>17, <1>18, <1>19 DEF IInv

-----------------------------------------------------------------------------

(* What a step that takes records off the stream may be.                   *)
LEMMA FinishConsumes ==
    ASSUME StreamAssumption, IInv, Finish
    PROVE  \/ \E i \in Indices : RefuseNoMB(i)
           \/ ~desynchronised /\ \E j \in Indices : Consumes(j)
<1>1. PICK i \in Indices :
        \/ ReturnRecord(i) \/ RefuseRecord(i) \/ RefuseNoMB(i)
        \/ \E j \in i .. Len(wire) : ReturnMessage(i, j) \/ RefuseMessage(i, j)
  BY DEF Finish
<1>2. CASE ReturnRecord(i)
  BY <1>2, ReturnRecordConsumes
<1>3. CASE RefuseRecord(i)
  BY <1>3, RefuseRecordConsumes
<1>4. CASE RefuseNoMB(i)
  BY <1>4
<1>5. CASE \E j \in i .. Len(wire) : ReturnMessage(i, j) \/ RefuseMessage(i, j)
  <2>1. PICK j \in i .. Len(wire) : ReturnMessage(i, j) \/ RefuseMessage(i, j)
    BY <1>5
  <2>2. CASE ReturnMessage(i, j)
    BY <2>2, ReturnMessageConsumes
  <2>3. CASE RefuseMessage(i, j)
    BY <2>3, RefuseMessageConsumes
  <2> QED
    BY <2>1, <2>2, <2>3
<1> QED
  BY <1>1, <1>2, <1>3, <1>4, <1>5

LEMMA NextInv ==
    ASSUME StreamAssumption, ~ReadsAfterAbandon, IInv, [Next]_vars
    PROVE  IInv'
<1>1. CASE Peer
  BY <1>1, PeerInv DEF Peer
<1>2. CASE Receive
  BY <1>2, QuietInv DEF Receive
<1>3. CASE Finish
  BY <1>3, FinishConsumes, ConsumesInv, QuietInv
<1>4. CASE Caller
  BY <1>4, QuietInv, AbandonInv DEF Caller
<1>5. CASE UNCHANGED vars
  BY <1>5, QuietInv
<1> QED
  BY <1>1, <1>2, <1>3, <1>4, <1>5 DEF Next

(* The inductive invariant holds in every state.                           *)
THEOREM Invariance == StreamAssumption /\ ~ReadsAfterAbandon /\ Spec => []IInv
<1> SUFFICES ASSUME StreamAssumption, ~ReadsAfterAbandon PROVE Spec => []IInv
  OBVIOUS
<1>1. Init => IInv
  BY InitInv
<1>2. IInv /\ [Next]_vars => IInv'
  BY NextInv
<1> QED
  BY <1>1, <1>2, PTL DEF Spec

(* Types, and a window in which nothing is erased before it arrived.       *)
THEOREM TypeCorrect == StreamAssumption /\ ~ReadsAfterAbandon /\ Spec => []TypeOK
<1>1. IInv => TypeOK
  BY DEF IInv
<1> QED
  BY <1>1, Invariance, PTL

(* The buffer always starts at a record boundary (dime.cpp:105-111,        *)
(* transport.cpp:243, 289), until a message is abandoned.                  *)
THEOREM AlwaysAligned == StreamAssumption /\ ~ReadsAfterAbandon /\ Spec => []Aligned
<1>1. IInv => Aligned
  BY DEF IInv
<1> QED
  BY <1>1, Invariance, PTL

(* Records come out in order, each once, through either call.              *)
THEOREM RecordsInOrderOnce == StreamAssumption /\ ~ReadsAfterAbandon /\ Spec => []InOrderOnce
<1>1. IInv => InOrderOnce
  BY DEF IInv
<1> QED
  BY <1>1, Invariance, PTL

(* No record of a message that failed the first-record checks comes out    *)
(* (transport.cpp:244-250).                                                *)
THEOREM OnlyNegotiatedRecords == StreamAssumption /\ ~ReadsAfterAbandon /\ Spec => []NegotiatedOnly
<1>1. IInv => NegotiatedOnly
  BY DEF IInv
<1> QED
  BY <1>1, Invariance, PTL

-----------------------------------------------------------------------------
(* Waiting for the peer.                                                   *)

(* With everything the peer wrote in the buffer every record decodes: no   *)
(* record's span reaches past the peer's last byte.                        *)
LEMMA AllDecode ==
    ASSUME StreamAssumption, IInv, arrived = total, NEW i \in Indices
    PROVE  Decodes(i)
<1>1. /\ wire[i].at + Span(wire[i].shape) = Boundary(i)
      /\ Boundary(i) \in Nat /\ wire[i].at \in Nat /\ Span(wire[i].shape) \in Nat
  BY SpanReachesNext DEF IInv
<1>2. i \in Nat /\ i <= Len(wire) /\ Len(wire) \in Nat /\ 1 <= i /\ total \in Nat
  BY RecordTyped DEF IInv, TypeOK
<1>3. CASE i = Len(wire)
  <2>1. Boundary(i) = total
    BY <1>3 DEF Boundary
  <2> QED
    BY <1>1, <1>2, <2>1, SMT DEF Decodes
<1>4. CASE i # Len(wire)
  <2>1. i + 1 \in Indices
    BY <1>2, <1>4, SMT DEF Indices
  <2>2. wire[i + 1].at < total /\ Boundary(i) = wire[i + 1].at
    BY <1>4, <2>1 DEF IInv, Layout, Boundary
  <2>3. wire[i].at + Span(wire[i].shape) <= total
    BY <1>1, <1>2, <2>2, SMT
  <2> QED
    BY <1>1, <1>2, <2>3, SMT DEF Decodes
<1> QED
  BY <1>3, <1>4

(* Unless a message was abandoned the record after the last one decoded is *)
(* in front of the buffer.                                                 *)
LEMMA NextIsFront ==
    ASSUME StreamAssumption, IInv, ~desynchronised, next < Len(wire)
    PROVE  next + 1 \in Indices /\ IsFront(next + 1)
<1>1. next \in 0 .. Len(wire) /\ Len(wire) \in Nat
  BY LenProperties DEF IInv, TypeOK
<1>2. next + 1 \in Indices /\ next # Len(wire)
  BY <1>1, SMT DEF Indices
<1> QED
  BY <1>2 DEF IInv, Aligned, IsFront

(* The records from i to the first that sets ME are decoded as a message   *)
(* once each of them decodes.                                              *)
LEMMA FirstMessageDecodes ==
    ASSUME StreamAssumption, IInv, NEW i \in Indices, NEW m \in i .. Len(wire),
           wire[m].me, \A k \in i .. (m - 1) : ~wire[k].me,
           \A k \in i .. m : Decodes(k)
    PROVE  DecodesMessage(i, m)
<1>0. i \in Nat /\ Len(wire) \in Nat /\ 1 <= i
  BY RecordTyped DEF IInv
<1>1. ASSUME NEW k \in i .. (m - 1)
      PROVE  wire[k + 1].at = wire[k].at + Span(wire[k].shape)
  <2>1. k \in Indices /\ k # Len(wire)
    BY <1>0, <1>1, SMT DEF Indices
  <2>2. wire[k].at + Span(wire[k].shape) = Boundary(k)
    BY <2>1, SpanReachesNext DEF IInv
  <2> QED
    BY <2>1, <2>2 DEF Boundary
<1> QED
  BY <1>1, Zenon DEF DecodesMessage

(* The first record from i on that ends a message.                         *)
LEMMA FirstEnd ==
    ASSUME StreamAssumption, IInv, NEW i \in Indices,
           NEW j \in i .. Len(wire), wire[j].me
    PROVE  \E m \in i .. Len(wire) : wire[m].me /\ \A k \in i .. (m - 1) : ~wire[k].me
<1>0. i \in Nat /\ Len(wire) \in Nat /\ 1 <= i
  BY RecordTyped DEF IInv
<1> DEFINE T == {k \in i .. Len(wire) : wire[k].me}
<1>1. PICK m \in T : \A k \in T : m <= k
  <2>1. T \subseteq Nat
    BY <1>0, SMT
  <2>2. j \in T
    OBVIOUS
  <2> QED
    BY <2>1, <2>2, LeastNumber
<1>2. m \in i .. Len(wire) /\ wire[m].me /\ m \in Int /\ m <= Len(wire)
  BY <1>0, <1>1, SMT
<1>3. ASSUME NEW k \in i .. (m - 1) PROVE ~wire[k].me
  <2>1. k \in i .. Len(wire) /\ ~(m <= k)
    BY <1>0, <1>2, <1>3, SMT
  <2>2. k \notin T
    BY <1>1, <2>1
  <2> QED
    BY <2>1, <2>2
<1> QED
  BY <1>2, <1>3

(* With all the peer wrote in the buffer neither call waits for what it    *)
(* already has: ReceiveRecord for a record, ReceiveMessage for a complete  *)
(* message (transport.cpp:239-257, 277-282).                               *)
THEOREM NeverWaitsInVain ==
    StreamAssumption /\ ~ReadsAfterAbandon /\ Spec => []WaitsForPeer
<1> SUFFICES ASSUME StreamAssumption, ~ReadsAfterAbandon PROVE Spec => []WaitsForPeer
  OBVIOUS
<1>1. IInv => WaitsForPeer
  <2> SUFFICES ASSUME IInv, arrived = total, ~desynchronised
               PROVE  /\ call = "record" /\ next < Len(wire) => ~Incomplete
                      /\ call = "message"
                           /\ (\E j \in (next + 1) .. Len(wire) : wire[j].me)
                         => ~Incomplete
    BY DEF WaitsForPeer
  <2>0. next \in Nat /\ Len(wire) \in Nat
    BY LenProperties, SMT DEF IInv, TypeOK
  <2>1. ASSUME call = "record", next < Len(wire) PROVE ~Incomplete
    <3>1. next + 1 \in Indices /\ IsFront(next + 1)
      BY <2>1, NextIsFront
    <3>2. Decodes(next + 1)
      BY <3>1, AllDecode
    <3>3. call # "message"
      BY <2>1
    <3> QED
      BY <3>1, <3>2, <3>3 DEF Incomplete
  <2>2. ASSUME call = "message", NEW j \in (next + 1) .. Len(wire), wire[j].me
        PROVE  ~Incomplete
    <3>0. next < Len(wire)
      BY <2>0, <2>2, SMT
    <3>1. next + 1 \in Indices /\ IsFront(next + 1)
      BY <3>0, NextIsFront
    <3>2. Decodes(next + 1)
      BY <3>1, AllDecode
    <3>3. \E m \in (next + 1) .. Len(wire) : DecodesMessage(next + 1, m)
      <4>1. PICK m \in (next + 1) .. Len(wire) :
              wire[m].me /\ \A k \in (next + 1) .. (m - 1) : ~wire[k].me
        BY <2>2, <3>1, FirstEnd
      <4>2. ((next + 1) .. m) \subseteq Indices
        BY <2>0, <4>1, SMT DEF Indices
      <4>3. \A k \in (next + 1) .. m : Decodes(k)
        BY <4>2, AllDecode
      <4> QED
        BY <3>1, <4>1, <4>3, FirstMessageDecodes
    <3>4. call # "record"
      BY <2>2
    <3> QED
      BY <3>1, <3>2, <3>3, <3>4, Zenon DEF Incomplete
  <2> QED
    BY <2>1, <2>2
<1> QED
  BY <1>1, Invariance, PTL

-----------------------------------------------------------------------------
(* Reads given up for their size.                                          *)

(* A call that waits is waiting for bytes of its own record or message:    *)
(* of what it reads, some record reaches past the bytes that came, or      *)
(* every byte the peer wrote is in the buffer.                             *)
LEMMA WaitsForItsOwn ==
    ASSUME StreamAssumption, IInv, Incomplete, ~desynchronised,
           call \in {"record", "message"}, arrived < total, next < Len(wire)
    PROVE  \E j \in Indices : ReadEndsAt(j) /\ ~Decodes(j)
<1> DEFINE i == next + 1
<1>0. next \in Nat /\ Len(wire) \in Nat /\ arrived \in Nat /\ total \in Nat
  BY LenProperties, SMT DEF IInv, TypeOK
<1>1. i \in Indices /\ IsFront(i)
  BY NextIsFront
<1>2. CASE call = "record"
  <2>1. ReadEndsAt(i)
    BY <1>0, <1>1, <1>2, SMT DEF ReadEndsAt, Indices
  <2> QED
    BY <1>1, <1>2, <2>1 DEF Incomplete
<1>3. CASE call = "message"
  <2> SUFFICES ASSUME \A j \in Indices : ReadEndsAt(j) => Decodes(j) PROVE FALSE
    OBVIOUS
  <2>0. ASSUME NEW m \in i .. Len(wire), \A k \in i .. (m - 1) : ~wire[k].me
        PROVE  \A k \in i .. m : Decodes(k)
    <3>1. ASSUME NEW k \in i .. m PROVE k \in Indices /\ ReadEndsAt(k)
      <4>1. k \in i .. Len(wire) /\ k \in Indices /\ (i .. (k - 1)) \subseteq (i .. (m - 1))
        BY <1>0, <2>0, <3>1, SMT DEF Indices
      <4> QED
        BY <1>3, <2>0, <4>1 DEF ReadEndsAt
    <3> QED
      BY <3>1
  <2>1. CASE \E j \in i .. Len(wire) : wire[j].me
    <3>1. PICK m \in i .. Len(wire) : wire[m].me /\ \A k \in i .. (m - 1) : ~wire[k].me
      BY <1>1, <2>1, FirstEnd
    <3>2. \A k \in i .. m : Decodes(k)
      BY <2>0, <3>1
    <3>3. DecodesMessage(i, m)
      BY <1>1, <3>1, <3>2, FirstMessageDecodes
    <3>4. i \in i .. m
      BY <1>0, <3>1, SMT
    <3> QED
      BY <1>1, <1>3, <3>1, <3>2, <3>3, <3>4, Zenon DEF Incomplete
  <2>2. CASE ~\E j \in i .. Len(wire) : wire[j].me
    <3> DEFINE z == Len(wire)
    <3>1. z \in i .. Len(wire) /\ z \in i .. z /\ z \in Indices
          /\ (i .. (z - 1)) \subseteq (i .. Len(wire))
      BY <1>0, SMT DEF Indices
    <3>2. Decodes(z)
      BY <2>0, <2>2, <3>1
    <3>3. /\ wire[z].at + Span(wire[z].shape) = total
          /\ wire[z].at \in Nat /\ Span(wire[z].shape) \in Nat
      BY <3>1, SpanReachesNext DEF IInv, Boundary
    <3> QED
      BY <1>0, <3>2, <3>3, SMT DEF Decodes
  <2> QED
    BY <2>1, <2>2
<1> QED
  BY <1>2, <1>3

(* A step that ends a call and adds bytes is a Fill that went over the     *)
(* limit.                                                                  *)
LEMMA OnlyFillRefuses ==
    ASSUME StreamAssumption, IInv, [Next]_vars,
           call # "none", call' = "none", arrived' > arrived
    PROVE  \E n \in Chunks : Fill(n) /\ ~(arrived' - taken <= MaxBuffer)
<1> USE DEF peer, hist, vars
<1>0. arrived \in Nat
  BY DEF IInv, TypeOK
<1>1. arrived' # arrived
  BY <1>0, SMT
<1>2. CASE Peer
  BY <1>1, <1>2 DEF Peer, PeerWrites
<1>3. CASE Receive
  <2>1. PICK n \in Chunks : Fill(n)
    BY <1>1, <1>3 DEF Receive, FillFails
  <2> QED
    BY <2>1 DEF Fill
<1>4. CASE Finish
  BY <1>1, <1>4 DEF Finish, ReturnRecord, RefuseRecord, RefuseNoMB, ReturnMessage, RefuseMessage
<1>5. CASE Caller
  BY <1>1, <1>5 DEF Caller, CallReceiveRecord, CallReceiveMessage, AbandonMessage
<1> QED
  BY <1>1, <1>2, <1>3, <1>4, <1>5 DEF Next

(* A read is given up for its size only when what it reads is that big     *)
(* (transport.cpp:228): the buffer holds nothing but the beginning of it.  *)
THEOREM OnlyBigReadsRefused ==
    StreamAssumption /\ ~ReadsAfterAbandon /\ Spec => RefusedForSize
<1> SUFFICES ASSUME StreamAssumption, ~ReadsAfterAbandon PROVE Spec => RefusedForSize
  OBVIOUS
<1> DEFINE Refused == ~desynchronised /\ call # "none" /\ call' = "none" /\ arrived' > arrived
           Big == \E j \in Indices :
                    /\ ReadEndsAt(j)
                    /\ wire[j].at + Span(wire[j].shape) - wire[next + 1].at
                         > MaxBuffer - (arrived' - arrived)
<1>1. IInv /\ [Next]_vars => [Refused => Big]_vars
  <2> SUFFICES ASSUME IInv, [Next]_vars, Refused PROVE Big
    OBVIOUS
  <2>1. PICK n \in Chunks : Fill(n) /\ ~(arrived' - taken <= MaxBuffer)
    BY OnlyFillRefuses
  <2>2. /\ next \in Nat /\ Len(wire) \in Nat /\ next <= Len(wire) /\ MaxBuffer \in Nat
        /\ arrived \in Nat /\ total \in Nat /\ taken \in Nat
        /\ n \in Nat /\ n > 0
    BY LenProperties, SMT DEF IInv, TypeOK, StreamAssumption
  <2>3. Incomplete /\ n <= total - arrived /\ arrived' = arrived + n
    BY <2>1 DEF Fill
  <2>4. arrived < total
    BY <2>2, <2>3, SMT
  <2>5. next < Len(wire)
    <3>1. next = Len(wire) => taken = total
      BY DEF IInv, Aligned
    <3>2. taken <= arrived
      BY DEF IInv, TypeOK
    <3> QED
      BY <2>2, <2>4, <3>1, <3>2, SMT
  <2>6. call \in {"record", "message"}
    BY DEF IInv, TypeOK
  <2>7. PICK j \in Indices : ReadEndsAt(j) /\ ~Decodes(j)
    BY <2>3, <2>4, <2>5, <2>6, WaitsForItsOwn
  <2>8. wire[next + 1].at = taken
    BY <2>5, NextIsFront DEF IsFront
  <2>9. wire[j].at \in Nat /\ Span(wire[j].shape) \in Nat
    BY SpanReachesNext DEF IInv
  <2>10. arrived - wire[j].at < Span(wire[j].shape)
    BY <2>2, <2>7, <2>9, SMT DEF Decodes
  <2>11. arrived + n - taken > MaxBuffer
    BY <2>1, <2>2, <2>3, SMT
  <2>12. wire[j].at + Span(wire[j].shape) - taken > MaxBuffer - (arrived' - arrived)
    BY <2>2, <2>3, <2>9, <2>10, <2>11, SMT
  <2> QED
    BY <2>7, <2>8, <2>12
<1> QED
  BY <1>1, Invariance, PTL DEF Spec, RefusedForSize

-----------------------------------------------------------------------------
(* Refinement.                                                             *)

(* Every step of the stream is a step of the record queue or leaves it     *)
(* alone.                                                                  *)
LEMMA StepRefines ==
    ASSUME StreamAssumption, ~ReadsAfterAbandon, IInv, [Next]_vars
    PROVE  [Q!Next]_(Q!qvars)
<1> USE DEF peer, hist, Q!qvars
<1>1. CASE Peer
  <2>1. PICK s \in Shapes, mb \in BOOLEAN, me \in BOOLEAN, neg \in BOOLEAN :
          PeerWrites(s, mb, me, neg)
    BY <1>1 DEF Peer
  <2> DEFINE head == IF AtStart THEN Len(wire) + 1 ELSE wire[Len(wire)].head
             rec == [shape |-> s, mb |-> mb, me |-> me, negotiated |-> neg,
                     head |-> head, at |-> total]
  <2>2. wire' = Append(wire, rec)
    BY <2>1 DEF PeerWrites
  <2>3. wire' \in Seq(RecordType) /\ wire \in Seq(RecordType)
    <3>1. IInv'
      BY NextInv
    <3> QED
      BY <3>1 DEF IInv, TypeOK
  <2> HIDE DEF rec
  <2>4. Len(wire') = Len(wire) + 1
    BY <2>2, <2>3, SMT
  <2> QED
    BY <2>1, <2>4 DEF PeerWrites, Q!Next, Q!Write
<1>2. CASE \/ Receive \/ CallReceiveRecord \/ CallReceiveMessage \/ UNCHANGED vars
           \/ \E i \in Indices : RefuseNoMB(i)
  BY <1>2 DEF Receive, Fill, FillFails, CallReceiveRecord, CallReceiveMessage, RefuseNoMB, vars
<1>3. CASE ~desynchronised /\ \E j \in Indices : Consumes(j)
  <2>1. PICK j \in Indices : Consumes(j)
    BY <1>3
  <2>2. j \in (next + 1) .. Len(wire)
    BY <2>1, RecordTyped, SMT DEF IInv, TypeOK, Consumes
  <2>3. Q!Return(j) \/ Q!Refuse(j)
    BY <1>3, <2>1 DEF Consumes, Q!Return, Q!Refuse
  <2> QED
    BY <2>2, <2>3 DEF Q!Next
<1>4. CASE AbandonMessage
  BY <1>4 DEF AbandonMessage, Q!Next, Q!Abandon
<1> QED
  BY <1>1, <1>2, <1>3, <1>4, FinishConsumes DEF Next, Caller, Receive

(* The stream implements the record queue.                                 *)
THEOREM Refinement == StreamAssumption /\ ~ReadsAfterAbandon /\ Spec => ImplementsQueue
<1> SUFFICES ASSUME StreamAssumption, ~ReadsAfterAbandon PROVE Spec => ImplementsQueue
  OBVIOUS
<1>1. Init => Q!Init
  BY DEF Init, Q!Init
<1>2. IInv /\ [Next]_vars => [Q!Next]_(Q!qvars)
  BY StepRefines
<1> QED
  BY <1>1, <1>2, Invariance, PTL DEF Spec, Q!Spec, ImplementsQueue
=============================================================================
