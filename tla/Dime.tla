---------------------------------- MODULE Dime ----------------------------------
(***************************************************************************)
(* DIME record framing as the decoder computes it: how many bytes a record *)
(* of given field lengths occupies, and how its payload maps to the bytes. *)
(* The byte values themselves are abstracted; the lengths are the code's.  *)
(***************************************************************************)
EXTENDS Integers

HEADER_LEN == 12

(* Bytes of padding to the next 4-byte boundary, as dime.cpp computes it.  *)
Pad(n) == (4 - (n % 4)) % 4

(* A shape gives the four declared lengths of a record's header.           *)
ShapeType == [options : Nat, id : Nat, type_ : Nat, data : Nat]

(* A variant that pads the record once, at its end.                        *)
SpanPaddedOnce(s) ==
    LET body == s.options + s.id + s.type_ + s.data
    IN  HEADER_LEN + body + Pad(body)

(* What DecodeRecord walks: the header, then every field with ITS OWN      *)
(* padding.                                                                *)
Span(s) == HEADER_LEN + (s.options + Pad(s.options)) + (s.id + Pad(s.id))
                      + (s.type_ + Pad(s.type_)) + (s.data + Pad(s.data))

-----------------------------------------------------------------------------
(* The layout the peer writes, from the record format alone and not from   *)
(* the decoder: each field is extended to the first multiple of four.      *)
RoundUp(n) == CHOOSE m \in n .. (n + 3) : m % 4 = 0

PeerSpan(s) == HEADER_LEN + RoundUp(s.options) + RoundUp(s.id)
                          + RoundUp(s.type_) + RoundUp(s.data)

=============================================================================
