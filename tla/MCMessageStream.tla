---------------------------- MODULE MCMessageStream ----------------------------
(***************************************************************************)
(* Small instances of MessageStream.  A record is 16 or 24 bytes: a bare   *)
(* header with options, and one whose type and data both need padding.     *)
(***************************************************************************)
EXTENDS MessageStream

SmallShapes ==
    { [options |-> 4, id |-> 0, type_ |-> 0, data |-> 0],
      [options |-> 0, id |-> 0, type_ |-> 3, data |-> 5] }
=============================================================================
