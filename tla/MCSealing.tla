------------------------------- MODULE MCSealing -------------------------------
(***************************************************************************)
(* A small instance of Sealing.                                            *)
(***************************************************************************)
EXTENDS Sealing

(* Empty and full bodies and tokens, and one over the ceiling.             *)
SomeShapes == { [data |-> 0, token |-> 1], [data |-> 2, token |-> 1],
                [data |-> 1, token |-> 0], [data |-> 5, token |-> 1] }
=============================================================================
