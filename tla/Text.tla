---------------------------------- MODULE Text ----------------------------------
(***************************************************************************)
(* std::string::find, on a text that is a sequence of symbols.             *)
(***************************************************************************)
EXTENDS Integers, Sequences

(* The first of some places, or npos.                                      *)
Find(s, found) ==
    IF found = {} THEN Len(s) + 1 ELSE CHOOSE j \in found : \A k \in found : j <= k
=============================================================================
