------------------------------- MODULE LoadOnce -------------------------------
(***************************************************************************)
(* What the catalog promises about each of its objects, the attachment and *)
(* its models: it presents nothing until it is loaded, and what it         *)
(* presents from then on never changes, no entry added, dropped or         *)
(* replaced, while the attachment lives.                                   *)
(***************************************************************************)
CONSTANT Objects
VARIABLE content    \* {} until an object is loaded, then {what it presents}

Init == content = [o \in Objects |-> {}]

Load(o) ==
    /\ content[o] = {}
    /\ \E c \in content'[o] : content' = [content EXCEPT ![o] = {c}]

Next == \E o \in Objects : Load(o)

Spec == Init /\ [][Next]_content
=============================================================================
