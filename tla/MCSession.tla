-------------------------------- MODULE MCSession --------------------------------
(***************************************************************************)
(* Small instances of Session.                                             *)
(***************************************************************************)
EXTENDS Session

(* Rowsets and refusals in one record and cut in two, some past the prefix *)
(* a cursor looks at: a SessionId or a fault in the record that reaches    *)
(* its end, and rows after it.                                             *)
AnswersInHeadOrder == {
    <<{"doc", "sid", "row"}>>,
    <<{"doc", "row", "full"}, {"row"}>>,
    <<{"doc"}, {"sid", "row", "full"}>>,
    <<{"doc", "sid"}, {"code", "text", "full"}>>,
    <<{"noise"}>>,
    <<{}>> }

(* A fault whose text comes a record after its code.                       *)
AnswersWithCutFault == AnswersInHeadOrder \cup { <<{"doc", "code"}, {"text"}>> }

(* A document that opens a record after its leading white space.           *)
AnswersWithLeadingSpace == AnswersInHeadOrder \cup { <<{"space"}, {"doc", "row"}>> }

(* The caller the extension is, and one that also goes on after errors and *)
(* sends while a cursor reads; one that is not careful at all.             *)
AsTheExtension == { {} }
Careless == AsTheExtension \cup { {"after_error", "during_cursor"} }
Reckless == { {"after_error", "during_cursor", "cursor_over_reopen"} }
=============================================================================
