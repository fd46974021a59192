------------------------------ MODULE MCTableScan ------------------------------
(***************************************************************************)
(* Small instances of TableScan: three columns, up to three rows.          *)
(***************************************************************************)
EXTENDS TableScan

Columns == {"a", "b", "c", "u"}
QualifiedNames == [a |-> "T[a]", b |-> "T[b]", c |-> "T[c]", u |-> "T[u]"]
AliasNames == [a |-> "[a]", b |-> "[b]", c |-> "[c]", u |-> "[u]"]
EncodedNames == "T[a]" :> "T_a" @@ "T[b]" :> "T_b" @@ "T[c]" :> "T_c"
                  @@ "[a]" :> "_a" @@ "[b]" :> "_b" @@ "[c]" :> "_c"
AllNames == {"", "row", "root", "schema", "Axes"} \cup Columns
              \cup Range(QualifiedNames) \cup Range(AliasNames) \cup Range(EncodedNames)
DecodedNames == [n \in AllNames |->
                    IF \E d \in DOMAIN EncodedNames : EncodedNames[d] = n
                    THEN CHOOSE d \in DOMAIN EncodedNames : EncodedNames[d] = n ELSE n]

AllTexts == {"", "x", "long", "endless"}
TextLengths == "" :> 0 @@ "x" :> 1 @@ "long" :> 12 @@ "endless" :> 30

(* Columns known and safe; one unsafe; unknown, with the placeholder.      *)
SomeBinds ==
    { [columns |-> <<"a", "b", "c">>, served |-> <<"a", "b", "c">>, known |-> TRUE,
       safe |-> {"a", "b", "c"}, table_safe |-> TRUE],
      [columns |-> <<"a", "b", "c">>, served |-> <<"a", "b", "c">>, known |-> TRUE,
       safe |-> {"a", "c"}, table_safe |-> TRUE],
      [columns |-> <<"u">>, served |-> <<"a", "b", "c">>, known |-> FALSE,
       safe |-> {"u"}, table_safe |-> TRUE],
      [columns |-> <<"a", "b", "c">>, served |-> <<"a", "b", "c">>, known |-> TRUE,
       safe |-> {}, table_safe |-> FALSE] }

(* count star, one column, both in either order, one after a placeholder.  *)
SomeQueries == { <<0>>, <<1>>, <<2, 1>>, <<0, 2>> }

Row(a, b) == [a |-> a, b |-> b, c |-> a]
SomeTables == { <<>>, << Row("x", "endless") >>,
                << Row("null", "null"), Row("", "x") >>,
                << Row("x", "null"), Row("long", ""), Row("null", "x") >> }
=============================================================================
