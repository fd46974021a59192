---------------------------- MODULE MCTableFunctions ----------------------------
(***************************************************************************)
(* Small instances of TableFunctions: connection strings in every form the *)
(* parser reads or refuses, against a small set of secrets, and every      *)
(* statement of up to five symbols.                                        *)
(***************************************************************************)
EXTENDS TableFunctions, TLC

SomeWords == {"host", "port", "mechanism", "user", "spn", "secret", "password", "catalog", "hots",
              "instance", "server", "alice", "vault", "s3", "broken", "ntlm", "magic",
              "Adventure", "Works", "a", "use_port", "timeout", "true", "maybe"}
SomeNumbers == {"2383", "65538", "0"}
GoodPorts == { <<"2383">> }
GoodTimeouts == { <<"2383">> }
Yes == { <<"true">> }
No == { <<"0">> }

SomeSecrets ==
    <<"vault">> :> [type |-> "xmla", fields |-> [user |-> <<"bob">>, password |-> <<"pw">>,
                    mechanism |-> <<"ntlm">>, port |-> <<"2383">>, spn |-> <<"s", "/", "h">>]]
    @@ <<"s3">> :> [type |-> "s3", fields |-> [user |-> <<"bob">>]]
    @@ <<"broken">> :> [type |-> "xmla", fields |-> [port |-> <<"65538">>, host |-> <<"server">>]]

Nothing == [n \in {} |-> <<>>]

(* A text that is written to say something, and where it says it.          *)
Option(key, value, quote, after) == [key |-> <<key>>, value |-> value, quote |-> quote, after |-> after]
Spell(lead, items) ==
    LET told[n \in 0 .. Len(items)] ==
            IF n = 0 THEN [text |-> lead, options |-> <<>>]
            ELSE LET o == items[n]
                     mark == IF o.quote = "none" THEN <<>> ELSE <<o.quote>>
                 IN  [text |-> told[n - 1].text \o o.key \o <<"=">> \o mark \o o.value \o mark \o o.after,
                      options |-> Append(told[n - 1].options,
                                         [key |-> o.key, value |-> o.value, quote |-> o.quote,
                                          at |-> Len(told[n - 1].text) + 1])]
    IN  told[Len(items)]

Space(key, value) == Option(key, value, "none", <<" ">>)
Semi(key, value) == Option(key, value, "none", <<";">>)
Last(key, value) == Option(key, value, "none", <<>>)
Host == Space("host", <<"server">>)
Port == Last("port", <<"2383">>)

Call(kind, told, named) ==
    [kind |-> kind, text |-> told.text, options |-> told.options, named |-> named,
     statement |-> IF kind = "execute" THEN <<"query">> ELSE <<>>, restrictions_valid |-> TRUE]
Executes(items) == Call("execute", Spell(<<>>, items), Nothing)

(* What these say has a meaning, or not, as Meaningful tells.              *)
SaidCalls == {
    Executes(<<Host, Port>>),
    Call("execute", Spell(<<" ">>, <<Option("host", <<"server">>, "none", <<";", " ">>), Port>>), Nothing),
    Executes(<<Space("catalog", <<"Adventure", " ", "Works">>), Space("port", <<"2383">>), Host>>),
    Executes(<<Option("catalog", <<"a", ";", "port", "=", "0">>, "'", <<" ">>),
               Semi("port", <<"2383">>), Host>>),
    Executes(<<Host, Space("port", <<"2383">>), Semi("user", <<"alice">>), Last("secret", <<"vault">>)>>),
    Executes(<<Host, Space("secret", <<"vault">>), Last("mechanism", <<"magic">>)>>),
    Executes(<<Host, Space("port", <<"2383">>), Space("user", <<"alice">>), Last("spn", <<"broken">>)>>),
    Executes(<<Host, Space("port", <<"2383">>), Space("use_port", <<"true">>),
               Last("timeout", <<"2383">>)>>),
    Call("discover", Spell(<<>>, <<Host, Last("secret", <<"s3">>)>>), [secret |-> <<"vault">>]),
    Call("discover", Spell(<<>>, <<Space("catalog", <<"Works">>), Host, Port>>), [catalog |-> <<>>]),
    [Call("discover", Spell(<<>>, <<Host, Port>>), Nothing) EXCEPT !.restrictions_valid = FALSE],
    Executes(<<>>), Executes(<<Host>>), Executes(<<Port>>),
    Executes(<<Host, Space("port", <<"2383">>), Last("hots", <<"server">>)>>),
    Executes(<<Host, Space("port", <<"2383">>), Last("password", <<"alice">>)>>),
    Executes(<<Host, Last("port", <<"65538">>)>>), Executes(<<Host, Last("port", <<>>)>>),
    Executes(<<Host, Space("port", <<"2383">>), Last("use_port", <<"maybe">>)>>),
    Executes(<<Host, Space("port", <<"2383">>), Last("timeout", <<"0">>)>>),
    Executes(<<Host, Space("port", <<"2383">>), Last("secret", <<"Works">>)>>),
    Executes(<<Host, Space("port", <<"2383">>), Last("secret", <<"s3">>)>>),
    Executes(<<Last("secret", <<"broken">>)>>) }

(* Texts that say nothing: an option twice, two without a separator, a     *)
(* quote that is not closed or is not followed by one, no option at all.   *)
BadTexts == {
    Spell(<<>>, <<Host, Space("port", <<"2383">>), Port>>).text,
    <<"host", "=", "server", "port", "=", "2383">>,
    Spell(<<>>, <<Host, Port>>).text \o <<" ", "catalog", "=", "'", "Works">>,
    <<"host", "=", "'", "server", "'", "port", "=", "2383">>,
    <<"server">>, <<"host", "=", "server", ";", "2383", "port", "=", "2383">> }

Refuses(text) == Call("execute", [text |-> text, options |-> <<>>], Nothing)

Alphabet == {"query", "other", " ", "newline", "'", "[", "]", ";", "/", "*", "-"}
ShortStatements ==
    UNION {[1 .. n -> Alphabet] : n \in 0 .. 3}
    \cup {<<a>> \o s : a \in {"query", "/", " "}, s \in [1 .. 4 -> Alphabet]}
    \cup {<<"query", q>> \o s : q \in {"'", "["}, s \in [1 .. 5 -> {"other", "'", "]", ";"}]}

StatementCalls == {[Executes(<<>>) EXCEPT !.statement = s] : s \in ShortStatements}

AllCalls == SaidCalls \cup {Refuses(text) : text \in BadTexts} \cup StatementCalls

(* A column that only the second row has; a table whose columns are null;  *)
(* an empty one.  One column has the name DescribeRowset gives to none.    *)
AllNames == {"", "row", "a", "result"}
Order == <<"a", "result">>
Row(a, result) == [a |-> a, result |-> result]
SomeTables == { <<>>, << Row("null", "null") >>,
                << Row("null", "x"), Row("x", ""), Row("x", "null") >> }
Identity == [n \in AllNames |-> n]
=============================================================================
