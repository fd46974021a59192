------------------------------- MODULE Parameters -------------------------------
(***************************************************************************)
(* XmlaConnectionParams (src/xmla_connection.cpp): a connection string, a  *)
(* secret and the defaults become what a session is opened with.  A        *)
(* definition that may refuse gives a set, empty when it does.             *)
(***************************************************************************)
EXTENDS ConnectionString

CONSTANTS
    Ports, Timeouts, Truths, Falsehoods,  \* what ParsePort, ParseTimeout and ParseBool accept
    Secrets                               \* secret name -> [type, fields]

OptionNames == {"host", "port", "mechanism", "user", "catalog", "spn", "instance", "use_port",
                "timeout", "secret"}

Accepts(name, value) ==
    /\ name = "port" => value \in Ports
    /\ name = "timeout" => value \in Timeouts
    /\ name = "use_port" => value \in Truths \cup Falsehoods

(* FromString; an option that is not given is <<>>.  "password" is refused *)
(* like any key that is not known.                                         *)
FromString(text) ==
    {[name \in OptionNames |-> IF <<name>> \in DOMAIN options THEN options[<<name>>] ELSE <<>>] :
     options \in {o \in ParseConnectionString(text) :
                     \A key \in DOMAIN o : /\ key \in {<<name>> : name \in OptionNames}
                                           /\ Accepts(Head(key), o[key])}}

(* ParamsFrom: the function's own parameters replace the string's.         *)
ParamsFrom(text, named) ==
    {[name \in OptionNames |-> IF name \in DOMAIN named THEN named[name] ELSE p[name]] :
     p \in FromString(text)}

Field(secret, name) == IF name \in DOMAIN secret.fields THEN secret.fields[name] ELSE <<>>

(* The connection string wins; it is more specific.                        *)
Take(p, secret, name) == IF p[name] = <<>> THEN Field(secret, name) ELSE p[name]

SecretFields == {"user", "mechanism", "host", "spn", "port"}

(* CreateXmlaSecret refuses any other field.                               *)
ASSUME SecretsAssumption ==
    \A name \in DOMAIN Secrets :
        Secrets[name].type = "xmla" => DOMAIN Secrets[name].fields \subseteq SecretFields \cup {"password"}

(* ApplySecret: the parameters with the secret's, and its password.        *)
ApplySecret(p) ==
    IF p["secret"] = <<>> THEN {[params |-> p, password |-> <<>>]}
    ELSE {[params |-> [name \in OptionNames |->
                          IF name \in SecretFields THEN Take(p, secret, name) ELSE p[name]],
           password |-> Field(secret, "password")] :
          secret \in {Secrets[name] : name \in {n \in DOMAIN Secrets :
                         /\ n = p["secret"] /\ Secrets[n].type = "xmla"
                         /\ Take(p, Secrets[n], "port") \in Ports \cup { <<>> }}}}

ApplyDefaults(p) == [p EXCEPT !["mechanism"] = IF @ = <<>> THEN <<"kerberos">> ELSE @]

Validate(p) == p["host"] # <<>> /\ p["port"] # <<>>

(* A variant that applies the defaults before the secret.                  *)
ResolveDefaultsFirst(p) == {r \in ApplySecret(ApplyDefaults(p)) : Validate(r.params)}

(* Resolve: in that order.                                                 *)
Resolve(p) ==
    {r \in {[s EXCEPT !.params = ApplyDefaults(@)] : s \in ApplySecret(p)} : Validate(r.params)}

(* Credential::Target, and the check of its form in GssContext::Create.    *)
Target(p) ==
    IF p["spn"] # <<>> THEN p["spn"]
    ELSE <<"service", "/">> \o p["host"]
           \o (IF p["instance"] # <<>> THEN <<":">> \o p["instance"]
               ELSE IF p["use_port"] \in Truths THEN <<":">> \o p["port"] ELSE <<>>)

IsServiceName(spn) ==
    LET slash == Find(spn, {i \in 1 .. Len(spn) : spn[i] = "/"}) IN 1 < slash /\ slash < Len(spn)

Mechanisms == { <<"kerberos">>, <<"negotiate">>, <<"ntlm">> }
=============================================================================
