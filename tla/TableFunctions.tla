----------------------------- MODULE TableFunctions -----------------------------
(***************************************************************************)
(* xmla_discover and xmla_execute (src/xmla_functions.cpp): Bind checks    *)
(* the call, opens a session, reads a whole rowset and closes the session; *)
(* each execution of the plan then hands the rowset out in vectors.        *)
(*                                                                         *)
(* A call is a record: kind, text (the connection string), options (what   *)
(* that text was written to say), named (the function's own parameters),   *)
(* statement, and whether every restriction name is valid.                 *)
(***************************************************************************)
EXTENDS Opening, Guard, RowGrammar

CONSTANTS
    Calls,           \* the calls made
    Tables,          \* what the server may answer with: rows, from column to value or Null
    ColumnOrder,     \* the columns in the order a row has them
    VectorSize,      \* STANDARD_VECTOR_SIZE
    SelfClosing,     \* the server writes a row without a value as <row/>
    MaxExecutions,   \* bound: executions of a plan
    Null

ASSUME FunctionsAssumption ==
    /\ VectorSize \in Nat \ {0} /\ MaxExecutions \in Nat
    /\ SelfClosing \in BOOLEAN /\ Null \notin Texts

(* A statement is a text, as Guard reads one; the function's parameters    *)
(* that say anything of the connection are these (xmla_functions.cpp:66).  *)
ASSUME CallsAssumption ==
    \A c \in Calls : /\ c.text \in Seq(Characters) /\ c.options \in Seq(Options)
                     /\ c.statement \in Seq(Symbols)
                     /\ DOMAIN c.named \subseteq {"catalog", "secret"}

ASSUME TablesAssumption ==
    /\ ColumnOrder \in Seq(Names)
    /\ Tables \subseteq Seq([Range(ColumnOrder) -> Texts \cup {Null}])

VARIABLES
    call,            \* the call
    sent,            \* history: the request is on its way
    rowset,          \* XmlaBindData::rowset
    table,           \* history: what it was parsed from
    offset,          \* XmlaGlobalState::offset
    executions,      \* executions begun
    delivered        \* history: rows given to DuckDB in this execution

scan == <<offset, executions, delivered>>
functionVars == <<call, sent, rowset, table, scan, openingVars>>

NoRows == [columns |-> <<>>, rows |-> <<>>]

FunctionsInit ==
    /\ call \in Calls
    /\ OpeningInit /\ pc = "bind"
    /\ sent = FALSE /\ rowset = NoRows /\ table = <<>>
    /\ offset = 0 /\ executions = 0 /\ delivered = <<>>

-----------------------------------------------------------------------------
(* DiscoverBind and ExecuteBind.                                           *)

(* A variant that leaves the guard to Session::Execute.                    *)
StartBindUnguarded ==
    /\ pc = "bind"
    /\ \/ ParamsFrom(call.text, call.named) = {} /\ Fails("binder") /\ UNCHANGED params
       \/ \E p \in ParamsFrom(call.text, call.named) : params' = p /\ Goes("open")
    /\ UNCHANGED <<call, sent, rowset, table, scan, password, handles, address, sockets, clock>>

(* The parameters, then the guard on the statement, then OpenSession.      *)
StartBind ==
    /\ pc = "bind"
    /\ \/ ParamsFrom(call.text, call.named) = {} /\ Fails("binder") /\ UNCHANGED params
       \/ \E p \in ParamsFrom(call.text, call.named) :
             /\ params' = p
             /\ IF call.kind = "execute" /\ ~ReadsOnly(call.statement)
                THEN Fails("statement") ELSE Goes("open")
    /\ UNCHANGED <<call, sent, rowset, table, scan, password, handles, address, sockets, clock>>

(* The envelope is composed: Execute checks the statement again, Discover  *)
(* the names of the restrictions.  Then it is sent, or the send fails.     *)
SendRequest ==
    /\ pc = "session" /\ ~sent
    /\ IF IF call.kind = "execute" THEN ReadsOnly(call.statement) ELSE call.restrictions_valid
       THEN sent' = TRUE /\ UNCHANGED <<pc, failure, sockets, handles>>
       ELSE Fails("session") /\ Dropped /\ UNCHANGED sent
    /\ UNCHANGED <<call, rowset, table, scan, asked, address, clock>>

(* A row's cells, in the order of the columns: what is null is left out.   *)
CellsRead(columns, row) ==
    LET read[c \in 0 .. Len(ColumnOrder)] ==
            IF c = 0 THEN [Unread EXCEPT !.columns = columns]
            ELSE IF row[ColumnOrder[c]] = Null THEN read[c - 1]
            ELSE SetCell(read[c - 1], ColumnOrder[c], row[ColumnOrder[c]])
    IN  read[Len(ColumnOrder)]

(* A row written <row/> is lost: a self-closing element opens no row, and  *)
(* outside a row it is no cell (rowset.cpp:452-460).                       *)
LostRow(row) == SelfClosing /\ \A c \in 1 .. Len(ColumnOrder) : row[ColumnOrder[c]] = Null

(* The next element of the answer, read.                                   *)
WithRow(read, row) ==
    LET last == CellsRead(read.columns, row)
    IN  IF LostRow(row) THEN read
        ELSE [columns |-> last.columns, rows |-> Append(read.rows, last.row)]

(* The rowset of a table.                                                  *)
Parsed(t) ==
    LET read[n \in 0 .. Len(t)] == IF n = 0 THEN NoRows ELSE WithRow(read[n - 1], t[n])
    IN  read[Len(t)]

(* A rowset, and the session is closed ...                                 *)
Answered(t) ==
    /\ pc = "session" /\ sent
    /\ rowset' = Parsed(t) /\ table' = t
    /\ Dropped /\ Goes("bound")
    /\ UNCHANGED <<call, sent, scan, asked, address, clock>>

(* ... or anything that RoundtripRowset throws.                            *)
NotAnswered ==
    /\ pc = "session" /\ sent
    /\ Dropped /\ Fails("session")
    /\ UNCHANGED <<call, sent, rowset, table, scan, asked, address, clock>>

(* DescribeRowset.                                                         *)
Described == IF rowset.columns = <<>> THEN <<"result">> ELSE rowset.columns

-----------------------------------------------------------------------------
(* InitGlobal and Scan.                                                    *)

(* A variant that goes on where the execution before stopped.              *)
InitGlobalKeepsOffset ==
    /\ pc = "bound" /\ executions < MaxExecutions
    /\ executions' = executions + 1
    /\ delivered' = <<>> /\ UNCHANGED offset
    /\ UNCHANGED <<call, sent, rowset, table, openingVars>>

InitGlobal ==
    /\ pc = "bound" /\ executions < MaxExecutions
    /\ executions' = executions + 1
    /\ offset' = 0 /\ delivered' = <<>>
    /\ UNCHANGED <<call, sent, rowset, table, openingVars>>

(* A variant that puts a row's cells in the order it has them.             *)
OutputRowByPosition(row) ==
    [c \in 1 .. Len(Described) |->
        IF rowset.columns = <<>> \/ c \notin DOMAIN row THEN Null ELSE row[c].value]

OutputRow(row) ==
    [c \in 1 .. Len(Described) |->
        LET cells == {i \in DOMAIN row : row[i].column = c} IN
        IF rowset.columns = <<>> \/ cells = {} THEN Null ELSE row[CHOOSE i \in cells : TRUE].value]

Taken == LET remaining == Len(rowset.rows) - offset
         IN  IF remaining < VectorSize THEN remaining ELSE VectorSize

(* One vector, while there are rows left.                                  *)
ScanVector ==
    /\ pc = "bound" /\ executions > 0 /\ Taken > 0
    /\ delivered' = delivered
          \o [i \in 1 .. Taken |-> OutputRow(rowset.rows[offset + i])]
    /\ offset' = offset + Taken
    /\ UNCHANGED <<call, sent, rowset, table, executions, openingVars>>

Bind == StartBind \/ SendRequest \/ NotAnswered \/ \E t \in Tables : Answered(t)
Thread == OpeningNext /\ UNCHANGED <<call, sent, rowset, table, scan>>

FunctionsNext == Bind \/ Thread \/ InitGlobal \/ ScanVector
FunctionsSpec == FunctionsInit /\ [][FunctionsNext]_functionVars

(* The thread runs, time passes, signals are not without end, and GSSAPI,  *)
(* the resolver and the requests on the session return: see Session.       *)
FairFunctions == FunctionsSpec /\ WF_functionVars(Bind) /\ WF_functionVars(Thread)

-----------------------------------------------------------------------------
(* Properties.                                                             *)

(* The types; the offset stays within the rowset.                          *)
FunctionsTypeOK ==
    /\ OpeningTypeOK
    /\ sent \in BOOLEAN
    /\ table \in Tables \cup { <<>> }
    /\ offset \in 0 .. Len(rowset.rows) /\ executions \in 0 .. MaxExecutions

(* What a call says of an option: the function's parameter, or the text.   *)
Said(c, option) ==
    LET saying == {i \in DOMAIN c.options : c.options[i].key = <<option>>}
    IN  IF option \in DOMAIN c.named THEN c.named[option]
        ELSE IF saying = {} THEN <<>> ELSE c.options[CHOOSE i \in saying : TRUE].value

SecretSaid(c) ==
    LET name == Said(c, "secret")
    IN  IF name # <<>> /\ name \in DOMAIN Secrets THEN Secrets[name].fields ELSE [f \in {} |-> <<>>]

(* The first of some sources that gives an option.                         *)
FirstGiven(sources, name) ==
    LET giving == {i \in DOMAIN sources :
                      name \in DOMAIN sources[i] /\ sources[i][name] # <<>>}
    IN  IF giving = {} THEN <<>>
        ELSE sources[CHOOSE i \in giving : \A j \in giving : i <= j][name]

Setting(c, option) ==
    FirstGiven(<<[o \in OptionNames |-> Said(c, o)], SecretSaid(c),
                 [o \in {"mechanism"} |-> <<"kerberos">>]>>, option)

(* A call whose text says options there are, with values there are, whose  *)
(* secret is there, and which says where to connect to.                    *)
Meaningful(c) ==
    /\ Says(c.text, c.options)
    /\ \A i \in DOMAIN c.options : \E name \in OptionNames :
          c.options[i].key = <<name>> /\ Accepts(name, c.options[i].value)
    /\ Said(c, "secret") # <<>> => Said(c, "secret") \in DOMAIN Secrets
                                    /\ Secrets[Said(c, "secret")].type = "xmla"
    /\ Setting(c, "host") # <<>> /\ Setting(c, "port") \in Ports \ { <<>> }

(* A session is opened with what the function's parameters, the text as it *)
(* was meant, the secret and the defaults say, the first that says         *)
(* anything; a text that means something is not refused, and one that does *)
(* not is (connection_string.cpp:66-120, xmla_connection.cpp:75-249).      *)
MoreSpecificWins ==
    /\ failure = "binder" => ~Meaningful(call)
    /\ pc \notin {"bind", "open"} /\ failure \notin {"binder", "statement"} =>
          /\ Meaningful(call)
          /\ \A option \in OptionNames : params[option] = Setting(call, option)
          /\ password = FirstGiven(<<SecretSaid(call)>>, "password")

(* A statement that is not a single query goes no further than the check   *)
(* of its text: nothing is opened for it and nothing sent.  One that is a  *)
(* single query is not refused (envelopes.cpp:134-299,                     *)
(* xmla_functions.cpp:115-128).                                            *)
GuardExact ==
    call.kind = "execute" =>
        IF IsSingleQuery(call.statement) THEN failure # "statement"
        ELSE pc \in {"bind", "failed"} /\ failure \in {"none", "binder", "statement"} /\ ~sent

(* Each execution gives DuckDB the rows of the table from the first on,    *)
(* each value under the name of its column, null where the server left it  *)
(* out, until there are none left, whatever column a row was the first to  *)
(* have and however often the plan is run (xmla_functions.cpp:40-57,       *)
(* 151-206): when the server closes no row by itself, for such a row is    *)
(* not there for the parser (rowset.cpp:452-460).                          *)
DeliveredWhole ==
    /\ \A r \in 1 .. Len(delivered) : \A c \in 1 .. Len(Described) :
          delivered[r][c] =
             IF Described[c] \in Range(ColumnOrder) THEN table[r][Described[c]] ELSE Null
    /\ Taken = 0 /\ executions > 0 => Len(delivered) = Len(table)

(* Every Bind returns or throws (FR-025).                                  *)
BindEnds == (pc = "bind") ~> (pc \in {"bound", "failed"})
=============================================================================
