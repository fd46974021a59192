# XMLA over TCP: a TLA+ development

This directory models the DuckDB XMLA extension: the code under `src/src/` that
reads a connection's settings, opens a TCP connection to an Analysis Services
instance, authenticates, seals and sends requests, reads the answers whole or
row by row, and hands them to DuckDB. Paths below are relative to the repository.

## 1. The system

| Component | State it keeps | Operations | Talks to |
|---|---|---|---|
| DIME records (`xmla/dime.cpp`) | none | encode, decode at an offset, check the negotiated options | called by the stream |
| Socket channel (`xmla/transport.cpp`) | the descriptor, timeouts | connect under a deadline, send all, receive some, close | the network |
| Message stream (`xmla/transport.cpp`) | the receive buffer, `in_message_`, `desynchronised_` | SendMessage, ReceiveRecord, ReceiveMessage, AbandonMessage | a channel below, the session above |
| Handshake (`xmla/auth.cpp`) | the round it is in | token exchange in Authenticate envelopes | the security context; the session's send/receive callback |
| Security context, seal provider (`xmla/gss_context.cpp`) | a GSS context | step, make a provider, seal, unseal | a system library |
| Sealing (`xmla/sealing.cpp`) | `Unsealer`: partial frame, held-back head, whether the BOM question is settled | seal a message, unseal whole or incrementally | the provider |
| Session (`xmla/client.cpp`) | `state_`, `stream_`, `seal_`, `session_id_`, `first_record_` | Open, Close, Discover, Execute, ExecuteCursor | everything above |
| Row cursor (`xmla/client.cpp`) | unsealer, parser, head of the plaintext, `complete_`, `drained_` | Next, destructor | the fields of the session it holds a reference to |
| Rowset and row stream (`xmla/rowset.cpp`) | text not yet consumed, the column union | append, next row, finish | fed by the cursor |
| Statement guard and envelopes (`xmla/envelopes.cpp`), DAX (`xmla/dax.cpp`) | none | refuse mutating statements, compose requests | the session, the scan |
| Connection parameters (`xmla_connection.cpp`, `xmla/connection_string.cpp`, `xmla_secret.cpp`) | none | resolve settings, open a session | DuckDB's secret manager |
| Catalog and schema entries (`catalog/`) | maps of entries, `loaded_`, each under a mutex | lazy load, lookup, scan | a session per load; DuckDB's threads |
| Table scan, table functions (`catalog/xmla_table_entry.cpp`, `xmla_functions.cpp`) | session, cursor, column map, `exhausted` | bind, init, execute | DuckDB's executor |
| Storage extension, redaction | none | ATTACH, hide host names | DuckDB |

How they interact. A call of the executor (a scan, a catalog load, a table
function) opens a `Session` of its own; a session is used by one thread at a
time. The session owns the stream and the provider; a cursor borrows both
*by reference* and may outlive them. Records arrive in pieces the network
chooses; a record is a piece of a message; a sealed frame is a piece of the
plaintext; a row is a piece of the document: four layers of framing, no two of
them aligned. The only shared state between threads is in the catalog.

What is hard here:

* **ordering**: every layer must give the same result for every cut of the one
  below, and what the session may conclude from a *prefix* of an answer differs
  from what it concludes from the whole;
* **order of calls**: a cursor abandoned part-way, a session closed or opened
  again under a cursor, a second request, a call after a call that failed;
* **state scoped to a connection**: negotiation bit, session id, provider and
  pending answers must not survive a reconnect, and nothing fails locally when
  they do;
* **failure and time**: every wait may end in a deadline, and the answer may
  still come;
* **concurrency**: queries that load the catalog at once.

`PROJECT.json` lists the hazards one by one, each at its line, with the
property that catches it or the reason why none does.

What makes each component correct:

* DIME and stream: buffer aligned, records in order and once, no payload from a
  refused message, bounded buffer, no wait for bytes that are already there.
* Handshake: no success after a refusal; bounded rounds.
* Session: nothing sent unauthenticated; nothing of one connection used on
  another; an answer belongs to its request; a torn connection is not used again.
* Cursor: same verdict as the whole-message path; no refusal read as rows.
* Sealing, row stream: same output for every cut; nothing lost at the end.
* Catalog: one load, seen whole or not at all; entries handed out stay alive; no deadlock.
* Scan: each requested column in its place, each row once, nothing reported as
  the end that is not.
* Parameters: the most specific source wins; a text is read as it was meant or refused.
* Guard: a statement is sent exactly when it is a single query.
* Opening: bounded in time; whatever fails, nothing is left held.

## 2. Modules

| Module | Models | Composes |
|---|---|---|
| `Dime` | lengths and padding of a record: the decoder's sum (`Span`) and the format's layout (`PeerSpan`) | |
| `RecordQueue` | abstract: what a message stream promises | |
| `MessageStream` | `MessageStream` over a channel and a peer | `Dime`; implements `RecordQueue` |
| `Sealing` | `SealMessage` on one side, `Unsealer` on the other | |
| `Session` | `Session`, `RowCursor`, `auth::Handshake` and a server | uses the stream's contract (whole records, in order, once) |
| `RowGrammar` | what one tag does to a rowset being read | |
| `RowScan` | abstract: `ParseRowset`, the document read whole | `RowGrammar` |
| `RowStream` | `RowStreamParser`: the document arrives in pieces | `RowGrammar`; implements `RowScan` |
| `TableScan` | `ScanInit`, `ScanExecute`, `ColumnMap`, `dax::Evaluate`, the row cursor's loop | `RowStream` |
| `Text` | `std::string::find` on a text of symbols | |
| `ConnectionString` | `ParseConnectionString`, and what it is for a text to say some options | `Text` |
| `Parameters` | `XmlaConnectionParams`: string, secret, defaults, validation | `ConnectionString` |
| `Guard` | `RejectIfMutating`, and the same statement read in one pass | `Text` |
| `Opening` | `OpenSession`: `GssContext::Create`, the constructor of `SocketChannel` | `Parameters` |
| `TableFunctions` | `xmla_discover`, `xmla_execute`: bind, and every execution of the plan | `Opening`, `Guard`, `RowGrammar` |
| `LoadOnce` | abstract: what the catalog promises about what it presents | |
| `Catalog` | `XmlaCatalog` and `XmlaSchemaEntry` under concurrent queries | implements `LoadOnce` |
| `...Proofs` | theorems about `MessageStream`, `Sealing`, `Session`, `RowStream`, `TableScan`, `TableFunctions` with `Opening` and `Guard`, and `Catalog` | |
| `Induction` | induction over numbers and ranges, and that recursive functions over them exist | |
| `MC...` | small instances | |

The layers meet at their contracts. `MessageStream` gives whole records in order
and once, and `Session` takes its `inbox` to be a queue of records. `Sealing`
gives the plaintext in order however it is cut, and `TableScan` takes a record to
be any number of the document's next bytes, none included, since an unsealer may
hold back all of a record. `Opening` gives a session, whose handshake is one
step there and has its rounds in `Session`.

Some definitions have a variant beside them, named for what it gets wrong
(`CompactAll`, `ImportUserLeaks`). No specification uses one: they are the
plausible mistakes which the properties are tried on.

### MessageStream

A byte is a position in the peer's output; `buffer_` is the window
`[taken, arrived)`. `Fill(n)` is one `Recv` of `n` bytes with the limit test
that follows it; `FillFails` is its deadline or the peer's close. A read call
is entered (`CallReceiveRecord`, `CallReceiveMessage`), receives while
`Incomplete` (the decoder would throw `IncompleteMessage`), and finishes in one
step that is the code after the decode: erase, check, return or throw. The
order of erase and check is the code's: `RefuseRecord` and `RefuseMessage`
have erased, `RefuseNoMB` has not. Records are laid out by the *format*
(`PeerSpan`); the code finds them by the spans its own decoder computes. The
peer frames correctly but may forget MB or the negotiated encoding.
`AbandonMessage` drops the buffer inside a message and does nothing outside one.

### Sealing

Ciphertext is counted and plaintext is an interval: a frame is its place, its two
declared sizes and the interval of the plaintext it seals, and what the receiver
holds is an interval too, so that a lost, repeated or swapped piece shows as
`Torn`. `SealFrame` with `SealMessage` cuts a body into chunks after the mark;
a `peer` seals any pieces, with a mark or without. `CallAppend(n)` is the entry of
`Append` with `n` more bytes, `UnsealFrame` one turn of its loop, `RefuseFrame`
the provider throwing in the middle of it (earlier frames of the same call are in a
local that is lost, and the bytes are still in the buffer), `EndAppend` the erase and
the settling of the mark, `FinishAndFlush` the end of the message. What a provider
makes of a payload is any pair of sizes, refused when it is over the ceiling.

### Session

A message is a sequence of records, a record the set of things in its plaintext
the client looks for. A round trip is two steps, send and reply, and the
server answers in its own time, so an answer may come after the call that asked
gave up. Each exception is an action of its own, with the state the code leaves
behind: `OpenFailed` keeps the stream and sets FAILED; a failed request leaves the
session AUTHENTICATED. `Pump` is one turn of the loop in `RowCursor::Next`:
the guard, one record, unsealing, the parser and `CheckHead` on the prefix. The prefix
is bounded: `full` among a record's parts says that it brings `head_` to `HEAD_LIMIT`
(64 KiB, `client.hpp:139`), and `FedHead` adds whole records until then and nothing
afterwards, as `Feed` does. `PumpFails` is the parser's cap or a read that fails and
leaves the stream as it is; `RecordRefused` and `ReplyRefused` are unsealing that throws
when the record, or the message, has already been taken from the stream. Of a cursor
that refused a record (`refused`) the unsealer holds on to what it refused, so nothing
more comes out of it.
`DestroyCursor` and `AbandonCursor` are the two branches of the destructor.

`licences`, chosen once per behaviour from `Permitted`, says what the caller permits
itself. Without any, it uses a session as the extension does: one cursor and
nothing beside it, no call after one that failed. `after_error`, `during_cursor`
and `cursor_over_reopen` lift these, which the public interface allows.
`AnswersMatch` and `RefusedNeverRows` are about the first kind of caller, the
other properties about each. `SessionIdCarried` leaves out a cursor kept over an
`Open`: its head may still give an id of the old connection. `EnvelopeAssumption` is what
the protocol says of an answer and the client relies on: a SessionId is inside a
document, a fault's code comes before any row or the answer has none, and both lie in
the first `HEAD_LIMIT` bytes, in a record that begins before the limit. The last is
what `client.cpp:346-356` takes for granted ("it is in the prefix or it is not there").
`SessionIdCarried` and `RefusedNeverRows` rest on it: an id or a fault further back is not
seen by a cursor, and such a fault would end as a drained cursor. `Execute` and
`Discover`, which look at the whole answer, do not need it.

### RowStream and TableScan

A document is the sequence of the constructs `NextTag` finds in it, each with its
place and the text before it. That a cut cannot change the sequence is read off the
code: what decides a construct's kind is a prefix without a `>`, and its end is the
first place where its closing mark is complete. `buffer_` is the window `[base,
fed)`; `pos` and `pending_from` are the code's offsets into it. `CallNext` is the
entry of `Next` with its `Compact`; each construct is a step (`SkipConstruct`,
`OpenTag`, `EmptyTag`, `CloseTag`, `ReturnRow`), and `GiveUp` is the return without a
row, at the `<` of what has begun. `RowGrammar` has what a tag does to depth, row and
pending field, for both readers.

`TableScan` adds the caller. `AskedFor`, `Wanted`, `Requested` and `Projection` are what
`ScanInit` asks for and whether `Evaluate` sends a projection; `Sent` is the name
under which each column comes back. `CallExecute`, `AddRow` and `Exhaust` are
`ScanExecute`, with `Extend` as `ColumnMap::Extend` and `OutputRow` as the
projection of a row; `CallParser`, `Parse`, `Pump`, `RefusePump`, `RefuseCellset` and
`PumpFails` are the loop of `RowCursor::Next`. `DropScan` is a query that ends early.
The server is external: it writes the rows of a table, leaves null columns out, and
may put in what a reader has to see through (`Ornaments`). `ServerAssumption` says that an
element's name decodes to its column and is not one of the rowset's own, `TablesAssumption`
that no two columns come back under one name, which DAX's `T[c]` and `[c]` give, that a
known column is served, and that DuckDB asks for no column twice. Truncated answers are
among the behaviours: `complete` may come at any cut, and the code takes such an
end for the end of the rows. `RowsAsAsked` says what it then promises: every row
whose bytes came. It relates what DuckDB has to the *table*; `DeliveredAsRead` relates
it to what the parser returned, and `ImplementsParseRowset` that to the document.
`LooksLikeCellset` looks at all that has arrived and the code at `head_` only; the
difference is a cellset whose Axes begin behind `HEAD_LIMIT`, which `client.cpp:427` says
does not occur.

### ConnectionString, Parameters, Guard, Opening, TableFunctions

A connection string is a sequence of words and signs, a statement a sequence of
the symbols the guard tells apart; a definition that may refuse gives a set, empty
when it does. The names of options are in one case (the parser's `LowerAscii`), and one
blank stands for all white space. `Pairs` is the parser's loop as a recursive function
over places. Beside it stands `Says`, which knows nothing of reading: a text says some
options when each is written at its place, in quotes its value does not contain or
without, only separators are between them, and no name comes twice. A call carries its
text and the options the text was written to say; `Meaningful` and `Setting` are about
those, the code's definitions about the text. `Guard` has the code's loops (`SkipTrivia`, `PastQuoted`, `Single`,
`ReadsOnly`), each a recursive function over places, and a reading of the same
statement in one pass (`Read`, `IsSingleQuery`): every symbol changes a mode or counts. An option given as empty counts as not given, as in the code, and
so a secret's value is taken for it.

`Opening` is one thread with a step for each call to GSSAPI or the system and each
outcome the code tells apart. `handles`, `addrinfo` and `open` are what it holds.
Time passes in `poll` only (`Tick`); the name is resolved before the deadline is
set. The `fcntl` that makes the socket blocking again (`transport.cpp:106`) is not checked
by the code and always succeeds here: its flags were read from the same open
descriptor. The security context that the handshake makes (`gss_context.cpp:383`)
belongs to the session and is not among the `handles`. `TableFunctions` puts bind and the executions of a plan around it: `StartBind`,
`SendRequest`, `Answered` or `NotAnswered`, then `InitGlobal` and `ScanVector`. A
prepared statement run again replays the rows read at its bind, which is what the
code does. A rowset without columns is described as one column called `result`, so an
answer whose own column has that name is among the tables. `CallsAssumption` and
`TablesAssumption` say of what kind a statement and a table are. `Parsed` is
`ParseRowset`, which reads `<row/>` as no row (`LostRow`); whether the server
writes a row of nulls that way is the constant `SelfClosing`.

### Catalog

The attachment and its models are objects of one kind: a mutex, `loaded`, a map.
A query is a thread inside DuckDB: it looks up a table (`LookupSchema`, then
`LookupEntry` of the model it found) or lists everything (`ScanSchemas`, whose
callback scans a model or looks it up again). Each method begins with the load
function: `FindsLoaded` acquires, looks and releases in one step, `StartsLoad`
keeps the mutex through the round trips, which end in `Fills`, `FetchFails`,
`NamedMissing` (the catalog named at ATTACH is not there) or `FillThrows`
(DuckDB refuses a table after others are in the map; they stay). What follows
the load takes the mutex again. Entries carry the number of the filling that
made them, so a replaced entry is a destroyed one. What a round trip does is
`Session`'s business; here it succeeds with any list or fails.

## 3. Runs

| Run | Question | Distinct states | Result |
|---|---|---|---|
| `stream` | Does the stream keep record boundaries, order and its limit, and implement `RecordQueue`, for every mix of calls and every cut? | 533,953 | holds |
| `sealing` | Does every cut of every sealing give the plaintext back, once and whole, and is a short message always noticed? | 451,526 | holds |
| `session` | Do answers match requests, do refusals ever read as rows, do calls end; and for any caller, is what the server was promised kept and what a call dereferences there? | 1,445,612 | holds |
| `table_scan` | Does DuckDB get each row once with each column in its place, however the answer is cut, and does the parser implement `ParseRowset`? | 408,349 | holds |
| `functions` | Are settings, guard, opening and executions right together: what wins, what is sent, what is held, how long it takes, what is delivered? | 120,676 | holds |
| `catalog` | Do queries that load at once share one load, read it whole, keep their entries alive and hold no mutex outside it? | 2,007,118 | holds |
| `catalog_ends` | Does every query end? | 22,062 | holds |
| `abandoned_read` | Does every read refuse after AbandonMessage? | | `ReceiveMessage` does not |
| `reopened_cursor` | Does a cursor read only the connection it was opened on? | | not when its session is opened again |
| `cut_fault` | Is a permission fault always raised as one? | | not when its text comes a record after its code |
| `leading_space` | Does the cursor accept what Execute accepts? | | not when leading white space is a record of its own |
| `lost_row` | Does the number of rows survive a projection whose values are all null? | | not if the server writes such a row as `<row/>` |

Bounds. `stream`: three records are the least with a message before, at and
behind the one being read; the two shapes are a bare header and one whose type
and data both need padding; the chunks 1, 7, 26 put a boundary at every offset
and let one read carry the end of a record and the start of the next; a
limit of 48 is reached by two records and passed by three only, so a message can be too
long, and what was read before must not count.
(`Fill` tests the limit once per `recv`: each call that reads on after the report adds one
more piece before it is told again.) `sealing`: the header and the
mark have their real sizes, and the ceiling is made small so that a shape exceeds it;
frames without data, without token and with both; pieces smaller than the mark, so that
it is split over frames; reads of nothing, of one byte, of a header, and of more than a
frame; a body that is empty, as long as a chunk and longer than two. `session`: three
connections let a handle survive one reconnect and be used after the next; three
requests let an answer be two late; two rounds let a handshake end within its bound
and at it. `Answers` cuts a rowset and a fault in the
places where the client's checks can see a difference; some fill the prefix a cursor
keeps, with a SessionId or a fault in the record that does, or a row behind it. `table_scan`: a vector of two
with tables of up to three rows ends a table before, at and after the end of a
vector; the second row of a table has a column the first has not; names safe,
unsafe and unknown, with and without the placeholder for no column; two texts longer
than the parser's limit allows in one row; reads that cut every tag. One table has no
column twice in `column_ids`, which DuckDB does not ask for. `functions`: every
statement of up to three symbols and those of five that begin with a keyword, a
comment or a space; connection strings in each form the parser reads or refuses; three
addresses and two signals, so that each outcome can be followed by another address; a
limit of two ticks; a column called `result`, and one that only the second row has; a
row of nulls, from a server that does not write it as `<row/>` (`SelfClosing` is FALSE: with
TRUE `DeliveredWhole` fails, for the reason `lost_row` shows of the scan).
`catalog`: three queries let one fail part-way, one load and one
read; two models are needed for callbacks and for a DEFAULT_SCHEMA that does not
resolve, two tables for a map that is partly filled. Queries, models and tables are
interchangeable there, so the run uses symmetry; `catalog_ends` checks liveness on two
queries without it.

Fairness. `MessageStream`: weak fairness of `Receive` and `Finish`; every
`recv` has `SO_RCVTIMEO` (`transport.cpp`), so a wait ends in bytes or in
an exception, and the calling thread runs. `Session`: weak fairness of `Call`,
for the same reason. Nothing is assumed of the peer or the caller. `Opening` and
`TableFunctions`: weak fairness of `Bind` and of `Thread`; the calling thread runs, time
passes, and the signals are bounded. `Catalog`: weak fairness of each query's steps,
since DuckDB runs the queries it started and `Session`'s calls end; a mutex is taken a
bounded number of times by each query, so weak fairness of acquiring it is enough.

Deadlock checking is off: the system may rest when the caller has nothing to ask
or the bounds are used up.

What the fairness leaves open. A receive limit is one limit per `recv`: a peer that
sends a byte at a time keeps a read going for as long as its message is within the
size limit, and `CallsEnd` is bounded by the messages being finite, not by a clock. A
timeout below a microsecond becomes a `timeval` of zero, which means no limit at all.

## 4. Proofs

Each proof module proves its properties for every value of the constants, from the
`ASSUME` of the module it is about. None of the properties is inductive alone; each
module starts with the invariant that is, has a lemma for every conjunct or action, and
ends with the theorems.

**`MessageStreamProofs`**: for every set of record shapes, every chunking, every limit
and any number of records, a caller which does not read messages after abandoning one
(`~ReadsAfterAbandon`) gets `TypeOK`, `Aligned`, `InOrderOnce`, `NegotiatedOnly`,
`RefusedForSize`, and `MessageStream` implements `RecordQueue`. `Aligned` says the buffer
starts at the record after the last one decoded, but to keep it across an erase one
must know that records lie end to end (`Layout`) and that the decoder's sum is the
format's (`SpanIsPeerSpan`, arithmetic on padding). `NegotiatedOnly` needs that a
record read inside a message belongs to the message whose first record passed the
checks, that is, how MB, ME and `head` bracket the output (`Bracketing`) and what
`in_message_` says about the last record decoded (`Flags`). `StepRefines` maps each
step to one of `RecordQueue` or a stutter. `NeverWaitsInVain` is `WaitsForPeer`: what the
peer has written in full, neither read call waits for. `OnlyBigReadsRefused`
(`RefusedForSize`) is about a step: the buffer begins where the read does (`Aligned`), and
before the piece that went over the limit it held less than the record or message the
read waits for, or the read would not have been waiting.

**`SealingProofs`**: for every body, chunk, mark, ceiling, shape of frame and size of
read, `SealTypeOK`, `PlainInOrder`, `NothingWaits`, `EndExact` and `BodyCarried`. `SInv`
says that frames lie end to end in bytes and in plaintext, that the loop is always at
the start of a frame, and that what was returned, what is held back and what this call has
unsealed are the plaintext up to that frame; while an `Append` that threw is
pending, up to where it began.

**`RowStreamProofs`**: for every document, cut and set of names and texts, the parser's
types, that no construct is skipped or read twice (`NoTagLost`), that the text of an
open field is still in the buffer (`TextRetained`), and that `RowStream` implements
`RowScan`: the rows `Next` returns are those `ParseRowset` finds. `RInv` adds to
`NoTagLost` where `pending_from_` points, which `Compact` shifts, and that the
construct it points behind is the one that opened the field.

**`TableScanProofs`**: for every projection, table, answer, cut, vector size and limit,
`ScanTypeOK`, `DeliveredAsRead`, `ImplementsParseRowset` and `LimitFair`, and
`RowsAsAsked` for a server that never writes `<row/>`. A scan's steps are steps of
the parser's callers (`ScanIsStream`), so what is proved of `RowStream` holds of the
parser a scan uses. `TInv` adds that rows refer only to columns there are (`Referring`),
that a mapping is right for the columns it covers (`Mapped`): columns only grow, so a row
already mapped is mapped as it would be with all columns known. Where the loop
stands then says what is known about the end (`Ending`): when the parser gives up
nothing that has arrived whole is unread, since a construct that can be decoded is.

`RowsAsAsked` relates this to the table the document was written from, along `FInv`. The
document first: a sequence joined of parts has each part in its place (`FlattenParts`),
so the answer is, for each row, an opening tag, the cells of its columns, and a closing
tag (`AnswerLies`), whatever the ornaments. `Where` then says of a place in it what the
parser must know: between two rows nothing (`Outside`), behind the cells of a row's
first columns exactly their names and values (`Says`), inside a cell its field and how
deep it is (`CellState`); and the rows found so far are the table's first rows
(`RowsRead`). `WhereStep` carries it over each construct, `RowGiven` from there over
`ColumnMap` to the outputs, with `SentComes`: whatever was projected, an asked column
comes back under a name that no other output claims. `Counted` says that the rows are as
many as the row ends read, and `Held` that a parser that is looking for a tag, has given
up or holds a field retains none of them, which is why `OverLimit` can only be met
within a row. Before the row it is in, a parser may already have lost a `<row/>`; so
`RowsRead` says nothing when the server writes those, and `TableGivenAsAsked` has the
hypothesis `~SelfClosing`. It is needed: with self-closed rows `RowsAsAsked` is as false
as `RowCountSurvives`, which `lost_row` refutes. `RefusedOnlyMidRow` holds with either
kind of server.

**`TableFunctionsProofs`**, in four parts:

* *opening*: for any secrets, number of addresses, signals and timeout, `HoldsExactly`,
  `ConnectBounded` and `OpeningTypeOK`, along `OInv`: what the thread holds depends on where
  it is and nothing else.
* *guard*: `GuardReadsSingleQueries` says that for every statement, of any length, the
  code's loops accept it exactly when the reading in one pass finds a single query. By
  induction from the end of the statement towards a place: a loop from there gives what the
  one pass gives when it comes there in the mode the loop stands for (a quoted mode for
  `PastQuoted`, a comment for `SkipTrivia`, code for `Single`). `GuardOnEveryPath` carries that to
  `GuardExact` on every path of every call. The attempt to prove it showed that an
  earlier form of the one pass was wrong about a doubled `]`, which no statement of the run's
  length could show; the run has longer ones now.
* *settings*: `TextsReadAsWritten` says that a text that says some options, in whatever
  form, is parsed as those options. By induction from the end of the text: from any place
  which only separators part from an option, the parser reads that option and those
  behind it. No key can be found inside an unquoted value (`NoKeyInValue`), since a plain
  value has no `=` and a separator follows it. `SettingsAsSaid` carries that through
  `FromString`, `ParamsFrom`, `ApplySecret` and `ApplyDefaults` to `MoreSpecificWins`, for
  calls that are `Explained`: the options of a call are what its text says, or the code
  refuses the text. Of a text that is neither nothing could be told; the calls of the run
  are of these two kinds, or the run would not pass.
* *delivery*: `DeliveredWhole` and `FunctionsTypeOK`, along `DInv`. By induction over the
  cells of a row and the rows of a table: the columns found stay where they are and stay
  distinct, and each row shows under each name what the table has there, also under
  names found only later; what an execution has handed out is the rows up to its offset.
  `DInv` holds with either kind of server; that the rows of the rowset are those of
  the table, and with it `RowsetDeliveredWhole`, has the hypothesis `~SelfClosing`.

**`SessionProofs`**: for any answers, any number of connections, requests and rounds and
every caller, `TypeOK`, `NegoBit`, `HandlesAgree`, `HandshakeAccepted` and
`TornNotUsed`, and `AnswersMatch` for the caller it is about; with `EnvelopeAssumption` also
`SessionIdCarried` and `RefusedNeverRows`. `SInv` says what `pc`
decides about state, stream and provider (`Control`), that a record is the first of its
connection exactly while `first_record_` is set (`Connections`), that a connection with
an abandoned cursor has no way back to AUTHENTICATED (`Left`), and that during a
handshake the connection carries one token or the one answer to it (`Tokens`), so that
no refusal can be overtaken. `Exchange` does the same for requests without licences: the
connection carries the one request being waited for, or the one answer to it
(`Traffic`), because a caller stops after an error and while a cursor reads (`Held`).
`MessagesInv` and `IdsInv` are about the id: an id that can still be read is preceded by the
start of its document, in the buffer or in the head the cursor kept (`SidsFollow`), and
not by anything of its document that fills the prefix (`InPrefix`), so `CheckHead` sees
it; a message read in part belongs to a cursor, and one that refused a record gives
nothing more (`HalfRead`, `HeadRead`). `Reading` and `RowsTrue` say that if the answer is a
refusal, its code has been read, or is on the wire before any row, before the end and
before the prefix is full (`Tells`).

**`CatalogProofs`**: for any number of queries, models and tables, `TypeOK`, `HeldAlive`,
`ReadsWholeLoad`, `LockOnlyInLoad`, and that `Catalog` implements `LoadOnce`. The only
assumption is `CatalogAssumption` (names of different kinds differ). `IInv` adds to the
types that whoever is at the server has the mutex of an object nobody has loaded yet
(`Loading`), that a loaded object has all the server listed (`Complete`), and that maps
are read and entries held of loaded objects only (`Reading`, `Holding`). From these, a
filling cannot touch an entry somebody holds. The steps fall in three kinds, each with
its lemma: `QuietStep` leaves maps and mutexes alone, `ReleaseStep` ends a load,
`ReadStep` takes references.

**`Induction`**: induction over numbers up to a bound, in either direction, for a *set* of
numbers, from the well-foundedness of `<`; and that a function each of whose values is
made of the one before, or of the ones behind it, exists and is the only one
(`ForwardRecursion`, `BackwardRecursion`, `SameRecursion`). The library's own theorems of this
kind take operators as parameters, which the installed provers cannot instantiate; these
take sets and functions.

Model-checked only: liveness (`CallsEnd`, `BindEnds`, `QueriesEnd`), which is beyond the
prover.

## 5. Findings

Each is a run that TLC refutes; `PROJECT.json` quotes the line that promises otherwise.
`abandoned_read`, `reopened_cursor`, `cut_fault` and `leading_space` concern `Session`
and its stream, `lost_row` the scan.

Met while modelling, too small for a run: the comments at `xmla_connection.cpp:261` and
`265` sort errors into those that never reached a server and those that did, but a
receive that times out is a `ConnectionError` and a failing `GssContext::Create` an
`AuthenticationError`; `MakeSealProvider` checks two of the five flags that were asked
for; bytes already consumed still count against the parser's cap until the next call of
`Next`, since only its start compacts (`LimitFair` is stated accordingly).

## 6. Not modelled

* ATTACH and the storage extension (`xmla_storage.cpp`, `xmla_extension.cpp`,
  `xmla_secret.cpp`): options are checked and objects registered with DuckDB, once
  and in one order. What ATTACH leaves behind is `Catalog`'s initial state.
* Redaction (`xmla/redact.cpp`) and error classes: regular expressions over text that
  is shown, no state.
* Envelope text, quoting of names, base64, entity decoding: formatting. Where a
  decision depends on text (guard, connection string, names of columns) it is modelled.
* The GSS library, the resolver and the kernel: external. Each call has the outcomes
  the code tells apart.
* `SocketChannel::Send`'s partial writes: they end in the whole message or an exception.
* The probe, tests, site and CI.
