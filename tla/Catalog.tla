-------------------------------- MODULE Catalog --------------------------------
(***************************************************************************)
(* XmlaCatalog and XmlaSchemaEntry (src/catalog/), used by queries that    *)
(* run at once.  The attachment holds a map of models and each model a map *)
(* of tables; each map has a mutex and is filled on first use, by whoever  *)
(* comes first, while it holds the mutex through the round trips.  A query *)
(* either looks up a table in a model or lists everything, and while it    *)
(* lists, DuckDB's callback may enter the catalog again.                   *)
(*                                                                         *)
(* An object is the attachment ("catalog") or a model.  An entry is known  *)
(* by its object, its name and the number of the filling that made it:     *)
(* making it again destroys the one before.  What an entry holds (columns, *)
(* names that differ in case or in a leading '$') is left out.             *)
(***************************************************************************)
EXTENDS Naturals, FiniteSets

CONSTANTS
    Queries,    \* the queries that use the attachment, one operation each
    Models,     \* the catalogs the server may list
    Tables,     \* the tables it may list in a model
    NoName,     \* no catalog named at ATTACH; also DEFAULT_SCHEMA in a lookup
    NoQuery     \* a mutex nobody holds

ASSUME CatalogAssumption ==
    /\ "catalog" \notin Models /\ NoName \notin Models
    /\ NoQuery \notin Queries
    /\ Models \cap Tables = {}

Objects == {"catalog"} \cup Models
Names == Models \cup Tables

VARIABLES
    named,      \* params_.catalog
    loaded,     \* loaded_ of each object
    load_lock,  \* the holder of each load_lock_
    entries,    \* schemas_ and tables_: for each name the load that made it, or 0
    fills,      \* how often each map has been filled, wholly or in part
    pc,         \* where each query is: "idle", "lock", "fetch", "read", "calls", "done"
    job,        \* what it was asked: "lookup" or "scan"
    at,         \* the object whose method it is in
    method,     \* that method: "find" or "list"
    wanted,     \* the model it looks up
    table,      \* the table it looks up
    todo,       \* the models of its snapshot it has still to call back with
    held,       \* the entries it has references to
    outcome,    \* how it ended
    served      \* history: {} until a load of it succeeded, then {what the server listed}

shared == <<loaded, load_lock, entries, fills, served>>
local  == <<pc, job, at, method, wanted, table, todo, held, outcome>>
vars   == <<named, shared, local>>

Init ==
    /\ named \in Models \cup {NoName}
    /\ loaded = [o \in Objects |-> FALSE]
    /\ load_lock = [o \in Objects |-> NoQuery]
    /\ entries = [o \in Objects |-> [n \in Names |-> 0]]
    /\ fills = [o \in Objects |-> 0]
    /\ served = [o \in Objects |-> {}]
    /\ pc = [q \in Queries |-> "idle"]
    /\ job = [q \in Queries |-> "lookup"]
    /\ at = [q \in Queries |-> "catalog"]
    /\ method = [q \in Queries |-> "find"]
    /\ wanted = [q \in Queries |-> NoName]
    /\ table \in [Queries -> Tables]
    /\ todo = [q \in Queries |-> {}]
    /\ held = [q \in Queries |-> {}]
    /\ outcome = [q \in Queries |-> "none"]

Present(o) == {n \in Names : entries[o][n] # 0}
Entry(o, n) == <<o, n, entries[o][n]>>

-----------------------------------------------------------------------------
(* Entering an object's method: its load function comes first.             *)

Enters(q, o, m) ==
    /\ pc' = [pc EXCEPT ![q] = "lock"]
    /\ at' = [at EXCEPT ![q] = o]
    /\ method' = [method EXCEPT ![q] = m]

Ends(q, how) ==
    /\ pc' = [pc EXCEPT ![q] = "done"]
    /\ outcome' = [outcome EXCEPT ![q] = how]

(* DuckDB binds a table: LookupSchema, with a name or DEFAULT_SCHEMA.      *)
LookupSchema(q, m) ==
    /\ pc[q] = "idle"
    /\ Enters(q, "catalog", "find")
    /\ wanted' = [wanted EXCEPT ![q] = m]
    /\ UNCHANGED <<named, shared, job, table, todo, held, outcome>>

(* DuckDB lists everything: ScanSchemas.                                   *)
ScanSchemas(q) ==
    /\ pc[q] = "idle"
    /\ Enters(q, "catalog", "list")
    /\ job' = [job EXCEPT ![q] = "scan"]
    /\ UNCHANGED <<named, shared, wanted, table, todo, held, outcome>>

-----------------------------------------------------------------------------
(* LoadSchemas and LoadTables.                                             *)

(* The mutex is free and the object loaded: acquire, look, release.        *)
FindsLoaded(q) ==
    /\ pc[q] = "lock"
    /\ load_lock[at[q]] = NoQuery /\ loaded[at[q]]
    /\ pc' = [pc EXCEPT ![q] = "read"]
    /\ UNCHANGED <<named, shared, job, at, method, wanted, table, todo, held, outcome>>

(* Variants: without the mutex, and without looking at loaded_.            *)
StartsLoadUnlocked(q) ==
    /\ pc[q] = "lock" /\ ~loaded[at[q]]
    /\ load_lock' = [load_lock EXCEPT ![at[q]] = q]
    /\ pc' = [pc EXCEPT ![q] = "fetch"]
    /\ UNCHANGED <<named, loaded, entries, fills, served, job, at, method, wanted, table, todo, held,
                   outcome>>
StartsLoadAgain(q) ==
    /\ pc[q] = "lock" /\ load_lock[at[q]] = NoQuery
    /\ load_lock' = [load_lock EXCEPT ![at[q]] = q]
    /\ pc' = [pc EXCEPT ![q] = "fetch"]
    /\ UNCHANGED <<named, loaded, entries, fills, served, job, at, method, wanted, table, todo, held,
                   outcome>>

(* The mutex is free and the object is not loaded: keep it and go to the   *)
(* server.                                                                 *)
StartsLoad(q) ==
    /\ pc[q] = "lock"
    /\ load_lock[at[q]] = NoQuery /\ ~loaded[at[q]]
    /\ load_lock' = [load_lock EXCEPT ![at[q]] = q]
    /\ pc' = [pc EXCEPT ![q] = "fetch"]
    /\ UNCHANGED <<named, loaded, entries, fills, served, job, at, method, wanted, table, todo, held,
                   outcome>>

Unlocks(q) == load_lock' = [load_lock EXCEPT ![at[q]] = NoQuery]

(* A variant that marks the object loaded before it asks the server.       *)
FetchFailsMarked(q) ==
    /\ pc[q] = "fetch"
    /\ Unlocks(q)
    /\ loaded' = [loaded EXCEPT ![at[q]] = TRUE]
    /\ Ends(q, "failed")
    /\ UNCHANGED <<named, entries, fills, served, job, at, method, wanted, table, todo, held>>

(* A variant that keeps the mutex when it throws.                          *)
FetchFailsLocked(q) ==
    /\ pc[q] = "fetch"
    /\ Ends(q, "failed")
    /\ UNCHANGED <<named, shared, job, at, method, wanted, table, todo, held>>

(* The session cannot be opened, or one of the requests fails.  The        *)
(* exception releases the mutex and ends the query.                        *)
FetchFails(q) ==
    /\ pc[q] = "fetch"
    /\ Unlocks(q)
    /\ Ends(q, "failed")
    /\ UNCHANGED <<named, loaded, entries, fills, served, job, at, method, wanted, table, todo,
                   held>>

(* What of an answer the object takes in: the attachment only the catalog  *)
(* it was given, if it was given one.                                      *)
TakenAll(o, answer) == answer
Taken(o, answer) == IF o = "catalog" /\ named # NoName THEN answer \cap {named} ELSE answer

(* Entries are made anew for every name, whatever was there.               *)
Made(o, names) ==
    /\ fills' = [fills EXCEPT ![o] = @ + 1]
    /\ entries' = [entries EXCEPT ![o] = [n \in Names |-> IF n \in names THEN fills'[o] ELSE @[n]]]

Answers(o) == SUBSET (IF o = "catalog" THEN Models ELSE Tables)

(* The server has answered and the map is filled.                          *)
Fills(q, answer) ==
    LET o == at[q]
    IN  /\ pc[q] = "fetch"
        /\ answer \in Answers(o)
        /\ Made(o, Taken(o, answer))
        /\ Unlocks(q)
        /\ o = "catalog" /\ named # NoName => Present(o) \cup Taken(o, answer) # {}
        /\ loaded' = [loaded EXCEPT ![o] = TRUE]
        /\ served' = [served EXCEPT ![o] = {Taken(o, answer)}]
        /\ pc' = [pc EXCEPT ![q] = "read"]
        /\ UNCHANGED <<named, job, at, method, wanted, table, todo, held, outcome>>

(* The catalog named at ATTACH is not among those listed.                  *)
NamedMissing(q, answer) ==
    /\ pc[q] = "fetch" /\ at[q] = "catalog" /\ answer \in Answers("catalog")
    /\ named # NoName /\ Present("catalog") \cup Taken("catalog", answer) = {}
    /\ Unlocks(q)
    /\ Ends(q, "failed")
    /\ UNCHANGED <<named, loaded, entries, fills, served, job, at, method, wanted, table, todo,
                   held>>

(* DuckDB's column list refuses a table's columns, after some tables are   *)
(* in the map.  They stay there.                                           *)
FillThrows(q, some) ==
    /\ pc[q] = "fetch" /\ at[q] # "catalog" /\ some \in Answers(at[q]) \ {Tables}
    /\ Made(at[q], some)
    /\ Unlocks(q)
    /\ Ends(q, "failed")
    /\ UNCHANGED <<named, loaded, served, job, at, method, wanted, table, todo, held>>

-----------------------------------------------------------------------------
(* What follows the load, under the mutex once more and for one step.      *)

Reads(q, m) == pc[q] = "read" /\ method[q] = m /\ load_lock[at[q]] = NoQuery

(* DEFAULT_SCHEMA is the only model, if there is only one.                 *)
Resolved(q) ==
    IF wanted[q] # NoName THEN wanted[q]
    ELSE IF Cardinality(Present("catalog")) = 1 THEN CHOOSE n \in Present("catalog") : TRUE
    ELSE NoName

(* LookupSchema has found the model; LookupEntry of it is next, unless it  *)
(* was a callback that asked.                                              *)
SchemaFound(q) ==
    LET m == Resolved(q)
    IN  /\ Reads(q, "find") /\ at[q] = "catalog"
        /\ m \in Present("catalog")
        /\ held' = [held EXCEPT ![q] = @ \cup {Entry("catalog", m)}]
        /\ IF job[q] = "lookup" THEN Enters(q, m, "find")
           ELSE pc' = [pc EXCEPT ![q] = "calls"] /\ UNCHANGED <<at, method>>
        /\ UNCHANGED <<named, shared, job, wanted, table, todo, outcome>>

SchemaNotFound(q) ==
    /\ Reads(q, "find") /\ at[q] = "catalog"
    /\ Resolved(q) \notin Present("catalog")
    /\ Ends(q, "not_found")
    /\ UNCHANGED <<named, shared, job, at, method, wanted, table, todo, held>>

LookupEntry(q) ==
    /\ Reads(q, "find") /\ at[q] # "catalog"
    /\ IF table[q] \in Present(at[q])
       THEN /\ held' = [held EXCEPT ![q] = @ \cup {Entry(at[q], table[q])}]
            /\ Ends(q, "found")
       ELSE Ends(q, "not_found") /\ UNCHANGED held
    /\ UNCHANGED <<named, shared, job, at, method, wanted, table, todo>>

(* A variant that keeps the mutex across the callbacks.                    *)
SnapshotKeepsLock(q) ==
    /\ Reads(q, "list")
    /\ held' = [held EXCEPT ![q] = @ \cup {Entry(at[q], n) : n \in Present(at[q])}]
    /\ IF at[q] = "catalog" THEN todo' = [todo EXCEPT ![q] = Present("catalog")]
                            ELSE UNCHANGED todo
    /\ pc' = [pc EXCEPT ![q] = "calls"]
    /\ load_lock' = [load_lock EXCEPT ![at[q]] = IF at[q] = "catalog" THEN q ELSE @]
    /\ UNCHANGED <<named, loaded, entries, fills, served, job, at, method, wanted, table,
                   outcome>>

(* ScanSchemas, or Scan of a model, takes its snapshot.  The callbacks     *)
(* with a model's tables do not come back here.                            *)
Snapshot(q) ==
    /\ Reads(q, "list")
    /\ held' = [held EXCEPT ![q] = @ \cup {Entry(at[q], n) : n \in Present(at[q])}]
    /\ IF at[q] = "catalog" THEN todo' = [todo EXCEPT ![q] = Present("catalog")]
                            ELSE UNCHANGED todo
    /\ pc' = [pc EXCEPT ![q] = "calls"]
    /\ UNCHANGED <<named, shared, job, at, method, wanted, table, outcome>>

(* The callback scans the model's tables, or looks the model up again.     *)
CallsBack(q, m) ==
    /\ pc[q] = "calls" /\ m \in todo[q]
    /\ todo' = [todo EXCEPT ![q] = @ \ {m}]
    /\ \/ Enters(q, m, "list") /\ UNCHANGED wanted
       \/ Enters(q, "catalog", "find") /\ wanted' = [wanted EXCEPT ![q] = m]
    /\ UNCHANGED <<named, shared, job, table, held, outcome>>

AllCalledBack(q) ==
    /\ pc[q] = "calls" /\ todo[q] = {}
    /\ Ends(q, "listed")
    /\ UNCHANGED <<named, shared, job, at, method, wanted, table, todo, held>>

-----------------------------------------------------------------------------
Starts(q) == ScanSchemas(q) \/ \E m \in Models \cup {NoName} : LookupSchema(q, m)

Runs(q) ==
    \/ FindsLoaded(q) \/ StartsLoad(q) \/ FetchFails(q)
    \/ \E answer \in SUBSET Names :
          Fills(q, answer) \/ NamedMissing(q, answer) \/ FillThrows(q, answer)
    \/ SchemaFound(q) \/ SchemaNotFound(q) \/ LookupEntry(q)
    \/ Snapshot(q) \/ AllCalledBack(q) \/ \E m \in Models : CallsBack(q, m)

Next == \E q \in Queries : Starts(q) \/ Runs(q)

Spec == Init /\ [][Next]_vars

(* DuckDB runs every query it started, and every round trip ends (Session, *)
(* CallsEnd).                                                              *)
FairSpec == Spec /\ \A q \in Queries : WF_vars(Runs(q))

-----------------------------------------------------------------------------
(* Properties.                                                             *)

SharedOK ==
    /\ named \in Models \cup {NoName}
    /\ loaded \in [Objects -> BOOLEAN]
    /\ load_lock \in [Objects -> Queries \cup {NoQuery}]
    /\ entries \in [Objects -> [Names -> Nat]] /\ fills \in [Objects -> Nat]
    /\ served \in [Objects -> SUBSET SUBSET Names]
    /\ named # NoName => Present("catalog") \subseteq {named}

LocalOK ==
    /\ pc \in [Queries -> {"idle", "lock", "fetch", "read", "calls", "done"}]
    /\ job \in [Queries -> {"lookup", "scan"}]
    /\ at \in [Queries -> Objects] /\ method \in [Queries -> {"find", "list"}]
    /\ wanted \in [Queries -> Models \cup {NoName}] /\ table \in [Queries -> Tables]
    /\ todo \in [Queries -> SUBSET Models]
    /\ held \in [Queries -> SUBSET (Objects \X Names \X Nat)]
    /\ outcome \in [Queries -> {"none", "found", "not_found", "listed", "failed"}]

(* The types; a model not named at ATTACH is never presented               *)
(* (xmla_catalog.cpp:87-91).                                               *)
TypeOK == SharedOK /\ LocalOK

(* An entry a query has a reference to is never destroyed, whoever loads,  *)
(* fails or retries meanwhile: "the entries outlive the lock"              *)
(* (xmla_catalog.cpp:129-131).                                             *)
HeldAlive == \A q \in Queries : \A e \in held[q] : entries[e[1]][e[2]] = e[3]

(* A query reads a map only after a load of it that succeeded, and finds   *)
(* all of what the server listed in that load: not found is never said on  *)
(* the strength of a load that failed or has not finished.                 *)
ReadsWholeLoad ==
    \A q \in Queries : pc[q] = "read" =>
        \E listed \in served[at[q]] : listed \subseteq Present(at[q])

(* A query holds no mutex but that of the load it is in, so no callback    *)
(* runs under one and no query waits for one while it holds another        *)
(* (xmla_catalog.cpp:121-131, xmla_schema_entry.cpp:179-182).              *)
LockOnlyInLoad ==
    \A o \in Objects : load_lock[o] # NoQuery =>
        pc[load_lock[o]] = "fetch" /\ at[load_lock[o]] = o

(* Every query ends, whatever fails and however callbacks re-enter.        *)
QueriesEnd == \A q \in Queries : (pc[q] # "idle") ~> (pc[q] = "done")

(* What an object presents is settled by one load and never changes.       *)
L == INSTANCE LoadOnce
        WITH content <- [o \in Objects |-> IF loaded[o] THEN {entries[o]} ELSE {}]
ImplementsLoadOnce == L!Spec

=============================================================================
