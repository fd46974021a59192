----------------------------- MODULE CatalogProofs -----------------------------
(***************************************************************************)
(* Proofs about Catalog, for any number of queries, models and tables.     *)
(***************************************************************************)
EXTENDS Catalog, TLAPS

(* The attachment's map holds models only.                                 *)
Home == \A n \in Names \ Models : entries["catalog"][n] = 0

(* Whoever is at the server has the mutex of what it loads, and nobody has *)
(* loaded it yet.                                                          *)
Loading == \A q \in Queries :
    pc[q] = "fetch" => load_lock[at[q]] = q /\ ~loaded[at[q]]

(* A loaded object has everything the server listed.                       *)
Complete == \A o \in Objects :
    loaded[o] => \E names \in served[o] : names \subseteq Present(o)

(* Maps are read, and entries held, of loaded objects only.                *)
Reading == \A q \in Queries : pc[q] = "read" => loaded[at[q]]
Holding == \A q \in Queries : \A e \in held[q] :
    loaded[e[1]] /\ entries[e[1]][e[2]] = e[3]

IInv == TypeOK /\ Home /\ LockOnlyInLoad /\ Loading /\ Complete /\ Reading /\ Holding

Contents == [o \in Objects |-> IF loaded[o] THEN {entries[o]} ELSE {}]

LEMMA InitInv ==
    ASSUME CatalogAssumption, Init
    PROVE  IInv
<1>1. \A o \in Objects : Present(o) = {}
  BY DEF Init, Present
<1>2. SharedOK
  BY <1>1, SMT DEF CatalogAssumption, Init, SharedOK, Objects
<1>3. LocalOK
  BY SMT DEF CatalogAssumption, Init, LocalOK, Objects
<1>4. Home
  BY DEF Init, Home, Objects
<1>5. LockOnlyInLoad /\ Loading /\ Complete /\ Reading /\ Holding
  BY DEF Init, LockOnlyInLoad, Loading, Complete, Reading, Holding
<1> QED
  BY <1>2, <1>3, <1>4, <1>5 DEF IInv, TypeOK

------------------------------------------------------------------------------
(* Types.                                                                  *)

(* A step that leaves the maps alone keeps them, whatever becomes of the   *)
(* mutexes.                                                                *)
LEMMA SharedKept ==
    ASSUME SharedOK, Home, UNCHANGED <<named, loaded, entries, fills, served>>,
           load_lock' \in [Objects -> Queries \cup {NoQuery}]
    PROVE  SharedOK' /\ Home'
<1>1. Present("catalog")' = Present("catalog")
  BY DEF Present
<1> QED
  BY <1>1 DEF SharedOK, Home

(* Releasing a mutex.                                                      *)
LEMMA UnlockTyped ==
    ASSUME SharedOK, LocalOK, NEW q \in Queries, Unlocks(q)
    PROVE  load_lock' \in [Objects -> Queries \cup {NoQuery}]
BY DEF SharedOK, LocalOK, Unlocks

(* Filling a map with names keeps the types and adds those names to what   *)
(* is present.                                                             *)
LEMMA MadeAdds ==
    ASSUME SharedOK, NEW o \in Objects, NEW names \in SUBSET Names, Made(o, names)
    PROVE  /\ entries' \in [Objects -> [Names -> Nat]] /\ fills' \in [Objects -> Nat]
           /\ Present(o)' = Present(o) \cup names
           /\ \A p \in Objects \ {o} : entries'[p] = entries[p] /\ Present(p)' = Present(p)
           /\ \A n \in Names \ names : entries'[o][n] = entries[o][n]
<1>1. fills[o] \in Nat /\ fills' = [fills EXCEPT ![o] = fills[o] + 1]
      /\ fills \in [Objects -> Nat] /\ entries \in [Objects -> [Names -> Nat]]
  BY DEF Made, SharedOK
<1>2. fills' \in [Objects -> Nat] /\ fills'[o] \in Nat /\ fills'[o] # 0
  BY <1>1
<1>3. entries' = [entries EXCEPT ![o] = [n \in Names |-> IF n \in names THEN fills'[o]
                                                         ELSE entries[o][n]]]
  BY <1>1 DEF Made
<1>4. [n \in Names |-> IF n \in names THEN fills'[o] ELSE entries[o][n]] \in [Names -> Nat]
  BY <1>1, <1>2
<1>5. entries' \in [Objects -> [Names -> Nat]]
  BY <1>1, <1>3, <1>4
<1>6. \A n \in Names : entries'[o][n] = IF n \in names THEN fills'[o] ELSE entries[o][n]
  BY <1>1, <1>3
<1>7. \A p \in Objects \ {o} : entries'[p] = entries[p]
  BY <1>1, <1>3
<1>8. Present(o)' = Present(o) \cup names
  BY <1>2, <1>6 DEF Present
<1>9. \A p \in Objects \ {o} : Present(p)' = Present(p)
  BY <1>7 DEF Present
<1> QED
  BY <1>2, <1>5, <1>6, <1>7, <1>8, <1>9

(* What that does to the attachment's map, which holds models only.        *)
LEMMA MadeAtHome ==
    ASSUME SharedOK, NEW o \in Objects, NEW names \in SUBSET Names, Made(o, names),
           o = "catalog" => names \subseteq Models
    PROVE  /\ entries' \in [Objects -> [Names -> Nat]] /\ fills' \in [Objects -> Nat]
           /\ Present("catalog")' \subseteq Present("catalog") \cup (IF o = "catalog" THEN names ELSE {})
           /\ \A n \in Names \ Models : entries'["catalog"][n] = entries["catalog"][n]
<1>0. "catalog" \in Objects
  BY DEF Objects
<1>1. /\ entries' \in [Objects -> [Names -> Nat]] /\ fills' \in [Objects -> Nat]
      /\ Present(o)' = Present(o) \cup names
      /\ \A p \in Objects \ {o} : entries'[p] = entries[p] /\ Present(p)' = Present(p)
      /\ \A n \in Names \ names : entries'[o][n] = entries[o][n]
  BY MadeAdds
<1>2. CASE o = "catalog"
  BY <1>1, <1>2
<1>3. CASE o # "catalog"
  <2>1. entries'["catalog"] = entries["catalog"] /\ Present("catalog")' = Present("catalog")
    BY <1>0, <1>1, <1>3
  <2> QED
    BY <1>1, <1>3, <2>1
<1> QED
  BY <1>2, <1>3

(* An entry in a map, as queries refer to it; and the attachment's are     *)
(* models.                                                                 *)
LEMMA EntryTyped ==
    ASSUME SharedOK, NEW o \in Objects, NEW n \in Present(o)
    PROVE  Entry(o, n) \in Objects \X Names \X Nat
BY DEF SharedOK, Present, Entry

LEMMA ModelsAtHome ==
    ASSUME Home
    PROVE  Present("catalog") \subseteq Models
BY DEF Home, Present

(* Types of the local state, and that the attachment holds models.         *)
LEMMA TypesKept ==
    ASSUME CatalogAssumption, TypeOK, Home, [Next]_vars
    PROVE  TypeOK' /\ Home'
<1> USE DEF TypeOK
<1>0. SUFFICES ASSUME NEW q \in Queries, Starts(q) \/ Runs(q)
      PROVE  SharedOK' /\ Home' /\ LocalOK'
  <2>1. ASSUME UNCHANGED vars
        PROVE  SharedOK' /\ Home' /\ LocalOK'
    <3>1. SharedOK' /\ Home'
      BY <2>1, SharedKept DEF vars, shared, SharedOK
    <3> QED
      BY <2>1, <3>1 DEF vars, local, LocalOK
  <2> QED
    BY <2>1 DEF Next
<1>1. ASSUME NEW m \in Models \cup {NoName}, LookupSchema(q, m)
      PROVE  SharedOK' /\ Home' /\ LocalOK'
  <2>1. load_lock' \in [Objects -> Queries \cup {NoQuery}]
    BY <1>1 DEF LookupSchema, shared, SharedOK
  <2>2. SharedOK' /\ Home'
    BY <1>1, <2>1, SharedKept DEF LookupSchema, shared
  <2>3. LocalOK'
    BY <1>1 DEF LookupSchema, LocalOK, Enters, Ends, Objects
  <2> QED
    BY <2>2, <2>3
<1>2. ASSUME ScanSchemas(q)
      PROVE  SharedOK' /\ Home' /\ LocalOK'
  <2>1. load_lock' \in [Objects -> Queries \cup {NoQuery}]
    BY <1>2 DEF ScanSchemas, shared, SharedOK
  <2>2. SharedOK' /\ Home'
    BY <1>2, <2>1, SharedKept DEF ScanSchemas, shared
  <2>3. LocalOK'
    BY <1>2 DEF ScanSchemas, LocalOK, Enters, Ends, Objects
  <2> QED
    BY <2>2, <2>3
<1>3. ASSUME FindsLoaded(q)
      PROVE  SharedOK' /\ Home' /\ LocalOK'
  <2>1. load_lock' \in [Objects -> Queries \cup {NoQuery}]
    BY <1>3 DEF FindsLoaded, shared, SharedOK
  <2>2. SharedOK' /\ Home'
    BY <1>3, <2>1, SharedKept DEF FindsLoaded, shared
  <2>3. LocalOK'
    BY <1>3 DEF FindsLoaded, LocalOK, Enters, Ends
  <2> QED
    BY <2>2, <2>3
<1>4. ASSUME StartsLoad(q)
      PROVE  SharedOK' /\ Home' /\ LocalOK'
  <2>1. load_lock' \in [Objects -> Queries \cup {NoQuery}]
    BY <1>4 DEF StartsLoad, SharedOK, LocalOK
  <2>2. SharedOK' /\ Home'
    BY <1>4, <2>1, SharedKept DEF StartsLoad
  <2>3. LocalOK'
    BY <1>4 DEF StartsLoad, LocalOK, Enters, Ends
  <2> QED
    BY <2>2, <2>3
<1>5. ASSUME FetchFails(q)
      PROVE  SharedOK' /\ Home' /\ LocalOK'
  <2>1. load_lock' \in [Objects -> Queries \cup {NoQuery}]
    BY <1>5, UnlockTyped DEF FetchFails
  <2>2. SharedOK' /\ Home'
    BY <1>5, <2>1, SharedKept DEF FetchFails
  <2>3. LocalOK'
    BY <1>5 DEF FetchFails, LocalOK, Enters, Ends
  <2> QED
    BY <2>2, <2>3
<1>6. ASSUME NEW answer \in SUBSET Names, Fills(q, answer)
      PROVE  SharedOK' /\ Home' /\ LocalOK'
  <2>1. at[q] \in Objects /\ load_lock' \in [Objects -> Queries \cup {NoQuery}]
    BY <1>6, UnlockTyped DEF Fills, LocalOK
  <2>2. Taken(at[q], answer) \in SUBSET Names /\ Made(at[q], Taken(at[q], answer))
        /\ (at[q] = "catalog" => Taken(at[q], answer) \subseteq Models
                                 /\ (named # NoName => Taken(at[q], answer) \subseteq {named}))
    BY <1>6 DEF Fills, Taken, Answers, Names
  <2>3. /\ entries' \in [Objects -> [Names -> Nat]] /\ fills' \in [Objects -> Nat]
        /\ Present("catalog")' \subseteq Present("catalog") \cup
              (IF at[q] = "catalog" THEN Taken(at[q], answer) ELSE {})
        /\ \A n \in Names \ Models : entries'["catalog"][n] = entries["catalog"][n]
    BY <2>1, <2>2, MadeAtHome
  <2>4. loaded' \in [Objects -> BOOLEAN] /\ served' \in [Objects -> SUBSET SUBSET Names]
    BY <1>6, <2>2 DEF Fills, SharedOK
  <2>5. named' = named
    BY <1>6 DEF Fills
  <2>6. SharedOK' /\ Home'
    BY <2>1, <2>2, <2>3, <2>4, <2>5 DEF SharedOK, Home
  <2>7. LocalOK'
    BY <1>6 DEF Fills, LocalOK
  <2> QED
    BY <2>6, <2>7
<1>7. ASSUME NEW answer \in SUBSET Names, NamedMissing(q, answer)
      PROVE  SharedOK' /\ Home' /\ LocalOK'
  <2>1. load_lock' \in [Objects -> Queries \cup {NoQuery}]
    BY <1>7, UnlockTyped DEF NamedMissing
  <2>2. SharedOK' /\ Home'
    BY <1>7, <2>1, SharedKept DEF NamedMissing
  <2>3. LocalOK'
    BY <1>7 DEF NamedMissing, LocalOK, Enters, Ends
  <2> QED
    BY <2>2, <2>3
<1>8. ASSUME NEW answer \in SUBSET Names, FillThrows(q, answer)
      PROVE  SharedOK' /\ Home' /\ LocalOK'
  <2>1. at[q] \in Objects /\ load_lock' \in [Objects -> Queries \cup {NoQuery}]
    BY <1>8, UnlockTyped DEF FillThrows, LocalOK
  <2>2. answer \in SUBSET Names /\ Made(at[q], answer)
        /\ (at[q] = "catalog" => answer \subseteq Models
                                 /\ (named # NoName => answer \subseteq {named}))
    BY <1>8 DEF FillThrows, Answers, Names
  <2>3. /\ entries' \in [Objects -> [Names -> Nat]] /\ fills' \in [Objects -> Nat]
        /\ Present("catalog")' \subseteq Present("catalog") \cup
              (IF at[q] = "catalog" THEN answer ELSE {})
        /\ \A n \in Names \ Models : entries'["catalog"][n] = entries["catalog"][n]
    BY <2>1, <2>2, MadeAtHome
  <2>4. loaded' \in [Objects -> BOOLEAN] /\ served' \in [Objects -> SUBSET SUBSET Names]
    BY <1>8, <2>2 DEF FillThrows, SharedOK
  <2>5. named' = named
    BY <1>8 DEF FillThrows
  <2>6. SharedOK' /\ Home'
    BY <2>1, <2>2, <2>3, <2>4, <2>5 DEF SharedOK, Home
  <2>7. LocalOK'
    BY <1>8 DEF FillThrows, LocalOK, Ends
  <2> QED
    BY <2>6, <2>7
<1>9. ASSUME SchemaFound(q)
      PROVE  SharedOK' /\ Home' /\ LocalOK'
  <2>1. load_lock' \in [Objects -> Queries \cup {NoQuery}]
    BY <1>9 DEF SchemaFound, shared, SharedOK
  <2>2. SharedOK' /\ Home'
    BY <1>9, <2>1, SharedKept DEF SchemaFound, shared
  <2>3. Resolved(q) \in Models /\ (Entry("catalog", Resolved(q)) \in Objects \X Names \X Nat)
    BY <1>9, EntryTyped, ModelsAtHome DEF SchemaFound, Objects
  <2>4. held' \in [Queries -> SUBSET (Objects \X Names \X Nat)]
    BY <1>9, <2>3 DEF SchemaFound, LocalOK
  <2>5. UNCHANGED <<job, wanted, table, todo>>
    BY <1>9 DEF SchemaFound
  <2>6. /\ pc' \in [Queries -> {"idle", "lock", "fetch", "read", "calls", "done"}]
        /\ at' \in [Queries -> Objects] /\ method' \in [Queries -> {"find", "list"}]
        /\ outcome' \in [Queries -> {"none", "found", "not_found", "listed", "failed"}]
    BY <1>9, <2>3 DEF SchemaFound, LocalOK, Enters, Ends, Objects
  <2>7. LocalOK'
    BY <2>4, <2>5, <2>6 DEF LocalOK
  <2> QED
    BY <2>2, <2>7
<1>10. ASSUME SchemaNotFound(q)
      PROVE  SharedOK' /\ Home' /\ LocalOK'
  <2>1. load_lock' \in [Objects -> Queries \cup {NoQuery}]
    BY <1>10 DEF SchemaNotFound, shared, SharedOK
  <2>2. SharedOK' /\ Home'
    BY <1>10, <2>1, SharedKept DEF SchemaNotFound, shared
  <2>3. LocalOK'
    BY <1>10 DEF SchemaNotFound, LocalOK, Enters, Ends
  <2> QED
    BY <2>2, <2>3
<1>11. ASSUME LookupEntry(q)
      PROVE  SharedOK' /\ Home' /\ LocalOK'
  <2>1. load_lock' \in [Objects -> Queries \cup {NoQuery}]
    BY <1>11 DEF LookupEntry, shared, SharedOK
  <2>2. SharedOK' /\ Home'
    BY <1>11, <2>1, SharedKept DEF LookupEntry, shared
  <2>3. at[q] \in Objects /\ (table[q] \in Present(at[q]) => Entry(at[q], table[q]) \in Objects \X Names \X Nat)
    BY <1>11, EntryTyped DEF LookupEntry, LocalOK
  <2>4. held' \in [Queries -> SUBSET (Objects \X Names \X Nat)]
    BY <1>11, <2>3 DEF LookupEntry, LocalOK
  <2>5. UNCHANGED <<job, wanted, table, todo>>
    BY <1>11 DEF LookupEntry
  <2>6. /\ pc' \in [Queries -> {"idle", "lock", "fetch", "read", "calls", "done"}]
        /\ at' \in [Queries -> Objects] /\ method' \in [Queries -> {"find", "list"}]
        /\ outcome' \in [Queries -> {"none", "found", "not_found", "listed", "failed"}]
    BY <1>11, <2>3 DEF LookupEntry, LocalOK, Enters, Ends, Objects
  <2>7. LocalOK'
    BY <2>4, <2>5, <2>6 DEF LocalOK
  <2> QED
    BY <2>2, <2>7
<1>12. ASSUME Snapshot(q)
      PROVE  SharedOK' /\ Home' /\ LocalOK'
  <2>1. load_lock' \in [Objects -> Queries \cup {NoQuery}]
    BY <1>12 DEF Snapshot, shared, SharedOK
  <2>2. SharedOK' /\ Home'
    BY <1>12, <2>1, SharedKept DEF Snapshot, shared
  <2>3. LocalOK'
    BY <1>12 DEF Snapshot, LocalOK, Enters, Ends, Entry, Present, Objects, Names, Home, SharedOK
  <2> QED
    BY <2>2, <2>3
<1>13. ASSUME AllCalledBack(q)
      PROVE  SharedOK' /\ Home' /\ LocalOK'
  <2>1. load_lock' \in [Objects -> Queries \cup {NoQuery}]
    BY <1>13 DEF AllCalledBack, shared, SharedOK
  <2>2. SharedOK' /\ Home'
    BY <1>13, <2>1, SharedKept DEF AllCalledBack, shared
  <2>3. LocalOK'
    BY <1>13 DEF AllCalledBack, LocalOK, Enters, Ends
  <2> QED
    BY <2>2, <2>3
<1>14. ASSUME NEW m \in Models, CallsBack(q, m)
      PROVE  SharedOK' /\ Home' /\ LocalOK'
  <2>1. load_lock' \in [Objects -> Queries \cup {NoQuery}]
    BY <1>14 DEF CallsBack, shared, SharedOK
  <2>2. SharedOK' /\ Home'
    BY <1>14, <2>1, SharedKept DEF CallsBack, shared
  <2>3. LocalOK'
    BY <1>14 DEF CallsBack, LocalOK, Enters, Ends, Objects
  <2> QED
    BY <2>2, <2>3
<1> QED
  BY <1>0, <1>1, <1>2, <1>3, <1>4, <1>5, <1>6, <1>7, <1>8, <1>9, <1>10, <1>11, <1>12, <1>13, <1>14 DEF Starts, Runs

------------------------------------------------------------------------------
(* The invariant.                                                          *)

(* A query that is not at the server moves, to anywhere but the server,    *)
(* and the maps and mutexes stay as they are.                              *)
LEMMA QuietStep ==
    ASSUME IInv, NEW q \in Queries, pc[q] # "fetch", pc'[q] # "fetch", UNCHANGED shared,
           \A r \in Queries \ {q} : pc'[r] = pc[r] /\ at'[r] = at[r]
    PROVE  LockOnlyInLoad' /\ Loading' /\ Complete'
<1>1. LockOnlyInLoad'
  <2> SUFFICES ASSUME NEW o \in Objects, load_lock[o] # NoQuery
               PROVE  pc'[load_lock[o]] = "fetch" /\ at'[load_lock[o]] = o
    BY DEF LockOnlyInLoad, shared
  <2>1. load_lock[o] \in Queries /\ pc[load_lock[o]] = "fetch" /\ at[load_lock[o]] = o
    BY DEF IInv, TypeOK, SharedOK, LockOnlyInLoad
  <2> QED
    BY <2>1
<1>2. Loading'
  BY DEF IInv, Loading, shared
<1>3. Complete'
  BY DEF IInv, Complete, Present, shared
<1> QED
  BY <1>1, <1>2, <1>3

(* A query at the server ends its load: it releases the mutex and goes     *)
(* elsewhere.  Nobody else was loading that object.                        *)
LEMMA ReleaseStep ==
    ASSUME IInv, NEW q \in Queries, pc[q] = "fetch", pc'[q] # "fetch", Unlocks(q),
           \A r \in Queries \ {q} : pc'[r] = pc[r] /\ at'[r] = at[r],
           \A o \in Objects \ {at[q]} : loaded'[o] = loaded[o]
    PROVE  LockOnlyInLoad' /\ Loading'
<1>1. /\ load_lock[at[q]] = q /\ at[q] \in Objects
      /\ load_lock' = [load_lock EXCEPT ![at[q]] = NoQuery]
      /\ load_lock \in [Objects -> Queries \cup {NoQuery}]
  BY DEF IInv, TypeOK, SharedOK, LocalOK, Loading, Unlocks
<1>2. LockOnlyInLoad'
  <2> SUFFICES ASSUME NEW o \in Objects, load_lock'[o] # NoQuery
               PROVE  pc'[load_lock'[o]] = "fetch" /\ at'[load_lock'[o]] = o
    BY DEF LockOnlyInLoad
  <2>1. o # at[q] /\ load_lock'[o] = load_lock[o] /\ load_lock[o] \in Queries
    BY <1>1
  <2>2. pc[load_lock[o]] = "fetch" /\ at[load_lock[o]] = o
    BY <2>1 DEF IInv, LockOnlyInLoad
  <2> QED
    BY <2>1, <2>2
<1>3. Loading'
  <2> SUFFICES ASSUME NEW r \in Queries, pc'[r] = "fetch"
               PROVE  load_lock'[at'[r]] = r /\ ~loaded'[at'[r]]
    BY DEF Loading
  <2>1. r # q /\ pc[r] = "fetch" /\ at'[r] = at[r] /\ at[r] \in Objects
    BY DEF IInv, TypeOK, LocalOK
  <2>2. load_lock[at[r]] = r /\ ~loaded[at[r]]
    BY <2>1 DEF IInv, Loading
  <2>3. at[r] # at[q]
    BY <1>1, <2>1, <2>2
  <2> QED
    BY <1>1, <2>1, <2>2, <2>3
<1> QED
  BY <1>2, <1>3

(* Filling the map of an object that is not loaded disturbs nobody.        *)
LEMMA FillStep ==
    ASSUME IInv, NEW q \in Queries, pc[q] = "fetch", NEW names \in SUBSET Names,
           Made(at[q], names), UNCHANGED <<at, held>>,
           \A o \in Objects : loaded[o] => loaded'[o]
    PROVE  /\ Holding'
           /\ \A o \in Objects \ {at[q]} : Present(o)' = Present(o)
           /\ Present(at[q])' = Present(at[q]) \cup names
<1>1. at[q] \in Objects /\ ~loaded[at[q]] /\ SharedOK
  BY DEF IInv, TypeOK, LocalOK, Loading
<1>2. PICK o \in Objects : o = at[q]
  BY <1>1
<1>3. /\ Present(o)' = Present(o) \cup names
      /\ \A p \in Objects \ {o} : entries'[p] = entries[p] /\ Present(p)' = Present(p)
  BY <1>1, <1>2, MadeAdds
<1>4. Present(at[q])' = Present(at[q]) \cup names
  BY <1>2, <1>3 DEF Present
<1>5. ASSUME NEW r \in Queries, NEW e \in held[r]
      PROVE  loaded'[e[1]] /\ entries'[e[1]][e[2]] = e[3]
  <2>1. loaded[e[1]] /\ entries[e[1]][e[2]] = e[3] /\ e[1] \in Objects
    BY DEF IInv, TypeOK, LocalOK, Holding
  <2>2. e[1] # at[q]
    BY <1>1, <2>1
  <2> QED
    BY <1>2, <1>3, <2>1, <2>2
<1> QED
  BY <1>2, <1>3, <1>4, <1>5 DEF Holding

(* What a query reads under the mutex is there, in a loaded object.        *)
LEMMA ReadStep ==
    ASSUME IInv, NEW q \in Queries, pc[q] = "read", NEW new,
           new \in SUBSET {Entry(at[q], n) : n \in Present(at[q])},
           held' = [held EXCEPT ![q] = @ \cup new], UNCHANGED shared
    PROVE  Holding'
<1>1. ASSUME NEW r \in Queries, NEW e \in held'[r]
      PROVE  loaded'[e[1]] /\ entries'[e[1]][e[2]] = e[3]
  <2>1. e \in held[r] \/ (r = q /\ e \in new)
    BY DEF IInv, TypeOK, LocalOK
  <2>2. CASE e \in held[r]
    BY <2>2 DEF IInv, Holding, shared
  <2>3. CASE e \in new
    <3>1. PICK n \in Present(at[q]) : e = <<at[q], n, entries[at[q]][n]>>
      BY <2>3 DEF Entry
    <3> QED
      BY <3>1 DEF IInv, Reading, shared
  <2> QED
    BY <2>1, <2>2, <2>3
<1> QED
  BY <1>1 DEF Holding

LEMMA NextInv ==
    ASSUME CatalogAssumption, IInv, [Next]_vars
    PROVE  IInv'
<1> DEFINE Rest == LockOnlyInLoad /\ Loading /\ Complete /\ Reading /\ Holding
<1>0. TypeOK' /\ Home'
  BY TypesKept DEF IInv
<1>t. TypeOK /\ LocalOK /\ SharedOK /\ Reading /\ Holding
  BY DEF IInv, TypeOK
<1>a. SUFFICES ASSUME NEW q \in Queries, Starts(q) \/ Runs(q)
      PROVE  Rest'
  <2>1. ASSUME UNCHANGED vars
        PROVE  Rest'
    BY <2>1 DEF IInv, LockOnlyInLoad, Loading, Complete, Reading, Holding, Present, vars, shared,
                local
  <2> QED
    BY <1>0, <2>1 DEF Next, IInv
<1>1. ASSUME NEW m \in Models \cup {NoName}, LookupSchema(q, m)
      PROVE  Rest'
  <2>1. /\ pc[q] # "fetch" /\ pc'[q] # "fetch" /\ UNCHANGED <<shared, held>>
        /\ \A r \in Queries \ {q} : pc'[r] = pc[r] /\ at'[r] = at[r]
    BY <1>1, <1>t DEF LookupSchema, LocalOK, Enters, Ends, Reads
  <2>2. LockOnlyInLoad' /\ Loading' /\ Complete'
    BY <2>1, QuietStep
  <2>3. Reading' /\ Holding'
    BY <1>1, <2>1, <1>t DEF LookupSchema, LocalOK, Enters, Ends, Reading, Holding, shared
  <2> QED
    BY <2>2, <2>3
<1>2. ASSUME ScanSchemas(q)
      PROVE  Rest'
  <2>1. /\ pc[q] # "fetch" /\ pc'[q] # "fetch" /\ UNCHANGED <<shared, held>>
        /\ \A r \in Queries \ {q} : pc'[r] = pc[r] /\ at'[r] = at[r]
    BY <1>2, <1>t DEF ScanSchemas, LocalOK, Enters, Ends, Reads
  <2>2. LockOnlyInLoad' /\ Loading' /\ Complete'
    BY <2>1, QuietStep
  <2>3. Reading' /\ Holding'
    BY <1>2, <2>1, <1>t DEF ScanSchemas, LocalOK, Enters, Ends, Reading, Holding, shared
  <2> QED
    BY <2>2, <2>3
<1>3. ASSUME FindsLoaded(q)
      PROVE  Rest'
  <2>1. /\ pc[q] # "fetch" /\ pc'[q] # "fetch" /\ UNCHANGED <<shared, held>>
        /\ \A r \in Queries \ {q} : pc'[r] = pc[r] /\ at'[r] = at[r]
    BY <1>3, <1>t DEF FindsLoaded, LocalOK, Enters, Ends, Reads
  <2>2. LockOnlyInLoad' /\ Loading' /\ Complete'
    BY <2>1, QuietStep
  <2>3. Reading' /\ Holding'
    BY <1>3, <2>1, <1>t DEF FindsLoaded, LocalOK, Enters, Ends, Reading, Holding, shared
  <2> QED
    BY <2>2, <2>3
<1>4. ASSUME StartsLoad(q)
      PROVE  Rest'
  <2>1. /\ pc[q] = "lock" /\ load_lock[at[q]] = NoQuery /\ ~loaded[at[q]] /\ at[q] \in Objects
        /\ load_lock' = [load_lock EXCEPT ![at[q]] = q]
        /\ pc' = [pc EXCEPT ![q] = "fetch"]
        /\ UNCHANGED <<loaded, entries, served, at, held>>
    BY <1>4, <1>t DEF StartsLoad, LocalOK
  <2>2. LockOnlyInLoad'
    BY <2>1, <1>t DEF IInv, LockOnlyInLoad, LocalOK, SharedOK
  <2>3. Loading'
    <3> SUFFICES ASSUME NEW r \in Queries, pc'[r] = "fetch"
                 PROVE  load_lock'[at[r]] = r /\ ~loaded[at[r]]
      BY <2>1 DEF Loading
    <3>1. CASE r = q
      BY <2>1, <3>1, <1>t DEF SharedOK
    <3>2. CASE r # q
      <4>1. load_lock[at[r]] = r /\ ~loaded[at[r]]
        BY <2>1, <3>2, <1>t DEF IInv, Loading, LocalOK
      <4>2. at[r] # at[q]
        BY <2>1, <4>1 DEF CatalogAssumption
      <4> QED
        BY <2>1, <4>1, <4>2, <1>t DEF SharedOK
    <3> QED
      BY <3>1, <3>2
  <2>4. Complete' /\ Holding'
    BY <2>1 DEF IInv, Complete, Holding, Present
  <2>5. Reading'
    BY <2>1, <1>t DEF Reading, LocalOK
  <2> QED
    BY <2>2, <2>3, <2>4, <2>5
<1>5. ASSUME FetchFails(q)
      PROVE  Rest'
  <2>1. /\ pc[q] = "fetch" /\ pc'[q] = "done" /\ Unlocks(q)
        /\ UNCHANGED <<loaded, entries, served, at, held>>
        /\ \A r \in Queries \ {q} : pc'[r] = pc[r] /\ at'[r] = at[r]
    BY <1>5, <1>t DEF FetchFails, LocalOK, Ends
  <2>2. LockOnlyInLoad' /\ Loading'
    BY <2>1, ReleaseStep
  <2>3. Complete' /\ Reading' /\ Holding'
    BY <2>1 DEF IInv, Complete, Reading, Holding, Present
  <2> QED
    BY <2>2, <2>3
<1>6. ASSUME NEW answer \in SUBSET Names, Fills(q, answer)
      PROVE  Rest'
  <2> DEFINE names == Taken(at[q], answer)
  <2>1. /\ pc[q] = "fetch" /\ pc'[q] = "read" /\ Unlocks(q) /\ Made(at[q], names)
        /\ at[q] \in Objects
        /\ loaded' = [loaded EXCEPT ![at[q]] = TRUE]
        /\ served' = [served EXCEPT ![at[q]] = {names}]
        /\ UNCHANGED <<at, held>>
        /\ \A r \in Queries \ {q} : pc'[r] = pc[r] /\ at'[r] = at[r]
    BY <1>6, <1>t DEF Fills, LocalOK
  <2>2. names \in SUBSET Names
    BY DEF Taken
  <2>3. /\ loaded'[at[q]] = TRUE /\ served'[at[q]] = {names}
        /\ \A o \in Objects \ {at[q]} : loaded'[o] = loaded[o] /\ served'[o] = served[o]
    BY <2>1, <1>t DEF SharedOK
  <2> HIDE DEF names
  <2>4. LockOnlyInLoad' /\ Loading'
    BY <2>1, <2>3, ReleaseStep
  <2>5. /\ Holding'
        /\ \A o \in Objects \ {at[q]} : Present(o)' = Present(o)
        /\ Present(at[q])' = Present(at[q]) \cup names
    BY <2>1, <2>2, <2>3, FillStep
  <2>6. Complete'
    BY <2>1, <2>3, <2>5 DEF IInv, Complete
  <2>7. Reading'
    BY <2>1, <2>3, <1>t DEF Reading, LocalOK
  <2> QED
    BY <2>4, <2>5, <2>6, <2>7
<1>7. ASSUME NEW answer \in SUBSET Names, NamedMissing(q, answer)
      PROVE  Rest'
  <2>1. /\ pc[q] = "fetch" /\ pc'[q] = "done" /\ Unlocks(q)
        /\ UNCHANGED <<loaded, entries, served, at, held>>
        /\ \A r \in Queries \ {q} : pc'[r] = pc[r] /\ at'[r] = at[r]
    BY <1>7, <1>t DEF NamedMissing, LocalOK, Ends
  <2>2. LockOnlyInLoad' /\ Loading'
    BY <2>1, ReleaseStep
  <2>3. Complete' /\ Reading' /\ Holding'
    BY <2>1 DEF IInv, Complete, Reading, Holding, Present
  <2> QED
    BY <2>2, <2>3
<1>8. ASSUME NEW answer \in SUBSET Names, FillThrows(q, answer)
      PROVE  Rest'
  <2>1. /\ pc[q] = "fetch" /\ pc'[q] = "done" /\ Unlocks(q) /\ Made(at[q], answer)
        /\ UNCHANGED <<loaded, served, at, held>>
        /\ \A r \in Queries \ {q} : pc'[r] = pc[r] /\ at'[r] = at[r]
    BY <1>8, <1>t DEF FillThrows, LocalOK, Ends
  <2>2. LockOnlyInLoad' /\ Loading'
    BY <2>1, ReleaseStep
  <2>3. /\ Holding'
        /\ \A o \in Objects \ {at[q]} : Present(o)' = Present(o)
    BY <2>1, FillStep
  <2>4. Complete'
    BY <2>1, <2>3 DEF IInv, Complete, Loading
  <2>5. Reading'
    BY <2>1, <1>t DEF Reading
  <2> QED
    BY <2>2, <2>3, <2>4, <2>5
<1>9. ASSUME SchemaFound(q)
      PROVE  Rest'
  <2>1. /\ pc[q] = "read" /\ pc'[q] \notin {"fetch", "read"} /\ UNCHANGED shared
        /\ \A r \in Queries \ {q} : pc'[r] = pc[r] /\ at'[r] = at[r]
    BY <1>9, <1>t DEF SchemaFound, LocalOK, Enters, Ends, Reads
  <2>2. LockOnlyInLoad' /\ Loading' /\ Complete'
    BY <2>1, QuietStep
  <2>3. Reading'
    BY <2>1, <1>t DEF Reading, shared
  <2>4. /\ {Entry("catalog", Resolved(q))} \in SUBSET {Entry(at[q], n) : n \in Present(at[q])}
        /\ held' = [held EXCEPT ![q] = @ \cup {Entry("catalog", Resolved(q))}]
    BY <1>9, <1>t DEF SchemaFound, LocalOK, Reads
  <2>5. Holding'
    BY <2>1, <2>4, ReadStep
  <2> QED
    BY <2>2, <2>3, <2>5
<1>10. ASSUME SchemaNotFound(q)
      PROVE  Rest'
  <2>1. /\ pc[q] # "fetch" /\ pc'[q] # "fetch" /\ UNCHANGED <<shared, held>>
        /\ \A r \in Queries \ {q} : pc'[r] = pc[r] /\ at'[r] = at[r]
    BY <1>10, <1>t DEF SchemaNotFound, LocalOK, Enters, Ends, Reads
  <2>2. LockOnlyInLoad' /\ Loading' /\ Complete'
    BY <2>1, QuietStep
  <2>3. Reading' /\ Holding'
    BY <1>10, <2>1, <1>t DEF SchemaNotFound, LocalOK, Enters, Ends, Reading, Holding, shared
  <2> QED
    BY <2>2, <2>3
<1>11. ASSUME LookupEntry(q)
      PROVE  Rest'
  <2>1. /\ pc[q] = "read" /\ pc'[q] \notin {"fetch", "read"} /\ UNCHANGED shared
        /\ \A r \in Queries \ {q} : pc'[r] = pc[r] /\ at'[r] = at[r]
    BY <1>11, <1>t DEF LookupEntry, LocalOK, Enters, Ends, Reads
  <2>2. LockOnlyInLoad' /\ Loading' /\ Complete'
    BY <2>1, QuietStep
  <2>3. Reading'
    BY <2>1, <1>t DEF Reading, shared
  <2>4. /\ (IF table[q] \in Present(at[q]) THEN {Entry(at[q], table[q])} ELSE {}) \in SUBSET {Entry(at[q], n) : n \in Present(at[q])}
        /\ held' = [held EXCEPT ![q] = @ \cup (IF table[q] \in Present(at[q]) THEN {Entry(at[q], table[q])} ELSE {})]
    BY <1>11, <1>t DEF LookupEntry, LocalOK, Reads
  <2>5. Holding'
    BY <2>1, <2>4, ReadStep
  <2> QED
    BY <2>2, <2>3, <2>5
<1>12. ASSUME Snapshot(q)
      PROVE  Rest'
  <2>1. /\ pc[q] = "read" /\ pc'[q] \notin {"fetch", "read"} /\ UNCHANGED shared
        /\ \A r \in Queries \ {q} : pc'[r] = pc[r] /\ at'[r] = at[r]
    BY <1>12, <1>t DEF Snapshot, LocalOK, Enters, Ends, Reads
  <2>2. LockOnlyInLoad' /\ Loading' /\ Complete'
    BY <2>1, QuietStep
  <2>3. Reading'
    BY <2>1, <1>t DEF Reading, shared
  <2>4. /\ {Entry(at[q], n) : n \in Present(at[q])} \in SUBSET {Entry(at[q], n) : n \in Present(at[q])}
        /\ held' = [held EXCEPT ![q] = @ \cup {Entry(at[q], n) : n \in Present(at[q])}]
    BY <1>12, <1>t DEF Snapshot, LocalOK, Reads
  <2>5. Holding'
    BY <2>1, <2>4, ReadStep
  <2> QED
    BY <2>2, <2>3, <2>5
<1>13. ASSUME AllCalledBack(q)
      PROVE  Rest'
  <2>1. /\ pc[q] # "fetch" /\ pc'[q] # "fetch" /\ UNCHANGED <<shared, held>>
        /\ \A r \in Queries \ {q} : pc'[r] = pc[r] /\ at'[r] = at[r]
    BY <1>13, <1>t DEF AllCalledBack, LocalOK, Enters, Ends, Reads
  <2>2. LockOnlyInLoad' /\ Loading' /\ Complete'
    BY <2>1, QuietStep
  <2>3. Reading' /\ Holding'
    BY <1>13, <2>1, <1>t DEF AllCalledBack, LocalOK, Enters, Ends, Reading, Holding, shared
  <2> QED
    BY <2>2, <2>3
<1>14. ASSUME NEW m \in Models, CallsBack(q, m)
      PROVE  Rest'
  <2>1. /\ pc[q] # "fetch" /\ pc'[q] # "fetch" /\ UNCHANGED <<shared, held>>
        /\ \A r \in Queries \ {q} : pc'[r] = pc[r] /\ at'[r] = at[r]
    BY <1>14, <1>t DEF CallsBack, LocalOK, Enters, Ends, Reads
  <2>2. LockOnlyInLoad' /\ Loading' /\ Complete'
    BY <2>1, QuietStep
  <2>3. Reading' /\ Holding'
    BY <1>14, <2>1, <1>t DEF CallsBack, LocalOK, Enters, Ends, Reading, Holding, shared
  <2> QED
    BY <2>2, <2>3
<1> QED
  BY <1>a, <1>1, <1>2, <1>3, <1>4, <1>5, <1>6, <1>7, <1>8, <1>9, <1>10, <1>11, <1>12, <1>13, <1>14 DEF Starts, Runs

(* Spec => []IInv, of which the theorems below are parts.                  *)
THEOREM Invariance ==
    ASSUME CatalogAssumption
    PROVE  Spec => []IInv
<1>1. Init => IInv
  BY InitInv
<1>2. IInv /\ [Next]_vars => IInv'
  BY NextInv
<1> QED
  BY <1>1, <1>2, PTL DEF Spec

(* For any number of queries, models and tables: the types hold, and only  *)
(* the catalog named at ATTACH is presented.                               *)
THEOREM TypeCorrect == ASSUME CatalogAssumption PROVE Spec => []TypeOK
<1>1. IInv => TypeOK
  BY DEF IInv
<1> QED
  BY <1>1, Invariance, PTL

(* No entry a query refers to is ever destroyed.                           *)
THEOREM ReferencesLive == ASSUME CatalogAssumption PROVE Spec => []HeldAlive
<1>1. IInv => HeldAlive
  BY DEF IInv, Holding, HeldAlive
<1> QED
  BY <1>1, Invariance, PTL

(* What a query reads is the whole of a load that succeeded.               *)
THEOREM LoadsSeenWhole == ASSUME CatalogAssumption PROVE Spec => []ReadsWholeLoad
<1>1. IInv => ReadsWholeLoad
  BY DEF IInv, TypeOK, LocalOK, Reading, Complete, ReadsWholeLoad
<1> QED
  BY <1>1, Invariance, PTL

(* A query holds no mutex but that of the load it is in, one at a time:    *)
(* none waits for a mutex while it holds another.                          *)
THEOREM NoHoldAndWait == ASSUME CatalogAssumption PROVE Spec => []LockOnlyInLoad
<1>1. IInv => LockOnlyInLoad
  BY DEF IInv
<1> QED
  BY <1>1, Invariance, PTL

------------------------------------------------------------------------------
(* Refinement: an action that fills no map leaves what is presented alone; *)
(* filling one that is then not marked loaded does too; and the load that  *)
(* marks it is LoadOnce's Load.                                            *)

LEMMA SamePresented ==
    ASSUME UNCHANGED loaded, \A o \in Objects : loaded[o] => entries'[o] = entries[o]
    PROVE  Contents' = Contents
BY DEF Contents

LEMMA StepRefines ==
    ASSUME CatalogAssumption, IInv, [Next]_vars
    PROVE  Contents' = Contents \/ \E o \in Objects :
              /\ Contents[o] = {}
              /\ \E c \in Contents'[o] : Contents' = [Contents EXCEPT ![o] = {c}]
<1> DEFINE Steps == Contents' = Contents \/ \E o \in Objects :
              /\ Contents[o] = {}
              /\ \E c \in Contents'[o] : Contents' = [Contents EXCEPT ![o] = {c}]
<1>t. SharedOK /\ LocalOK
  BY DEF IInv, TypeOK
<1>1. ASSUME UNCHANGED <<loaded, entries>>
      PROVE  Steps
  BY <1>1, SamePresented
<1>2. ASSUME NEW q \in Queries, NEW answer \in SUBSET Names, FillThrows(q, answer)
      PROVE  Steps
  <2>1. PICK o \in Objects : o = at[q] /\ ~loaded[o]
    BY <1>2, <1>t DEF FillThrows, LocalOK, IInv, Loading
  <2>2. Made(o, answer) /\ UNCHANGED loaded
    BY <1>2, <2>1 DEF FillThrows
  <2>3. \A p \in Objects \ {o} : entries'[p] = entries[p]
    BY <2>2, <1>t, MadeAdds
  <2> QED
    BY <2>1, <2>2, <2>3, SamePresented
<1>3. ASSUME NEW q \in Queries, NEW answer \in SUBSET Names, Fills(q, answer)
      PROVE  Steps
  <2> DEFINE names == Taken(at[q], answer)
  <2>1. PICK o \in Objects : o = at[q] /\ ~loaded[o]
    BY <1>3, <1>t DEF Fills, LocalOK, IInv, Loading
  <2>2. names \in SUBSET Names
    BY DEF Taken
  <2>3. Made(o, names) /\ loaded' = [loaded EXCEPT ![o] = TRUE]
    BY <1>3, <2>1 DEF Fills
  <2> HIDE DEF names
  <2>4. \A p \in Objects \ {o} : entries'[p] = entries[p]
    BY <2>2, <2>3, <1>t, MadeAdds
  <2>5. Contents[o] = {}
    BY <2>1 DEF Contents
  <2>6. Contents' = [Contents EXCEPT ![o] = {entries'[o]}] /\ entries'[o] \in Contents'[o]
    BY <2>3, <2>4, <1>t DEF Contents, SharedOK
  <2> QED
    BY <2>5, <2>6
<1>4. ASSUME NEW q \in Queries, Starts(q) \/ Runs(q)
      PROVE  Steps
  <2>1. \/ UNCHANGED <<loaded, entries>>
        \/ \E answer \in SUBSET Names : Fills(q, answer) \/ FillThrows(q, answer)
    BY <1>4 DEF Starts, Runs, LookupSchema, ScanSchemas, FindsLoaded, StartsLoad, FetchFails,
                NamedMissing, SchemaFound, SchemaNotFound, LookupEntry, Snapshot, CallsBack,
                AllCalledBack, shared
  <2> QED
    BY <2>1, <1>1, <1>2, <1>3
<1>5. ASSUME UNCHANGED vars
      PROVE  Steps
  BY <1>5, <1>1 DEF vars, shared
<1> QED
  BY <1>4, <1>5 DEF Next

(* What an attachment or a model presents is settled by one load and never *)
(* changes, for any queries, failures and retries.                         *)
THEOREM Refinement == ASSUME CatalogAssumption PROVE Spec => ImplementsLoadOnce
<1>1. Init => L!Init
  BY DEF Init, L!Init
<1>2. IInv /\ [Next]_vars => [L!Next]_Contents
  BY StepRefines DEF L!Next, L!Load, Contents
<1>3. Spec => []IInv
  BY Invariance
<1> QED
  BY <1>1, <1>2, <1>3, PTL DEF Spec, ImplementsLoadOnce, L!Spec, Contents

=============================================================================
