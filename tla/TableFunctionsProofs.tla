-------------------------- MODULE TableFunctionsProofs --------------------------
(***************************************************************************)
(* Proofs about TableFunctions and what it is made of, for every set of    *)
(* calls, secrets, answers, addresses and signals, and every timeout:      *)
(* what OpenSession holds at each place (Opening); that the guard on       *)
(* statements (Guard) reads every statement the way IsSingleQuery does;    *)
(* that a rowset is handed out as the server sent it; and that a session   *)
(* is opened with what the call says (ConnectionString, Parameters).       *)
(***************************************************************************)
EXTENDS TableFunctions, SequenceTheorems, Induction, TLAPS

-----------------------------------------------------------------------------
(* The inductive invariant: what is held at each place of the thread.      *)

Starting   == pc \in {"bind", "open", "create", "target"}
Connecting == pc \in {"address", "flags", "connect", "wait", "poll"}
WithSocket == pc \in {"handshake", "session"}
Over       == pc \in {"bound", "failed"}

(* The handles of a context GssContext::Create has returned.               *)
ContextHandles == {"target"} \cup (IF params["user"] = <<>> THEN {} ELSE {"cred"})

Handles ==
    /\ Starting \/ Over => handles = {}
    /\ pc = "user" => handles = {"target"}
    /\ pc = "acquire" => handles = {"target", "user"}
    /\ pc \in {"user", "acquire"} => params["user"] # <<>>
    /\ pc = "lookup" \/ Connecting \/ WithSocket => handles = ContextHandles

Addresses ==
    /\ Connecting => addrinfo = TRUE
    /\ ~Connecting => addrinfo = FALSE
    /\ addresses \in 0 .. MaxAddresses /\ ai \in 0 .. (addresses + 1)
    /\ Connecting => ai >= 1
    /\ pc \in {"flags", "connect", "wait", "poll"} => ai <= addresses

Sockets ==
    /\ pc \in {"flags", "connect", "wait", "poll"} => open = {ai}
    /\ pc \in {"connect", "wait", "poll"} => nonblocking = {ai}
    /\ pc \notin {"connect", "wait", "poll"} => nonblocking = {}
    /\ WithSocket => fd \in 1 .. addresses /\ open = {fd}
    /\ ~WithSocket => fd = 0
    /\ ~WithSocket /\ pc \notin {"flags", "connect", "wait", "poll"} => open = {}

Clock ==
    /\ now \in 0 .. Limit /\ deadline \in Nat /\ wake \in Nat /\ signals \in 0 .. MaxSignals
    /\ ~Connecting /\ ~WithSocket /\ ~Over => now = 0
    /\ Connecting => deadline = Limit
    /\ pc = "poll" => wake = Limit

Places ==
    /\ pc \in {"bind", "open", "create", "target", "user", "acquire", "lookup", "address", "flags",
               "connect", "wait", "poll", "handshake", "session", "bound", "failed"}
    /\ failure \in {"none", "binder", "statement", "authentication", "connection", "session"}

OInv == Places /\ Handles /\ Addresses /\ Sockets /\ Clock

-----------------------------------------------------------------------------
(* What the invariant says of the properties.                              *)

(* What is held at each place gives the properties of the runs.            *)
LEMMA OInvGivesProperties ==
    ASSUME OInv
    PROVE  OpeningTypeOK /\ HoldsExactly /\ ConnectBounded
<1>1. OpeningTypeOK
  <2>1. handles \subseteq {"target", "user", "cred"}
    BY DEF OInv, Places, Handles, Starting, Connecting, WithSocket, Over, ContextHandles
  <2>2. addrinfo \in BOOLEAN
    BY DEF OInv, Addresses
  <2>3. open \subseteq 1 .. addresses /\ nonblocking \subseteq open /\ fd \in 0 .. addresses
    BY OpeningAssumption DEF OInv, Places, Addresses, Sockets, Connecting, WithSocket
  <2> QED
    BY <2>1, <2>2, <2>3, OpeningAssumption DEF OInv, Places, Addresses, Clock, OpeningTypeOK
<1>2. HoldsExactly
  BY DEF OInv, Places, Handles, Addresses, Sockets, HoldsExactly, Starting, Connecting, WithSocket, Over,
     ContextHandles
<1>3. ConnectBounded
  BY OpeningAssumption DEF OInv, Clock, ConnectBounded
<1> QED
  BY <1>1, <1>2, <1>3

(* Nothing is held before the bind.                                        *)
LEMMA OInvHoldsFirst == FunctionsInit => OInv
BY OpeningAssumption DEF FunctionsInit, OpeningInit, OInv, Places, Handles, Addresses, Sockets, Clock, Starting,
   Connecting, WithSocket, Over

-----------------------------------------------------------------------------
(* Steps.                                                                  *)

(* The steps of the bind, which hold no handle and no socket.              *)
LEMMA BindKeepsOInv ==
    ASSUME OInv, Bind
    PROVE  OInv'
<1> USE OpeningAssumption DEF OInv, Places, Handles, Addresses, Sockets, Clock, Starting, Connecting, WithSocket, Over,
        ContextHandles, address, sockets, clock, Goes, Fails, Dropped
<1>1. CASE StartBind
  BY <1>1 DEF StartBind
<1>2. CASE SendRequest
  BY <1>2 DEF SendRequest, asked
<1>3. CASE NotAnswered
  BY <1>3 DEF NotAnswered, asked
<1>4. ASSUME NEW t \in Tables, Answered(t) PROVE OInv'
  BY <1>4 DEF Answered, asked
<1> QED
  BY <1>1, <1>2, <1>3, <1>4 DEF Bind

(* GssContext::Create: each failure releases what was imported before it.  *)
LEMMA ContextKeepsOInv ==
    ASSUME OInv, StartOpening \/ Context
    PROVE  OInv'
<1> USE OpeningAssumption DEF OInv, Places, Handles, Addresses, Sockets, Clock, Starting, Connecting, WithSocket, Over,
        ContextHandles, address, sockets, clock, Goes, Fails
<1>1. CASE StartOpening
  BY <1>1 DEF StartOpening
<1>2. CASE CheckNames
  BY <1>2 DEF CheckNames, asked
<1>3. ASSUME NEW ok \in BOOLEAN, ImportTarget(ok) PROVE OInv'
  BY <1>3 DEF ImportTarget, asked
<1>4. ASSUME NEW ok \in BOOLEAN, ImportUser(ok) PROVE OInv'
  BY <1>4 DEF ImportUser, asked
<1>5. ASSUME NEW ok \in BOOLEAN, Acquire(ok) PROVE OInv'
  BY <1>5 DEF Acquire, asked
<1> QED
  BY <1>1, <1>2, <1>3, <1>4, <1>5 DEF Context

(* The connect over the addresses, each with its socket.                   *)
LEMMA ConnectKeepsOInv ==
    ASSUME OInv, Connect
    PROVE  OInv'
<1> USE OpeningAssumption DEF OInv, Places, Handles, Addresses, Sockets, Clock, Starting, Connecting, WithSocket, Over,
        ContextHandles, address, sockets, clock, asked, Goes, Fails
<1>1. ASSUME NEW n \in 0 .. MaxAddresses, LookUp(n) PROVE OInv'
  <2>1. CASE n > 0
    BY <1>1, <2>1 DEF LookUp
  <2>2. CASE ~(n > 0)
    BY <1>1, <2>2 DEF LookUp, Unwinds
  <2> QED
    BY <2>1, <2>2
<1>2. CASE OpenSocket
  BY <1>2 DEF OpenSocket
<1>3. CASE NoSocket
  BY <1>3 DEF NoSocket, NextAddress
<1>4. CASE NoMoreAddresses
  BY <1>4 DEF NoMoreAddresses, Unwinds
<1>5. CASE SetNonblocking
  BY <1>5 DEF SetNonblocking
<1>6. CASE CallFails
  BY <1>6 DEF CallFails, Abandon, NextAddress
<1>7. CASE ConnectsAtOnce
  BY <1>7 DEF ConnectsAtOnce, Connected
<1>8. CASE InProgress
  BY <1>8 DEF InProgress
<1>9. CASE DeadlinePassed
  BY <1>9 DEF DeadlinePassed, Abandon, NextAddress
<1>10. CASE Poll
  BY <1>10 DEF Poll
<1>11. CASE PollTimesOut
  BY <1>11 DEF PollTimesOut, Abandon, NextAddress
<1>12. ASSUME NEW error \in BOOLEAN, Writable(error) PROVE OInv'
  <2>1. CASE error
    BY <1>12, <2>1 DEF Writable, Abandon, NextAddress
  <2>2. CASE ~error
    BY <1>12, <2>2 DEF Writable, Connected
  <2> QED
    BY <2>1, <2>2
<1> QED
  BY <1>1, <1>2, <1>3, <1>4, <1>5, <1>6, <1>7, <1>8, <1>9, <1>10, <1>11, <1>12 DEF Connect

(* Every step of the thread keeps the invariant.                           *)
LEMMA OpeningKeepsOInv ==
    ASSUME OInv, OpeningNext
    PROVE  OInv'
<1> USE OpeningAssumption DEF OInv, Places, Handles, Addresses, Sockets, Clock, Starting, Connecting, WithSocket, Over,
        ContextHandles, address, sockets, clock, asked, Goes, Fails
<1>1. CASE StartOpening \/ Context
  BY <1>1, ContextKeepsOInv
<1>2. CASE Connect
  BY <1>2, ConnectKeepsOInv
<1>3. CASE Interrupted
  BY <1>3 DEF Interrupted
<1>4. CASE Tick
  BY <1>4 DEF Tick
<1>5. ASSUME NEW ok \in BOOLEAN, Shakes(ok) PROVE OInv'
  BY <1>5 DEF Shakes, Dropped
<1> QED
  BY <1>1, <1>2, <1>3, <1>4, <1>5 DEF OpeningNext

(* What the invariant speaks of left alone.                                *)
LEMMA OInvUnchanged ==
    ASSUME OInv, UNCHANGED openingVars
    PROVE  OInv'
BY DEF openingVars, OInv, Places, Handles, Addresses, Sockets, Clock, Starting, Connecting, WithSocket, Over,
   ContextHandles, address, sockets, clock, asked

(* What the thread holds depends on its place alone, in every state.       *)
THEOREM OInvAlways == FunctionsSpec => []OInv
<1>1. ASSUME OInv, [FunctionsNext]_functionVars PROVE OInv'
  <2>1. CASE Bind
    BY <1>1, <2>1, BindKeepsOInv
  <2>2. CASE Thread
    BY <1>1, <2>2, OpeningKeepsOInv DEF Thread
  <2>3. CASE InitGlobal \/ ScanVector \/ UNCHANGED functionVars
    BY <1>1, <2>3, OInvUnchanged DEF InitGlobal, ScanVector, functionVars
  <2> QED
    BY <1>1, <2>1, <2>2, <2>3 DEF FunctionsNext
<1> QED
  BY <1>1, OInvHoldsFirst, PTL DEF FunctionsSpec

(* Wherever a call fails, what it had made is released, and what an open   *)
(* session holds is exactly a blocking socket and its context.             *)
THEOREM HandlesReleased == FunctionsSpec => []HoldsExactly
<1>1. OInv => HoldsExactly
  BY OInvGivesProperties
<1> QED
  BY <1>1, OInvAlways, PTL

(* Connecting ends within the timeout, for any number of addresses and     *)
(* signals.                                                                *)
THEOREM ConnectsInTime == FunctionsSpec => []ConnectBounded
<1>1. OInv => ConnectBounded
  BY OInvGivesProperties
<1> QED
  BY <1>1, OInvAlways, PTL

(* The types of what OpenSession works on.                                 *)
THEOREM OpeningTyped == FunctionsSpec => []OpeningTypeOK
<1>1. OInv => OpeningTypeOK
  BY OInvGivesProperties
<1> QED
  BY <1>1, OInvAlways, PTL

-----------------------------------------------------------------------------
(* The guard reads a statement with loops that each skip a whole comment,  *)
(* literal or run of white space; IsSingleQuery reads it symbol by symbol. *)
(* What the loops find behind a place is shown, from the end down, to be   *)
(* what one pass makes of it from there on.                                *)

(* A statement is a sequence of symbols; its places run one past its end.  *)
Statement == Seq(Symbols)
Positions(s) == 1 .. (Len(s) + 1)

LEMMA StatementTyped ==
    ASSUME NEW s \in Statement
    PROVE  /\ Len(s) \in Nat /\ DOMAIN s = 1 .. Len(s)
           /\ \A i \in 1 .. Len(s) : s[i] \in Symbols
BY LenProperties, ElementOfSeq DEF Statement

(* What Find finds of some places of a statement.                          *)
LEMMA FindFirst ==
    ASSUME NEW s \in Seq(Symbols), NEW T, T \subseteq 1 .. Len(s)
    PROVE  /\ Find(s, T) \in 1 .. (Len(s) + 1)
           /\ T = {} => Find(s, T) = Len(s) + 1
           /\ T # {} => Find(s, T) \in T
           /\ \A k \in T : Find(s, T) <= k
<1>1. Len(s) \in Nat
  BY LenProperties
<1>2. CASE T = {}
  BY <1>1, <1>2 DEF Find
<1>3. CASE T # {}
  <2>1. \E j \in T : \A k \in T : j <= k
    <3>1. T \subseteq Nat
      BY <1>1
    <3> QED
      BY <1>3, <3>1, LeastNumber
  <2>2. Find(s, T) \in T /\ \A k \in T : Find(s, T) <= k
    BY <1>3, <2>1 DEF Find
  <2>3. Find(s, T) \in 1 .. Len(s)
    BY <2>2
  <2> HIDE DEF Find
  <2>4. Find(s, T) \in 1 .. (Len(s) + 1)
    BY <1>1, <2>3
  <2> QED
    BY <1>3, <2>2, <2>4
<1> QED
  BY <1>2, <1>3

(* A white space, a comment or neither starts at a place.                  *)
LEMMA NewlineFound ==
    ASSUME NEW s \in Statement, NEW i \in Nat, 1 <= i
    PROVE  /\ Newline(s, i) \in 1 .. (Len(s) + 1)
           /\ Newline(s, i) <= Len(s) => i <= Newline(s, i) /\ s[Newline(s, i)] = "newline"
           /\ \A k \in i .. Len(s) : s[k] = "newline" => Newline(s, i) <= k
<1> DEFINE T == {j \in i .. Len(s) : s[j] = "newline"}
<1>1. Len(s) \in Nat /\ T \subseteq 1 .. Len(s)
  BY StatementTyped
<1>2. /\ Find(s, T) \in 1 .. (Len(s) + 1)
      /\ T = {} => Find(s, T) = Len(s) + 1
      /\ T # {} => Find(s, T) \in T
      /\ \A k \in T : Find(s, T) <= k
  BY <1>1, FindFirst DEF Statement
<1>3. Newline(s, i) = Find(s, T)
  BY DEF Newline
<1> HIDE DEF Newline, Find
<1>4. Find(s, T) <= Len(s) => Find(s, T) \in T
  BY <1>1, <1>2
<1> QED
  BY <1>1, <1>2, <1>3, <1>4

LEMMA BlockCloseFound ==
    ASSUME NEW s \in Statement, NEW i \in Nat, 1 <= i
    PROVE  /\ BlockClose(s, i) \in 1 .. (Len(s) + 1)
           /\ BlockClose(s, i) <= Len(s) =>
                 i <= BlockClose(s, i) /\ Pair(s, BlockClose(s, i)) = <<"*", "/">>
           /\ \A k \in i .. Len(s) : Pair(s, k) = <<"*", "/">> => BlockClose(s, i) <= k
<1> DEFINE T == {j \in i .. Len(s) : Pair(s, j) = <<"*", "/">>}
<1>1. Len(s) \in Nat /\ T \subseteq 1 .. Len(s)
  BY StatementTyped
<1>2. /\ Find(s, T) \in 1 .. (Len(s) + 1)
      /\ T = {} => Find(s, T) = Len(s) + 1
      /\ T # {} => Find(s, T) \in T
      /\ \A k \in T : Find(s, T) <= k
  BY <1>1, FindFirst DEF Statement
<1>3. BlockClose(s, i) = Find(s, T)
  BY DEF BlockClose
<1>4. Find(s, T) <= Len(s) => Find(s, T) \in T
  BY <1>1, <1>2
<1> QED
  BY <1>1, <1>2, <1>3, <1>4

(* A pair of symbols lies inside the statement.                            *)
LEMMA PairInside ==
    ASSUME NEW s \in Statement, NEW i \in Nat, NEW a \in Symbols, NEW b \in Symbols,
           Pair(s, i) = <<a, b>>
    PROVE  /\ i \in 1 .. Len(s) /\ i + 1 \in 1 .. Len(s)
           /\ s[i] = a /\ s[i + 1] = b
<1>1. At(s, i) = a /\ At(s, i + 1) = b /\ "end" \notin Symbols
  BY DEF Pair, Symbols
<1> QED
  BY <1>1, StatementTyped DEF At

LEMMA CommentInside ==
    ASSUME NEW s \in Statement, NEW i \in Nat, OpensLine(s, i) \/ OpensBlock(s, i)
    PROVE  i \in 1 .. Len(s) /\ i + 1 \in 1 .. Len(s) /\ s[i] \in {"/", "-"}
<1>1. {"/", "-", "*"} \subseteq Symbols
  BY DEF Symbols
<1>2. CASE Pair(s, i) = <<"/", "/">>
  BY <1>1, <1>2, PairInside
<1>3. CASE Pair(s, i) = <<"-", "-">>
  BY <1>1, <1>3, PairInside
<1>4. CASE Pair(s, i) = <<"/", "*">>
  BY <1>1, <1>4, PairInside
<1> QED
  BY <1>2, <1>3, <1>4 DEF OpensLine, OpensBlock

-----------------------------------------------------------------------------
(* The recursive definitions, one step at a time.                          *)

LEMMA SkipTriviaStep ==
    ASSUME NEW s \in Statement, NEW i \in Positions(s)
    PROVE  SkipTrivia(s, i) =
              IF At(s, i) \in Spaces THEN SkipTrivia(s, i + 1)
              ELSE IF OpensLine(s, i)
                   THEN IF Newline(s, i) > Len(s) THEN [ok |-> TRUE, at |-> Newline(s, i)]
                        ELSE SkipTrivia(s, Newline(s, i) + 1)
              ELSE IF OpensBlock(s, i)
                   THEN IF BlockClose(s, i + 2) > Len(s)
                        THEN [ok |-> FALSE, at |-> BlockClose(s, i + 2)]
                        ELSE SkipTrivia(s, BlockClose(s, i + 2) + 2)
              ELSE [ok |-> TRUE, at |-> i]
<1> DEFINE n == Len(s) + 1
           D == [ok : BOOLEAN, at : 1 .. n]
           Step(f, j) ==
              IF At(s, j) \in Spaces THEN f[j + 1]
              ELSE IF OpensLine(s, j)
                   THEN IF Newline(s, j) > Len(s) THEN [ok |-> TRUE, at |-> Newline(s, j)]
                        ELSE f[Newline(s, j) + 1]
              ELSE IF OpensBlock(s, j)
                   THEN IF BlockClose(s, j + 2) > Len(s)
                        THEN [ok |-> FALSE, at |-> BlockClose(s, j + 2)]
                        ELSE f[BlockClose(s, j + 2) + 2]
              ELSE [ok |-> TRUE, at |-> j]
           G == [x \in (1 .. n) \X [1 .. n -> D] |-> Step(x[2], x[1])]
           skip == CHOOSE f : f = [j \in 1 .. n |-> Step(f, j)]
<1>0. n \in Nat /\ n >= 1 /\ Len(s) \in Nat
  BY StatementTyped
<1>1. ASSUME NEW j \in 1 .. n, At(s, j) \in Spaces PROVE j + 1 \in (j + 1) .. n
  <2>1. j \in DOMAIN s
    BY <1>1 DEF At, Spaces
  <2> QED
    BY <2>1, StatementTyped
<1>2. ASSUME NEW j \in 1 .. n, Newline(s, j) <= Len(s) PROVE Newline(s, j) + 1 \in (j + 1) .. n
  <2>1. j \in Nat /\ 1 <= j
    BY <1>0
  <2>2. j <= Newline(s, j) /\ Newline(s, j) \in 1 .. (Len(s) + 1)
    BY <1>2, <2>1, NewlineFound
  <2> QED
    BY <1>0, <1>2, <2>1, <2>2
<1>3. ASSUME NEW j \in 1 .. n, BlockClose(s, j + 2) <= Len(s)
      PROVE  BlockClose(s, j + 2) + 2 \in (j + 1) .. n
  <2>1. /\ BlockClose(s, j + 2) \in Nat /\ j + 2 <= BlockClose(s, j + 2)
        /\ Pair(s, BlockClose(s, j + 2)) = <<"*", "/">>
    BY <1>0, <1>3, BlockCloseFound
  <2>2. BlockClose(s, j + 2) + 1 \in 1 .. Len(s)
    BY <2>1, PairInside DEF Symbols
  <2> QED
    BY <1>0, <2>1, <2>2
<1>4. ASSUME NEW j \in 1 .. n
      PROVE  Newline(s, j) \in 1 .. n /\ BlockClose(s, j + 2) \in 1 .. n
  <2>1. j \in Nat /\ 1 <= j /\ j + 2 \in Nat /\ 1 <= j + 2
    BY <1>0
  <2> QED
    BY <2>1, NewlineFound, BlockCloseFound
<1>b. ASSUME NEW j \in 1 .. n
      PROVE  /\ Newline(s, j) > Len(s) \/ Newline(s, j) <= Len(s)
             /\ BlockClose(s, j + 2) > Len(s) \/ BlockClose(s, j + 2) <= Len(s)
  <2>1. j \in Nat /\ 1 <= j /\ j + 2 \in Nat /\ 1 <= j + 2
    BY <1>0
  <2>2. Newline(s, j) \in 1 .. (Len(s) + 1) /\ BlockClose(s, j + 2) \in 1 .. (Len(s) + 1)
    BY <2>1, NewlineFound, BlockCloseFound
  <2> QED
    BY <1>0, <2>2
<1>a. \A k \in 1 .. n : [ok |-> TRUE, at |-> k] \in D /\ [ok |-> FALSE, at |-> k] \in D
  OBVIOUS
<1> HIDE DEF n, D
<1>5. ASSUME NEW j \in 1 .. n, NEW f \in [1 .. n -> D] PROVE Step(f, j) \in D
  <2>0. \A k \in (j + 1) .. n : f[k] \in D
    <3>1. \A k \in (j + 1) .. n : k \in 1 .. n
      BY <1>0
    <3> QED
      BY <3>1
  <2>1. CASE At(s, j) \in Spaces
    BY <1>1, <2>0, <2>1
  <2>2. CASE At(s, j) \notin Spaces /\ OpensLine(s, j)
    BY <1>2, <1>4, <1>a, <1>b, <2>0, <2>2
  <2>3. CASE At(s, j) \notin Spaces /\ ~OpensLine(s, j) /\ OpensBlock(s, j)
    BY <1>3, <1>4, <1>a, <1>b, <2>0, <2>3
  <2>4. CASE At(s, j) \notin Spaces /\ ~OpensLine(s, j) /\ ~OpensBlock(s, j)
    BY <1>a, <2>4
  <2> QED
    BY <2>1, <2>2, <2>3, <2>4
<1>6. ASSUME NEW j \in 1 .. n, NEW f \in [1 .. n -> D], NEW g \in [1 .. n -> D],
             \A k \in (j + 1) .. n : f[k] = g[k]
      PROVE  Step(f, j) = Step(g, j)
  <2>1. CASE At(s, j) \in Spaces
    BY <1>1, <1>6, <2>1
  <2>2. CASE At(s, j) \notin Spaces /\ OpensLine(s, j)
    BY <1>2, <1>b, <1>6, <2>2
  <2>3. CASE At(s, j) \notin Spaces /\ ~OpensLine(s, j) /\ OpensBlock(s, j)
    BY <1>3, <1>b, <1>6, <2>3
  <2>4. CASE At(s, j) \notin Spaces /\ ~OpensLine(s, j) /\ ~OpensBlock(s, j)
    BY <2>4
  <2> QED
    BY <2>1, <2>2, <2>3, <2>4
<1> HIDE DEF Step
<1>7. \E f \in [1 .. n -> D] : \A j \in 1 .. n : f[j] = Step(f, j)
  <2>1. DependsOnLater(G, n, D)
    BY <1>5, <1>6 DEF DependsOnLater
  <2>2. [ok |-> TRUE, at |-> 1] \in D
    <3>1. 1 \in 1 .. n
      BY <1>0
    <3> QED
      BY <1>a, <3>1
  <2>3. \E f \in [1 .. n -> D] : \A j \in 1 .. n : f[j] = G[<<j, f>>]
    <3> HIDE DEF G
    <3> QED
      BY <1>0, <2>1, <2>2, BackwardRecursion
  <2> QED
    BY <2>3
<1>8. skip = [j \in 1 .. n |-> Step(skip, j)]
  <2>1. PICK f \in [1 .. n -> D] : \A j \in 1 .. n : f[j] = Step(f, j)
    BY <1>7
  <2>2. f = [j \in 1 .. n |-> Step(f, j)]
    BY <2>1
  <2> QED
    BY <2>2
<1>9. \A j \in 1 .. n : skip[j] = Step(skip, j)
  <2> HIDE DEF skip
  <2> QED
    BY <1>8
<1>10. ASSUME NEW j PROVE SkipTrivia(s, j) = skip[j]
  BY DEF SkipTrivia, Step, n
<1> HIDE DEF skip
<1>11. SkipTrivia(s, i) = Step(skip, i)
  BY <1>9, <1>10 DEF Positions, n
<1> QED
  BY <1>10, <1>11 DEF Step

LEMMA PastQuotedStep ==
    ASSUME NEW s \in Statement, NEW quote \in Symbols, NEW i \in Positions(s)
    PROVE  PastQuoted(s, i, quote) =
              IF i > Len(s) THEN i
              ELSE IF s[i] # quote THEN PastQuoted(s, i + 1, quote)
              ELSE IF At(s, i + 1) = quote THEN PastQuoted(s, i + 2, quote) ELSE i + 1
<1> DEFINE n == Len(s) + 1
           D == 1 .. n
           Step(f, j) ==
              IF j > Len(s) THEN j
              ELSE IF s[j] # quote THEN f[j + 1]
              ELSE IF At(s, j + 1) = quote THEN f[j + 2] ELSE j + 1
           G == [x \in (1 .. n) \X [1 .. n -> D] |-> Step(x[2], x[1])]
           past == CHOOSE f : f = [j \in 1 .. n |-> Step(f, j)]
<1>0. n \in Nat /\ n >= 1 /\ Len(s) \in Nat
  BY StatementTyped
<1>1. ASSUME NEW j \in 1 .. n, ~(j > Len(s)) PROVE j + 1 \in (j + 1) .. n
  BY <1>0, <1>1
<1>2. ASSUME NEW j \in 1 .. n, At(s, j + 1) = quote PROVE j + 2 \in (j + 1) .. n
  <2>1. j + 1 \in DOMAIN s
    BY <1>2 DEF At, Symbols
  <2> QED
    BY <1>0, <2>1, StatementTyped
<1>3. \A j \in 1 .. n : (j + 1) .. n \subseteq 1 .. n /\ j \in D
  BY <1>0
<1> HIDE DEF n
<1>5. ASSUME NEW j \in 1 .. n, NEW f \in [1 .. n -> D] PROVE Step(f, j) \in D
  BY <1>1, <1>2, <1>3
<1>6. ASSUME NEW j \in 1 .. n, NEW f \in [1 .. n -> D], NEW g \in [1 .. n -> D],
             \A k \in (j + 1) .. n : f[k] = g[k]
      PROVE  Step(f, j) = Step(g, j)
  BY <1>1, <1>2, <1>6
<1> HIDE DEF Step, D
<1>7. \E f \in [1 .. n -> D] : \A j \in 1 .. n : f[j] = Step(f, j)
  <2>1. DependsOnLater(G, n, D)
    BY <1>5, <1>6 DEF DependsOnLater
  <2>2. 1 \in D
    BY <1>0 DEF D
  <2>3. \E f \in [1 .. n -> D] : \A j \in 1 .. n : f[j] = G[<<j, f>>]
    <3> HIDE DEF G
    <3> QED
      BY <1>0, <2>1, <2>2, BackwardRecursion
  <2> QED
    BY <2>3
<1>8. past = [j \in 1 .. n |-> Step(past, j)]
  <2>1. PICK f \in [1 .. n -> D] : \A j \in 1 .. n : f[j] = Step(f, j)
    BY <1>7
  <2>2. f = [j \in 1 .. n |-> Step(f, j)]
    BY <2>1
  <2> QED
    BY <2>2
<1>9. \A j \in 1 .. n : past[j] = Step(past, j)
  <2> HIDE DEF past
  <2> QED
    BY <1>8
<1>10. ASSUME NEW j PROVE PastQuoted(s, j, quote) = past[j]
  BY DEF PastQuoted, Step, n
<1> HIDE DEF past
<1>11. PastQuoted(s, i, quote) = Step(past, i)
  BY <1>9, <1>10 DEF Positions, n
<1> QED
  BY <1>10, <1>11 DEF Step

(* A quoted literal ends behind where it began.                            *)
LEMMA PastQuotedTyped ==
    ASSUME NEW s \in Statement, NEW quote \in Symbols, NEW i \in Positions(s)
    PROVE  PastQuoted(s, i, quote) \in i .. (Len(s) + 1)
<1> DEFINE n == Len(s) + 1
           S == {j \in 1 .. n : PastQuoted(s, j, quote) \in j .. n}
<1>0. n \in Nat /\ Len(s) \in Nat
  BY StatementTyped
<1> HIDE DEF n
<1>1. ASSUME NEW j \in 1 .. n, Behind(j, n) \subseteq S PROVE j \in S
  <2>0. /\ j > Len(s) => j = n
        /\ ~(j > Len(s)) => j + 1 \in Behind(j, n)
    BY <1>0 DEF n, Behind
  <2>1. At(s, j + 1) = quote => j + 2 \in Behind(j, n)
    <3>1. At(s, j + 1) = quote => j + 1 \in 1 .. Len(s)
      BY StatementTyped DEF At, Symbols
    <3> QED
      BY <1>0, <3>1 DEF n, Behind
  <2>2. \A k \in Behind(j, n) : PastQuoted(s, k, quote) \in k .. n /\ k \in (j + 1) .. n
    BY <1>1 DEF Behind
  <2>3. \A k \in (j + 1) .. n : k .. n \subseteq j .. n
    BY <1>0
  <2>4. PastQuoted(s, j, quote) \in j .. n
    BY <1>0, <2>0, <2>1, <2>2, <2>3, PastQuotedStep DEF Positions, n
  <2> QED
    BY <2>4
<1>2. 1 .. n \subseteq S
  <2> HIDE DEF S
  <2> QED
    BY <1>0, <1>1, DownwardInduction
<1> QED
  BY <1>2 DEF n, Positions

(* SkipTrivia stops at or behind where it began; behind it when it began   *)
(* with a comment.                                                         *)
LEMMA SkipTriviaTyped ==
    ASSUME NEW s \in Statement, NEW i \in Positions(s)
    PROVE  /\ SkipTrivia(s, i).ok \in BOOLEAN
           /\ SkipTrivia(s, i).at \in i .. (Len(s) + 1)
           /\ OpensLine(s, i) \/ OpensBlock(s, i) => SkipTrivia(s, i).at \in (i + 1) .. (Len(s) + 1)
<1> DEFINE n == Len(s) + 1
           Good(j) == /\ SkipTrivia(s, j).ok \in BOOLEAN
                      /\ SkipTrivia(s, j).at \in j .. n
                      /\ OpensLine(s, j) \/ OpensBlock(s, j) => SkipTrivia(s, j).at \in (j + 1) .. n
           S == {j \in 1 .. n : Good(j)}
<1>0. n \in Nat /\ Len(s) \in Nat
  BY StatementTyped
<1> HIDE DEF n
<1>1. ASSUME NEW j \in 1 .. n, Behind(j, n) \subseteq S PROVE Good(j)
  <2>0. j \in Nat /\ 1 <= j /\ j + 2 \in Nat /\ 1 <= j + 2 /\ j \in j .. n /\ j \in Positions(s)
    BY <1>0 DEF n, Positions
  <2>1. \A k \in Behind(j, n) : /\ SkipTrivia(s, k).ok \in BOOLEAN
                                /\ SkipTrivia(s, k).at \in (j + 1) .. n
                                /\ SkipTrivia(s, k).at \in j .. n
    <3>1. \A k \in Behind(j, n) : k .. n \subseteq (j + 1) .. n /\ k .. n \subseteq j .. n
      BY <1>0 DEF Behind
    <3> QED
      BY <1>1, <3>1
  <2>2. CASE At(s, j) \in Spaces
    <3>1. j \in 1 .. Len(s) /\ s[j] \in Spaces
      BY <2>2, StatementTyped DEF At, Spaces
    <3>2. j + 1 \in Behind(j, n)
      BY <1>0, <3>1 DEF n, Behind
    <3>3. ~(OpensLine(s, j) \/ OpensBlock(s, j))
      BY <2>0, <3>1, CommentInside DEF Spaces
    <3>4. SkipTrivia(s, j) = SkipTrivia(s, j + 1)
      BY <2>0, <2>2, SkipTriviaStep
    <3> QED
      BY <2>1, <3>2, <3>3, <3>4
  <2>3. CASE At(s, j) \notin Spaces /\ OpensLine(s, j)
    <3>1. PICK nl : nl = Newline(s, j)
      OBVIOUS
    <3>2. /\ nl \in 1 .. n
          /\ nl <= Len(s) => j <= nl
      BY <2>0, <3>1, NewlineFound DEF n
    <3>3. j \in 1 .. Len(s)
      BY <2>0, <2>3, CommentInside
    <3>4. SkipTrivia(s, j) = IF nl > Len(s) THEN [ok |-> TRUE, at |-> nl]
                             ELSE SkipTrivia(s, nl + 1)
      BY <2>0, <2>3, <3>1, SkipTriviaStep
    <3>5. CASE nl > Len(s)
      <4>1. SkipTrivia(s, j).ok = TRUE /\ SkipTrivia(s, j).at = nl
        BY <3>4, <3>5
      <4>2. nl \in (j + 1) .. n /\ nl \in j .. n
        BY <1>0, <3>2, <3>3, <3>5 DEF n
      <4> QED
        BY <4>1, <4>2
    <3>6. CASE ~(nl > Len(s))
      <4>1. nl + 1 \in Behind(j, n)
        BY <1>0, <3>2, <3>3, <3>6 DEF n, Behind
      <4> QED
        BY <2>1, <3>4, <3>6, <4>1
    <3> QED
      BY <3>5, <3>6
  <2>4. CASE At(s, j) \notin Spaces /\ ~OpensLine(s, j) /\ OpensBlock(s, j)
    <3>1. PICK close : close = BlockClose(s, j + 2)
      OBVIOUS
    <3>2. /\ close \in 1 .. n
          /\ close <= Len(s) => j + 2 <= close /\ Pair(s, close) = <<"*", "/">>
      BY <2>0, <3>1, BlockCloseFound DEF n
    <3>3. j \in 1 .. Len(s)
      BY <2>0, <2>4, CommentInside
    <3>4. SkipTrivia(s, j) = IF close > Len(s) THEN [ok |-> FALSE, at |-> close]
                             ELSE SkipTrivia(s, close + 2)
      BY <2>0, <2>4, <3>1, SkipTriviaStep
    <3>5. CASE close > Len(s)
      <4>1. SkipTrivia(s, j).ok = FALSE /\ SkipTrivia(s, j).at = close
        BY <3>4, <3>5
      <4>2. close \in (j + 1) .. n /\ close \in j .. n
        BY <1>0, <3>2, <3>3, <3>5 DEF n
      <4> QED
        BY <4>1, <4>2
    <3>6. CASE ~(close > Len(s))
      <4>0. close \in Nat /\ close <= Len(s)
        BY <1>0, <3>2, <3>6
      <4>1. close + 1 \in 1 .. Len(s)
        BY <3>2, <4>0, PairInside DEF Symbols
      <4>2. close + 2 \in Behind(j, n)
        BY <1>0, <3>2, <4>0, <4>1 DEF n, Behind
      <4> QED
        BY <2>1, <3>4, <3>6, <4>2
    <3> QED
      BY <3>5, <3>6
  <2>5. CASE At(s, j) \notin Spaces /\ ~OpensLine(s, j) /\ ~OpensBlock(s, j)
    <3>1. SkipTrivia(s, j) = [ok |-> TRUE, at |-> j]
      BY <2>0, <2>5, SkipTriviaStep
    <3> QED
      BY <2>0, <2>5, <3>1
  <2> QED
    BY <2>2, <2>3, <2>4, <2>5
<1>2. 1 .. n \subseteq S
  <2> HIDE DEF Good
  <2>1. ASSUME NEW j \in 1 .. n, Behind(j, n) \subseteq S PROVE j \in S
    BY <1>1, <2>1
  <2> HIDE DEF S
  <2> QED
    BY <1>0, <2>1, DownwardInduction
<1> QED
  BY <1>2 DEF n, Positions

LEMMA SingleStep ==
    ASSUME NEW s \in Statement, NEW i \in Positions(s)
    PROVE  Single(s, i) =
              IF i > Len(s) THEN TRUE
              ELSE IF s[i] \in Openers THEN Single(s, PastQuoted(s, i + 1, Closing(s[i])))
              ELSE IF OpensLine(s, i) \/ OpensBlock(s, i)
                   THEN SkipTrivia(s, i).ok /\ Single(s, SkipTrivia(s, i).at)
              ELSE IF s[i] = ";"
                   THEN SkipTrivia(s, i + 1).ok /\ SkipTrivia(s, i + 1).at > Len(s)
              ELSE Single(s, i + 1)
<1> DEFINE n == Len(s) + 1
           Step(f, j) ==
              IF j > Len(s) THEN TRUE
              ELSE IF s[j] \in Openers THEN f[PastQuoted(s, j + 1, Closing(s[j]))]
              ELSE IF OpensLine(s, j) \/ OpensBlock(s, j)
                   THEN SkipTrivia(s, j).ok /\ f[SkipTrivia(s, j).at]
              ELSE IF s[j] = ";"
                   THEN SkipTrivia(s, j + 1).ok /\ SkipTrivia(s, j + 1).at > Len(s)
              ELSE f[j + 1]
           G == [x \in (1 .. n) \X [1 .. n -> BOOLEAN] |-> Step(x[2], x[1])]
           single == CHOOSE f : f = [j \in 1 .. n |-> Step(f, j)]
<1>0. n \in Nat /\ n >= 1 /\ Len(s) \in Nat
  BY StatementTyped
<1>1. ASSUME NEW j \in 1 .. n, ~(j > Len(s))
      PROVE  j \in 1 .. Len(s) /\ j + 1 \in (j + 1) .. n /\ j + 1 \in Positions(s)
  BY <1>0, <1>1 DEF Positions
<1>2. ASSUME NEW j \in 1 .. n, ~(j > Len(s)), s[j] \in Openers
      PROVE  PastQuoted(s, j + 1, Closing(s[j])) \in (j + 1) .. n
  <2>1. Closing(s[j]) \in Symbols
    BY <1>2 DEF Closing, Openers, Symbols
  <2> QED
    BY <1>1, <1>2, <2>1, PastQuotedTyped
<1>3. ASSUME NEW j \in 1 .. n, OpensLine(s, j) \/ OpensBlock(s, j)
      PROVE  SkipTrivia(s, j).at \in (j + 1) .. n
  BY <1>3, SkipTriviaTyped DEF Positions
<1>4. \A j \in 1 .. n : (j + 1) .. n \subseteq 1 .. n
  BY <1>0
<1>5. ASSUME NEW j \in 1 .. n
      PROVE  SkipTrivia(s, j).ok \in BOOLEAN
  BY SkipTriviaTyped DEF Positions
<1> HIDE DEF n
<1>6. ASSUME NEW j \in 1 .. n, NEW f \in [1 .. n -> BOOLEAN] PROVE Step(f, j) \in BOOLEAN
  <2>1. CASE j > Len(s)
    BY <2>1
  <2>2. CASE ~(j > Len(s)) /\ s[j] \in Openers
    BY <1>2, <1>4, <2>2
  <2>3. CASE ~(j > Len(s)) /\ s[j] \notin Openers /\ (OpensLine(s, j) \/ OpensBlock(s, j))
    BY <2>3
  <2>4. CASE /\ ~(j > Len(s)) /\ s[j] \notin Openers /\ ~(OpensLine(s, j) \/ OpensBlock(s, j))
             /\ s[j] = ";"
    BY <2>4
  <2>5. CASE /\ ~(j > Len(s)) /\ s[j] \notin Openers /\ ~(OpensLine(s, j) \/ OpensBlock(s, j))
             /\ s[j] # ";"
    BY <1>1, <1>4, <2>5
  <2> QED
    BY <2>1, <2>2, <2>3, <2>4, <2>5
<1>7. ASSUME NEW j \in 1 .. n, NEW f \in [1 .. n -> BOOLEAN], NEW g \in [1 .. n -> BOOLEAN],
             \A k \in (j + 1) .. n : f[k] = g[k]
      PROVE  Step(f, j) = Step(g, j)
  <2>1. CASE j > Len(s)
    BY <2>1
  <2>2. CASE ~(j > Len(s)) /\ s[j] \in Openers
    BY <1>2, <1>7, <2>2
  <2>3. CASE ~(j > Len(s)) /\ s[j] \notin Openers /\ (OpensLine(s, j) \/ OpensBlock(s, j))
    BY <1>3, <1>7, <2>3
  <2>4. CASE /\ ~(j > Len(s)) /\ s[j] \notin Openers /\ ~(OpensLine(s, j) \/ OpensBlock(s, j))
             /\ s[j] = ";"
    BY <2>4
  <2>5. CASE /\ ~(j > Len(s)) /\ s[j] \notin Openers /\ ~(OpensLine(s, j) \/ OpensBlock(s, j))
             /\ s[j] # ";"
    BY <1>1, <1>7, <2>5
  <2> QED
    BY <2>1, <2>2, <2>3, <2>4, <2>5
<1> HIDE DEF Step
<1>8. \E f \in [1 .. n -> BOOLEAN] : \A j \in 1 .. n : f[j] = Step(f, j)
  <2>1. DependsOnLater(G, n, BOOLEAN)
    <3>1. ASSUME NEW j \in 1 .. n, NEW f \in [1 .. n -> BOOLEAN] PROVE G[<<j, f>>] \in BOOLEAN
      BY <1>6
    <3>2. ASSUME NEW j \in 1 .. n, NEW f \in [1 .. n -> BOOLEAN], NEW g \in [1 .. n -> BOOLEAN],
                 \A k \in (j + 1) .. n : f[k] = g[k]
          PROVE  G[<<j, f>>] = G[<<j, g>>]
      BY <1>7, <3>2
    <3> HIDE DEF G
    <3> QED
      BY <3>1, <3>2 DEF DependsOnLater
  <2>3. \E f \in [1 .. n -> BOOLEAN] : \A j \in 1 .. n : f[j] = G[<<j, f>>]
    <3>1. PICK D : D = BOOLEAN
      OBVIOUS
    <3>2. PICK d : d \in D
      BY <3>1
    <3> HIDE DEF G
    <3>3. \E f \in [1 .. n -> D] : \A j \in 1 .. n : f[j] = G[<<j, f>>]
      BY <1>0, <2>1, <3>1, <3>2, BackwardRecursion
    <3> QED
      BY <3>1, <3>3
  <2> QED
    BY <2>3
<1>9. single = [j \in 1 .. n |-> Step(single, j)]
  <2>1. PICK f \in [1 .. n -> BOOLEAN] : \A j \in 1 .. n : f[j] = Step(f, j)
    BY <1>8
  <2>2. f = [j \in 1 .. n |-> Step(f, j)]
    BY <2>1
  <2> QED
    BY <2>2
<1>10. \A j \in 1 .. n : single[j] = Step(single, j)
  <2> HIDE DEF single
  <2> QED
    BY <1>9
<1>11. ASSUME NEW j PROVE Single(s, j) = single[j]
  BY DEF Single, Step, n
<1> HIDE DEF single
<1>12. Single(s, i) = Step(single, i)
  BY <1>10, <1>11 DEF Positions, n
<1> QED
  BY <1>11, <1>12 DEF Step

-----------------------------------------------------------------------------
(* The reading in one pass.                                                *)

Modes == {"code", "line", "block"} \cup Openers
Reading == [mode : Modes, skip : BOOLEAN, code : Seq(Symbols), ended : BOOLEAN, batch : BOOLEAN]

LEMMA ReadTyped ==
    ASSUME NEW s \in Statement, NEW st \in Reading, NEW i \in 1 .. Len(s)
    PROVE  Read(s, st, i) \in Reading
<1>1. s[i] \in Symbols /\ " " \in Symbols
  BY StatementTyped DEF Symbols
<1>2. PICK c \in Symbols : c = s[i]
  BY <1>1
<1>3. st.code \in Seq(Symbols) /\ st.mode \in Modes
  BY DEF Reading
<1>4. Append(st.code, " ") \in Seq(Symbols) /\ Append(st.code, c) \in Seq(Symbols)
  BY <1>1, <1>3, AppendProperties
<1>5. c \in Openers => c \in Modes
  BY DEF Modes
<1>6. [st EXCEPT !.skip = FALSE] \in Reading
  BY DEF Reading
<1>7. /\ [st EXCEPT !.mode = "line", !.skip = TRUE, !.code = Append(st.code, " ")] \in Reading
      /\ [st EXCEPT !.mode = "block", !.skip = TRUE, !.code = Append(st.code, " ")] \in Reading
  BY <1>4 DEF Reading, Modes
<1>8. [st EXCEPT !.mode = IF c \in Openers THEN c ELSE @, !.code = Append(@, c),
                 !.ended = @ \/ c = ";", !.batch = @ \/ (st.ended /\ c \notin Spaces)] \in Reading
  <2>1. PICK mode \in Modes : mode = IF c \in Openers THEN c ELSE st.mode
    BY <1>3, <1>5
  <2>2. PICK code \in Seq(Symbols) : code = Append(st.code, c)
    BY <1>4
  <2>3. PICK ended \in BOOLEAN : ended = (st.ended \/ c = ";")
    OBVIOUS
  <2>4. PICK batch \in BOOLEAN : batch = (st.batch \/ (st.ended /\ c \notin Spaces))
    OBVIOUS
  <2>5. [st EXCEPT !.mode = mode, !.code = code, !.ended = ended, !.batch = batch] \in Reading
    BY DEF Reading
  <2> QED
    BY <2>1, <2>2, <2>3, <2>4, <2>5
<1>9. /\ [st EXCEPT !.mode = "code"] \in Reading
      /\ [st EXCEPT !.mode = "code", !.skip = TRUE] \in Reading
      /\ [st EXCEPT !.skip = TRUE] \in Reading
  BY DEF Reading, Modes
<1>10. [st EXCEPT !.mode = IF c = "newline" THEN "code" ELSE @] \in Reading
  BY <1>3 DEF Reading, Modes
<1> QED
  BY <1>2, <1>6, <1>7, <1>8, <1>9, <1>10 DEF Read

LEMMA AfterStep ==
    ASSUME NEW s \in Statement
    PROVE  /\ After(s, 0) = Scanner
           /\ \A i \in 1 .. Len(s) : After(s, i) = Read(s, After(s, i - 1), i)
<1> DEFINE n == Len(s)
           Step == [x \in (1 .. n) \X Reading |-> Read(s, x[2], x[1])]
           after == CHOOSE f : f = [j \in 0 .. n |-> IF j = 0 THEN Scanner ELSE Read(s, f[j - 1], j)]
<1>0. n \in Nat
  BY StatementTyped
<1>1. Scanner \in Reading
  <2>1. <<>> \in Seq(Symbols)
    OBVIOUS
  <2> QED
    BY <2>1 DEF Scanner, Reading, Modes
<1>2. StepsIn(Step, n, Reading)
  BY ReadTyped DEF StepsIn
<1>3. \E f \in [0 .. n -> Reading] : GoesOn(f, Scanner, Step, n)
  <2> HIDE DEF n, Step
  <2> QED
    BY <1>0, <1>1, <1>2, ForwardRecursion
<1>4. PICK f \in [0 .. n -> Reading] :
          f[0] = Scanner /\ \A j \in 1 .. n : f[j] = Step[<<j, f[j - 1]>>]
  BY <1>3 DEF GoesOn
<1>5. f = [j \in 0 .. n |-> IF j = 0 THEN Scanner ELSE Read(s, f[j - 1], j)]
  <2>1. ASSUME NEW j \in 1 .. n PROVE f[j] = Read(s, f[j - 1], j)
    <3>1. f[j - 1] \in Reading
      BY <1>0
    <3>2. <<j, f[j - 1]>> \in (1 .. n) \X Reading
      BY <3>1
    <3> QED
      BY <1>4, <3>2
  <2>2. ASSUME NEW j \in 0 .. n, j # 0 PROVE j \in 1 .. n
    BY <1>0, <2>2
  <2> HIDE DEF n, Step
  <2> QED
    BY <1>4, <2>1, <2>2
<1>6. after = [j \in 0 .. n |-> IF j = 0 THEN Scanner ELSE Read(s, after[j - 1], j)]
  <2> HIDE DEF n
  <2> QED
    BY <1>5
<1>7. \A j : After(s, j) = after[j]
  BY DEF After
<1> HIDE DEF after
<1>8. after[0] = Scanner
  BY <1>0, <1>6
<1>9. ASSUME NEW j \in 1 .. n PROVE after[j] = Read(s, after[j - 1], j)
  <2>1. j \in 0 .. n /\ j # 0
    BY <1>0
  <2> HIDE DEF n
  <2> QED
    BY <1>6, <2>1
<1> QED
  BY <1>7, <1>8, <1>9

(* The state in which a place is read.                                     *)
Before(s, i) == After(s, i - 1)

LEMMA BeforeStep ==
    ASSUME NEW s \in Statement
    PROVE  /\ Before(s, 1) = Scanner
           /\ \A i \in Positions(s) : Before(s, i) \in Reading
           /\ \A i \in 1 .. Len(s) : Before(s, i + 1) = Read(s, Before(s, i), i)
<1> DEFINE n == Len(s) + 1
           S == {i \in 1 .. n : Before(s, i) \in Reading}
<1>0. n \in Nat /\ Len(s) \in Nat /\ 1 \in 1 .. n
  BY StatementTyped
<1>1. Before(s, 1) = Scanner
  BY AfterStep DEF Before
<1>2. ASSUME NEW i \in 1 .. Len(s) PROVE Before(s, i + 1) = Read(s, Before(s, i), i)
  <2>1. (i + 1) - 1 = i
    BY <1>0
  <2> QED
    BY <2>1, AfterStep DEF Before
<1>3. Scanner \in Reading
  <2>1. <<>> \in Seq(Symbols)
    OBVIOUS
  <2> QED
    BY <2>1 DEF Scanner, Reading, Modes
<1>4. ASSUME NEW j \in 1 .. n, j \in S, j < n PROVE j + 1 \in S
  <2>1. j \in 1 .. Len(s) /\ j + 1 \in 1 .. n
    BY <1>0, <1>4
  <2> QED
    BY <1>2, <1>4, <2>1, ReadTyped
<1>5. 1 .. n \subseteq S
  <2>1. 1 \in S
    BY <1>0, <1>1, <1>3
  <2> HIDE DEF S, n
  <2> QED
    BY <1>0, <1>4, <2>1, RangeInduction
<1> QED
  BY <1>1, <1>2, <1>5 DEF Positions

(* At a place that is read as code, and not the second half of a pair.     *)
InCode(st) == st.mode = "code" /\ st.skip = FALSE
Clear(s, i) == InCode(Before(s, i))

(* Two states that agree on the separator and on what came behind it.      *)
SameMarks(a, b) == a.ended = b.ended /\ a.batch = b.batch

(* A symbol of the code.                                                   *)
LEMMA ReadCode ==
    ASSUME NEW s \in Statement, NEW st \in Reading, NEW i \in 1 .. Len(s), InCode(st),
           ~OpensLine(s, i), ~OpensBlock(s, i)
    PROVE  /\ Read(s, st, i).mode = (IF s[i] \in Openers THEN s[i] ELSE "code")
           /\ Read(s, st, i).skip = FALSE
           /\ Read(s, st, i).code = Append(st.code, s[i])
           /\ Read(s, st, i).ended = (st.ended \/ s[i] = ";")
           /\ Read(s, st, i).batch = (st.batch \/ (st.ended /\ s[i] \notin Spaces))
<1>1. Read(s, st, i) = [st EXCEPT !.mode = IF s[i] \in Openers THEN s[i] ELSE "code",
                                  !.code = Append(@, s[i]),
                                  !.ended = @ \/ s[i] = ";",
                                  !.batch = @ \/ (st.ended /\ s[i] \notin Spaces)]
  BY DEF Read, InCode
<1>2. PICK ended : ended = (st.ended \/ s[i] = ";")
  OBVIOUS
<1>3. PICK batch : batch = (st.batch \/ (st.ended /\ s[i] \notin Spaces))
  OBVIOUS
<1>4. Read(s, st, i) = [st EXCEPT !.mode = IF s[i] \in Openers THEN s[i] ELSE "code",
                                  !.code = Append(st.code, s[i]),
                                  !.ended = ended, !.batch = batch]
  BY <1>1, <1>2, <1>3, Zenon
<1>5. /\ Read(s, st, i).mode = (IF s[i] \in Openers THEN s[i] ELSE "code")
      /\ Read(s, st, i).skip = FALSE
      /\ Read(s, st, i).code = Append(st.code, s[i])
      /\ Read(s, st, i).ended = ended
      /\ Read(s, st, i).batch = batch
  BY <1>4 DEF Reading, InCode
<1> QED
  BY <1>2, <1>3, <1>5

(* What the reading is in a comment that began in a state.                 *)
Comment(st, mode) == [mode |-> mode, skip |-> FALSE, code |-> Append(st.code, " "),
                      ended |-> st.ended, batch |-> st.batch]

LEMMA CommentMarks ==
    ASSUME NEW st, NEW mode
    PROVE  /\ SameMarks(Comment(st, mode), st)
           /\ Comment(st, mode).mode = mode
           /\ Comment(st, mode).code = Append(st.code, " ")
BY DEF SameMarks, Comment

(* The two symbols that start a comment put the reading in it.             *)
LEMMA CommentOpens ==
    ASSUME NEW s \in Statement, NEW i \in 1 .. Len(s), Clear(s, i),
           NEW mode \in {"line", "block"},
           IF mode = "line" THEN OpensLine(s, i) ELSE OpensBlock(s, i)
    PROVE  i + 2 \in Positions(s) /\ Before(s, i + 2) = Comment(Before(s, i), mode)
<1>1. i \in Nat /\ i \in 1 .. Len(s) /\ i + 1 \in 1 .. Len(s) /\ Len(s) \in Nat
  BY CommentInside, StatementTyped
<1>2. i + 2 \in Positions(s) /\ i \in Positions(s) /\ i + 1 \in Positions(s) /\ (i + 1) + 1 = i + 2
  BY <1>1 DEF Positions
<1>3. PICK st \in Reading : st = Before(s, i)
  BY <1>2, BeforeStep
<1>4. Before(s, i + 1) = [st EXCEPT !.mode = mode, !.skip = TRUE, !.code = Append(st.code, " ")]
  <2>1. Before(s, i + 1) = Read(s, st, i)
    BY <1>3, BeforeStep
  <2>2. OpensLine(s, i) => ~OpensBlock(s, i)
    BY DEF OpensLine, OpensBlock
  <2>3. st.mode = "code" /\ st.skip = FALSE
    BY <1>3 DEF Clear, InCode
  <2> QED
    BY <2>1, <2>2, <2>3 DEF Read
<1>5. Before(s, i + 2) = Read(s, Before(s, i + 1), i + 1)
  BY <1>1, <1>2, BeforeStep
<1>6. Before(s, i + 1).skip = TRUE
  BY <1>4 DEF Reading
<1>7. Before(s, i + 2) = [Before(s, i + 1) EXCEPT !.skip = FALSE]
  BY <1>5, <1>6 DEF Read
<1>8. Before(s, i + 2) = Comment(st, mode)
  BY <1>4, <1>7 DEF Reading, Comment
<1> QED
  BY <1>2, <1>3, <1>8

(* A line comment is read to its newline, or to the end.                   *)
LEMMA LineRead ==
    ASSUME NEW s \in Statement, NEW i \in 1 .. Len(s), Clear(s, i), OpensLine(s, i)
    PROVE  LET nl == Newline(s, i) IN
           /\ nl \in (i + 2) .. (Len(s) + 1)
           /\ Before(s, nl) = Comment(Before(s, i), "line")
           /\ nl <= Len(s) => Before(s, nl + 1) = [Comment(Before(s, i), "line") EXCEPT !.mode = "code"]
<1>1. i \in Nat /\ i + 1 \in 1 .. Len(s) /\ Len(s) \in Nat /\ s[i] # "newline" /\ s[i + 1] # "newline"
  <2>1. i \in Nat /\ i + 1 \in 1 .. Len(s) /\ Len(s) \in Nat
    BY CommentInside, StatementTyped
  <2>2. /\ Pair(s, i) = <<"/", "/">> => s[i] = "/" /\ s[i + 1] = "/"
        /\ Pair(s, i) = <<"-", "-">> => s[i] = "-" /\ s[i + 1] = "-"
    BY <2>1, PairInside DEF Symbols
  <2> QED
    BY <2>1, <2>2 DEF OpensLine
<1>2. PICK nl : nl = Newline(s, i)
  OBVIOUS
<1>3. /\ nl \in 1 .. (Len(s) + 1)
      /\ nl <= Len(s) => i <= nl /\ s[nl] = "newline"
      /\ \A k \in i .. Len(s) : s[k] = "newline" => nl <= k
  <2>1. 1 <= i
    BY <1>1
  <2> QED
    BY <1>1, <1>2, <2>1, NewlineFound
<1>4. nl \in (i + 2) .. (Len(s) + 1)
  <2>1. nl # i /\ nl # i + 1
    BY <1>1, <1>3
  <2> QED
    BY <1>1, <1>3, <2>1
<1>5. PICK st : st = Comment(Before(s, i), "line")
  OBVIOUS
<1>6. st \in Reading /\ st.mode = "line" /\ st.skip = FALSE /\ Before(s, i + 2) = st
  <2>1. Before(s, i + 2) = st /\ i + 2 \in Positions(s)
    BY <1>5, CommentOpens
  <2>2. st \in Reading
    BY <2>1, BeforeStep
  <2>3. st.mode = "line" /\ st.skip = FALSE
    BY <1>5 DEF Comment
  <2> QED
    BY <2>1, <2>2, <2>3
<1> DEFINE S == {j \in (i + 2) .. nl : Before(s, j) = st}
<1>7. ASSUME NEW j \in (i + 2) .. nl, j \in S, j < nl PROVE j + 1 \in S
  <2>1. j \in 1 .. Len(s) /\ j \in i .. Len(s) /\ j + 1 \in (i + 2) .. nl /\ ~(nl <= j)
    BY <1>1, <1>4, <1>7
  <2>2. s[j] # "newline"
    BY <1>3, <2>1
  <2>3. Before(s, j + 1) = Read(s, st, j)
    BY <1>7, <2>1, BeforeStep
  <2>4. Read(s, st, j) = [st EXCEPT !.mode = st.mode]
    BY <1>6, <2>2 DEF Read
  <2>5. Read(s, st, j) = st
    BY <1>6, <2>4 DEF Reading
  <2> QED
    BY <2>1, <2>3, <2>5
<1>8. (i + 2) .. nl \subseteq S
  <2>1. i + 2 \in S /\ i + 2 \in Nat /\ nl \in Nat
    BY <1>1, <1>4, <1>6
  <2> HIDE DEF S
  <2> QED
    BY <1>7, <2>1, RangeInduction
<1>9. Before(s, nl) = st
  BY <1>1, <1>4, <1>8
<1>10. nl <= Len(s) => Before(s, nl + 1) = [st EXCEPT !.mode = "code"]
  <2>1. SUFFICES ASSUME nl <= Len(s) PROVE Before(s, nl + 1) = [st EXCEPT !.mode = "code"]
    OBVIOUS
  <2>2. nl \in 1 .. Len(s) /\ s[nl] = "newline"
    BY <1>1, <1>3, <2>1
  <2>3. Before(s, nl + 1) = Read(s, st, nl)
    BY <1>9, <2>2, BeforeStep
  <2> QED
    BY <1>6, <2>2, <2>3 DEF Read
<1> QED
  BY <1>2, <1>4, <1>5, <1>9, <1>10

(* A block comment is read past its close, or to the end.                  *)
LEMMA BlockRead ==
    ASSUME NEW s \in Statement, NEW i \in 1 .. Len(s), Clear(s, i), OpensBlock(s, i)
    PROVE  LET close == BlockClose(s, i + 2) IN
           /\ close \in (i + 2) .. (Len(s) + 1)
           /\ Before(s, close) = Comment(Before(s, i), "block")
           /\ close <= Len(s) =>
                 /\ close + 2 \in Positions(s)
                 /\ Before(s, close + 2) = [Comment(Before(s, i), "block") EXCEPT !.mode = "code"]
<1>1. i \in Nat /\ i + 1 \in 1 .. Len(s) /\ Len(s) \in Nat
  BY CommentInside, StatementTyped
<1>2. PICK close : close = BlockClose(s, i + 2)
  OBVIOUS
<1>3. /\ close \in 1 .. (Len(s) + 1)
      /\ close <= Len(s) => i + 2 <= close /\ Pair(s, close) = <<"*", "/">>
      /\ \A k \in (i + 2) .. Len(s) : Pair(s, k) = <<"*", "/">> => close <= k
  <2>1. i + 2 \in Nat /\ 1 <= i + 2
    BY <1>1
  <2> QED
    BY <1>2, <2>1, BlockCloseFound
<1>4. close \in (i + 2) .. (Len(s) + 1)
  BY <1>1, <1>3
<1>5. PICK st : st = Comment(Before(s, i), "block")
  OBVIOUS
<1>6. st \in Reading /\ st.mode = "block" /\ st.skip = FALSE /\ Before(s, i + 2) = st
  <2>1. Before(s, i + 2) = st /\ i + 2 \in Positions(s)
    BY <1>5, CommentOpens
  <2>2. st \in Reading
    BY <2>1, BeforeStep
  <2>3. st.mode = "block" /\ st.skip = FALSE
    BY <1>5 DEF Comment
  <2> QED
    BY <2>1, <2>2, <2>3
<1> DEFINE S == {j \in (i + 2) .. close : Before(s, j) = st}
<1>7. ASSUME NEW j \in (i + 2) .. close, j \in S, j < close PROVE j + 1 \in S
  <2>1. j \in 1 .. Len(s) /\ j \in (i + 2) .. Len(s) /\ j + 1 \in (i + 2) .. close /\ ~(close <= j)
    BY <1>1, <1>4, <1>7
  <2>2. Pair(s, j) # <<"*", "/">>
    BY <1>3, <2>1
  <2>3. Before(s, j + 1) = Read(s, st, j)
    BY <1>7, <2>1, BeforeStep
  <2>4. Read(s, st, j) = st
    BY <1>6, <2>2 DEF Read
  <2> QED
    BY <2>1, <2>3, <2>4
<1>8. (i + 2) .. close \subseteq S
  <2>1. i + 2 \in S /\ i + 2 \in Nat /\ close \in Nat
    BY <1>1, <1>4, <1>6
  <2> HIDE DEF S
  <2> QED
    BY <1>7, <2>1, RangeInduction
<1>9. Before(s, close) = st
  BY <1>1, <1>4, <1>8
<1>10. ASSUME close <= Len(s)
       PROVE  close + 2 \in Positions(s) /\ Before(s, close + 2) = [st EXCEPT !.mode = "code"]
  <2>2. close \in 1 .. Len(s) /\ Pair(s, close) = <<"*", "/">> /\ close \in Nat
    BY <1>1, <1>3, <1>10
  <2>3. close + 1 \in 1 .. Len(s)
    BY <2>2, PairInside DEF Symbols
  <2>4. close + 2 \in Positions(s) /\ (close + 1) + 1 = close + 2
    BY <1>1, <2>2, <2>3 DEF Positions
  <2>5. Before(s, close + 1) = [st EXCEPT !.mode = "code", !.skip = TRUE]
    <3>1. Before(s, close + 1) = Read(s, st, close)
      BY <1>9, <2>2, BeforeStep
    <3> QED
      BY <1>6, <2>2, <3>1 DEF Read
  <2>6. Before(s, close + 2) = Read(s, Before(s, close + 1), close + 1)
    BY <2>3, <2>4, BeforeStep
  <2>7. Before(s, close + 2) = [Before(s, close + 1) EXCEPT !.skip = FALSE]
    <3>1. Before(s, close + 1).skip = TRUE
      BY <1>6, <2>5 DEF Reading
    <3> QED
      BY <2>6, <3>1 DEF Read
  <2>8. Before(s, close + 2) = [st EXCEPT !.mode = "code"]
    BY <1>6, <2>5, <2>7 DEF Reading
  <2> QED
    BY <2>4, <2>8
<1> QED
  BY <1>2, <1>4, <1>5, <1>9, <1>10

(* A quoted literal is read to where PastQuoted says it ends, as code from *)
(* there on or, at the end of the statement, still as a literal.           *)
LEMMA QuotedRead ==
    ASSUME NEW s \in Statement, NEW i \in Positions(s),
           Before(s, i).mode \in Openers, Before(s, i).skip = FALSE
    PROVE  LET p == PastQuoted(s, i, Closing(Before(s, i).mode)) IN
           /\ p \in i .. (Len(s) + 1)
           /\ SameMarks(Before(s, p), Before(s, i))
           /\ Clear(s, p) \/ (p = Len(s) + 1 /\ Before(s, p).mode \in Openers)
<1>0. PICK st \in Reading : st = Before(s, i)
  BY BeforeStep
<1>a. st.mode \in Openers /\ st.skip = FALSE
  BY <1>0
<1>b. PICK quote \in Symbols : quote = Closing(st.mode)
  BY <1>a DEF Openers, Closing, Symbols
<1> DEFINE n == Len(s) + 1
           P(j) == PastQuoted(s, j, quote)
           Good(j) == Before(s, j) = st =>
                         /\ SameMarks(Before(s, P(j)), st)
                         /\ Clear(s, P(j)) \/ (P(j) = n /\ Before(s, P(j)).mode \in Openers)
           S == {j \in 1 .. n : Good(j)}
<1>1. n \in Nat /\ Len(s) \in Nat
  BY StatementTyped
<1> HIDE DEF n
<1>2. ASSUME NEW j \in 1 .. n, Behind(j, n) \subseteq S PROVE Good(j)
  <2>0. SUFFICES ASSUME Before(s, j) = st
                 PROVE  /\ SameMarks(Before(s, P(j)), st)
                        /\ Clear(s, P(j)) \/ (P(j) = n /\ Before(s, P(j)).mode \in Openers)
    OBVIOUS
  <2>1. P(j) = IF j > Len(s) THEN j
               ELSE IF s[j] # quote THEN P(j + 1)
               ELSE IF At(s, j + 1) = quote THEN P(j + 2) ELSE j + 1
    <3> HIDE DEF P
    <3> QED
      BY PastQuotedStep DEF Positions, n, P
  <2> HIDE DEF P
  <2>2. CASE j > Len(s)
    <3>1. j = n /\ P(j) = j
      BY <1>1, <2>1, <2>2 DEF n
    <3> QED
      BY <1>a, <2>0, <3>1 DEF SameMarks
  <2>3. CASE ~(j > Len(s))
    <3>0. j \in 1 .. Len(s) /\ j + 1 \in Behind(j, n)
      BY <1>1, <2>3 DEF n, Behind
    <3>1. Before(s, j + 1) = Read(s, st, j)
      BY <2>0, <3>0, BeforeStep
    <3>m. st.mode \notin {"code", "line", "block"}
      BY <1>a DEF Openers
    <3>2. CASE s[j] # quote
      <4>1. Read(s, st, j) = st
        BY <1>a, <1>b, <3>2, <3>m DEF Read
      <4>2. Good(j + 1)
        BY <1>2, <3>0
      <4> QED
        BY <2>1, <2>3, <3>1, <3>2, <4>1, <4>2
    <3>3. CASE s[j] = quote /\ At(s, j + 1) = quote
      <4>1. Before(s, j + 1) = [st EXCEPT !.skip = TRUE]
        BY <1>a, <1>b, <3>1, <3>3, <3>m DEF Read
      <4>2. j + 1 \in 1 .. Len(s)
        BY <3>3, StatementTyped DEF At, Symbols
      <4>3. j + 2 \in Behind(j, n) /\ (j + 1) + 1 = j + 2
        BY <1>1, <4>2 DEF n, Behind
      <4>4. Before(s, j + 2) = Read(s, Before(s, j + 1), j + 1)
        BY <4>2, <4>3, BeforeStep
      <4>5. Before(s, j + 2) = [Before(s, j + 1) EXCEPT !.skip = FALSE]
        <5>1. Before(s, j + 1).skip = TRUE
          BY <4>1 DEF Reading
        <5> QED
          BY <4>4, <5>1 DEF Read
      <4>6. Before(s, j + 2) = st
        BY <1>a, <4>1, <4>5 DEF Reading
      <4>7. Good(j + 2)
        BY <1>2, <4>3
      <4> QED
        BY <2>1, <2>3, <3>3, <4>6, <4>7
    <3>4. CASE s[j] = quote /\ At(s, j + 1) # quote
      <4>1. Before(s, j + 1) = [st EXCEPT !.mode = "code"]
        BY <1>a, <1>b, <3>1, <3>4, <3>m DEF Read
      <4>2. P(j) = j + 1
        BY <2>1, <2>3, <3>4
      <4>3. InCode(Before(s, j + 1)) /\ SameMarks(Before(s, j + 1), st)
        BY <1>a, <4>1 DEF Reading, InCode, SameMarks
      <4> QED
        BY <4>2, <4>3 DEF Clear
    <3> QED
      BY <3>2, <3>3, <3>4
  <2> QED
    BY <2>2, <2>3
<1>3. 1 .. n \subseteq S
  <2> HIDE DEF Good
  <2>1. ASSUME NEW j \in 1 .. n, Behind(j, n) \subseteq S PROVE j \in S
    BY <1>2, <2>1
  <2> HIDE DEF S
  <2> QED
    BY <1>1, <2>1, DownwardInduction
<1>4. Good(i)
  BY <1>3 DEF Positions, n
<1>5. P(i) \in i .. (Len(s) + 1)
  BY PastQuotedTyped
<1> QED
  BY <1>0, <1>b, <1>4, <1>5 DEF n

-----------------------------------------------------------------------------
(* White space and comments.                                               *)

(* Code that is white space only.                                          *)
Inkless(code) == \A k \in 1 .. Len(code) : code[k] \in Spaces

LEMMA BlankAppend ==
    ASSUME NEW code \in Seq(Symbols), NEW c \in Spaces, Inkless(code)
    PROVE  Inkless(Append(code, c))
<1>1. c \in Symbols /\ Len(code) \in Nat
  BY LenProperties DEF Spaces, Symbols
<1>2. PICK t : t = Append(code, c)
  OBVIOUS
<1>3. Len(t) = Len(code) + 1 /\ t[Len(code) + 1] = c /\ \A k \in 1 .. Len(code) : t[k] = code[k]
  BY <1>1, <1>2, AppendProperties
<1>4. ASSUME NEW k \in 1 .. Len(t) PROVE t[k] \in Spaces
  <2>1. k \in 1 .. Len(code) \/ k = Len(code) + 1
    BY <1>1, <1>3
  <2> QED
    BY <1>3, <2>1 DEF Inkless
<1> QED
  BY <1>2, <1>4 DEF Inkless

(* What SkipTrivia passes adds nothing but white space to the code and     *)
(* leaves the marks; it stops at a symbol of the code or at the end, and   *)
(* says no exactly when a block comment is still open there.               *)
Skipped(s, j, t) ==
    /\ SameMarks(Before(s, t.at), Before(s, j))
    /\ Inkless(Before(s, j).code) => Inkless(Before(s, t.at).code)
    /\ t.ok = TRUE =>
          \/ /\ Clear(s, t.at)
             /\ t.at <= Len(s) =>
                   s[t.at] \notin Spaces /\ ~OpensLine(s, t.at) /\ ~OpensBlock(s, t.at)
          \/ t.at = Len(s) + 1 /\ Before(s, t.at).mode = "line"
    /\ t.ok = FALSE => t.at = Len(s) + 1 /\ Before(s, t.at).mode = "block"

(* Skipping goes on from a place with the same marks and no less white.    *)
LEMMA SkippedOn ==
    ASSUME NEW s, NEW j, NEW k, NEW t, Skipped(s, k, t),
           SameMarks(Before(s, k), Before(s, j)),
           Inkless(Before(s, j).code) => Inkless(Before(s, k).code)
    PROVE  Skipped(s, j, t)
BY DEF Skipped, SameMarks

LEMMA TriviaRead ==
    ASSUME NEW s \in Statement, NEW i \in Positions(s), Clear(s, i)
    PROVE  Skipped(s, i, SkipTrivia(s, i))
<1> DEFINE n == Len(s) + 1
           Good(j) == Clear(s, j) => Skipped(s, j, SkipTrivia(s, j))
           S == {j \in 1 .. n : Good(j)}
<1>1. n \in Nat /\ Len(s) \in Nat
  BY StatementTyped
<1> HIDE DEF n
<1>2. ASSUME NEW j \in 1 .. n, Behind(j, n) \subseteq S PROVE Good(j)
  <2>0. SUFFICES ASSUME Clear(s, j) PROVE Skipped(s, j, SkipTrivia(s, j))
    OBVIOUS
  <2>a. PICK st \in Reading : st = Before(s, j)
    BY BeforeStep DEF Positions, n
  <2>b. InCode(st) /\ j \in Positions(s) /\ j \in Nat
    BY <1>1, <2>0, <2>a DEF Clear, Positions, n
  <2>c. ASSUME NEW c \in Spaces, Inkless(st.code) PROVE Inkless(Append(st.code, c))
    BY <2>c, BlankAppend DEF Reading
  <2>1. CASE At(s, j) \in Spaces
    <3>1. j \in 1 .. Len(s) /\ s[j] \in Spaces
      BY <2>1, StatementTyped DEF At, Spaces
    <3>2. j + 1 \in Behind(j, n) /\ j + 1 \in 1 .. n
      BY <1>1, <3>1 DEF n, Behind
    <3>3. ~OpensLine(s, j) /\ ~OpensBlock(s, j)
      BY <2>b, <3>1, CommentInside DEF Spaces
    <3>4. PICK r : r = Read(s, st, j)
      OBVIOUS
    <3>5. /\ r.mode = "code" /\ r.skip = FALSE /\ r.code = Append(st.code, s[j])
          /\ r.ended = (st.ended \/ s[j] = ";")
          /\ r.batch = (st.batch \/ (st.ended /\ s[j] \notin Spaces))
      <4>1. s[j] \notin Openers
        BY <3>1 DEF Spaces, Openers
      <4> QED
        BY <2>b, <3>1, <3>3, <3>4, <4>1, ReadCode
    <3>6. r = Before(s, j + 1)
      BY <2>a, <3>1, <3>4, BeforeStep
    <3>7. Clear(s, j + 1) /\ SameMarks(r, st)
      <4>1. s[j] # ";"
        BY <3>1 DEF Spaces
      <4>2. st.ended \in BOOLEAN /\ st.batch \in BOOLEAN
        BY DEF Reading
      <4> QED
        BY <3>1, <3>5, <3>6, <4>1, <4>2 DEF Clear, InCode, SameMarks
    <3>8. Skipped(s, j + 1, SkipTrivia(s, j + 1))
      BY <1>2, <3>2, <3>7
    <3>9. Inkless(st.code) => Inkless(r.code)
      BY <2>c, <3>1, <3>5
    <3>10. SkipTrivia(s, j) = SkipTrivia(s, j + 1)
      BY <2>1, <2>b, SkipTriviaStep
    <3> QED
      BY <2>a, <3>6, <3>7, <3>8, <3>9, <3>10, SkippedOn
  <2>d. /\ Inkless(st.code) => Inkless(Comment(st, "line").code)
        /\ Inkless(st.code) => Inkless(Comment(st, "block").code)
    <3>1. Inkless(st.code) => Inkless(Append(st.code, " "))
      BY <2>c DEF Spaces
    <3> QED
      BY <3>1 DEF Comment
  <2>2. CASE At(s, j) \notin Spaces /\ OpensLine(s, j)
    <3>0. j \in 1 .. Len(s)
      BY <2>2, <2>b, CommentInside
    <3>1. PICK nl : nl = Newline(s, j)
      OBVIOUS
    <3>2. /\ nl \in (j + 2) .. (Len(s) + 1)
          /\ Before(s, nl) = Comment(st, "line")
          /\ nl <= Len(s) => Before(s, nl + 1) = [Comment(st, "line") EXCEPT !.mode = "code"]
      BY <2>0, <2>2, <2>a, <3>0, <3>1, LineRead
    <3>3. SkipTrivia(s, j) = IF nl > Len(s) THEN [ok |-> TRUE, at |-> nl]
                             ELSE SkipTrivia(s, nl + 1)
      BY <2>2, <2>b, <3>1, SkipTriviaStep
    <3>4. CASE nl > Len(s)
      <4>1. SkipTrivia(s, j).ok = TRUE /\ SkipTrivia(s, j).at = nl /\ nl = Len(s) + 1
        <5>1. SkipTrivia(s, j) = [ok |-> TRUE, at |-> nl]
          BY <3>3, <3>4
        <5>2. nl = Len(s) + 1
          BY <1>1, <2>b, <3>2, <3>4
        <5> QED
          BY <5>1, <5>2
      <4>2. SameMarks(Before(s, nl), st) /\ Before(s, nl).mode = "line"
        <5>1. SameMarks(Comment(st, "line"), st) /\ Comment(st, "line").mode = "line"
          BY CommentMarks
        <5>2. Before(s, nl) = Comment(st, "line")
          BY <3>2
        <5> QED
          BY <5>1, <5>2, Zenon
      <4>3. Inkless(st.code) => Inkless(Before(s, nl).code)
        BY <2>d, <3>2
      <4> QED
        BY <2>a, <4>1, <4>2, <4>3, Zenon DEF Skipped
    <3>5. CASE ~(nl > Len(s))
      <4>1. nl + 1 \in Behind(j, n) /\ nl <= Len(s)
        BY <1>1, <2>b, <3>2, <3>5 DEF n, Behind
      <4>2. PICK r : r = Before(s, nl + 1)
        OBVIOUS
      <4>3. r = [Comment(st, "line") EXCEPT !.mode = "code"]
        BY <3>2, <4>1, <4>2
      <4>4. InCode(r) /\ SameMarks(r, st) /\ r.code = Comment(st, "line").code
        BY <4>3 DEF Comment, InCode, SameMarks
      <4>5. Skipped(s, nl + 1, SkipTrivia(s, nl + 1))
        BY <1>2, <4>1, <4>2, <4>4 DEF Clear
      <4> QED
        BY <2>a, <2>d, <3>3, <3>5, <4>2, <4>4, <4>5, SkippedOn
    <3> QED
      BY <3>4, <3>5
  <2>3. CASE At(s, j) \notin Spaces /\ ~OpensLine(s, j) /\ OpensBlock(s, j)
    <3>0. j \in 1 .. Len(s)
      BY <2>3, <2>b, CommentInside
    <3>1. PICK close : close = BlockClose(s, j + 2)
      OBVIOUS
    <3>2. /\ close \in (j + 2) .. (Len(s) + 1)
          /\ Before(s, close) = Comment(st, "block")
          /\ close <= Len(s) =>
                /\ close + 2 \in Positions(s)
                /\ Before(s, close + 2) = [Comment(st, "block") EXCEPT !.mode = "code"]
      BY <2>0, <2>3, <2>a, <3>0, <3>1, BlockRead
    <3>3. SkipTrivia(s, j) = IF close > Len(s) THEN [ok |-> FALSE, at |-> close]
                             ELSE SkipTrivia(s, close + 2)
      BY <2>3, <2>b, <3>1, SkipTriviaStep
    <3>4. CASE close > Len(s)
      <4>1. SkipTrivia(s, j).ok = FALSE /\ SkipTrivia(s, j).at = close /\ close = Len(s) + 1
        <5>1. SkipTrivia(s, j) = [ok |-> FALSE, at |-> close]
          BY <3>3, <3>4
        <5>2. close = Len(s) + 1
          BY <1>1, <2>b, <3>2, <3>4
        <5> QED
          BY <5>1, <5>2
      <4>2. SameMarks(Before(s, close), st) /\ Before(s, close).mode = "block"
        <5>1. SameMarks(Comment(st, "block"), st) /\ Comment(st, "block").mode = "block"
          BY CommentMarks
        <5>2. Before(s, close) = Comment(st, "block")
          BY <3>2
        <5> QED
          BY <5>1, <5>2, Zenon
      <4>3. Inkless(st.code) => Inkless(Before(s, close).code)
        BY <2>d, <3>2
      <4> QED
        BY <2>a, <4>1, <4>2, <4>3, Zenon DEF Skipped
    <3>5. CASE ~(close > Len(s))
      <4>1. close + 2 \in Behind(j, n) /\ close <= Len(s)
        BY <1>1, <2>b, <3>2, <3>5 DEF n, Behind, Positions
      <4>2. PICK r : r = Before(s, close + 2)
        OBVIOUS
      <4>3. r = [Comment(st, "block") EXCEPT !.mode = "code"]
        BY <3>2, <4>1, <4>2
      <4>4. InCode(r) /\ SameMarks(r, st) /\ r.code = Comment(st, "block").code
        BY <4>3 DEF Comment, InCode, SameMarks
      <4>5. Skipped(s, close + 2, SkipTrivia(s, close + 2))
        BY <1>2, <4>1, <4>2, <4>4 DEF Clear
      <4> QED
        BY <2>a, <2>d, <3>3, <3>5, <4>2, <4>4, <4>5, SkippedOn
    <3> QED
      BY <3>4, <3>5
  <2>4. CASE At(s, j) \notin Spaces /\ ~OpensLine(s, j) /\ ~OpensBlock(s, j)
    <3>1. PICK t : t = SkipTrivia(s, j)
      OBVIOUS
    <3>2. t.ok = TRUE /\ t.at = j
      BY <2>4, <2>b, <3>1, SkipTriviaStep
    <3>3. j <= Len(s) => s[j] \notin Spaces
      BY <2>4, <2>b, StatementTyped DEF At, Positions
    <3>4. Skipped(s, j, t)
      BY <2>0, <2>4, <3>2, <3>3 DEF Skipped, SameMarks
    <3> QED
      BY <3>1, <3>4
  <2> QED
    BY <2>1, <2>2, <2>3, <2>4
<1>3. 1 .. n \subseteq S
  <2> HIDE DEF Good
  <2>1. ASSUME NEW j \in 1 .. n, Behind(j, n) \subseteq S PROVE j \in S
    BY <1>2, <2>1
  <2> HIDE DEF S
  <2> QED
    BY <1>1, <2>1, DownwardInduction
<1> QED
  BY <1>3 DEF Positions, n

-----------------------------------------------------------------------------
(* What has been read stays read.                                          *)

Grows(a, b) ==
    /\ a.batch = TRUE => b.batch = TRUE
    /\ Len(a.code) <= Len(b.code)
    /\ \A k \in 1 .. Len(a.code) : b.code[k] = a.code[k]

LEMMA ReadGrows ==
    ASSUME NEW s \in Statement, NEW st \in Reading, NEW i \in 1 .. Len(s)
    PROVE  Grows(st, Read(s, st, i))
<1>0. st.code \in Seq(Symbols) /\ Len(st.code) \in Nat /\ s[i] \in Symbols /\ " " \in Symbols
      /\ st.batch \in BOOLEAN
  <2>1. st.code \in Seq(Symbols) /\ st.batch \in BOOLEAN
    BY DEF Reading
  <2>2. Len(st.code) \in Nat
    BY <2>1, LenProperties
  <2>3. " " \in Symbols
    BY DEF Symbols
  <2> QED
    BY <2>1, <2>2, <2>3, StatementTyped
<1>1. PICK r : r = Read(s, st, i)
  OBVIOUS
<1>2. CASE ~InCode(st)
  <2>1. r.code = st.code /\ r.batch = st.batch
    <3>1. st.skip = TRUE \/ (st.skip = FALSE /\ st.mode # "code")
      BY <1>2 DEF InCode, Reading
    <3>2. \/ r = [st EXCEPT !.skip = FALSE]
          \/ r = [st EXCEPT !.mode = IF s[i] = "newline" THEN "code" ELSE @]
          \/ r = [st EXCEPT !.mode = "code", !.skip = TRUE]
          \/ r = st
          \/ r = [st EXCEPT !.skip = TRUE]
          \/ r = [st EXCEPT !.mode = "code"]
      BY <1>1, <3>1 DEF Read
    <3> QED
      BY <3>2 DEF Reading
  <2>2. Len(r.code) = Len(st.code) /\ Len(st.code) <= Len(st.code)
    <3>1. PICK m \in Nat : m = Len(st.code)
      BY <1>0
    <3>2. m <= m
      OBVIOUS
    <3> QED
      BY <2>1, <3>1, <3>2, Zenon
  <2> QED
    BY <1>1, <2>1, <2>2, Zenon DEF Grows
<1>3. ASSUME NEW c \in Symbols, r.code = Append(st.code, c), st.batch = TRUE => r.batch = TRUE
      PROVE  Grows(st, r)
  <2>0. PICK a \in Seq(Symbols) : a = st.code
    BY <1>0
  <2>1. PICK b : b = Append(a, c)
    OBVIOUS
  <2>2. Len(b) = Len(a) + 1 /\ \A k \in 1 .. Len(a) : b[k] = a[k]
    BY <2>1, AppendProperties
  <2>3. Len(a) <= Len(b)
    <3>1. PICK m \in Nat : m = Len(a)
      BY LenProperties
    <3>2. m <= m + 1
      OBVIOUS
    <3> QED
      BY <2>2, <3>1, <3>2, Zenon
  <2>4. r.code = b
    BY <1>3, <2>0, <2>1
  <2> QED
    BY <1>3, <2>0, <2>2, <2>3, <2>4, Zenon DEF Grows
<1>4. CASE InCode(st) /\ (OpensLine(s, i) \/ OpensBlock(s, i))
  <2>1. \/ r = [st EXCEPT !.mode = "line", !.skip = TRUE, !.code = Append(st.code, " ")]
        \/ r = [st EXCEPT !.mode = "block", !.skip = TRUE, !.code = Append(st.code, " ")]
    BY <1>1, <1>4 DEF Read, InCode
  <2>2. r.code = Append(st.code, " ") /\ r.batch = st.batch
    BY <2>1 DEF Reading
  <2> QED
    BY <1>0, <1>1, <1>3, <2>2
<1>5. CASE InCode(st) /\ ~(OpensLine(s, i) \/ OpensBlock(s, i))
  <2>1. /\ r.code = Append(st.code, s[i])
        /\ r.batch = (st.batch \/ (st.ended /\ s[i] \notin Spaces))
    BY <1>1, <1>5, ReadCode
  <2>2. st.batch = TRUE => r.batch = TRUE
    BY <2>1
  <2> QED
    BY <1>0, <1>1, <1>3, <2>1, <2>2
<1> QED
  BY <1>2, <1>4, <1>5

LEMMA LaterGrows ==
    ASSUME NEW s \in Statement, NEW i \in Positions(s), NEW j \in i .. (Len(s) + 1)
    PROVE  Grows(Before(s, i), Before(s, j))
<1> DEFINE n == Len(s) + 1
           S == {k \in i .. n : Grows(Before(s, i), Before(s, k))}
<1>0. n \in Nat /\ i \in Nat /\ Len(s) \in Nat /\ i \in 1 .. n
  BY StatementTyped DEF Positions
<1>1. i \in S
  <2>1. Len(Before(s, i).code) \in Nat
    BY BeforeStep, LenProperties DEF Reading
  <2> QED
    BY <1>0, <2>1 DEF Grows
<1>2. ASSUME NEW k \in i .. n, k \in S, k < n PROVE k + 1 \in S
  <2>1. k \in 1 .. Len(s) /\ k \in Positions(s) /\ k + 1 \in i .. n /\ k + 1 \in Positions(s)
    BY <1>0, <1>2 DEF Positions
  <2>2. PICK a \in Reading : a = Before(s, i)
    BY BeforeStep
  <2>3. PICK b \in Reading : b = Before(s, k)
    BY <2>1, BeforeStep
  <2>4. PICK c \in Reading : c = Before(s, k + 1)
    BY <2>1, BeforeStep
  <2>5. Grows(a, b) /\ Grows(b, c)
    BY <1>2, <2>1, <2>2, <2>3, <2>4, ReadGrows, BeforeStep
  <2>6. Len(a.code) \in Nat /\ Len(b.code) \in Nat /\ Len(c.code) \in Nat
    BY LenProperties DEF Reading
  <2>7. Grows(a, c)
    BY <2>5, <2>6 DEF Grows
  <2> QED
    BY <2>1, <2>2, <2>4, <2>7
<1>3. i .. n \subseteq S
  <2> HIDE DEF S, n
  <2> QED
    BY <1>0, <1>1, <1>2, RangeInduction
<1> QED
  BY <1>3

-----------------------------------------------------------------------------
(* The separator.                                                          *)

(* What one pass says of the separator at the end of the statement.        *)
OneStatement(s) == Before(s, Len(s) + 1).mode # "block" /\ Before(s, Len(s) + 1).batch = FALSE

(* From a place of the code before any separator, RejectStatementBatch     *)
(* returns exactly when one pass finds a single statement.                 *)
LEMMA SingleRead ==
    ASSUME NEW s \in Statement, NEW i \in Positions(s), Clear(s, i),
           Before(s, i).ended = FALSE, Before(s, i).batch = FALSE
    PROVE  Single(s, i) <=> OneStatement(s)
<1> DEFINE n == Len(s) + 1
           Fresh(j) == Clear(s, j) /\ Before(s, j).ended = FALSE /\ Before(s, j).batch = FALSE
           Good(j) == Fresh(j) => (Single(s, j) <=> OneStatement(s))
           S == {j \in 1 .. n : Good(j)}
<1>1. n \in Nat /\ Len(s) \in Nat /\ n \in Positions(s)
  BY StatementTyped DEF Positions
<1>2. Single(s, n)
  <2>1. n > Len(s)
    BY <1>1
  <2> QED
    BY <1>1, <2>1, SingleStep
<1> HIDE DEF n
<1>3. ASSUME Before(s, n).batch = FALSE, Before(s, n).mode # "block" PROVE OneStatement(s)
  BY <1>3 DEF OneStatement, n
<1>4. ASSUME NEW j \in 1 .. n, Behind(j, n) \subseteq S PROVE Good(j)
  <2>0. SUFFICES ASSUME Fresh(j) PROVE Single(s, j) <=> OneStatement(s)
    OBVIOUS
  <2>a. PICK st \in Reading : st = Before(s, j)
    BY BeforeStep DEF Positions, n
  <2>b. InCode(st) /\ st.ended = FALSE /\ st.batch = FALSE /\ j \in Positions(s) /\ j \in Nat
    BY <1>1, <2>0, <2>a DEF Clear, Positions, n
  <2>1. CASE j > Len(s)
    <3>1. j = n
      BY <1>1, <2>1 DEF n
    <3>2. OneStatement(s)
      BY <1>3, <2>a, <2>b, <3>1 DEF InCode
    <3> QED
      BY <1>2, <3>1, <3>2
  <2>c. ASSUME ~(j > Len(s)) PROVE j \in 1 .. Len(s) /\ j + 1 \in Behind(j, n) /\ j + 1 \in Positions(s)
    BY <1>1, <2>b, <2>c DEF n, Behind, Positions
  <2>2. CASE ~(j > Len(s)) /\ s[j] \in Openers
    <3>1. ~OpensLine(s, j) /\ ~OpensBlock(s, j) /\ s[j] # ";"
      BY <2>2, <2>b, CommentInside DEF Openers
    <3>2. PICK r : r = Before(s, j + 1)
      OBVIOUS
    <3>3. r = Read(s, st, j)
      BY <2>2, <2>a, <2>c, <3>2, BeforeStep
    <3>4. r.mode = s[j] /\ r.skip = FALSE /\ r.ended = (st.ended \/ s[j] = ";")
          /\ r.batch = (st.batch \/ (st.ended /\ s[j] \notin Spaces))
      BY <2>2, <2>b, <2>c, <3>1, <3>3, ReadCode
    <3>5. r.ended = FALSE /\ r.batch = FALSE
      BY <2>b, <3>1, <3>4
    <3>6. PICK p : p = PastQuoted(s, j + 1, Closing(s[j]))
      OBVIOUS
    <3>7. /\ p \in (j + 1) .. n
          /\ SameMarks(Before(s, p), r)
          /\ Clear(s, p) \/ (p = n /\ Before(s, p).mode \in Openers)
      BY <2>2, <2>c, <3>2, <3>4, <3>6, QuotedRead DEF n
    <3>8. Single(s, j) <=> Single(s, p)
      BY <2>2, <2>b, <3>6, SingleStep
    <3>9. CASE Clear(s, p)
      <4>1. Fresh(p) /\ p \in Behind(j, n)
        BY <3>5, <3>7, <3>9 DEF SameMarks, Behind
      <4>2. Good(p)
        BY <1>4, <4>1
      <4> QED
        BY <3>8, <4>1, <4>2
    <3>10. CASE p = n /\ Before(s, p).mode \in Openers
      <4>1. Before(s, n).mode # "block" /\ Before(s, n).batch = FALSE
        BY <3>5, <3>7, <3>10 DEF SameMarks, Openers
      <4> QED
        BY <1>2, <1>3, <3>8, <3>10, <4>1
    <3> QED
      BY <3>7, <3>9, <3>10
  <2>3. CASE ~(j > Len(s)) /\ s[j] \notin Openers /\ (OpensLine(s, j) \/ OpensBlock(s, j))
    <3>1. PICK t : t = SkipTrivia(s, j)
      OBVIOUS
    <3>2. Skipped(s, j, t) /\ t.at \in (j + 1) .. n /\ t.ok \in BOOLEAN
      BY <2>0, <2>3, <2>b, <3>1, TriviaRead, SkipTriviaTyped DEF n
    <3>3. Single(s, j) <=> t.ok /\ Single(s, t.at)
      BY <2>3, <2>b, <3>1, SingleStep
    <3>4. Before(s, t.at).ended = FALSE /\ Before(s, t.at).batch = FALSE
      BY <2>a, <2>b, <3>2 DEF Skipped, SameMarks
    <3>5. CASE t.ok = FALSE
      <4>1. Before(s, n).mode = "block"
        BY <3>2, <3>5 DEF Skipped, n
      <4> QED
        BY <3>3, <3>5, <4>1 DEF OneStatement, n
    <3>6. CASE t.ok = TRUE /\ Clear(s, t.at)
      <4>1. Fresh(t.at) /\ t.at \in Behind(j, n)
        BY <3>2, <3>4, <3>6 DEF Behind
      <4>2. Good(t.at)
        BY <1>4, <4>1
      <4> QED
        BY <3>3, <3>6, <4>1, <4>2
    <3>7. CASE t.ok = TRUE /\ t.at = n /\ Before(s, t.at).mode = "line"
      <4>1. OneStatement(s)
        BY <1>3, <3>4, <3>7
      <4> QED
        BY <1>2, <3>3, <3>7, <4>1
    <3>8. t.ok = TRUE => Clear(s, t.at) \/ (t.at = n /\ Before(s, t.at).mode = "line")
      BY <3>2 DEF Skipped, n
    <3> QED
      BY <3>2, <3>5, <3>6, <3>7, <3>8
  <2>4. CASE /\ ~(j > Len(s)) /\ s[j] \notin Openers /\ ~OpensLine(s, j) /\ ~OpensBlock(s, j)
    <3>1. PICK r : r = Before(s, j + 1)
      OBVIOUS
    <3>2. r = Read(s, st, j)
      BY <2>4, <2>a, <2>c, <3>1, BeforeStep
    <3>3. r.mode = "code" /\ r.skip = FALSE /\ r.ended = (st.ended \/ s[j] = ";")
          /\ r.batch = (st.batch \/ (st.ended /\ s[j] \notin Spaces))
      BY <2>4, <2>b, <2>c, <3>2, ReadCode
    <3>4. Clear(s, j + 1) /\ r.batch = FALSE /\ r.ended = (s[j] = ";")
      BY <2>b, <3>1, <3>3 DEF Clear, InCode
    <3>5. CASE s[j] # ";"
      <4>1. Fresh(j + 1) /\ j + 1 \in Behind(j, n)
        BY <2>4, <2>c, <3>1, <3>4, <3>5
      <4>2. Good(j + 1)
        BY <1>4, <4>1
      <4>3. Single(s, j) <=> Single(s, j + 1)
        BY <2>4, <2>b, <3>5, SingleStep
      <4> QED
        BY <4>1, <4>2, <4>3
    <3>6. CASE s[j] = ";"
      <4>1. PICK t : t = SkipTrivia(s, j + 1)
        OBVIOUS
      <4>2. Skipped(s, j + 1, t) /\ t.at \in (j + 1) .. n /\ t.ok \in BOOLEAN
        BY <2>4, <2>c, <3>4, <4>1, TriviaRead, SkipTriviaTyped DEF n
      <4>3. Single(s, j) <=> t.ok /\ t.at > Len(s)
        BY <2>4, <2>b, <3>6, <4>1, SingleStep
      <4>4. Before(s, t.at).ended = TRUE /\ Before(s, t.at).batch = FALSE
        BY <3>1, <3>4, <3>6, <4>2 DEF Skipped, SameMarks
      <4>5. CASE t.ok = FALSE
        <5>1. Before(s, n).mode = "block"
          BY <4>2, <4>5 DEF Skipped, n
        <5> QED
          BY <4>3, <4>5, <5>1 DEF OneStatement, n
      <4>6. CASE t.ok = TRUE /\ t.at > Len(s)
        <5>1. t.at = n
          BY <1>1, <2>b, <4>2, <4>6 DEF n
        <5>2. Before(s, n).mode # "block"
          BY <4>2, <4>6, <5>1 DEF Skipped, Clear, InCode
        <5> QED
          BY <1>3, <4>3, <4>4, <4>6, <5>1, <5>2
      <4>7. CASE t.ok = TRUE /\ ~(t.at > Len(s))
        <5>1. t.at \in 1 .. Len(s) /\ t.at \in Positions(s) /\ t.at # n /\ t.at <= Len(s)
              /\ t.at + 1 \in Positions(s) /\ n \in (t.at + 1) .. (Len(s) + 1)
          BY <1>1, <2>b, <4>2, <4>7 DEF n, Positions
        <5>2. Clear(s, t.at) /\ s[t.at] \notin Spaces /\ ~OpensLine(s, t.at) /\ ~OpensBlock(s, t.at)
          BY <4>2, <4>7, <5>1 DEF Skipped, n
        <5>3. PICK b \in Reading : b = Before(s, t.at)
          BY <5>1, BeforeStep
        <5>4. Before(s, t.at + 1).batch = (b.batch \/ (b.ended /\ s[t.at] \notin Spaces))
          <6>1. Before(s, t.at + 1) = Read(s, b, t.at) /\ InCode(b)
            BY <5>1, <5>2, <5>3, BeforeStep DEF Clear
          <6>2. Read(s, b, t.at).batch = (b.batch \/ (b.ended /\ s[t.at] \notin Spaces))
            <7>1. PICK k \in 1 .. Len(s) : k = t.at
              BY <5>1
            <7> QED
              BY <5>2, <6>1, <7>1, ReadCode
          <6> QED
            BY <6>1, <6>2, Zenon
        <5>5. Before(s, t.at + 1).batch = TRUE
          BY <4>4, <5>2, <5>3, <5>4
        <5>6. Before(s, n).batch = TRUE
          <6>1. Grows(Before(s, t.at + 1), Before(s, n))
            BY <5>1, LaterGrows
          <6> QED
            BY <5>5, <6>1 DEF Grows
        <5> QED
          BY <4>3, <4>7, <5>6 DEF OneStatement, n
      <4> QED
        BY <4>2, <4>5, <4>6, <4>7
    <3> QED
      BY <3>5, <3>6
  <2> QED
    BY <2>1, <2>2, <2>3, <2>4
<1>5. 1 .. n \subseteq S
  <2> HIDE DEF Good
  <2>1. ASSUME NEW j \in 1 .. n, Behind(j, n) \subseteq S PROVE j \in S
    BY <1>4, <2>1
  <2> HIDE DEF S
  <2> QED
    BY <1>1, <2>1, DownwardInduction
<1> QED
  BY <1>5 DEF Positions, n

-----------------------------------------------------------------------------
(* The keyword.                                                            *)

(* The run of letters at a place is the keyword when it is that symbol and *)
(* no letter follows it.                                                   *)
LEMMA KeywordRead ==
    ASSUME NEW s \in Statement, NEW a \in Positions(s)
    PROVE  LET end == Find(s, {j \in a .. Len(s) : s[j] \notin Letters}) IN
           SubSeq(s, a, end - 1) = <<"query">> <=>
              a <= Len(s) /\ s[a] = "query" /\ At(s, a + 1) \notin Letters
<1> DEFINE T == {j \in a .. Len(s) : s[j] \notin Letters}
<1>0. Len(s) \in Nat /\ a \in Nat /\ 1 <= a /\ a <= Len(s) + 1 /\ T \subseteq 1 .. Len(s)
  BY StatementTyped DEF Positions
<1>1. PICK e : e = Find(s, T)
  OBVIOUS
<1>2. /\ e \in 1 .. (Len(s) + 1)
      /\ T = {} => e = Len(s) + 1
      /\ T # {} => e \in T
      /\ \A k \in T : e <= k
  BY <1>0, <1>1, FindFirst DEF Statement
<1>3. e \in T \/ e = Len(s) + 1
  BY <1>2
<1>4. e \in a .. (Len(s) + 1)
  BY <1>0, <1>2, <1>3
<1>5. PICK w : w = SubSeq(s, a, e - 1)
  OBVIOUS
<1>6. Len(w) = e - a /\ \A x \in 1 .. (e - a) : w[x] = s[a + x - 1]
  <2>1. s \in Seq(Symbols) /\ a \in 1 .. (Len(s) + 1) /\ e - 1 \in (a - 1) .. Len(s)
    BY <1>0, <1>4 DEF Statement
  <2>2. Len(w) = (e - 1) - a + 1 /\ \A x \in 1 .. ((e - 1) - a + 1) : w[x] = s[a + x - 1]
    BY <1>5, <2>1, SubSeqProperties
  <2>3. (e - 1) - a + 1 = e - a
    BY <1>0, <1>4
  <2> QED
    BY <2>2, <2>3
<1>7. a + 1 \in 1 .. Len(s) <=> a + 1 <= Len(s)
  BY <1>0
<1>8. ASSUME w = <<"query">>
      PROVE  a <= Len(s) /\ s[a] = "query" /\ At(s, a + 1) \notin Letters
  <2>1. Len(w) = 1 /\ w[1] = "query"
    BY <1>8
  <2>2. e = a + 1 /\ 1 \in 1 .. (e - a) /\ a + 1 - 1 = a
    <3>1. e - a = 1
      BY <1>6, <2>1
    <3> QED
      BY <1>0, <1>4, <3>1
  <2>3. s[a] = "query"
    BY <1>6, <2>1, <2>2
  <2>4. a <= Len(s)
    BY <1>0, <1>4, <2>2
  <2>5. At(s, a + 1) \notin Letters
    <3>1. CASE e \in T
      BY <1>0, <1>7, <2>2, <3>1, StatementTyped DEF At
    <3>2. CASE e = Len(s) + 1
      <4>1. a + 1 \notin DOMAIN s
        BY <1>0, <2>2, <3>2, StatementTyped
      <4> QED
        BY <4>1 DEF At, Letters
    <3> QED
      BY <1>3, <3>1, <3>2
  <2> QED
    BY <2>3, <2>4, <2>5
<1>9. ASSUME a <= Len(s), s[a] = "query", At(s, a + 1) \notin Letters
      PROVE  w = <<"query">>
  <2>1. a \notin T
    BY <1>9 DEF Letters
  <2>2. e # a
    BY <1>0, <1>3, <1>9, <2>1
  <2>3. e <= a + 1
    <3>1. CASE a + 1 <= Len(s)
      <4>1. s[a + 1] \notin Letters /\ a + 1 \in a .. Len(s)
        BY <1>0, <1>7, <1>9, <3>1, StatementTyped DEF At
      <4> QED
        BY <1>2, <4>1
    <3>2. CASE ~(a + 1 <= Len(s))
      BY <1>0, <1>4, <3>2
    <3> QED
      BY <3>1, <3>2
  <2>4. e = a + 1
    BY <1>0, <1>4, <2>2, <2>3
  <2>5. w = SubSeq(s, a, a) /\ a \in 1 .. Len(s)
    <3>1. e - 1 = a
      BY <1>0, <2>4
    <3> QED
      BY <1>0, <1>5, <1>9, <3>1
  <2>6. SubSeq(s, a, a) = <<s[a]>>
    <3>1. Len(w) = 1 /\ w[1] = s[a]
      <4>1. e - a = 1 /\ 1 \in 1 .. 1 /\ a + 1 - 1 = a
        BY <1>0, <2>4
      <4> QED
        BY <1>6, <4>1
    <3>2. w \in Seq(Symbols)
      BY <1>0, <2>5, SubSeqProperties DEF Statement
    <3>3. PICK c \in Symbols : c = s[a]
      BY <2>5, StatementTyped
    <3>4. <<c>> \in Seq(Symbols) /\ Len(<<c>>) = 1 /\ <<c>>[1] = c
      OBVIOUS
    <3>5. w = <<c>>
      <4>1. \A x \in 1 .. Len(w) : w[x] = <<c>>[x]
        BY <3>1, <3>3, <3>4
      <4> QED
        BY <3>1, <3>2, <3>4, <4>1, SeqEqual
    <3> QED
      BY <2>5, <3>3, <3>5
  <2> QED
    BY <1>9, <2>5, <2>6
<1> QED
  BY <1>1, <1>5, <1>8, <1>9

(* The first symbol of the code that is not white space.                   *)
FirstInk(code) == Find(code, {j \in DOMAIN code : code[j] \notin Spaces})

LEMMA NoInk ==
    ASSUME NEW code \in Seq(Symbols), Inkless(code)
    PROVE  At(code, FirstInk(code)) = "end"
<1>1. DOMAIN code = 1 .. Len(code) /\ Len(code) \in Nat
  BY LenProperties
<1>2. {j \in DOMAIN code : code[j] \notin Spaces} = {}
  BY <1>1 DEF Inkless
<1>3. FirstInk(code) = Len(code) + 1
  BY <1>2 DEF FirstInk, Find
<1>4. FirstInk(code) \notin DOMAIN code
  BY <1>1, <1>3
<1> QED
  BY <1>4 DEF At

LEMMA InkFound ==
    ASSUME NEW code \in Seq(Symbols), NEW k \in 1 .. Len(code), code[k] \notin Spaces,
           \A x \in 1 .. Len(code) : x < k => code[x] \in Spaces
    PROVE  FirstInk(code) = k
<1> DEFINE T == {j \in DOMAIN code : code[j] \notin Spaces}
<1>1. DOMAIN code = 1 .. Len(code) /\ Len(code) \in Nat
  BY LenProperties
<1>2. k \in T /\ T \subseteq 1 .. Len(code) /\ T # {}
  BY <1>1
<1>3. PICK f : f = Find(code, T)
  OBVIOUS
<1>4. f \in T /\ f <= k
  BY <1>2, <1>3, FindFirst
<1>5. ~(f < k) /\ f \in Nat /\ k \in Nat
  BY <1>1, <1>4
<1>6. f = k
  BY <1>4, <1>5
<1> QED
  BY <1>3, <1>6 DEF FirstInk

(* Behind the code b comes the symbol c in a longer code.                  *)
Kept(code, b, c) ==
    /\ Len(b) + 1 <= Len(code)
    /\ code[Len(b) + 1] = c
    /\ \A x \in 1 .. Len(b) : code[x] = b[x]

LEMMA AppendKept ==
    ASSUME NEW b \in Seq(Symbols), NEW c \in Symbols, NEW code \in Seq(Symbols), NEW d,
           d = Append(b, c), Len(d) <= Len(code), \A x \in 1 .. Len(d) : code[x] = d[x]
    PROVE  Kept(code, b, c)
<1>1. PICK m \in Nat : m = Len(b)
  BY LenProperties
<1>2. Len(d) = m + 1 /\ d[m + 1] = c /\ \A x \in 1 .. m : d[x] = b[x]
  BY <1>1, AppendProperties
<1>3. PICK l \in Nat : l = Len(code)
  BY LenProperties
<1>4. m + 1 <= l /\ \A x \in 1 .. (m + 1) : code[x] = d[x]
  BY <1>2, <1>3
<1>5. m + 1 \in 1 .. (m + 1) /\ \A x \in 1 .. m : x \in 1 .. (m + 1)
  OBVIOUS
<1>6. code[m + 1] = c /\ \A x \in 1 .. m : code[x] = b[x]
  BY <1>2, <1>4, <1>5
<1> QED
  BY <1>1, <1>3, <1>4, <1>6, Zenon DEF Kept

(* A symbol of the code is the next of what one pass keeps, a comment      *)
(* leaves a space; either is still there at the end.                       *)
KeptSymbol(s, i) == IF OpensLine(s, i) \/ OpensBlock(s, i) THEN " " ELSE s[i]

LEMMA KeptAtEnd ==
    ASSUME NEW s \in Statement, NEW i \in 1 .. Len(s), Clear(s, i)
    PROVE  Kept(Before(s, Len(s) + 1).code, Before(s, i).code, KeptSymbol(s, i))
<1>0. /\ Len(s) \in Nat /\ i \in Positions(s) /\ i + 1 \in Positions(s) /\ Len(s) + 1 \in Positions(s)
      /\ Len(s) + 1 \in (i + 1) .. (Len(s) + 1)
  <2>1. PICK n \in Nat : n = Len(s)
    BY StatementTyped
  <2>2. i \in 1 .. n
    BY <2>1
  <2>3. i \in Nat /\ 1 <= i /\ i <= n
    BY <2>2
  <2>4. i \in 1 .. (n + 1) /\ i + 1 \in 1 .. (n + 1)
    BY <2>3
  <2>5. n + 1 \in 1 .. (n + 1) /\ n + 1 \in (i + 1) .. (n + 1)
    BY <2>3
  <2> QED
    BY <2>1, <2>4, <2>5, Zenon DEF Positions
<1>1. PICK st \in Reading : st = Before(s, i)
  BY <1>0, BeforeStep
<1>2. PICK r \in Reading : r = Before(s, i + 1)
  BY <1>0, BeforeStep
<1>3. PICK e \in Reading : e = Before(s, Len(s) + 1)
  BY <1>0, BeforeStep
<1>4. InCode(st) /\ r = Read(s, st, i)
  <2>1. r = Read(s, st, i)
    BY <1>1, <1>2, BeforeStep
  <2> QED
    BY <1>1, <2>1 DEF Clear
<1>5. PICK c \in Symbols : c = KeptSymbol(s, i) /\ r.code = Append(st.code, c)
  <2>1. CASE OpensLine(s, i) \/ OpensBlock(s, i)
    <3>1. \/ r = [st EXCEPT !.mode = "line", !.skip = TRUE, !.code = Append(st.code, " ")]
          \/ r = [st EXCEPT !.mode = "block", !.skip = TRUE, !.code = Append(st.code, " ")]
      BY <1>4, <2>1 DEF Read, InCode
    <3>2. r.code = Append(st.code, " ")
      BY <3>1 DEF Reading
    <3>3. KeptSymbol(s, i) = " " /\ " " \in Symbols
      BY <2>1 DEF KeptSymbol, Symbols
    <3> QED
      BY <3>2, <3>3
  <2>2. CASE ~(OpensLine(s, i) \/ OpensBlock(s, i))
    <3>1. r.code = Append(st.code, s[i])
      BY <1>4, <2>2, ReadCode
    <3>2. KeptSymbol(s, i) = s[i] /\ s[i] \in Symbols
      BY <2>2, StatementTyped DEF KeptSymbol
    <3> QED
      BY <3>1, <3>2
  <2> QED
    BY <2>1, <2>2
<1>6. Grows(r, e)
  BY <1>0, <1>2, <1>3, LaterGrows
<1>7. PICK b \in Seq(Symbols) : b = st.code
  BY DEF Reading
<1>8. PICK d : d = r.code
  OBVIOUS
<1>9. PICK code \in Seq(Symbols) : code = e.code
  BY DEF Reading
<1>10. d = Append(b, c)
  BY <1>5, <1>7, <1>8
<1>11. Len(d) <= Len(code) /\ \A x \in 1 .. Len(d) : code[x] = d[x]
  BY <1>6, <1>8, <1>9, Zenon DEF Grows
<1>12. Kept(code, b, c)
  BY <1>5, <1>10, <1>11, AppendKept
<1> QED
  BY <1>1, <1>3, <1>5, <1>7, <1>9, <1>12

(* At the keyword the code that one pass keeps says what the text says.    *)
LEMMA KeywordKept ==
    ASSUME NEW s \in Statement, NEW a \in 1 .. Len(s), Clear(s, a), Inkless(Before(s, a).code),
           s[a] \notin Spaces, ~OpensLine(s, a), ~OpensBlock(s, a)
    PROVE  LET code == Before(s, Len(s) + 1).code IN
           /\ At(code, FirstInk(code)) = s[a]
           /\ s[a] = "query" =>
                 (At(code, FirstInk(code) + 1) \in Letters <=> At(s, a + 1) \in Letters)
<1>0. Len(s) \in Nat /\ a \in Positions(s) /\ a + 1 \in Positions(s) /\ Len(s) + 1 \in Positions(s)
  BY StatementTyped DEF Positions
<1>1. PICK code \in Seq(Symbols) : code = Before(s, Len(s) + 1).code
  BY <1>0, BeforeStep DEF Reading
<1>2. PICK b \in Seq(Symbols) : b = Before(s, a).code
  BY <1>0, BeforeStep DEF Reading
<1>3. PICK m \in Nat : m = Len(b)
  BY LenProperties
<1>4. PICK l \in Nat : l = Len(code)
  BY LenProperties
<1>5. PICK c : c = s[a]
  OBVIOUS
<1>6. m + 1 \in 1 .. l /\ code[m + 1] = c /\ \A x \in 1 .. m : code[x] = b[x]
  <2>1. Kept(code, b, c)
    <3>1. KeptSymbol(s, a) = s[a]
      BY DEF KeptSymbol
    <3> QED
      BY <1>1, <1>2, <1>5, <3>1, KeptAtEnd
  <2>2. m + 1 <= l /\ code[m + 1] = c /\ \A x \in 1 .. m : code[x] = b[x]
    BY <1>3, <1>4, <2>1, Zenon DEF Kept
  <2>3. m + 1 \in 1 .. l
    BY <2>2
  <2> QED
    BY <2>2, <2>3
<1>7. \A x \in 1 .. l : x < m + 1 => code[x] \in Spaces
  <2>1. SUFFICES ASSUME NEW x \in 1 .. l, x < m + 1 PROVE code[x] \in Spaces
    OBVIOUS
  <2>2. x \in 1 .. m
    BY <2>1
  <2> QED
    BY <1>2, <1>3, <1>6, <2>1, <2>2 DEF Inkless
<1>8. FirstInk(code) = m + 1
  BY <1>4, <1>5, <1>6, <1>7, InkFound
<1>9. DOMAIN code = 1 .. l
  BY <1>4, LenProperties
<1>10. At(code, m + 1) = c
  BY <1>6, <1>9 DEF At
<1>11. ASSUME c = "query"
       PROVE  At(code, m + 2) \in Letters <=> At(s, a + 1) \in Letters
  <2>1. PICK r \in Reading : r = Before(s, a + 1)
    BY <1>0, BeforeStep
  <2>2. r.code = Append(b, c) /\ InCode(r)
    <3>1. PICK st \in Reading : st = Before(s, a)
      BY <1>0, BeforeStep
    <3>2. r = Read(s, st, a) /\ InCode(st)
      BY <2>1, <3>1, BeforeStep DEF Clear
    <3>3. r.mode = (IF s[a] \in Openers THEN s[a] ELSE "code") /\ r.skip = FALSE
          /\ r.code = Append(st.code, s[a])
      BY <3>2, ReadCode
    <3>4. s[a] \notin Openers
      BY <1>5, <1>11 DEF Openers
    <3> QED
      BY <1>2, <1>5, <3>1, <3>3, <3>4 DEF InCode
  <2>3. PICK d \in Seq(Symbols) : d = r.code
    BY DEF Reading
  <2>4. Len(d) = m + 1
    BY <1>3, <1>5, <2>2, <2>3, AppendProperties, StatementTyped
  <2>5. CASE a = Len(s)
    <3>1. l = m + 1
      BY <1>1, <1>4, <2>1, <2>3, <2>4, <2>5
    <3>2. m + 2 \notin DOMAIN code /\ a + 1 \notin DOMAIN s
      BY <1>0, <1>9, <2>5, <3>1, StatementTyped
    <3> QED
      BY <3>2 DEF At, Letters
  <2>6. CASE a # Len(s)
    <3>0. a + 1 \in 1 .. Len(s) /\ a + 1 \in Nat
      BY <1>0, <2>6
    <3>1. PICK x : x = KeptSymbol(s, a + 1)
      OBVIOUS
    <3>2. Clear(s, a + 1)
      BY <2>1, <2>2 DEF Clear
    <3>3. (m + 1) + 1 \in 1 .. l /\ code[(m + 1) + 1] = x
      <4>1. Kept(code, d, x)
        <5>1. Kept(Before(s, Len(s) + 1).code, Before(s, a + 1).code, x)
          BY <3>0, <3>1, <3>2, KeptAtEnd
        <5> QED
          BY <1>1, <2>1, <2>3, <5>1
      <4>2. (m + 1) + 1 <= l /\ code[(m + 1) + 1] = x
        BY <1>4, <2>4, <4>1, Zenon DEF Kept
      <4>3. (m + 1) + 1 \in 1 .. l
        BY <4>2
      <4> QED
        BY <4>2, <4>3
    <3>4. At(code, m + 2) = x
      <4>1. (m + 1) + 1 = m + 2
        OBVIOUS
      <4> QED
        BY <1>9, <3>3, <4>1 DEF At
    <3>5. At(s, a + 1) = s[a + 1]
      BY <3>0, StatementTyped DEF At
    <3>6. OpensLine(s, a + 1) \/ OpensBlock(s, a + 1) => s[a + 1] \notin Letters
      BY <3>0, CommentInside DEF Letters
    <3>7. " " \notin Letters
      BY DEF Letters
    <3> QED
      BY <3>1, <3>4, <3>5, <3>6, <3>7 DEF KeptSymbol
  <2> QED
    BY <2>5, <2>6
<1>12. (m + 1) + 1 = m + 2
  OBVIOUS
<1> QED
  BY <1>1, <1>5, <1>8, <1>10, <1>11, <1>12

(* RejectIfMutating lets through the single queries and nothing else       *)
(* (envelopes.cpp:252-299): for every statement, however its comments,     *)
(* literals, bracketed names and separators follow one another.            *)
THEOREM GuardReadsSingleQueries ==
    \A s \in Seq(Symbols) : ReadsOnly(s) <=> IsSingleQuery(s)
<1> SUFFICES ASSUME NEW s \in Statement PROVE ReadsOnly(s) <=> IsSingleQuery(s)
  BY DEF Statement
<1>0. Len(s) \in Nat /\ 1 \in Positions(s) /\ Len(s) + 1 \in Positions(s) /\ (Len(s) + 1) - 1 = Len(s)
  BY StatementTyped DEF Positions
<1>1. PICK end \in Reading : end = Before(s, Len(s) + 1)
  BY <1>0, BeforeStep
<1>2. end = After(s, Len(s))
  BY <1>0, <1>1 DEF Before
<1>3. PICK code \in Seq(Symbols) : code = end.code
  BY DEF Reading
<1>4. IsSingleQuery(s) <=> /\ OneStatement(s)
                           /\ At(code, FirstInk(code)) = "query"
                           /\ At(code, FirstInk(code) + 1) \notin Letters
  <2>1. IsSingleQuery(s) <=> /\ end.mode # "block" /\ ~end.batch
                             /\ At(code, FirstInk(code)) = "query"
                             /\ At(code, FirstInk(code) + 1) \notin Letters
    BY <1>2, <1>3, Zenon DEF IsSingleQuery, FirstInk
  <2>2. OneStatement(s) <=> end.mode # "block" /\ end.batch = FALSE
    BY <1>1 DEF OneStatement
  <2>3. end.batch \in BOOLEAN
    BY DEF Reading
  <2>4. ~end.batch <=> end.batch = FALSE
    BY <2>3
  <2> QED
    BY <2>1, <2>2, <2>4
<1>5. Clear(s, 1) /\ Before(s, 1).ended = FALSE /\ Before(s, 1).batch = FALSE
      /\ Inkless(Before(s, 1).code)
  <2>1. Before(s, 1) = Scanner
    BY BeforeStep
  <2>2. Inkless(<<>>)
    BY DEF Inkless
  <2> QED
    BY <2>1, <2>2 DEF Clear, InCode, Scanner
<1>6. Single(s, 1) <=> OneStatement(s)
  BY <1>0, <1>5, SingleRead
<1>7. PICK t : t = SkipTrivia(s, 1)
  OBVIOUS
<1>8. Skipped(s, 1, t) /\ t.ok \in BOOLEAN /\ t.at \in 1 .. (Len(s) + 1)
  BY <1>0, <1>5, <1>7, TriviaRead, SkipTriviaTyped
<1>9. PICK a \in Positions(s) : a = t.at
  BY <1>8 DEF Positions
<1>10. ReadsOnly(s) <=> /\ t.ok /\ OneStatement(s)
                        /\ a <= Len(s) /\ s[a] = "query" /\ At(s, a + 1) \notin Letters
  <2>1. SubSeq(s, a, Find(s, {j \in a .. Len(s) : s[j] \notin Letters}) - 1) = <<"query">> <=>
           a <= Len(s) /\ s[a] = "query" /\ At(s, a + 1) \notin Letters
    BY <1>9, KeywordRead
  <2> QED
    BY <1>6, <1>7, <1>9, <2>1, Zenon DEF ReadsOnly
<1>11. Inkless(Before(s, a).code)
  BY <1>5, <1>8, <1>9 DEF Skipped
<1>12. CASE t.ok = FALSE
  <2>1. ~OneStatement(s)
    BY <1>8, <1>12 DEF Skipped, OneStatement
  <2> QED
    BY <1>4, <1>10, <2>1
<1>13. CASE t.ok = TRUE /\ a > Len(s)
  <2>1. a = Len(s) + 1
    BY <1>0, <1>13 DEF Positions
  <2>2. Inkless(code)
    BY <1>1, <1>3, <1>11, <2>1
  <2>3. At(code, FirstInk(code)) # "query"
    BY <2>2, NoInk
  <2>4. ~(a <= Len(s))
    BY <1>0, <2>1
  <2> QED
    BY <1>4, <1>10, <2>3, <2>4
<1>14. CASE t.ok = TRUE /\ ~(a > Len(s))
  <2>1. a \in 1 .. Len(s) /\ a <= Len(s) /\ a # Len(s) + 1
    BY <1>0, <1>14 DEF Positions
  <2>2. Clear(s, a) /\ s[a] \notin Spaces /\ ~OpensLine(s, a) /\ ~OpensBlock(s, a)
    BY <1>8, <1>9, <1>14, <2>1 DEF Skipped
  <2>3. /\ At(code, FirstInk(code)) = s[a]
        /\ s[a] = "query" =>
              (At(code, FirstInk(code) + 1) \in Letters <=> At(s, a + 1) \in Letters)
    BY <1>1, <1>3, <1>11, <2>1, <2>2, KeywordKept
  <2> QED
    BY <1>4, <1>10, <1>14, <2>1, <2>3
<1>15. t.ok = TRUE \/ t.ok = FALSE
  BY <1>8
<1> QED
  BY <1>12, <1>13, <1>14, <1>15

-----------------------------------------------------------------------------
(* The guard on every path of a call.                                      *)

(* A statement RejectIfMutating refuses has gone no further than Bind.     *)
Guarded ==
    call.kind = "execute" =>
        /\ ReadsOnly(call.statement) => failure # "statement"
        /\ ~ReadsOnly(call.statement) =>
              pc \in {"bind", "failed"} /\ failure \in {"none", "binder", "statement"} /\ ~sent

GInv == call \in Calls /\ Guarded

(* A step of the thread after the bind leaves the guard as it was.         *)
LEMMA OpeningKeepsGuarded ==
    ASSUME GInv, Thread
    PROVE  GInv'
<1>1. UNCHANGED <<call, sent>>
  BY DEF Thread
<1>2. pc \notin {"bind", "failed"}
  BY DEF Thread, OpeningNext, StartOpening, Context, CheckNames, ImportTarget, ImportUser, Acquire, Connect,
     LookUp, OpenSocket, NoSocket, NoMoreAddresses, SetNonblocking, CallFails, ConnectsAtOnce, InProgress,
     DeadlinePassed, Poll, PollTimesOut, Writable, Interrupted, Tick, Shakes
<1>3. failure' = failure \/ failure' \in {"binder", "authentication", "connection", "session"}
  BY DEF Thread, OpeningNext, StartOpening, Context, CheckNames, ImportTarget, ImportUser, Acquire, Connect,
     LookUp, OpenSocket, NoSocket, NoMoreAddresses, SetNonblocking, CallFails, ConnectsAtOnce, InProgress,
     DeadlinePassed, Poll, PollTimesOut, Writable, Interrupted, Tick, Shakes, Goes, Fails, Unwinds, Abandon,
     NextAddress, Connected
<1> QED
  BY <1>1, <1>2, <1>3 DEF GInv, Guarded

(* A step of the bind sends only what the guard let through.               *)
LEMMA BindKeepsGuarded ==
    ASSUME GInv, Bind
    PROVE  GInv'
<1>1. CASE StartBind
  BY <1>1 DEF StartBind, Goes, Fails, GInv, Guarded
<1>2. CASE SendRequest
  BY <1>2 DEF SendRequest, Fails, GInv, Guarded
<1>3. CASE NotAnswered
  BY <1>3 DEF NotAnswered, Fails, GInv, Guarded
<1>4. ASSUME NEW t \in Tables, Answered(t) PROVE GInv'
  BY <1>4 DEF Answered, Goes, GInv, Guarded
<1> QED
  BY <1>1, <1>2, <1>3, <1>4 DEF Bind

(* What is not a single query is never opened for nor sent, and what is    *)
(* one is not refused, on every path of every call, whatever its statement.    *)
THEOREM GuardOnEveryPath == FunctionsSpec => []GuardExact
<1>1. FunctionsInit => GInv
  BY DEF FunctionsInit, OpeningInit, GInv, Guarded
<1>2. ASSUME GInv, [FunctionsNext]_functionVars PROVE GInv'
  <2>1. CASE Bind
    BY <1>2, <2>1, BindKeepsGuarded
  <2>2. CASE Thread
    BY <1>2, <2>2, OpeningKeepsGuarded
  <2>3. CASE InitGlobal \/ ScanVector \/ UNCHANGED functionVars
    BY <1>2, <2>3 DEF InitGlobal, ScanVector, functionVars, openingVars, GInv, Guarded
  <2> QED
    BY <1>2, <2>1, <2>2, <2>3 DEF FunctionsNext
<1>3. GInv => GuardExact
  <2>1. call \in Calls => (ReadsOnly(call.statement) <=> IsSingleQuery(call.statement))
    BY CallsAssumption, GuardReadsSingleQueries
  <2> QED
    BY <2>1 DEF GInv, Guarded, GuardExact
<1> QED
  BY <1>1, <1>2, <1>3, PTL DEF FunctionsSpec

-----------------------------------------------------------------------------
(* The rowset and its rows.                                                *)

(* A rowset's columns only grow, and its rows refer to those there are.    *)

Known(row, columns) == \A i \in 1 .. Len(row) : row[i].column \in 1 .. Len(columns)
Longer(before, after) == Len(before) <= Len(after) /\ \A c \in 1 .. Len(before) : after[c] = before[c]
Once(columns) == \A i, j \in 1 .. Len(columns) : columns[i] = columns[j] => i = j

(* What a row has under a name: one value, or no cell.                     *)
Under(row, columns, name) == {i \in 1 .. Len(row) : columns[row[i].column] = name}
Shows(row, columns, name, value) ==
    /\ value = Null <=> Under(row, columns, name) = {}
    /\ \A i \in Under(row, columns, name) : row[i].value = value

(* WithColumn puts a name where it is, or at the end.                      *)
LEMMA ColumnsGrow ==
    ASSUME NEW columns \in Seq(Names), Once(columns), NEW name \in Names
    PROVE  LET c == WithColumn(columns, name)
           IN  /\ c \in Seq(Names) /\ Longer(columns, c) /\ Once(c)
               /\ ColumnFor(c, name) \in 1 .. Len(c) /\ c[ColumnFor(c, name)] = name
<1>1. PICK c : c = WithColumn(columns, name)
  OBVIOUS
<1>2. PICK m \in Nat : m = Len(columns)
  BY LenProperties
<1>3. DOMAIN columns = 1 .. m
  BY <1>2, LenProperties
<1>4. CASE name \in Range(columns)
  <2>1. c = columns
    BY <1>1, <1>4 DEF WithColumn
  <2>2. \E i \in DOMAIN columns : columns[i] = name
    BY <1>4 DEF Range
  <2>3. ColumnFor(c, name) \in DOMAIN columns /\ c[ColumnFor(c, name)] = name
    BY <2>1, <2>2 DEF ColumnFor
  <2>4. Longer(columns, c)
    BY <1>2, <2>1 DEF Longer
  <2> QED
    BY <1>1, <1>2, <1>3, <2>1, <2>3, <2>4
<1>5. CASE name \notin Range(columns)
  <2>1. c = Append(columns, name)
    BY <1>1, <1>5 DEF WithColumn
  <2>2. c \in Seq(Names) /\ Len(c) = m + 1 /\ c[m + 1] = name /\ \A i \in 1 .. m : c[i] = columns[i]
    BY <1>2, <2>1, AppendProperties
  <2>3. DOMAIN c = 1 .. (m + 1) /\ m + 1 \in 1 .. (m + 1)
    BY <2>2, LenProperties
  <2>4. ColumnFor(c, name) \in DOMAIN c /\ c[ColumnFor(c, name)] = name
    BY <2>2, <2>3 DEF ColumnFor
  <2>5. \A i \in 1 .. m : columns[i] # name
    BY <1>3, <1>5 DEF Range
  <2>6. Once(c)
    <3>1. ASSUME NEW i \in 1 .. (m + 1), NEW j \in 1 .. (m + 1), c[i] = c[j] PROVE i = j
      <4>1. (i \in 1 .. m \/ i = m + 1) /\ (j \in 1 .. m \/ j = m + 1)
        OBVIOUS
      <4> QED
        BY <1>2, <2>2, <2>5, <3>1, <4>1 DEF Once
    <3> QED
      BY <2>2, <3>1 DEF Once
  <2>7. Longer(columns, c)
    <3>1. m <= m + 1
      OBVIOUS
    <3> QED
      BY <1>2, <2>2, <3>1 DEF Longer
  <2> QED
    BY <1>1, <2>2, <2>3, <2>4, <2>6, <2>7
<1> QED
  BY <1>4, <1>5

LEMMA LongerStill ==
    ASSUME NEW a \in Seq(Names), NEW b \in Seq(Names), NEW c \in Seq(Names), Longer(a, b), Longer(b, c)
    PROVE  Longer(a, c)
<1>1. PICK l \in Nat : l = Len(a)
  BY LenProperties
<1>2. PICK m \in Nat : m = Len(b)
  BY LenProperties
<1>3. PICK n \in Nat : n = Len(c)
  BY LenProperties
<1>4. l <= m /\ m <= n /\ (\A i \in 1 .. l : b[i] = a[i]) /\ (\A i \in 1 .. m : c[i] = b[i])
  BY <1>1, <1>2, <1>3 DEF Longer
<1>5. \A i \in 1 .. l : i \in 1 .. m
  BY <1>4
<1>6. l <= n /\ \A i \in 1 .. l : c[i] = a[i]
  BY <1>4, <1>5
<1> QED
  BY <1>1, <1>3, <1>6 DEF Longer

(* What a row shows it shows with more columns.                            *)
LEMMA ShowsStays ==
    ASSUME NEW row, NEW before \in Seq(Names), NEW after \in Seq(Names), Known(row, before),
           Longer(before, after)
    PROVE  /\ Known(row, after)
           /\ \A name, value : Shows(row, before, name, value) => Shows(row, after, name, value)
<1>1. PICK m \in Nat : m = Len(before)
  BY LenProperties
<1>2. PICK n \in Nat : n = Len(after)
  BY LenProperties
<1>3. m <= n /\ \A c \in 1 .. m : after[c] = before[c]
  BY <1>1, <1>2 DEF Longer
<1>4. ASSUME NEW i \in 1 .. Len(row)
      PROVE  row[i].column \in 1 .. n /\ after[row[i].column] = before[row[i].column]
  <2>1. PICK c \in 1 .. m : c = row[i].column
    BY <1>1 DEF Known
  <2>2. c \in 1 .. n
    BY <1>3
  <2> QED
    BY <1>3, <2>1, <2>2
<1>5. \A name : Under(row, after, name) = Under(row, before, name)
  BY <1>4 DEF Under
<1> QED
  BY <1>2, <1>4, <1>5 DEF Known, Shows

(* A cell replaces the one of its column or comes last.                    *)
CellIn(row, cell) ==
    IF \E i \in DOMAIN row : row[i].column = cell.column
    THEN [i \in DOMAIN row |-> IF row[i].column = cell.column THEN cell ELSE row[i]]
    ELSE Append(row, cell)

LEMMA CellShows ==
    ASSUME NEW columns \in Seq(Names), Once(columns), NEW row \in Seq(Cell), Known(row, columns),
           NEW cell \in Cell, cell.column \in 1 .. Len(columns), cell.value # Null
    PROVE  /\ CellIn(row, cell) \in Seq(Cell)
           /\ Known(CellIn(row, cell), columns)
           /\ Shows(CellIn(row, cell), columns, columns[cell.column], cell.value)
           /\ \A name, value : name # columns[cell.column] /\ Shows(row, columns, name, value) =>
                 Shows(CellIn(row, cell), columns, name, value)
<1>1. PICK m \in Nat : m = Len(row)
  BY LenProperties
<1>2. DOMAIN row = 1 .. m /\ \A i \in 1 .. m : row[i] \in Cell
  BY <1>1, LenProperties, ElementOfSeq
<1>3. PICK new : new = CellIn(row, cell)
  OBVIOUS
<1>4. PICK k \in 1 .. Len(columns) : k = cell.column
  OBVIOUS
<1>5. \A i \in 1 .. m : row[i].column \in 1 .. Len(columns)
  BY <1>1 DEF Known
<1>6. \A i \in 1 .. m : columns[row[i].column] = columns[k] <=> row[i].column = k
  BY <1>5 DEF Once
<1>7. CASE \E i \in 1 .. m : row[i].column = k
  <2>1. new = [i \in 1 .. m |-> IF row[i].column = k THEN cell ELSE row[i]]
    BY <1>2, <1>3, <1>4, <1>7 DEF CellIn
  <2>2. \A i \in 1 .. m : new[i] = (IF row[i].column = k THEN cell ELSE row[i])
    BY <2>1
  <2>3. new \in Seq(Cell) /\ Len(new) = m
    <3>1. \A i \in 1 .. m : (IF row[i].column = k THEN cell ELSE row[i]) \in Cell
      BY <1>2
    <3> QED
      BY <2>1, <3>1, IsASeq
  <2>4. \A i \in 1 .. m : new[i].column = row[i].column
    BY <1>4, <2>2
  <2>5. \A name : Under(new, columns, name) = Under(row, columns, name)
    BY <1>1, <2>3, <2>4 DEF Under
  <2>6. Under(new, columns, columns[k]) = {i \in 1 .. m : row[i].column = k}
    <3>1. Under(new, columns, columns[k]) = Under(row, columns, columns[k])
      BY <2>5
    <3>2. Under(row, columns, columns[k]) = {i \in 1 .. m : columns[row[i].column] = columns[k]}
      BY <1>1 DEF Under
    <3>3. {i \in 1 .. m : columns[row[i].column] = columns[k]} = {i \in 1 .. m : row[i].column = k}
      BY <1>6
    <3> QED
      BY <3>1, <3>2, <3>3
  <2>7. \A i \in Under(new, columns, columns[k]) : new[i] = cell
    BY <2>2, <2>6
  <2>8. Shows(new, columns, columns[k], cell.value)
    BY <1>7, <2>6, <2>7 DEF Shows
  <2>9. ASSUME NEW name, NEW value, name # columns[k], Shows(row, columns, name, value)
        PROVE  Shows(new, columns, name, value)
    <3>1. ASSUME NEW i \in Under(row, columns, name) PROVE new[i] = row[i]
      <4>1. i \in 1 .. m /\ columns[row[i].column] # columns[k]
        BY <1>1, <2>9 DEF Under
      <4> QED
        BY <2>2, <4>1
    <3> QED
      BY <2>5, <2>9, <3>1 DEF Shows
  <2>10. Known(new, columns)
    BY <1>5, <2>3, <2>4 DEF Known
  <2> QED
    BY <1>3, <1>4, <2>3, <2>8, <2>9, <2>10
<1>8. CASE \A i \in 1 .. m : row[i].column # k
  <2>1. new = Append(row, cell)
    BY <1>2, <1>3, <1>4, <1>8 DEF CellIn
  <2>2. new \in Seq(Cell) /\ Len(new) = m + 1 /\ new[m + 1] = cell /\ \A i \in 1 .. m : new[i] = row[i]
    BY <1>1, <2>1, AppendProperties
  <2>3. \A i \in 1 .. (m + 1) : i \in 1 .. m \/ i = m + 1
    OBVIOUS
  <2>4. m + 1 \in 1 .. (m + 1) /\ \A i \in 1 .. m : i \in 1 .. (m + 1)
    OBVIOUS
  <2>5. Under(new, columns, columns[k]) = {m + 1}
    BY <1>4, <1>6, <1>8, <2>2, <2>3, <2>4 DEF Under
  <2>6. Shows(new, columns, columns[k], cell.value)
    BY <2>2, <2>5 DEF Shows
  <2>7. ASSUME NEW name, NEW value, name # columns[k], Shows(row, columns, name, value)
        PROVE  Shows(new, columns, name, value)
    <3>1. Under(new, columns, name) = Under(row, columns, name)
      BY <1>1, <1>4, <2>2, <2>3, <2>4, <2>7 DEF Under
    <3>2. \A i \in Under(row, columns, name) : new[i] = row[i]
      BY <1>1, <2>2 DEF Under
    <3> QED
      BY <2>7, <3>1, <3>2 DEF Shows
  <2>8. Known(new, columns)
    BY <1>4, <1>5, <2>2, <2>3 DEF Known
  <2> QED
    BY <1>3, <1>4, <2>2, <2>6, <2>7, <2>8
<1> QED
  BY <1>7, <1>8

(* The types of what is read.                                              *)
LEMMA StateParts ==
    ASSUME NEW s \in State
    PROVE  /\ s.depth \in Nat /\ s.row_depth \in Int /\ s.field \in Names
           /\ s.columns \in Seq(Names) /\ s.row \in Seq(Cell)
           /\ s = [depth |-> s.depth, row_depth |-> s.row_depth, field |-> s.field,
                   columns |-> s.columns, row |-> s.row]
BY DEF State

(* A state whose row refers to the columns it has.                         *)
Sound(s) == s \in State /\ Once(s.columns) /\ Known(s.row, s.columns)

(* What SetCell leaves of a row and makes of it.                           *)
LEMMA SetCellShows ==
    ASSUME NEW s, Sound(s), NEW name \in Names, NEW value \in Texts
    PROVE  LET set == SetCell(s, name, value)
           IN  /\ Sound(set) /\ Longer(s.columns, set.columns)
               /\ Shows(set.row, set.columns, name, value)
               /\ \A other, v : other # name /\ Shows(s.row, s.columns, other, v) =>
                     Shows(set.row, set.columns, other, v)
<1>0. s \in State /\ Once(s.columns) /\ Known(s.row, s.columns)
  BY DEF Sound
<1>1. s.columns \in Seq(Names) /\ s.row \in Seq(Cell)
  BY <1>0, StateParts
<1>2. PICK c : c = WithColumn(s.columns, name)
  OBVIOUS
<1>3. /\ c \in Seq(Names) /\ Longer(s.columns, c) /\ Once(c)
      /\ ColumnFor(c, name) \in 1 .. Len(c) /\ c[ColumnFor(c, name)] = name
  BY <1>0, <1>1, <1>2, ColumnsGrow
<1>4. PICK cell : cell = [column |-> ColumnFor(c, name), value |-> value]
  OBVIOUS
<1>5. cell \in Cell /\ cell.column \in 1 .. Len(c) /\ c[cell.column] = name /\ cell.value = value
      /\ value # Null
  <2>1. Len(c) \in Nat
    BY <1>3, LenProperties
  <2>2. ColumnFor(c, name) \in Nat
    BY <1>3, <2>1
  <2>3. value \in Values /\ value # Null
    BY FunctionsAssumption DEF Values
  <2> QED
    BY <1>3, <1>4, <2>2, <2>3 DEF Cell
<1>6. PICK new : new = CellIn(s.row, cell)
  OBVIOUS
<1>7. /\ Known(s.row, c)
      /\ \A other, v : Shows(s.row, s.columns, other, v) => Shows(s.row, c, other, v)
  BY <1>0, <1>1, <1>3, ShowsStays
<1>8. /\ new \in Seq(Cell) /\ Known(new, c)
      /\ Shows(new, c, name, value)
      /\ \A other, v : other # name /\ Shows(s.row, c, other, v) => Shows(new, c, other, v)
  BY <1>1, <1>3, <1>5, <1>6, <1>7, CellShows
<1>9. PICK set : set = SetCell(s, name, value)
  OBVIOUS
<1>10. set = [s EXCEPT !.columns = c, !.row = new]
  BY <1>2, <1>4, <1>6, <1>9, Zenon DEF SetCell, CellIn
<1>11. set \in State /\ set.columns = c /\ set.row = new
  <2>1. set = [depth |-> s.depth, row_depth |-> s.row_depth, field |-> s.field,
               columns |-> c, row |-> new]
    <3>1. s = [depth |-> s.depth, row_depth |-> s.row_depth, field |-> s.field,
               columns |-> s.columns, row |-> s.row]
      BY <1>0, StateParts
    <3> QED
      BY <1>10, <3>1
  <2> QED
    BY <1>0, <1>3, <1>8, <2>1, StateParts DEF State
<1> QED
  BY <1>3, <1>7, <1>8, <1>9, <1>11 DEF Sound

-----------------------------------------------------------------------------
(* CellsRead and Parsed, one step at a time.                               *)

Rows == [Range(ColumnOrder) -> Texts \cup {Null}]

LEMMA OrderTyped ==
    /\ ColumnOrder \in Seq(Names) /\ Len(ColumnOrder) \in Nat
    /\ \A c \in 1 .. Len(ColumnOrder) :
          /\ ColumnOrder[c] \in Names /\ ColumnOrder[c] \in Range(ColumnOrder)
          /\ \A row \in Rows : row[ColumnOrder[c]] \in Texts \cup {Null}
    /\ \A name \in Range(ColumnOrder) : \E c \in 1 .. Len(ColumnOrder) : ColumnOrder[c] = name
<1>1. ColumnOrder \in Seq(Names) /\ Len(ColumnOrder) \in Nat /\ DOMAIN ColumnOrder = 1 .. Len(ColumnOrder)
  BY TablesAssumption, LenProperties
<1>2. \A c \in 1 .. Len(ColumnOrder) : ColumnOrder[c] \in Names
  BY <1>1, ElementOfSeq
<1>3. Range(ColumnOrder) = {ColumnOrder[c] : c \in 1 .. Len(ColumnOrder)}
  BY <1>1 DEF Range
<1> QED
  BY <1>1, <1>2, <1>3 DEF Rows

(* One column of a row is read.                                            *)
WithCell(s, row, c) ==
    IF row[ColumnOrder[c]] = Null THEN s ELSE SetCell(s, ColumnOrder[c], row[ColumnOrder[c]])

(* What a row has under a name, and what its first n columns say of that.  *)
ValueOf(row, name) == IF name \in Range(ColumnOrder) THEN row[name] ELSE Null
SaidSoFar(row, n, name) == IF name \in {ColumnOrder[c] : c \in 1 .. n} THEN row[name] ELSE Null

LEMMA WithCellShows ==
    ASSUME NEW row \in Rows, NEW c \in 1 .. Len(ColumnOrder), NEW s, Sound(s),
           \A name : Shows(s.row, s.columns, name, SaidSoFar(row, c - 1, name))
    PROVE  /\ Sound(WithCell(s, row, c)) /\ Longer(s.columns, WithCell(s, row, c).columns)
           /\ \A name : Shows(WithCell(s, row, c).row, WithCell(s, row, c).columns, name, SaidSoFar(row, c, name))
<1>1. PICK n \in Names : n = ColumnOrder[c]
  BY OrderTyped
<1>2. PICK v \in Texts \cup {Null} : v = row[n]
  BY <1>1, OrderTyped
<1>3. SaidSoFar(row, c, n) = v /\ \A name : name # n => SaidSoFar(row, c, name) = SaidSoFar(row, c - 1, name)
  <2>1. c \in 1 .. c /\ \A x \in 1 .. c : x \in 1 .. (c - 1) \/ x = c
    BY OrderTyped
  <2>2. \A x \in 1 .. (c - 1) : x \in 1 .. c
    BY OrderTyped
  <2> QED
    BY <1>1, <1>2, <2>1, <2>2 DEF SaidSoFar
<1>4. PICK q : q = WithCell(s, row, c)
  OBVIOUS
<1>5. CASE v = Null
  <2>1. q = s
    BY <1>1, <1>2, <1>4, <1>5 DEF WithCell
  <2>2. SaidSoFar(row, c - 1, n) = Null
    BY <1>2, <1>5 DEF SaidSoFar
  <2>3. Longer(s.columns, s.columns)
    <3>1. PICK m \in Nat : m = Len(s.columns)
      BY StateParts, LenProperties DEF Sound
    <3> QED
      BY <3>1 DEF Longer
  <2>4. \A name : SaidSoFar(row, c, name) = SaidSoFar(row, c - 1, name)
    BY <1>3, <1>5, <2>2
  <2> QED
    BY <1>4, <2>1, <2>3, <2>4
<1>6. CASE v # Null
  <2>1. q = SetCell(s, n, v) /\ v \in Texts
    BY <1>1, <1>2, <1>4, <1>6 DEF WithCell
  <2>2. /\ Sound(q) /\ Longer(s.columns, q.columns)
        /\ Shows(q.row, q.columns, n, v)
        /\ \A other, w : other # n /\ Shows(s.row, s.columns, other, w) =>
                          Shows(q.row, q.columns, other, w)
    BY <2>1, SetCellShows
  <2>3. ASSUME NEW name PROVE Shows(q.row, q.columns, name, SaidSoFar(row, c, name))
    <3>1. CASE name = n
      BY <1>3, <2>2, <3>1
    <3>2. CASE name # n
      BY <1>3, <2>2, <3>2
    <3> QED
      BY <3>1, <3>2
  <2> QED
    BY <1>4, <2>2, <2>3
<1> QED
  BY <1>5, <1>6

(* The state a row starts in.                                              *)
Begun(columns) == [Unread EXCEPT !.columns = columns]

LEMMA BlankSound ==
    ASSUME NEW columns \in Seq(Names), Once(columns)
    PROVE  /\ Begun(columns) \in State /\ Sound(Begun(columns))
           /\ Begun(columns).columns = columns /\ Begun(columns).row = <<>>
<1>1. Begun(columns) = [depth |-> 0, row_depth |-> -1, field |-> EmptyString, columns |-> columns,
                         row |-> <<>>]
  BY DEF Begun, Unread
<1>2. EmptyString \in Names /\ <<>> \in Seq(Cell) /\ Len(<<>>) = 0
  BY GrammarAssumption
<1>3. Begun(columns) \in State
  BY <1>1, <1>2 DEF State
<1>4. Begun(columns).columns = columns /\ Begun(columns).row = <<>>
  BY <1>1
<1>5. Known(<<>>, columns)
  BY <1>2 DEF Known
<1> QED
  BY <1>3, <1>4, <1>5 DEF Sound

LEMMA WithCellSound ==
    ASSUME NEW row \in Rows, NEW c \in 1 .. Len(ColumnOrder), NEW s, Sound(s)
    PROVE  Sound(WithCell(s, row, c)) /\ Longer(s.columns, WithCell(s, row, c).columns)
<1>1. PICK n \in Names : n = ColumnOrder[c]
  BY OrderTyped
<1>2. PICK v \in Texts \cup {Null} : v = row[n]
  BY <1>1, OrderTyped
<1>3. CASE v = Null
  <2>1. WithCell(s, row, c) = s
    BY <1>1, <1>2, <1>3 DEF WithCell
  <2>2. PICK m \in Nat : m = Len(s.columns)
    BY StateParts, LenProperties DEF Sound
  <2> QED
    BY <2>1, <2>2 DEF Longer
<1>4. CASE v # Null
  <2>1. WithCell(s, row, c) = SetCell(s, n, v) /\ v \in Texts
    BY <1>1, <1>2, <1>4 DEF WithCell
  <2> QED
    BY <2>1, SetCellShows
<1> QED
  BY <1>3, <1>4

(* A row as CellsRead reads it, column by column.                          *)
Sounds == {s \in State : Sound(s)}
CellsBy(columns, row, f) ==
    /\ f \in [0 .. Len(ColumnOrder) -> Sounds]
    /\ f[0] = Begun(columns) /\ CellsRead(columns, row) = f[Len(ColumnOrder)]
    /\ \A c \in 1 .. Len(ColumnOrder) : f[c] = WithCell(f[c - 1], row, c)

LEMMA CellsReadStep ==
    ASSUME NEW columns \in Seq(Names), Once(columns), NEW row \in Rows
    PROVE  \E f : CellsBy(columns, row, f)
<1> DEFINE n == Len(ColumnOrder)
           Step == [x \in (1 .. n) \X Sounds |-> WithCell(x[2], row, x[1])]
           NextRead(f, c) == IF c = 0 THEN [Unread EXCEPT !.columns = columns]
                          ELSE IF row[ColumnOrder[c]] = Null THEN f[c - 1]
                          ELSE SetCell(f[c - 1], ColumnOrder[c], row[ColumnOrder[c]])
           read == CHOOSE f : f = [c \in 0 .. n |-> NextRead(f, c)]
<1>0. n \in Nat
  BY OrderTyped
<1>1. Begun(columns) \in Sounds
  BY BlankSound DEF Sounds
<1>2. StepsIn(Step, n, Sounds)
  <2>1. ASSUME NEW c \in 1 .. n, NEW s \in Sounds PROVE WithCell(s, row, c) \in Sounds
    BY WithCellSound DEF Sounds, Sound
  <2> HIDE DEF n
  <2> QED
    BY <2>1 DEF StepsIn
<1>3. \E f \in [0 .. n -> Sounds] : GoesOn(f, Begun(columns), Step, n)
  <2> HIDE DEF n, Step
  <2> QED
    BY <1>0, <1>1, <1>2, ForwardRecursion
<1>4. PICK f \in [0 .. n -> Sounds] :
          f[0] = Begun(columns) /\ \A c \in 1 .. n : f[c] = Step[<<c, f[c - 1]>>]
  BY <1>3 DEF GoesOn
<1>5. ASSUME NEW c \in 1 .. n PROVE f[c] = WithCell(f[c - 1], row, c)
  <2>1. f[c - 1] \in Sounds
    BY <1>0
  <2>2. <<c, f[c - 1]>> \in (1 .. n) \X Sounds
    BY <2>1
  <2> QED
    BY <1>4, <2>2
<1>6. \A g, c : NextRead(g, c) = IF c = 0 THEN Begun(columns) ELSE WithCell(g[c - 1], row, c)
  BY DEF Begun, WithCell
<1> HIDE DEF NextRead
<1>7. f = [c \in 0 .. n |-> NextRead(f, c)]
  <2>1. ASSUME NEW c \in 0 .. n PROVE f[c] = NextRead(f, c)
    <3>1. CASE c = 0
      BY <1>4, <1>6, <3>1
    <3>2. CASE c # 0
      <4>1. c \in 1 .. n
        BY <1>0, <3>2
      <4> QED
        BY <1>5, <1>6, <3>2, <4>1
    <3> QED
      BY <3>1, <3>2
  <2> HIDE DEF n
  <2> QED
    BY <2>1
<1>8. read = [c \in 0 .. n |-> NextRead(read, c)]
  <2> HIDE DEF n
  <2> QED
    BY <1>7
<1>9. CellsRead(columns, row) = read[n]
  BY DEF CellsRead, NextRead
<1> HIDE DEF read
<1>10. \A c \in 0 .. n : read[c] = f[c]
  <2>1. read[0] = f[0]
    <3>1. read[0] = NextRead(read, 0)
      <4>1. 0 \in 0 .. n
        BY <1>0
      <4> HIDE DEF n
      <4> QED
        BY <1>8, <4>1
    <3> QED
      BY <1>4, <1>6, <3>1
  <2>2. ASSUME NEW c \in 1 .. n, read[c - 1] = f[c - 1] PROVE read[c] = f[c]
    <3>1. c \in 0 .. n /\ c # 0
      BY <1>0
    <3>2. read[c] = WithCell(read[c - 1], row, c)
      BY <1>6, <1>8, <3>1
    <3> QED
      BY <1>5, <2>2, <3>2
  <2>3. Agree(read, f, n)
    BY <2>1, <2>2 DEF Agree
  <2> HIDE DEF n
  <2> QED
    BY <1>0, <2>3, SameRecursion
<1>11. read[n] = f[n]
  <2>1. n \in 0 .. n
    BY <1>0
  <2> QED
    BY <1>10, <2>1
<1> QED
  BY <1>4, <1>5, <1>9, <1>11 DEF CellsBy

(* A row's cells say what the row says, and the columns before it stay.    *)
LEMMA CellsReadShows ==
    ASSUME NEW columns \in Seq(Names), Once(columns), NEW row \in Rows
    PROVE  LET last == CellsRead(columns, row)
           IN  /\ Sound(last) /\ Longer(columns, last.columns)
               /\ \A name : Shows(last.row, last.columns, name, ValueOf(row, name))
<1>0. PICK n \in Nat : n = Len(ColumnOrder)
  BY OrderTyped
<1>1. PICK f : CellsBy(columns, row, f)
  BY CellsReadStep
<1>2. /\ f \in [0 .. n -> Sounds] /\ f[0] = Begun(columns) /\ CellsRead(columns, row) = f[n]
      /\ \A c \in 1 .. n : f[c] = WithCell(f[c - 1], row, c)
  BY <1>0, <1>1 DEF CellsBy
<1> DEFINE Tells(s, c) == \A name : Shows(s.row, s.columns, name, SaidSoFar(row, c, name))
           Good(s, c) == Longer(columns, s.columns) /\ Tells(s, c)
           S == {c \in 0 .. n : Good(f[c], c)}
<1>3. Good(Begun(columns), 0)
  <2>1. PICK m \in Nat : m = Len(columns)
    BY LenProperties
  <2>2. Longer(columns, columns)
    BY <2>1 DEF Longer
  <2>3. \A name : Shows(<<>>, columns, name, Null)
    <3>1. \A name : Under(<<>>, columns, name) = {}
      BY DEF Under
    <3> QED
      BY <3>1 DEF Shows
  <2>4. \A name : SaidSoFar(row, 0, name) = Null
    BY DEF SaidSoFar
  <2> QED
    BY <2>2, <2>3, <2>4, BlankSound
<1>4. ASSUME NEW c \in 0 .. n, Good(f[c], c), c < n PROVE Good(f[c + 1], c + 1)
  <2>1. c + 1 \in 1 .. n /\ (c + 1) - 1 = c
    BY <1>4
  <2>2. f[c + 1] = WithCell(f[c], row, c + 1)
    BY <1>2, <2>1
  <2>3. PICK s \in State : s = f[c] /\ Sound(s)
    BY <1>2 DEF Sounds
  <2>4. PICK q : q = WithCell(s, row, c + 1)
    OBVIOUS
  <2>5. \A name : Shows(s.row, s.columns, name, SaidSoFar(row, (c + 1) - 1, name))
    BY <1>4, <2>1, <2>3
  <2>6. Sound(q) /\ Longer(s.columns, q.columns) /\ Tells(q, c + 1)
    BY <1>0, <2>1, <2>3, <2>4, <2>5, WithCellShows
  <2>7. Longer(columns, q.columns)
    BY <1>4, <2>3, <2>6, LongerStill, StateParts DEF Sound
  <2> QED
    BY <2>2, <2>3, <2>4, <2>6, <2>7
<1> HIDE DEF Good
<1>5. 0 .. n \subseteq S
  <2>1. 0 \in S
    BY <1>2, <1>3
  <2>2. ASSUME NEW c \in 0 .. n, c \in S, c < n PROVE c + 1 \in S
    <3>1. c + 1 \in 0 .. n
      BY <2>2
    <3> QED
      BY <1>4, <2>2, <3>1
  <2>3. 0 \in Nat
    OBVIOUS
  <2> HIDE DEF S
  <2> QED
    BY <2>1, <2>2, <2>3, RangeInduction
<1>6. PICK last : last = f[n]
  OBVIOUS
<1>7. Sound(last) /\ Good(last, n)
  <2>1. n \in 0 .. n
    OBVIOUS
  <2> QED
    BY <1>2, <1>5, <1>6, <2>1 DEF Sounds
<1>8. \A name : SaidSoFar(row, n, name) = ValueOf(row, name)
  BY <1>0, OrderTyped DEF SaidSoFar, ValueOf
<1> QED
  BY <1>2, <1>6, <1>7, <1>8 DEF Good

(* What a rowset being parsed is, and what its first n rows say.           *)
Rowsets == [columns : {c \in Seq(Names) : Once(c)}, rows : Seq(Seq(Cell))]
SaysRows(read, t, n) ==
    /\ Len(read.rows) = n
    /\ \A r \in 1 .. n :
          /\ Known(read.rows[r], read.columns)
          /\ \A name : Shows(read.rows[r], read.columns, name, ValueOf(t[r], name))

LEMMA RowsetParts ==
    ASSUME NEW read \in Rowsets
    PROVE  read.columns \in Seq(Names) /\ Once(read.columns) /\ read.rows \in Seq(Seq(Cell))
BY DEF Rowsets

(* A row more: the rows before it still say what they did.                 *)
LEMMA WithRowSays ==
    ASSUME NEW read \in Rowsets, NEW row \in Rows
    PROVE  /\ WithRow(read, row) \in Rowsets
           /\ ~SelfClosing => \A n \in Nat : \A t :
                 SaysRows(read, t, n) /\ t[n + 1] = row => SaysRows(WithRow(read, row), t, n + 1)
<1> SUFFICES ASSUME ~LostRow(row)
             PROVE  /\ WithRow(read, row) \in Rowsets
                    /\ \A n \in Nat : \A t :
                          SaysRows(read, t, n) /\ t[n + 1] = row => SaysRows(WithRow(read, row), t, n + 1)
  BY Zenon DEF WithRow, LostRow
<1>1. PICK b \in Seq(Names) : b = read.columns
  BY RowsetParts
<1>2. PICK rows \in Seq(Seq(Cell)) : rows = read.rows
  BY RowsetParts
<1>3. PICK last : last = CellsRead(b, row)
  OBVIOUS
<1>4. /\ Sound(last) /\ Longer(b, last.columns)
      /\ \A name : Shows(last.row, last.columns, name, ValueOf(row, name))
  BY <1>1, <1>3, CellsReadShows, RowsetParts
<1>5. PICK a \in Seq(Names) : a = last.columns
  BY <1>4, StateParts DEF Sound
<1>6. PICK new \in Seq(Cell) : new = last.row
  BY <1>4, StateParts DEF Sound
<1>7. Once(a) /\ Known(new, a) /\ \A name : Shows(new, a, name, ValueOf(row, name))
  BY <1>4, <1>5, <1>6 DEF Sound
<1>8. PICK more \in Seq(Seq(Cell)) : more = Append(rows, new)
  BY AppendProperties
<1>9. PICK q : q = WithRow(read, row)
  OBVIOUS
<1>10. q = [columns |-> a, rows |-> more]
  BY <1>1, <1>2, <1>3, <1>5, <1>6, <1>8, <1>9, Zenon DEF WithRow
<1>11. q.columns = a /\ q.rows = more /\ q \in Rowsets
  BY <1>7, <1>10 DEF Rowsets
<1>12. ASSUME NEW n \in Nat, NEW t, SaysRows(read, t, n), t[n + 1] = row PROVE SaysRows(q, t, n + 1)
  <2>1. /\ Len(rows) = n
        /\ \A r \in 1 .. n : /\ Known(rows[r], b)
                             /\ \A name : Shows(rows[r], b, name, ValueOf(t[r], name))
    BY <1>1, <1>2, <1>12, Zenon DEF SaysRows
  <2>2. Len(more) = n + 1 /\ more[n + 1] = new /\ \A r \in 1 .. n : more[r] = rows[r]
    BY <1>8, <2>1, AppendProperties
  <2>3. ASSUME NEW r \in 1 .. n
        PROVE  /\ Known(more[r], a)
               /\ \A name : Shows(more[r], a, name, ValueOf(t[r], name))
    <3>1. PICK old : old = rows[r]
      OBVIOUS
    <3>2. Known(old, b) /\ \A name : Shows(old, b, name, ValueOf(t[r], name))
      BY <2>1, <3>1
    <3>3. Known(old, a) /\ \A name, value : Shows(old, b, name, value) => Shows(old, a, name, value)
      BY <1>4, <1>5, <3>2, ShowsStays
    <3>4. more[r] = old
      BY <2>2, <3>1
    <3> QED
      BY <3>2, <3>3, <3>4
  <2>4. \A r \in 1 .. (n + 1) : r \in 1 .. n \/ r = n + 1
    OBVIOUS
  <2>5. \A r \in 1 .. (n + 1) :
           /\ Known(more[r], a)
           /\ \A name : Shows(more[r], a, name, ValueOf(t[r], name))
    BY <1>7, <1>12, <2>2, <2>3, <2>4
  <2> QED
    BY <1>11, <2>2, <2>5 DEF SaysRows
<1> QED
  BY <1>9, <1>11, <1>12

LEMMA ParsedOfNone == Parsed(<<>>) = NoRows
<1> DEFINE NextRead(f, i) == IF i = 0 THEN NoRows ELSE WithRow(f[i - 1], <<>>[i])
           read == CHOOSE f : f = [i \in 0 .. Len(<<>>) |-> NextRead(f, i)]
<1>1. Len(<<>>) = 0 /\ 0 .. 0 = {0}
  OBVIOUS
<1>2. \E f : f = [i \in {0} |-> NextRead(f, i)]
  <2>1. [i \in {0} |-> NoRows] = [i \in {0} |-> NextRead([j \in {0} |-> NoRows], i)]
    OBVIOUS
  <2> QED
    BY <2>1
<1>3. read = [i \in {0} |-> NextRead(read, i)]
  BY <1>1, <1>2
<1>4. Parsed(<<>>) = read[0]
  BY <1>1 DEF Parsed
<1> QED
  BY <1>3, <1>4

(* A table as Parsed reads it, row by row.                                 *)
LEMMA ParsedSays ==
    ASSUME NEW t \in Seq(Rows)
    PROVE  Parsed(t) \in Rowsets /\ (~SelfClosing => SaysRows(Parsed(t), t, Len(t)))
<1> DEFINE n == Len(t)
           Step == [x \in (1 .. n) \X Rowsets |-> WithRow(x[2], t[x[1]])]
           NextRead(f, i) == IF i = 0 THEN NoRows ELSE WithRow(f[i - 1], t[i])
           read == CHOOSE f : f = [i \in 0 .. n |-> NextRead(f, i)]
<1>0. n \in Nat /\ \A i \in 1 .. n : t[i] \in Rows
  BY LenProperties, ElementOfSeq
<1>1. NoRows \in Rowsets /\ NoRows.rows = <<>>
  <2>1. Once(<<>>)
    BY DEF Once
  <2> QED
    BY <2>1 DEF NoRows, Rowsets
<1>2. StepsIn(Step, n, Rowsets)
  <2>1. ASSUME NEW i \in 1 .. n, NEW r0 \in Rowsets PROVE WithRow(r0, t[i]) \in Rowsets
    BY <1>0, WithRowSays
  <2> HIDE DEF n
  <2> QED
    BY <2>1 DEF StepsIn
<1>3. \E f \in [0 .. n -> Rowsets] : GoesOn(f, NoRows, Step, n)
  <2> HIDE DEF n, Step
  <2> QED
    BY <1>0, <1>1, <1>2, ForwardRecursion
<1>4. PICK f \in [0 .. n -> Rowsets] :
          f[0] = NoRows /\ \A i \in 1 .. n : f[i] = Step[<<i, f[i - 1]>>]
  BY <1>3 DEF GoesOn
<1>5. ASSUME NEW i \in 1 .. n PROVE f[i - 1] \in Rowsets /\ f[i] = WithRow(f[i - 1], t[i])
  <2>1. f[i - 1] \in Rowsets
    BY <1>0
  <2>2. <<i, f[i - 1]>> \in (1 .. n) \X Rowsets
    BY <2>1
  <2> QED
    BY <1>4, <2>1, <2>2
<1>6. f = [i \in 0 .. n |-> NextRead(f, i)]
  <2>1. ASSUME NEW i \in 0 .. n PROVE f[i] = NextRead(f, i)
    <3>1. CASE i = 0
      BY <1>4, <3>1
    <3>2. CASE i # 0
      <4>1. i \in 1 .. n
        BY <1>0, <3>2
      <4> QED
        BY <1>5, <3>2, <4>1
    <3> QED
      BY <3>1, <3>2
  <2> HIDE DEF n, NextRead
  <2> QED
    BY <2>1
<1>7. read = [i \in 0 .. n |-> NextRead(read, i)]
  <2> HIDE DEF n, NextRead
  <2> QED
    BY <1>6
<1>8. Parsed(t) = read[n]
  BY DEF Parsed
<1> HIDE DEF read
<1>9. \A i \in 0 .. n : read[i] = f[i]
  <2>1. read[0] = f[0]
    <3>1. read[0] = NextRead(read, 0)
      BY <1>0, <1>7
    <3> QED
      BY <1>4, <3>1
  <2>2. ASSUME NEW i \in 1 .. n, read[i - 1] = f[i - 1] PROVE read[i] = f[i]
    <3>1. i \in 0 .. n /\ i # 0
      BY <1>0
    <3>2. read[i] = WithRow(read[i - 1], t[i])
      BY <1>7, <3>1
    <3> QED
      BY <1>5, <2>2, <3>2
  <2>3. Agree(read, f, n)
    BY <2>1, <2>2 DEF Agree
  <2> HIDE DEF n
  <2> QED
    BY <1>0, <2>3, SameRecursion
<1> DEFINE S == {i \in 0 .. n : SaysRows(f[i], t, i)}
<1>10. ASSUME ~SelfClosing PROVE 0 .. n \subseteq S
  <2>1. 0 \in S
    <3>1. SaysRows(NoRows, t, 0)
      BY <1>1 DEF SaysRows
    <3> QED
      BY <1>0, <1>4, <3>1
  <2>2. ASSUME NEW i \in 0 .. n, i \in S, i < n PROVE i + 1 \in S
    <3>1. i + 1 \in 0 .. n /\ i + 1 \in 1 .. n /\ (i + 1) - 1 = i /\ i \in Nat
      BY <1>0, <2>2
    <3>2. f[i] \in Rowsets /\ f[i + 1] = WithRow(f[i], t[i + 1]) /\ t[i + 1] \in Rows
      BY <1>0, <1>5, <3>1
    <3>3. SaysRows(f[i], t, i)
      BY <2>2
    <3>4. SaysRows(f[i + 1], t, i + 1)
      BY <1>10, <3>1, <3>2, <3>3, WithRowSays
    <3> QED
      BY <3>1, <3>4
  <2> HIDE DEF S, n
  <2>3. 0 \in Nat
    OBVIOUS
  <2> QED
    BY <1>0, <2>1, <2>2, <2>3, RangeInduction
<1>11. n \in 0 .. n
  BY <1>0
<1>12. read[n] = f[n] /\ f[n] \in Rowsets /\ (~SelfClosing => SaysRows(f[n], t, n))
  BY <1>9, <1>10, <1>11
<1> QED
  BY <1>8, <1>12

-----------------------------------------------------------------------------
(* InitGlobal and Scan.                                                    *)

(* OutputRow puts under each column what the row has there.                *)
LEMMA OutputRowGives ==
    ASSUME rowset \in Rowsets, NEW row \in Seq(Cell), NEW r, Known(row, rowset.columns),
           \A name : Shows(row, rowset.columns, name, ValueOf(r, name))
    PROVE  \A c \in 1 .. Len(Described) : OutputRow(row)[c] = ValueOf(r, Described[c])
<1>1. PICK columns \in Seq(Names) : columns = rowset.columns
  BY RowsetParts
<1>2. PICK m \in Nat : m = Len(row)
  BY LenProperties
<1>3. DOMAIN row = 1 .. m /\ Once(columns) /\ Known(row, columns)
      /\ \A name : Shows(row, columns, name, ValueOf(r, name))
  BY <1>1, <1>2, LenProperties, RowsetParts
<1>4. CASE columns = <<>>
  <2>1. m = 0
    <3>1. ~(1 \in 1 .. m)
      BY <1>2, <1>3, <1>4 DEF Known
    <3> QED
      BY <3>1
  <2>2. \A name : ValueOf(r, name) = Null
    <3>1. \A name : Under(row, columns, name) = {}
      BY <1>2, <2>1 DEF Under
    <3> QED
      BY <1>3, <3>1 DEF Shows
  <2>3. \A c \in 1 .. Len(Described) : OutputRow(row)[c] = Null
    BY <1>1, <1>4 DEF OutputRow
  <2> QED
    BY <2>2, <2>3
<1>5. CASE columns # <<>>
  <2>1. Described = columns
    BY <1>1, <1>5 DEF Described
  <2>2. ASSUME NEW c \in 1 .. Len(columns) PROVE OutputRow(row)[c] = ValueOf(r, columns[c])
    <3>1. PICK cells : cells = {i \in 1 .. m : row[i].column = c}
      OBVIOUS
    <3>2. OutputRow(row)[c] = IF cells = {} THEN Null ELSE row[CHOOSE i \in cells : TRUE].value
      BY <1>1, <1>3, <1>5, <2>1, <3>1 DEF OutputRow
    <3>3. cells = Under(row, columns, columns[c])
      <4>1. \A i \in 1 .. m : row[i].column \in 1 .. Len(columns)
        BY <1>2, <1>3 DEF Known
      <4>2. \A i \in 1 .. m : columns[row[i].column] = columns[c] <=> row[i].column = c
        BY <1>3, <4>1 DEF Once
      <4>3. Under(row, columns, columns[c]) = {i \in 1 .. m : columns[row[i].column] = columns[c]}
        BY <1>2 DEF Under
      <4> QED
        BY <3>1, <4>2, <4>3
    <3>4. /\ ValueOf(r, columns[c]) = Null <=> cells = {}
          /\ \A i \in cells : row[i].value = ValueOf(r, columns[c])
      BY <1>3, <3>3 DEF Shows
    <3> QED
      BY <3>2, <3>4
  <2> QED
    BY <2>1, <2>2
<1> QED
  BY <1>4, <1>5

(* The inductive invariant: the rowset is what the parser makes of the     *)
(* table, and the rows given are its first ones, each through OutputRow.   *)
OutputRows == {OutputRow(row) : row \in Seq(Cell)}

RowsetRead ==
    /\ sent \in BOOLEAN /\ executions \in 0 .. MaxExecutions
    /\ table \in Tables \cup { <<>> } /\ rowset = Parsed(table)

GivenSoFar ==
    /\ offset \in 0 .. Len(rowset.rows)
    /\ delivered \in Seq(OutputRows) /\ Len(delivered) = offset
    /\ \A r \in 1 .. offset : delivered[r] = OutputRow(rowset.rows[r])
    /\ pc # "bound" => offset = 0

DInv == RowsetRead /\ GivenSoFar

LEMMA RowsetSays ==
    ASSUME RowsetRead
    PROVE  /\ table \in Seq(Rows) /\ Len(table) \in Nat
           /\ rowset \in Rowsets /\ Len(rowset.rows) \in Nat
           /\ ~SelfClosing => SaysRows(rowset, table, Len(table))
           /\ \A r \in 1 .. Len(rowset.rows) : rowset.rows[r] \in Seq(Cell)
<1>1. table \in Seq(Rows)
  <2>1. Tables \subseteq Seq(Rows) /\ <<>> \in Seq(Rows)
    BY TablesAssumption DEF Rows
  <2> QED
    BY <2>1 DEF RowsetRead
<1>2. rowset \in Rowsets /\ (~SelfClosing => SaysRows(rowset, table, Len(table)))
  BY <1>1, ParsedSays DEF RowsetRead
<1>3. rowset.rows \in Seq(Seq(Cell))
  BY <1>2, RowsetParts
<1> QED
  BY <1>1, <1>2, <1>3, LenProperties, ElementOfSeq

(* What the invariant says of what was delivered.                          *)
LEMMA DInvDelivers ==
    ASSUME DInv, ~SelfClosing
    PROVE  DeliveredWhole
<1>1. PICK n \in Nat : n = Len(table) /\ n = Len(rowset.rows)
  BY RowsetSays DEF DInv, SaysRows
<1>2. offset \in 0 .. n /\ Len(delivered) = offset
  BY <1>1 DEF DInv, GivenSoFar
<1>3. ASSUME NEW r \in 1 .. offset, NEW c \in 1 .. Len(Described)
      PROVE  delivered[r][c] = ValueOf(table[r], Described[c])
  <2>1. r \in 1 .. n
    BY <1>2
  <2>2. PICK row \in Seq(Cell) : row = rowset.rows[r]
    BY <1>1, <2>1, RowsetSays DEF DInv
  <2>3. Known(row, rowset.columns) /\ \A name : Shows(row, rowset.columns, name, ValueOf(table[r], name))
    BY <1>1, <2>1, <2>2, RowsetSays DEF DInv, SaysRows
  <2>4. OutputRow(row)[c] = ValueOf(table[r], Described[c])
    BY <2>3, OutputRowGives, RowsetSays DEF DInv
  <2> QED
    BY <2>2, <2>4 DEF DInv, GivenSoFar
<1>4. Taken = 0 => offset = n
  BY <1>1, <1>2, FunctionsAssumption DEF Taken
<1>5. \A r \in 1 .. Len(delivered) : \A c \in 1 .. Len(Described) :
          delivered[r][c] = ValueOf(table[r], Described[c])
  BY <1>2, <1>3
<1> QED
  BY <1>1, <1>2, <1>4, <1>5 DEF DeliveredWhole, ValueOf

LEMMA DInvHoldsFirst == FunctionsInit => DInv
<1> SUFFICES ASSUME FunctionsInit PROVE DInv
  OBVIOUS
<1>1. <<>> \in Seq(Rows) /\ Len(<<>>) = 0
  OBVIOUS
<1>2. Parsed(<<>>) = NoRows
  BY <1>1, ParsedOfNone
<1>3. RowsetRead
  <2>1. sent = FALSE /\ rowset = NoRows /\ table = <<>> /\ executions = 0
    BY DEF FunctionsInit
  <2>2. 0 \in 0 .. MaxExecutions
    BY FunctionsAssumption
  <2>3. table \in Tables \cup { <<>> } /\ rowset = Parsed(table)
    BY <1>2, <2>1, Zenon
  <2> QED
    BY <2>1, <2>2, <2>3 DEF RowsetRead
<1>4. GivenSoFar
  BY <1>1 DEF FunctionsInit, GivenSoFar
<1> QED
  BY <1>3, <1>4 DEF DInv

(* The same rowset puts out a row the same way.                            *)
LEMMA OutputRowsSame ==
    ASSUME UNCHANGED rowset
    PROVE  OutputRows' = OutputRows /\ \A row : OutputRow(row)' = OutputRow(row)
<1>1. \A row : OutputRow(row)' = OutputRow(row)
  BY DEF OutputRow, Described
<1>2. OutputRows' = OutputRows
  BY <1>1 DEF OutputRows
<1> QED
  BY <1>1, <1>2

LEMMA DInvUnchanged ==
    ASSUME DInv, UNCHANGED <<rowset, table, offset, executions, delivered>>, sent' \in BOOLEAN,
           pc # "bound" \/ pc' = "bound"
    PROVE  DInv'
<1>1. RowsetRead'
  BY DEF DInv, RowsetRead
<1>2. GivenSoFar'
  BY OutputRowsSame DEF DInv, GivenSoFar
<1> QED
  BY <1>1, <1>2 DEF DInv

LEMMA BindKeepsDInv ==
    ASSUME DInv, Bind
    PROVE  DInv'
<1>1. CASE StartBind
  <2>1. UNCHANGED <<rowset, table, offset, executions, delivered, sent>> /\ pc # "bound"
    BY <1>1 DEF StartBind, scan
  <2> QED
    BY <2>1, DInvUnchanged DEF DInv, RowsetRead
<1>2. CASE SendRequest
  <2>1. UNCHANGED <<rowset, table, offset, executions, delivered>> /\ pc # "bound"
    BY <1>2 DEF SendRequest, scan
  <2>2. sent' \in BOOLEAN
    <3>1. sent' = TRUE \/ sent' = sent
      BY <1>2 DEF SendRequest
    <3> QED
      BY <3>1 DEF DInv, RowsetRead
  <2> QED
    BY <2>1, <2>2, DInvUnchanged
<1>3. CASE NotAnswered
  <2>1. UNCHANGED <<rowset, table, offset, executions, delivered, sent>> /\ pc # "bound"
    BY <1>3 DEF NotAnswered, scan
  <2> QED
    BY <2>1, DInvUnchanged DEF DInv, RowsetRead
<1>4. ASSUME NEW t \in Tables, Answered(t) PROVE DInv'
  <2>1. pc # "bound" /\ rowset' = Parsed(t) /\ table' = t /\ UNCHANGED <<offset, executions, delivered, sent>>
    BY <1>4 DEF Answered, scan
  <2>2. offset = 0 /\ delivered = <<>>
    <3>1. offset = 0 /\ Len(delivered) = 0 /\ delivered \in Seq(OutputRows)
      BY <2>1 DEF DInv, GivenSoFar
    <3> QED
      BY <3>1, EmptySeq
  <2>3. Len(Parsed(t).rows) \in Nat
    <3>1. t \in Seq(Rows)
      BY TablesAssumption DEF Rows
    <3>2. Parsed(t).rows \in Seq(Seq(Cell))
      BY <3>1, ParsedSays, RowsetParts
    <3> QED
      BY <3>2, LenProperties
  <2>4. RowsetRead'
    BY <2>1 DEF DInv, RowsetRead
  <2>5. GivenSoFar'
    <3>1. <<>> \in Seq(OutputRows') /\ Len(<<>>) = 0 /\ 0 \in 0 .. Len(Parsed(t).rows)
      BY <2>3
    <3> QED
      BY <2>1, <2>2, <3>1 DEF GivenSoFar
  <2> QED
    BY <2>4, <2>5 DEF DInv
<1> QED
  BY <1>1, <1>2, <1>3, <1>4 DEF Bind

(* The rows of two vectors.                                                *)
LEMMA JoinedRows ==
    ASSUME NEW T, NEW a \in Seq(T), NEW b \in Seq(T), NEW c, c = a \o b
    PROVE  /\ c \in Seq(T) /\ Len(c) = Len(a) + Len(b)
           /\ \A r \in 1 .. (Len(a) + Len(b)) : c[r] = IF r <= Len(a) THEN a[r] ELSE b[r - Len(a)]
BY ConcatProperties

LEMMA ScanKeepsDInv ==
    ASSUME DInv, InitGlobal \/ ScanVector
    PROVE  DInv'
<1>1. UNCHANGED <<rowset, table, sent, pc>> /\ pc = "bound"
  BY DEF InitGlobal, ScanVector, openingVars
<1>2. PICK n \in Nat : n = Len(rowset.rows)
  BY RowsetSays DEF DInv
<1>3. CASE InitGlobal
  <2>1. offset' = 0 /\ delivered' = <<>> /\ executions' = executions + 1 /\ executions < MaxExecutions
    BY <1>3 DEF InitGlobal
  <2>2. executions' \in 0 .. MaxExecutions
    BY <2>1, FunctionsAssumption DEF DInv, RowsetRead
  <2>3. RowsetRead'
    BY <1>1, <2>2 DEF DInv, RowsetRead
  <2>4. GivenSoFar'
    <3>1. <<>> \in Seq(OutputRows') /\ Len(<<>>) = 0 /\ 0 \in 0 .. n
      OBVIOUS
    <3> QED
      BY <1>1, <1>2, <2>1, <3>1 DEF GivenSoFar
  <2> QED
    BY <2>3, <2>4 DEF DInv
<1>4. CASE ScanVector
  <2>1. PICK k \in Nat : k = Taken /\ offset + k <= n
    <3>1. PICK o \in 0 .. n : o = offset
      BY <1>2 DEF DInv, GivenSoFar
    <3>2. PICK size \in Nat : size = VectorSize
      BY FunctionsAssumption
    <3>3. Taken = IF n - o < size THEN n - o ELSE size
      BY <1>2, <3>1, <3>2 DEF Taken
    <3>4. Taken \in Nat /\ o + Taken <= n
      BY <3>3
    <3> QED
      BY <3>1, <3>4
  <2>2. PICK o \in Nat : o = offset /\ o + k <= n /\ offset' = o + k
    BY <1>2, <1>4, <2>1 DEF ScanVector, DInv, GivenSoFar
  <2>3. PICK v : v = [i \in 1 .. k |-> OutputRow(rowset.rows[o + i])]
    OBVIOUS
  <2>4. v \in Seq(OutputRows) /\ Len(v) = k /\ \A i \in 1 .. k : v[i] = OutputRow(rowset.rows[o + i])
    <3>1. \A i \in 1 .. k : OutputRow(rowset.rows[o + i]) \in OutputRows
      <4>1. ASSUME NEW i \in 1 .. k PROVE rowset.rows[o + i] \in Seq(Cell)
        <5>1. o + i \in 1 .. n
          BY <2>2
        <5> QED
          BY <1>2, <5>1, RowsetSays DEF DInv
      <4> QED
        BY <4>1 DEF OutputRows
    <3> QED
      BY <2>3, <3>1, IsASeq
  <2>5. PICK d \in Seq(OutputRows) : d = delivered /\ Len(d) = o
                                    /\ \A r \in 1 .. o : d[r] = OutputRow(rowset.rows[r])
    BY <2>2 DEF DInv, GivenSoFar
  <2>6. PICK all : all = d \o v
    OBVIOUS
  <2>7. /\ all \in Seq(OutputRows) /\ Len(all) = o + k
        /\ \A r \in 1 .. (o + k) : all[r] = IF r <= o THEN d[r] ELSE v[r - o]
    <3>1. PICK l \in Nat : l = Len(d) /\ l = o
      BY <2>5
    <3>2. PICK m \in Nat : m = Len(v) /\ m = k
      BY <2>4
    <3>3. /\ all \in Seq(OutputRows) /\ Len(all) = l + m
          /\ \A r \in 1 .. (l + m) : all[r] = IF r <= l THEN d[r] ELSE v[r - l]
      <4>1. PICK T : T = OutputRows
        OBVIOUS
      <4>2. d \in Seq(T) /\ v \in Seq(T)
        BY <2>4, <4>1
      <4>3. /\ all \in Seq(T) /\ Len(all) = Len(d) + Len(v)
            /\ \A r \in 1 .. (Len(d) + Len(v)) : all[r] = IF r <= Len(d) THEN d[r] ELSE v[r - Len(d)]
        BY <2>6, <4>2, JoinedRows
      <4> QED
        BY <3>1, <3>2, <4>1, <4>3
    <3> QED
      BY <3>1, <3>2, <3>3
  <2>8. ASSUME NEW r \in 1 .. (o + k) PROVE all[r] = OutputRow(rowset.rows[r])
    <3>1. CASE r <= o
      <4>1. r \in 1 .. o
        BY <3>1
      <4> QED
        BY <2>5, <2>7, <3>1, <4>1
    <3>2. CASE ~(r <= o)
      <4>1. r - o \in 1 .. k /\ o + (r - o) = r
        BY <3>2
      <4> QED
        BY <2>4, <2>7, <3>2, <4>1
    <3> QED
      BY <3>1, <3>2
  <2>9. delivered' = all
    BY <1>4, <2>1, <2>2, <2>3, <2>5, <2>6 DEF ScanVector
  <2>10. RowsetRead'
    BY <1>1, <1>4 DEF ScanVector, DInv, RowsetRead
  <2>11. GivenSoFar'
    <3>1. o + k \in 0 .. n
      BY <2>2
    <3> QED
      BY <1>1, <1>2, <2>2, <2>7, <2>8, <2>9, <3>1, OutputRowsSame DEF GivenSoFar
  <2> QED
    BY <2>10, <2>11 DEF DInv
<1> QED
  BY <1>3, <1>4

(* In every state the rowset is what ParseRowset makes of the server's     *)
(* answer, with a row written <row/> lost or not, and what an execution    *)
(* has given DuckDB is the first rows of it, as many as offset counts.     *)
THEOREM DInvAlways == FunctionsSpec => []DInv
<1>1. ASSUME DInv, [FunctionsNext]_functionVars PROVE DInv'
  <2>1. CASE Bind
    BY <1>1, <2>1, BindKeepsDInv
  <2>2. CASE Thread
    <3>1. UNCHANGED <<rowset, table, offset, executions, delivered, sent>>
      BY <2>2 DEF Thread, scan
    <3>2. pc # "bound"
      BY <2>2 DEF Thread, OpeningNext, StartOpening, Context, CheckNames, ImportTarget, ImportUser, Acquire,
         Connect, LookUp, OpenSocket, NoSocket, NoMoreAddresses, SetNonblocking, CallFails, ConnectsAtOnce,
         InProgress, DeadlinePassed, Poll, PollTimesOut, Writable, Interrupted, Tick, Shakes
    <3> QED
      BY <1>1, <3>1, <3>2, DInvUnchanged DEF DInv, RowsetRead
  <2>3. CASE InitGlobal \/ ScanVector
    BY <1>1, <2>3, ScanKeepsDInv
  <2>4. CASE UNCHANGED functionVars
    <3>1. UNCHANGED <<rowset, table, offset, executions, delivered, sent, pc>>
      BY <2>4 DEF functionVars, scan, openingVars
    <3> QED
      BY <1>1, <3>1, DInvUnchanged DEF DInv, RowsetRead
  <2> QED
    BY <1>1, <2>1, <2>2, <2>3, <2>4 DEF FunctionsNext
<1> QED
  BY <1>1, DInvHoldsFirst, PTL DEF FunctionsSpec

(* Each execution of the plan hands out the server's rows from the first   *)
(* on, each value under its column's name, whichever row a column came     *)
(* with, and all of them before it says that it is done, when the server   *)
(* does not close a row by itself (rowset.cpp:452-460).                    *)
THEOREM RowsetDeliveredWhole ==
    ASSUME ~SelfClosing
    PROVE  FunctionsSpec => []DeliveredWhole
<1>1. DInv => DeliveredWhole
  BY DInvDelivers
<1> QED
  BY <1>1, DInvAlways, PTL

(* The types; the offset stays within the rowset.                          *)
THEOREM FunctionsTyped == FunctionsSpec => []FunctionsTypeOK
<1>1. OInv /\ DInv => FunctionsTypeOK
  <2> SUFFICES ASSUME OInv, DInv PROVE FunctionsTypeOK
    OBVIOUS
  <2>1. OpeningTypeOK
    BY OInvGivesProperties
  <2>2. offset \in 0 .. Len(rowset.rows)
    BY DEF DInv, GivenSoFar
  <2> QED
    BY <2>1, <2>2 DEF FunctionsTypeOK, DInv, RowsetRead
<1> QED
  BY <1>1, OInvAlways, DInvAlways, PTL

-----------------------------------------------------------------------------
(* The connection string: how ParseConnectionString reads a text that says *)
(* some options.                                                           *)

(* A connection string and its places.                                     *)
LEMMA TextTyped ==
    ASSUME NEW s \in Seq(Characters)
    PROVE  Len(s) \in Nat /\ \A i \in 1 .. Len(s) : s[i] \in Characters
BY LenProperties, ElementOfSeq

LEMMA FindAmong ==
    ASSUME NEW S, NEW s \in Seq(S), NEW T, T \subseteq 1 .. Len(s)
    PROVE  /\ Find(s, T) \in 1 .. (Len(s) + 1)
           /\ T = {} => Find(s, T) = Len(s) + 1
           /\ T # {} => Find(s, T) \in T
           /\ \A k \in T : Find(s, T) <= k
<1>1. Len(s) \in Nat
  BY LenProperties
<1>2. CASE T = {}
  BY <1>1, <1>2 DEF Find
<1>3. CASE T # {}
  <2>1. \E j \in T : \A k \in T : j <= k
    <3>1. T \subseteq Nat
      BY <1>1
    <3> QED
      BY <1>3, <3>1, LeastNumber
  <2>2. Find(s, T) \in T /\ \A k \in T : Find(s, T) <= k
    BY <1>3, <2>1 DEF Find
  <2>3. Find(s, T) \in 1 .. Len(s)
    BY <2>2
  <2> HIDE DEF Find
  <2>4. Find(s, T) \in 1 .. (Len(s) + 1)
    BY <1>1, <2>3
  <2> QED
    BY <1>3, <2>2, <2>4
<1> QED
  BY <1>2, <1>3

(* An option that is written somewhere.                                    *)
LEMMA OptionParts ==
    ASSUME NEW s \in Seq(Characters), NEW o, IsOption(o), IsWritten(s, o)
    PROVE  /\ Len(o.key) \in Nat /\ Len(o.key) >= 1 /\ Len(o.value) \in Nat
           /\ o.at \in Nat /\ Starts(o) \in Nat /\ Ends(o) \in Nat
           /\ Starts(o) = o.at + Len(o.key) + 1
           /\ o.at >= 1 /\ Starts(o) > o.at + 1 /\ Starts(o) <= Ends(o) /\ Ends(o) <= Len(s) + 1
           /\ \A k \in o.at .. (Starts(o) - 2) : s[k] \in Words \cup Numbers /\ s[k] = o.key[k - o.at + 1]
           /\ s[o.at] \in Words /\ s[Starts(o) - 1] = "="
<1>1. Len(o.key) \in Nat /\ Len(o.key) >= 1 /\ Len(o.value) \in Nat
      /\ \A k \in 1 .. Len(o.key) : o.key[k] \in Words \cup Numbers
  BY EmptySeq, LenProperties, ElementOfSeq DEF IsOption, IsKey
<1>2. PICK n \in Nat : n = Len(o.key) /\ n >= 1
  BY <1>1
<1>3. PICK m \in Nat : m = Len(o.value)
  BY <1>1
<1>4. PICK a \in Nat : a = o.at /\ a >= 1
  BY TextTyped DEF IsWritten
<1>5. PICK f \in Nat, t \in Nat : /\ f = Starts(o) /\ t = Ends(o)
                                   /\ f = a + n + 1 /\ t >= f
  <2>1. Starts(o) = a + n + 1
    BY <1>2, <1>4 DEF Starts
  <2>2. Ends(o) = a + n + 1 + m \/ Ends(o) = a + n + 1 + m + 2
    <3>1. CASE o.quote = "none"
      <4>1. Ends(o) = Starts(o) + Len(o.value) + 0
        BY <3>1 DEF Ends
      <4> QED
        BY <1>3, <2>1, <4>1
    <3>2. CASE o.quote # "none"
      <4>1. Ends(o) = Starts(o) + Len(o.value) + 2
        BY <3>2 DEF Ends
      <4> QED
        BY <1>3, <2>1, <4>1
    <3> QED
      BY <3>1, <3>2
  <2> QED
    BY <2>1, <2>2
<1>6. Ends(o) <= Len(s) + 1 /\ s[Starts(o) - 1] = "=" /\ IsAt(s, o.key, a)
  BY <1>4 DEF IsWritten
<1>7. ASSUME NEW k \in a .. (a + n - 1)
      PROVE  s[k] \in Words \cup Numbers /\ s[k] = o.key[k - a + 1]
  <2>1. PICK j \in 1 .. n : j = k - a + 1
    BY <1>2, <1>4
  <2>2. a + j - 1 = k
    BY <2>1
  <2>3. s[a + j - 1] = o.key[j]
    BY <1>2, <1>6 DEF IsAt
  <2> QED
    BY <1>1, <1>2, <2>1, <2>2, <2>3
<1>8. s[a] \in Words
  <2>1. a + 1 - 1 = a /\ 1 \in 1 .. n
    BY <1>2
  <2>2. s[a + 1 - 1] = o.key[1]
    BY <1>2, <1>6, <2>1 DEF IsAt
  <2> QED
    BY <2>1, <2>2 DEF IsOption, IsKey
<1>9. f - 2 = a + n - 1 /\ f > a + 1
  BY <1>2, <1>5
<1>10. \A k \in a .. (f - 2) : s[k] \in Words \cup Numbers /\ s[k] = o.key[k - a + 1]
  BY <1>7, <1>9
<1> QED
  BY <1>1, <1>2, <1>4, <1>5, <1>6, <1>8, <1>9, <1>10

(* Signs are no part of a key.                                             *)
LEMMA SignsApart ==
    /\ "=" \notin Words \cup Numbers /\ "=" \notin Separators /\ "=" \notin Quotes
    /\ \A c \in Separators \cup Quotes : c \notin Words \cup Numbers
    /\ \A c \in Separators : c \notin Quotes
    /\ Blank \in Separators /\ Semicolon \in Separators
    /\ \A c \in Separators : c = Blank \/ c = Semicolon
<1>1. /\ "=" # Blank /\ "=" # Semicolon
      /\ Blank \notin Quotes /\ Semicolon \notin Quotes /\ "=" \notin Quotes
  BY DEF Blank, Semicolon, Quotes
<1>2. /\ Blank \in Separators /\ Semicolon \in Separators
      /\ \A c \in Separators : c = Blank \/ c = Semicolon
  BY DEF Separators
<1>3. \A c \in Separators \cup Quotes \cup {"="} : c \notin Words \cup Numbers
  BY WordsAssumption
<1> QED
  BY <1>1, <1>2, <1>3

(* The key that is written at a token boundary is found.                   *)
LEMMA KeyFound ==
    ASSUME NEW s \in Seq(Characters), NEW o, IsOption(o), IsWritten(s, o),
           o.at > 1 => s[o.at - 1] \in Separators
    PROVE  KeyEnd(s, o.at) = Starts(o) - 1
<1>1. PICK a \in Nat, e \in Nat : a = o.at /\ e = Starts(o) - 1
  <2>1. o.at \in Nat /\ Starts(o) \in Nat /\ Starts(o) > o.at + 1
    BY OptionParts
  <2>2. Starts(o) - 1 \in Nat
    BY <2>1
  <2> QED
    BY <2>1, <2>2
<1>2. /\ a >= 1 /\ e > a /\ e <= Len(s) /\ s[a] \in Words /\ s[e] = "="
      /\ \A k \in a .. (e - 1) : s[k] \in Words \cup Numbers
  <2>1. Len(s) \in Nat
    BY TextTyped
  <2> QED
    BY <1>1, <2>1, OptionParts
<1> DEFINE ends == {j \in (a + 1) .. Len(s) : /\ s[j] = "="
                                              /\ \A k \in a .. (j - 1) : s[k] \in Words \cup Numbers}
<1>3. e \in ends
  BY <1>2, TextTyped
<1>4. ASSUME NEW j \in ends PROVE j = e
  <2>1. CASE j < e
    <3>1. j \in a .. (e - 1)
      BY <2>1, TextTyped
    <3> QED
      BY <1>2, <3>1, SignsApart
  <2>2. CASE j > e
    <3>1. e \in a .. (j - 1)
      BY <1>2, <2>2, TextTyped
    <3> QED
      BY <1>2, <3>1, SignsApart
  <2>3. j \in Int
    BY TextTyped
  <2> QED
    BY <2>1, <2>2, <2>3
<1>5. (CHOOSE j \in ends : TRUE) = e
  <2> HIDE DEF ends
  <2> QED
    BY <1>3, <1>4
<1>6. KeyEnd(s, a) = CHOOSE j \in ends : TRUE
  BY <1>1, <1>2, <1>3 DEF KeyEnd
<1> QED
  BY <1>1, <1>5, <1>6

(* A key that is found is inside the text.                                 *)
LEMMA KeyInside ==
    ASSUME NEW s \in Seq(Characters), NEW i \in 1 .. Len(s), KeyEnd(s, i) # 0
    PROVE  KeyEnd(s, i) \in (i + 1) .. Len(s)
<1> DEFINE ends == {j \in (i + 1) .. Len(s) : /\ s[j] = "="
                                              /\ \A k \in i .. (j - 1) : s[k] \in Words \cup Numbers}
<1>1. ends # {} /\ KeyEnd(s, i) = CHOOSE j \in ends : TRUE
  BY DEF KeyEnd
<1>2. KeyEnd(s, i) \in ends
  <2> HIDE DEF ends
  <2> QED
    BY <1>1
<1> QED
  BY <1>2

(* What follows an option: separators, up to a place where a key is, or    *)
(* the end.                                                                *)
Follows(s, o, z) ==
    /\ Ends(o) <= z /\ AreSeparators(s, Ends(o), z - 1)
    /\ z = Len(s) + 1 \/ (Ends(o) < z /\ z <= Len(s) /\ KeyEnd(s, z) # 0)

(* No key is inside a value without quotes.                                *)
LEMMA NoKeyInValue ==
    ASSUME NEW s \in Seq(Characters), NEW o, IsOption(o), IsWritten(s, o), o.quote = "none",
           NEW z \in 1 .. (Len(s) + 1), Follows(s, o, z),
           NEW j \in Starts(o) .. (Ends(o) - 1)
    PROVE  s[j] # Semicolon /\ KeyEnd(s, j) = 0
<1>1. PICK f \in Nat, t \in Nat, m \in Nat : f = Starts(o) /\ t = Ends(o) /\ m = Len(o.value)
  BY OptionParts
<1>2. t = f + m /\ f > 1 /\ t <= Len(s) + 1
  <2>1. Ends(o) = Starts(o) + Len(o.value) + 0
    BY DEF Ends
  <2>2. f > 1 /\ t <= Len(s) + 1
    <3>1. o.at \in Nat /\ o.at >= 1 /\ f > o.at + 1 /\ t <= Len(s) + 1
      BY <1>1, OptionParts
    <3> QED
      BY <3>1
  <2>3. t = f + m
    BY <1>1, <2>1
  <2> QED
    BY <2>2, <2>3
<1>3. ASSUME NEW k \in f .. (t - 1) PROVE s[k] # Semicolon /\ s[k] # "="
  <2>1. PICK i \in 1 .. m : i = k - f + 1
    BY <1>2
  <2>2. f + i - 1 = k
    BY <2>1
  <2>3. s[f + i - 1] = o.value[i]
    BY <1>1 DEF IsWritten, IsAt
  <2>4. o.value[i] \notin {Semicolon, "="}
    BY <1>1 DEF IsOption, IsPlain
  <2> QED
    BY <2>2, <2>3, <2>4
<1>4. t <= Len(s) => s[t] \in Separators
  <2> SUFFICES ASSUME t <= Len(s) PROVE s[t] \in Separators
    OBVIOUS
  <2>1. Len(s) \in Nat /\ t < z
    BY <1>1, TextTyped DEF Follows
  <2>2. t \in t .. (z - 1)
    BY <2>1
  <2> QED
    BY <1>1, <2>2 DEF Follows, AreSeparators
<1>5. PICK i \in Nat : i = j /\ i >= f /\ i < t
  BY <1>1
<1> DEFINE ends == {e \in (i + 1) .. Len(s) : /\ s[e] = "="
                                              /\ \A k \in i .. (e - 1) : s[k] \in Words \cup Numbers}
<1>6. ASSUME NEW e \in ends PROVE FALSE
  <2>1. e \in Nat /\ e <= Len(s) /\ e > i /\ s[e] = "="
    BY TextTyped
  <2>2. e >= t
    BY <1>3, <1>5, <2>1
  <2>3. s[t] \in Separators
    BY <1>4, <2>1, <2>2, TextTyped
  <2>4. CASE e = t
    BY <2>1, <2>3, <2>4, SignsApart
  <2>5. CASE e # t
    <3>1. t \in i .. (e - 1)
      BY <1>5, <2>1, <2>2, <2>5
    <3> QED
      BY <2>3, <3>1, SignsApart
  <2> QED
    BY <2>4, <2>5
<1>7. KeyEnd(s, i) = 0
  <2>1. ends = {}
    BY <1>6
  <2> QED
    BY <2>1 DEF KeyEnd
<1> QED
  BY <1>1, <1>3, <1>5, <1>7

(* Where a value without quotes ends.                                      *)
LEMMA ValueEndFound ==
    ASSUME NEW s \in Seq(Characters), NEW o, IsOption(o), IsWritten(s, o), o.quote = "none",
           NEW z \in 1 .. (Len(s) + 1), Follows(s, o, z)
    PROVE  /\ ValueEnd(s, Starts(o)) \in Ends(o) .. z
           /\ \A k \in Ends(o) .. (ValueEnd(s, Starts(o)) - 1) : s[k] = Blank
<1>1. PICK f \in Nat, t \in Nat, n \in Nat :
         f = Starts(o) /\ t = Ends(o) /\ n = Len(s) /\ f >= 1 /\ f <= t /\ t <= n + 1
  BY OptionParts, TextTyped
<1> DEFINE V == {j \in f .. n : s[j] = Semicolon \/ KeyEnd(s, j) # 0}
<1>2. V \subseteq 1 .. Len(s)
  BY <1>1
<1>3. PICK e \in 1 .. (n + 1) : e = ValueEnd(s, f) /\ e = Find(s, V)
  BY <1>1, <1>2, FindAmong DEF ValueEnd
<1>4. /\ V = {} => e = n + 1
      /\ V # {} => e \in V
      /\ \A k \in V : e <= k
  <2>1. /\ V = {} => Find(s, V) = n + 1
        /\ V # {} => Find(s, V) \in V
        /\ \A k \in V : Find(s, V) <= k
    BY <1>1, <1>2, FindAmong
  <2> HIDE DEF V
  <2> QED
    BY <1>3, <2>1
<1>5. ASSUME NEW k \in V PROVE k >= t
  <2>1. k \in Nat /\ k >= f
    BY <1>1
  <2>2. CASE k < t
    <3>1. k \in Starts(o) .. (Ends(o) - 1)
      BY <1>1, <2>1, <2>2
    <3>2. s[k] # Semicolon /\ KeyEnd(s, k) = 0
      BY <3>1, NoKeyInValue
    <3> QED
      BY <3>2
  <2> QED
    BY <1>1, <2>1, <2>2
<1>6. e >= t
  BY <1>1, <1>4, <1>5
<1>7. e <= z
  <2>1. CASE z = n + 1
    BY <2>1
  <2>2. CASE z # n + 1
    <3>1. t < z /\ z <= n /\ KeyEnd(s, z) # 0
      BY <1>1, <2>2 DEF Follows
    <3>2. z \in V
      BY <1>1, <3>1
    <3> QED
      BY <1>4, <3>2
  <2> QED
    BY <2>1, <2>2
<1>8. ASSUME NEW k \in t .. (e - 1) PROVE s[k] = Blank
  <2>1. k \in f .. n /\ k < e /\ k \in t .. (z - 1)
    BY <1>1, <1>3, <1>7
  <2>2. k \notin V
    BY <1>3, <1>4, <2>1
  <2>3. s[k] # Semicolon
    BY <2>1, <2>2
  <2>4. s[k] \in Separators
    BY <1>1, <2>1 DEF Follows, AreSeparators
  <2> QED
    BY <2>3, <2>4, SignsApart
<1> HIDE DEF V
<1> QED
  BY <1>1, <1>3, <1>6, <1>7, <1>8

(* A part of a text, by its symbols.                                       *)
LEMMA SubSeqIs ==
    ASSUME NEW S, NEW w \in Seq(S), NEW v \in Seq(S), NEW i \in Nat, NEW j \in Int,
           i >= 1, j <= Len(w), Len(v) = j - i + 1,
           \A k \in 1 .. Len(v) : w[i + k - 1] = v[k]
    PROVE  SubSeq(w, i, j) = v
<1>1. PICK m \in Nat, n \in Nat : m = Len(v) /\ n = Len(w) /\ m = j - i + 1 /\ j <= n
  BY LenProperties
<1>2. i \in 1 .. (n + 1) /\ j \in (i - 1) .. n
  BY <1>1
<1>3. /\ SubSeq(w, i, j) \in Seq(S) /\ Len(SubSeq(w, i, j)) = m
      /\ \A k \in 1 .. m : SubSeq(w, i, j)[k] = w[i + k - 1]
  <2>1. /\ SubSeq(w, i, j) \in Seq(S)
        /\ Len(SubSeq(w, i, j)) = IF i <= j THEN j - i + 1 ELSE 0
        /\ \A k \in 1 .. (j - i + 1) : SubSeq(w, i, j)[k] = w[i + k - 1]
    BY <1>1, <1>2, SubSeqProperties
  <2> QED
    BY <1>1, <2>1
<1>4. \A k \in 1 .. m : SubSeq(w, i, j)[k] = v[k]
  BY <1>1, <1>3
<1> QED
  BY <1>1, <1>3, <1>4, SeqEqual

(* A value without quotes, with the blanks that may follow it.             *)
LEMMA TrimmedPlain ==
    ASSUME NEW v \in Seq(Characters), IsPlain(v), NEW w \in Seq(Characters), Len(w) >= Len(v),
           \A k \in 1 .. Len(v) : w[k] = v[k],
           \A k \in (Len(v) + 1) .. Len(w) : w[k] = Blank
    PROVE  Trim(w) = v
<1>1. PICK m \in Nat, n \in Nat : m = Len(v) /\ n = Len(w) /\ m <= n
  BY LenProperties
<1> DEFINE ink == {i \in 1 .. Len(w) : w[i] # Blank}
<1>2. CASE m = 0
  <2>1. ink = {}
    BY <1>1, <1>2
  <2>2. v = <<>>
    BY <1>1, <1>2, EmptySeq
  <2> QED
    BY <2>1, <2>2 DEF Trim
<1>3. CASE m # 0
  <2>1. v # <<>> /\ m >= 1
    BY <1>1, <1>3, EmptySeq
  <2>2. v[1] # Blank /\ v[m] # Blank
    BY <1>1, <2>1 DEF IsPlain
  <2>3. 1 \in ink /\ m \in ink
    BY <1>1, <2>1, <2>2
  <2>4. \A j \in ink : 1 <= j /\ j <= m
    BY <1>1
  <2>5. ink \subseteq Int
    BY <1>1
  <2>6. (CHOOSE i \in ink : \A j \in ink : i <= j) = 1
    <3> HIDE DEF ink
    <3>1. \A i \in ink : (\A j \in ink : i <= j) => i = 1
      BY <2>3, <2>4, <2>5
    <3>2. \E i \in ink : \A j \in ink : i <= j
      BY <2>3, <2>4
    <3> QED
      BY <3>1, <3>2
  <2>7. (CHOOSE i \in ink : \A j \in ink : j <= i) = m
    <3> HIDE DEF ink
    <3>1. \A i \in ink : (\A j \in ink : j <= i) => i = m
      BY <2>3, <2>4, <2>5
    <3>2. \E i \in ink : \A j \in ink : j <= i
      BY <2>3, <2>4
    <3> QED
      BY <3>1, <3>2
  <2>8. ink # {}
    BY <2>3
  <2>9. Trim(w) = SubSeq(w, 1, m)
    <3>1. Trim(w) = SubSeq(w, CHOOSE i \in ink : \A j \in ink : i <= j,
                              CHOOSE i \in ink : \A j \in ink : j <= i)
      BY <2>8 DEF Trim
    <3> HIDE DEF ink
    <3> QED
      BY <2>6, <2>7, <3>1
  <2>10. SubSeq(w, 1, m) = v
    BY <1>1, <2>1, SubSeqIs
  <2> QED
    BY <2>9, <2>10
<1> QED
  BY <1>2, <1>3

(* A value without quotes is read as it is written.                        *)
LEMMA PlainValueRead ==
    ASSUME NEW s \in Seq(Characters), NEW o, IsOption(o), IsWritten(s, o), o.quote = "none",
           NEW z \in 1 .. (Len(s) + 1), Follows(s, o, z)
    PROVE  ValueAt(s, Starts(o)) = o.value /\ PastValue(s, Starts(o)) \in Ends(o) .. z
<1>1. PICK f \in Nat, t \in Nat, n \in Nat, m \in Nat :
         /\ f = Starts(o) /\ t = Ends(o) /\ n = Len(s) /\ m = Len(o.value)
         /\ f >= 1 /\ f <= t /\ t <= n + 1
  BY OptionParts, TextTyped
<1>2. t = f + m
  <2>1. Ends(o) = Starts(o) + Len(o.value) + 0
    BY DEF Ends
  <2> QED
    BY <1>1, <2>1
<1>3. o.value \in Seq(Characters) /\ IsPlain(o.value) /\ IsAt(s, o.value, f)
  <2>1. o.value \in Seq(Characters)
    BY DEF IsOption, Options
  <2> QED
    BY <1>1, <2>1 DEF IsOption, IsWritten
<1>4. ~IsQuoted(s, f)
  <2> SUFFICES ASSUME f <= n PROVE s[f] \notin Quotes
    BY <1>1 DEF IsQuoted
  <2>1. CASE m = 0
    <3>1. t = f /\ f < z /\ f \in f .. (z - 1)
      <4>1. t = f /\ t < z
        BY <1>1, <1>2, <2>1 DEF Follows
      <4> QED
        BY <4>1
    <3>2. s[f] \in Separators
      BY <1>1, <3>1 DEF Follows, AreSeparators
    <3> QED
      BY <3>2, SignsApart DEF Separators
  <2>2. CASE m # 0
    <3>1. 1 \in 1 .. m /\ f + 1 - 1 = f /\ o.value # <<>>
      BY <1>1, <2>2, EmptySeq
    <3>2. s[f + 1 - 1] = o.value[1]
      BY <1>1, <1>3, <3>1 DEF IsAt
    <3>3. o.value[1] \notin Quotes
      BY <1>3, <3>1 DEF IsPlain
    <3> QED
      BY <3>1, <3>2, <3>3
  <2> QED
    BY <2>1, <2>2
<1>5. PICK e \in Nat : /\ e = ValueEnd(s, f) /\ e >= t /\ e <= z /\ e <= n + 1
                       /\ \A k \in t .. (e - 1) : s[k] = Blank
  BY <1>1, ValueEndFound
<1>6. PICK w \in Seq(Characters) : /\ w = SubSeq(s, f, e - 1) /\ Len(w) = e - f
                                   /\ \A k \in 1 .. (e - f) : w[k] = s[f + k - 1]
  <2>1. \A i \in f .. (e - 1) : s[i] \in Characters
    BY <1>1, <1>5, TextTyped
  <2>2. /\ SubSeq(s, f, e - 1) \in Seq(Characters)
        /\ Len(SubSeq(s, f, e - 1)) = IF f <= e - 1 THEN (e - 1) - f + 1 ELSE 0
        /\ \A k \in 1 .. ((e - 1) - f + 1) : SubSeq(s, f, e - 1)[k] = s[f + k - 1]
    BY <2>1, SubSeqProperties
  <2>3. (e - 1) - f + 1 = e - f /\ (~(f <= e - 1) => e - f = 0)
    BY <1>1, <1>5
  <2> QED
    BY <2>2, <2>3
<1>7. ASSUME NEW k \in 1 .. m PROVE w[k] = o.value[k]
  <2>1. k \in 1 .. (e - f)
    BY <1>2, <1>5
  <2>2. s[f + k - 1] = o.value[k]
    BY <1>1, <1>3 DEF IsAt
  <2> QED
    BY <1>6, <2>1, <2>2
<1>8. ASSUME NEW k \in (m + 1) .. (e - f) PROVE w[k] = Blank
  <2>1. k \in 1 .. (e - f) /\ f + k - 1 \in t .. (e - 1)
    BY <1>2, <1>5
  <2> QED
    BY <1>5, <1>6, <2>1
<1>9. Trim(w) = o.value
  <2>1. Len(w) >= m
    BY <1>2, <1>5, <1>6
  <2>2. \A k \in (m + 1) .. Len(w) : w[k] = Blank
    BY <1>6, <1>8
  <2> QED
    BY <1>1, <1>3, <1>7, <2>1, <2>2, TrimmedPlain
<1>10. ValueAt(s, f) = Trim(w)
  BY <1>4, <1>5, <1>6 DEF ValueAt
<1>11. PastValue(s, f) = e
  BY <1>4, <1>5 DEF PastValue
<1> QED
  BY <1>1, <1>5, <1>9, <1>10, <1>11

(* A quoted value is read up to its quote.                                 *)
LEMMA ValueUnquoted ==
    ASSUME NEW s \in Seq(Characters), NEW o, IsOption(o), IsWritten(s, o), o.quote # "none"
    PROVE  ValueAt(s, Starts(o)) = o.value /\ PastValue(s, Starts(o)) = Ends(o)
<1>1. PICK f \in Nat, t \in Nat, n \in Nat, m \in Nat :
         /\ f = Starts(o) /\ t = Ends(o) /\ n = Len(s) /\ m = Len(o.value)
         /\ f >= 1 /\ f <= t /\ t <= n + 1
  <2>1. Starts(o) \in Nat /\ Ends(o) \in Nat /\ Len(s) \in Nat /\ Len(o.value) \in Nat
    BY OptionParts, TextTyped
  <2>2. o.at \in Nat /\ o.at >= 1 /\ Starts(o) > o.at + 1 /\ Starts(o) <= Ends(o) /\ Ends(o) <= Len(s) + 1
    BY OptionParts
  <2>3. Starts(o) >= 1 /\ Starts(o) <= Ends(o) /\ Ends(o) <= Len(s) + 1
    BY <2>1, <2>2
  <2> QED
    BY <2>1, <2>3
<1>2. t = f + m + 2
  <2>1. Ends(o) = Starts(o) + Len(o.value) + 2
    BY DEF Ends
  <2> QED
    BY <1>1, <2>1
<1>3. /\ o.value \in Seq(Characters) /\ o.quote \in Quotes
      /\ \A k \in 1 .. m : o.value[k] # o.quote
      /\ IsAt(s, o.value, f + 1) /\ s[f] = o.quote /\ s[t - 1] = o.quote
  <2>1. o.value \in Seq(Characters) /\ o.quote \in Quotes
    BY DEF IsOption, Options
  <2> QED
    BY <1>1, <2>1 DEF IsOption, IsWritten
<1>4. IsQuoted(s, f)
  BY <1>1, <1>2, <1>3 DEF IsQuoted
<1> DEFINE V == {j \in (f + 1) .. n : s[j] = o.quote}
<1>5. V \subseteq 1 .. Len(s) /\ t - 1 \in V /\ V \subseteq 1 .. n
  <2>1. t = f + m + 2 /\ t <= n + 1 /\ n = Len(s)
    BY <1>1, <1>2
  <2>2. t - 1 \in (f + 1) .. n
    BY <2>1
  <2>3. V \subseteq 1 .. n
    OBVIOUS
  <2> QED
    BY <1>3, <2>1, <2>2, <2>3
<1>6. ASSUME NEW k \in V PROVE k >= t - 1
  <2>0. k \in Nat /\ k >= f + 1
    OBVIOUS
  <2> SUFFICES ASSUME k < t - 1 PROVE FALSE
    BY <2>0
  <2>1. PICK i \in 1 .. m : i = k - f
    <3>1. k - f \in 1 .. m
      BY <1>2, <2>0
    <3> QED
      BY <3>1
  <2>2. (f + 1) + i - 1 = k
    BY <1>1, <2>1
  <2>3. s[(f + 1) + i - 1] = o.value[i]
    BY <1>1, <1>3 DEF IsAt
  <2> QED
    BY <1>3, <2>2, <2>3
<1>7. Find(s, V) = t - 1
  <2> HIDE DEF V
  <2>1. /\ Find(s, V) \in V
        /\ \A k \in V : Find(s, V) <= k
    BY <1>5, FindAmong
  <2>2. PICK x \in V : x = Find(s, V)
    BY <2>1
  <2>3. x >= t - 1 /\ x <= t - 1 /\ x \in 1 .. n
    BY <1>5, <1>6, <2>1, <2>2
  <2> QED
    BY <2>2, <2>3
<1>8. Unquote(s, f + 1, s[f]) = t - 1
  BY <1>1, <1>3, <1>7 DEF Unquote
<1>9. PastValue(s, f) = t
  BY <1>1, <1>4, <1>8 DEF PastValue
<1>10. SubSeq(s, f + 1, t - 2) = o.value
  <2>1. PICK i \in Nat, j \in Int : i = f + 1 /\ j = t - 2
    OBVIOUS
  <2>2. i >= 1 /\ j <= n /\ m = j - i + 1
    <3>1. t = f + m + 2 /\ t <= n + 1
      BY <1>1, <1>2
    <3> QED
      BY <2>1, <3>1
  <2>3. \A k \in 1 .. m : s[i + k - 1] = o.value[k]
    BY <1>1, <1>3, <2>1 DEF IsAt
  <2>4. /\ i >= 1 /\ j <= Len(s) /\ Len(o.value) = j - i + 1 /\ o.value \in Seq(Characters)
        /\ \A k \in 1 .. Len(o.value) : s[i + k - 1] = o.value[k]
    BY <1>1, <1>3, <2>2, <2>3
  <2>5. SubSeq(s, i, j) = o.value
    BY <2>4, SubSeqIs
  <2> QED
    BY <2>1, <2>5
<1>11. ValueAt(s, f) = SubSeq(s, f + 1, (t - 1) - 1) /\ (t - 1) - 1 = t - 2
  BY <1>4, <1>8 DEF ValueAt
<1> QED
  BY <1>1, <1>9, <1>10, <1>11

(* An option where a key may be is a pair, and the parser goes on behind   *)
(* it, among what separates it from the next.                              *)
LEMMA OptionRead ==
    ASSUME NEW s \in Seq(Characters), NEW o, IsOption(o), IsWritten(s, o),
           o.at > 1 => s[o.at - 1] \in Separators,
           NEW z \in 1 .. (Len(s) + 1), Follows(s, o, z)
    PROVE  /\ IsPair(s, o.at)
           /\ SubSeq(s, o.at, KeyEnd(s, o.at) - 1) = o.key
           /\ ValueAt(s, KeyEnd(s, o.at) + 1) = o.value
           /\ PastValue(s, KeyEnd(s, o.at) + 1) \in (o.at + 1) .. z
           /\ AreSeparators(s, PastValue(s, KeyEnd(s, o.at) + 1), z - 1)
<1>1. PICK a \in Nat, f \in Nat, t \in Nat, n \in Nat, l \in Nat :
         /\ a = o.at /\ f = Starts(o) /\ t = Ends(o) /\ n = Len(s) /\ l = Len(o.key)
         /\ a >= 1 /\ f = a + l + 1 /\ f > a + 1 /\ f <= t /\ t <= n + 1
  BY OptionParts, TextTyped
<1>2. KeyEnd(s, a) = f - 1 /\ KeyEnd(s, a) + 1 = f /\ KeyEnd(s, a) - 1 = f - 2 /\ KeyEnd(s, a) # 0
  <2>1. KeyEnd(s, a) = f - 1
    BY <1>1, KeyFound
  <2>2. (f - 1) + 1 = f /\ (f - 1) - 1 = f - 2 /\ f - 1 # 0
    <3>1. f > a + 1
      BY <1>1
    <3> QED
      BY <3>1
  <2> QED
    BY <2>1, <2>2
<1>3. PICK p \in Nat : /\ p = PastValue(s, f) /\ p >= t /\ p <= z
                       /\ ValueAt(s, f) = o.value
  <2>1. t <= z /\ z \in Nat
    BY <1>1 DEF Follows
  <2>2. CASE o.quote = "none"
    <3>1. ValueAt(s, Starts(o)) = o.value /\ PastValue(s, Starts(o)) \in Ends(o) .. z
      BY <2>2, PlainValueRead
    <3>2. ValueAt(s, f) = o.value /\ PastValue(s, f) \in t .. z
      BY <1>1, <3>1
    <3> QED
      BY <2>1, <3>2
  <2>3. CASE o.quote # "none"
    <3>1. ValueAt(s, Starts(o)) = o.value /\ PastValue(s, Starts(o)) = Ends(o)
      BY <2>3, ValueUnquoted
    <3>2. ValueAt(s, f) = o.value /\ PastValue(s, f) = t
      BY <1>1, <3>1
    <3> QED
      BY <2>1, <3>2
  <2> QED
    BY <2>2, <2>3
<1>4. SubSeq(s, a, f - 2) = o.key
  <2>1. o.key \in Seq(Words \cup Numbers)
    BY DEF IsOption, IsKey
  <2>2. o.key \in Seq(Characters)
    <3>1. Words \cup Numbers \subseteq Characters
      BY DEF Characters
    <3> QED
      BY <2>1, <3>1, SeqMonotonic
  <2>3. \A k \in 1 .. l : s[a + k - 1] = o.key[k]
    BY <1>1 DEF IsWritten, IsAt
  <2>4. PICK j \in Int : j = f - 2
    OBVIOUS
  <2>5. j <= n /\ l = j - a + 1
    <3>1. f = a + l + 1 /\ f <= n + 1
      BY <1>1
    <3> QED
      BY <2>4, <3>1
  <2>6. /\ a >= 1 /\ j <= Len(s) /\ Len(o.key) = j - a + 1
        /\ \A k \in 1 .. Len(o.key) : s[a + k - 1] = o.key[k]
    BY <1>1, <2>3, <2>5
  <2>7. SubSeq(s, a, j) = o.key
    BY <2>2, <2>6, SubSeqIs
  <2> QED
    BY <2>4, <2>7
<1>5. p <= n + 1 /\ p \in (a + 1) .. z
  BY <1>1, <1>3
<1>6. IsPair(s, a)
  BY <1>1, <1>2, <1>3, <1>5 DEF IsPair
<1>7. AreSeparators(s, p, z - 1)
  <2>1. \A k \in p .. (z - 1) : k \in t .. (z - 1)
    BY <1>3
  <2> QED
    BY <1>1, <2>1 DEF Follows, AreSeparators
<1> QED
  BY <1>1, <1>2, <1>3, <1>4, <1>5, <1>6, <1>7

(* Separators are passed over, up to the next key or the end.              *)
LEMMA NextKeyFound ==
    ASSUME NEW s \in Seq(Characters), NEW z \in 1 .. (Len(s) + 1), NEW i \in 1 .. z,
           AreSeparators(s, i, z - 1), z <= Len(s) => s[z] \notin Separators
    PROVE  NextKey(s, i) = z
<1>1. PICK n \in Nat : n = Len(s)
  BY TextTyped
<1> DEFINE V == {j \in i .. n : s[j] \notin Separators}
<1>2. V \subseteq 1 .. Len(s)
  BY <1>1
<1>3. /\ Find(s, V) \in 1 .. (n + 1)
      /\ V = {} => Find(s, V) = n + 1
      /\ V # {} => Find(s, V) \in V
      /\ \A k \in V : Find(s, V) <= k
  BY <1>1, <1>2, FindAmong
<1>4. ASSUME NEW k \in V PROVE k >= z
  <2> SUFFICES ASSUME k < z PROVE FALSE
    BY <1>1
  <2>1. k \in i .. (z - 1)
    BY <1>1
  <2> QED
    BY <2>1 DEF AreSeparators
<1>5. z <= n => z \in V
  BY <1>1
<1>6. V \subseteq 1 .. n
  BY <1>1, <1>2
<1>7. Find(s, V) = z
  <2> HIDE DEF V
  <2> QED
    BY <1>1, <1>3, <1>4, <1>5, <1>6
<1> QED
  BY <1>1, <1>7 DEF NextKey

(* Behind a pair the parser is further on.                                 *)
LEMMA PairGoesOn ==
    ASSUME NEW s \in Seq(Characters), NEW i \in 1 .. (Len(s) + 1),
           ~(NextKey(s, i) > Len(s)), IsPair(s, NextKey(s, i))
    PROVE  /\ NextKey(s, i) \in i .. Len(s)
           /\ PastValue(s, KeyEnd(s, NextKey(s, i)) + 1) \in (i + 1) .. (Len(s) + 1)
<1>1. PICK n \in Nat : n = Len(s)
  BY TextTyped
<1>2. PICK k \in 1 .. n : k = NextKey(s, i) /\ k >= i
  <2> DEFINE V == {j \in i .. n : s[j] \notin Separators}
  <2>1. V \subseteq 1 .. Len(s)
    BY <1>1
  <2>2. /\ Find(s, V) \in 1 .. (n + 1)
        /\ V = {} => Find(s, V) = n + 1
        /\ V # {} => Find(s, V) \in V
    BY <1>1, <2>1, FindAmong
  <2>3. NextKey(s, i) = Find(s, V)
    BY <1>1 DEF NextKey
  <2>4. V # {}
    BY <1>1, <2>2, <2>3
  <2>5. Find(s, V) \in i .. n
    BY <2>2, <2>4
  <2> HIDE DEF V
  <2>6. Find(s, V) \in 1 .. n /\ Find(s, V) >= i
    BY <1>1, <2>5
  <2> QED
    BY <2>3, <2>6
<1>3. PICK f \in Nat : f = KeyEnd(s, k) + 1 /\ f >= i + 2 /\ f <= n + 1
  <2>1. KeyEnd(s, k) \in (k + 1) .. n
    BY <1>1, <1>2, KeyInside DEF IsPair
  <2>2. PICK e \in Nat : e = KeyEnd(s, k) /\ e >= k + 1 /\ e <= n
    BY <2>1
  <2> QED
    BY <1>2, <2>2
<1>4. PastValue(s, f) <= n + 1
  BY <1>1, <1>2, <1>3 DEF IsPair
<1>5. PastValue(s, f) \in Nat /\ PastValue(s, f) >= f
  <2>1. CASE IsQuoted(s, f)
    <3> DEFINE V == {j \in (f + 1) .. n : s[j] = s[f]}
    <3>1. V \subseteq 1 .. Len(s)
      BY <1>1
    <3>2. /\ Find(s, V) \in 1 .. (n + 1)
          /\ V = {} => Find(s, V) = n + 1
          /\ V # {} => Find(s, V) \in V
      BY <1>1, <3>1, FindAmong
    <3>3. Find(s, V) >= f
      BY <1>3, <3>2
    <3>4. PastValue(s, f) = Find(s, V) + 1
      BY <1>1, <2>1 DEF PastValue, Unquote
    <3> HIDE DEF V
    <3> QED
      BY <3>2, <3>3, <3>4
  <2>2. CASE ~IsQuoted(s, f)
    <3> DEFINE V == {j \in f .. n : s[j] = Semicolon \/ KeyEnd(s, j) # 0}
    <3>1. V \subseteq 1 .. Len(s)
      BY <1>1, <1>3
    <3>2. /\ Find(s, V) \in 1 .. (n + 1)
          /\ V = {} => Find(s, V) = n + 1
          /\ V # {} => Find(s, V) \in V
      BY <1>1, <3>1, FindAmong
    <3>3. Find(s, V) >= f
      BY <1>3, <3>2
    <3>4. PastValue(s, f) = Find(s, V)
      BY <1>1, <2>2 DEF PastValue, ValueEnd
    <3> HIDE DEF V
    <3> QED
      BY <3>2, <3>3, <3>4
  <2> QED
    BY <2>1, <2>2
<1>6. PICK p \in Nat : p = PastValue(s, f) /\ p >= f /\ p <= n + 1
  BY <1>4, <1>5
<1>7. p \in (i + 1) .. (n + 1)
  BY <1>3, <1>6
<1>8. PastValue(s, KeyEnd(s, NextKey(s, i)) + 1) = p
  BY <1>2, <1>3, <1>6
<1> QED
  BY <1>1, <1>2, <1>7, <1>8

(* The pair with its key at a place, and where the parser goes on.         *)
PairAt(s, key) == [key |-> SubSeq(s, key, KeyEnd(s, key) - 1), value |-> ValueAt(s, KeyEnd(s, key) + 1)]
PastPair(s, key) == PastValue(s, KeyEnd(s, key) + 1)

(* The pairs from a place on are one, and those behind it.                 *)
LEMMA PairsStep ==
    ASSUME NEW s \in Seq(Characters), NEW i \in 1 .. (Len(s) + 1)
    PROVE  Pairs(s, i) =
              IF NextKey(s, i) > Len(s) THEN { <<>> }
              ELSE IF IsPair(s, NextKey(s, i))
              THEN {<<PairAt(s, NextKey(s, i))>> \o rest : rest \in Pairs(s, PastPair(s, NextKey(s, i)))}
              ELSE {}
<1> DEFINE n == Len(s) + 1
           P == {PairAt(s, NextKey(s, j)) : j \in 1 .. n}
           D == SUBSET Seq(P)
           Step(f, j) ==
              IF NextKey(s, j) > Len(s) THEN { <<>> }
              ELSE IF IsPair(s, NextKey(s, j))
              THEN {<<PairAt(s, NextKey(s, j))>> \o rest : rest \in f[PastPair(s, NextKey(s, j))]}
              ELSE {}
           G == [x \in (1 .. n) \X [1 .. n -> D] |-> Step(x[2], x[1])]
           pairs == CHOOSE f : f = [j \in 1 .. n |-> Step(f, j)]
<1>0. n \in Nat /\ n >= 1
  BY TextTyped
<1>1. ASSUME NEW j \in 1 .. n, ~(NextKey(s, j) > Len(s)), IsPair(s, NextKey(s, j))
      PROVE PastPair(s, NextKey(s, j)) \in (j + 1) .. n
  BY <1>1, PairGoesOn DEF PastPair
<1>2. \A j \in 1 .. n : (j + 1) .. n \subseteq 1 .. n
  BY <1>0
<1>3. ASSUME NEW j \in 1 .. n, NEW rest \in Seq(P)
      PROVE  <<PairAt(s, NextKey(s, j))>> \o rest \in Seq(P)
  <2>1. PairAt(s, NextKey(s, j)) \in P
    OBVIOUS
  <2> HIDE DEF P
  <2>2. <<PairAt(s, NextKey(s, j))>> \in Seq(P)
    BY <2>1
  <2> QED
    BY <2>2, ConcatProperties
<1>4. { <<>> } \in D /\ {} \in D
  <2> HIDE DEF P
  <2>1. <<>> \in Seq(P)
    OBVIOUS
  <2> QED
    BY <2>1
<1> HIDE DEF n, P
<1>5. ASSUME NEW j \in 1 .. n, NEW f \in [1 .. n -> D] PROVE Step(f, j) \in D
  <2>1. CASE ~(NextKey(s, j) > Len(s)) /\ IsPair(s, NextKey(s, j))
    <3>1. f[PastPair(s, NextKey(s, j))] \in D
      BY <1>1, <1>2, <2>1
    <3>2. \A rest \in f[PastPair(s, NextKey(s, j))] : <<PairAt(s, NextKey(s, j))>> \o rest \in Seq(P)
      BY <1>3, <3>1
    <3>3. Step(f, j) = {<<PairAt(s, NextKey(s, j))>> \o rest : rest \in f[PastPair(s, NextKey(s, j))]}
      BY <2>1
    <3> QED
      BY <3>2, <3>3
  <2>2. CASE ~(~(NextKey(s, j) > Len(s)) /\ IsPair(s, NextKey(s, j)))
    <3>1. Step(f, j) = { <<>> } \/ Step(f, j) = {}
      BY <2>2
    <3> HIDE DEF Step, D
    <3> QED
      BY <1>4, <3>1
  <2> QED
    BY <2>1, <2>2
<1>6. ASSUME NEW j \in 1 .. n, NEW f \in [1 .. n -> D], NEW g \in [1 .. n -> D],
             \A k \in (j + 1) .. n : f[k] = g[k]
      PROVE  Step(f, j) = Step(g, j)
  <2>1. CASE ~(NextKey(s, j) > Len(s)) /\ IsPair(s, NextKey(s, j))
    <3>1. f[PastPair(s, NextKey(s, j))] = g[PastPair(s, NextKey(s, j))]
      BY <1>1, <1>6, <2>1
    <3> QED
      BY <3>1
  <2>2. CASE ~(~(NextKey(s, j) > Len(s)) /\ IsPair(s, NextKey(s, j)))
    BY <2>2
  <2> QED
    BY <2>1, <2>2
<1> HIDE DEF Step, D
<1>7. \E f \in [1 .. n -> D] : \A j \in 1 .. n : f[j] = Step(f, j)
  <2>1. DependsOnLater(G, n, D)
    BY <1>5, <1>6 DEF DependsOnLater
  <2>3. \E f \in [1 .. n -> D] : \A j \in 1 .. n : f[j] = G[<<j, f>>]
    <3> HIDE DEF G
    <3> QED
      BY <1>0, <1>4, <2>1, BackwardRecursion
  <2> QED
    BY <2>3
<1>8. pairs = [j \in 1 .. n |-> Step(pairs, j)]
  <2>1. PICK f \in [1 .. n -> D] : \A j \in 1 .. n : f[j] = Step(f, j)
    BY <1>7
  <2>2. f = [j \in 1 .. n |-> Step(f, j)]
    BY <2>1
  <2> QED
    BY <2>2
<1>9. \A j \in 1 .. n : pairs[j] = Step(pairs, j)
  <2> HIDE DEF pairs
  <2> QED
    BY <1>8
<1>10. ASSUME NEW j PROVE Pairs(s, j) = pairs[j]
  BY DEF Pairs, Step, n, PairAt, PastPair
<1> HIDE DEF pairs
<1>11. Pairs(s, i) = Step(pairs, i)
  BY <1>9, <1>10 DEF n
<1> QED
  BY <1>10, <1>11 DEF Step

-----------------------------------------------------------------------------
(* A text and what it says.                                                *)

(* Where an option is, or the end of the text behind the last.             *)
Place(s, options, i) == IF i <= Len(options) THEN options[i].at ELSE Len(s) + 1

(* Each option is written where a key may be.                              *)
LEMMA SaidOption ==
    ASSUME NEW s \in Seq(Characters), NEW options \in Seq(Options), Says(s, options),
           NEW i \in 1 .. Len(options)
    PROVE  /\ IsOption(options[i]) /\ IsWritten(s, options[i])
           /\ options[i].at > 1 => s[options[i].at - 1] \in Separators
<1>1. PICK n \in Nat : n = Len(options)
  BY LenProperties
<1>2. IsOption(options[i]) /\ IsWritten(s, options[i])
  BY DEF Says
<1>3. PICK a \in Nat : a = options[i].at /\ a >= 1
  BY <1>2, OptionParts
<1>4. ASSUME a > 1 PROVE s[a - 1] \in Separators
  <2>1. CASE i = 1
    <3>1. AreSeparators(s, 1, a - 1)
      BY <1>1, <1>3, <2>1 DEF Says
    <3>2. a - 1 \in 1 .. (a - 1)
      BY <1>3, <1>4
    <3> QED
      BY <3>1, <3>2 DEF AreSeparators
  <2>2. CASE i # 1
    <3>1. PICK j \in 1 .. n : j + 1 = i /\ j < n
      <4>1. i - 1 \in 1 .. n /\ (i - 1) + 1 = i /\ i - 1 < n
        BY <1>1, <2>2
      <4> QED
        BY <4>1
    <3>2. /\ Ends(options[j]) < options[j + 1].at
          /\ AreSeparators(s, Ends(options[j]), options[j + 1].at - 1)
          /\ IsOption(options[j]) /\ IsWritten(s, options[j])
      BY <1>1, <3>1 DEF Says
    <3>3. PICK e \in Nat : e = Ends(options[j])
      BY <3>2, OptionParts
    <3>4. e < a /\ AreSeparators(s, e, a - 1)
      BY <1>3, <3>1, <3>2, <3>3
    <3>5. a - 1 \in e .. (a - 1)
      BY <1>3, <3>3, <3>4
    <3> QED
      BY <3>4, <3>5 DEF AreSeparators
  <2> QED
    BY <2>1, <2>2
<1> QED
  BY <1>2, <1>3, <1>4

(* What is behind it is the next, or the end.                              *)
LEMMA SaidFollows ==
    ASSUME NEW s \in Seq(Characters), NEW options \in Seq(Options), Says(s, options),
           NEW i \in 1 .. Len(options)
    PROVE  /\ Place(s, options, i + 1) \in 1 .. (Len(s) + 1)
           /\ Follows(s, options[i], Place(s, options, i + 1))
<1>1. PICK n \in Nat, l \in Nat : n = Len(options) /\ l = Len(s)
  BY LenProperties
<1>2. PICK e \in Nat : e = Ends(options[i]) /\ e <= l + 1
  BY <1>1, SaidOption, OptionParts
<1>3. CASE i = n
  <2>1. Place(s, options, i + 1) = l + 1
    BY <1>1, <1>3 DEF Place
  <2>2. AreSeparators(s, e, l)
    BY <1>1, <1>2, <1>3 DEF Says
  <2>3. (l + 1) - 1 = l /\ l + 1 \in 1 .. (l + 1)
    OBVIOUS
  <2> QED
    BY <1>1, <1>2, <2>1, <2>2, <2>3 DEF Follows
<1>4. CASE i # n
  <2>1. PICK j \in 1 .. n : j = i + 1 /\ i < n
    BY <1>1, <1>4
  <2>2. PICK a \in Nat : a = options[j].at /\ a >= 1 /\ a <= l
    <3>1. IsWritten(s, options[j]) /\ IsOption(options[j])
      BY <1>1, <2>1, SaidOption
    <3>2. options[j].at \in 1 .. Len(s)
      BY <3>1 DEF IsWritten
    <3> QED
      BY <1>1, <3>2
  <2>3. Place(s, options, i + 1) = a
    BY <1>1, <2>1, <2>2 DEF Place
  <2>4. e < a /\ AreSeparators(s, e, a - 1)
    BY <1>1, <1>2, <2>1, <2>2 DEF Says
  <2>5. KeyEnd(s, a) # 0
    <3>1. /\ IsOption(options[j]) /\ IsWritten(s, options[j])
          /\ options[j].at > 1 => s[options[j].at - 1] \in Separators
      BY <1>1, <2>1, SaidOption
    <3>2. KeyEnd(s, a) = Starts(options[j]) - 1
      BY <2>2, <3>1, KeyFound
    <3>3. Starts(options[j]) \in Nat /\ Starts(options[j]) > options[j].at + 1
      BY <3>1, OptionParts
    <3> QED
      BY <2>2, <3>2, <3>3
  <2>6. Ends(options[i]) <= a /\ a \in 1 .. (l + 1)
    BY <1>2, <2>2, <2>4
  <2> QED
    BY <1>1, <1>2, <2>2, <2>3, <2>4, <2>5, <2>6 DEF Follows
<1> QED
  BY <1>3, <1>4

(* What is read of an option, and of those from one on.                    *)
Told(o) == [key |-> o.key, value |-> o.value]
ToldFrom(options, i) == [k \in 1 .. (Len(options) - i + 1) |-> Told(options[i + k - 1])]

LEMMA ToldFromIs ==
    ASSUME NEW options \in Seq(Options), NEW i \in 1 .. Len(options)
    PROVE  ToldFrom(options, i) = <<Told(options[i])>> \o ToldFrom(options, i + 1)
<1>1. PICK n \in Nat : n = Len(options)
  BY LenProperties
<1> DEFINE T == {Told(options[k]) : k \in 1 .. n}
           first == <<Told(options[i])>>
           rest == ToldFrom(options, i + 1)
<1>2. PICK m \in Nat : m = n - i
  <2>1. n - i \in Nat
    BY <1>1
  <2> QED
    BY <2>1
<1>3. n - i + 1 = m + 1 /\ n - (i + 1) + 1 = m
  BY <1>1, <1>2
<1>4. ASSUME NEW k \in 1 .. (m + 1) PROVE i + k - 1 \in 1 .. n
  BY <1>1, <1>2
<1>5. ToldFrom(options, i) = [k \in 1 .. (m + 1) |-> Told(options[i + k - 1])]
  BY <1>1, <1>3 DEF ToldFrom
<1>6. rest = [k \in 1 .. m |-> Told(options[i + 1 + k - 1])]
  BY <1>1, <1>3 DEF ToldFrom
<1>7. \A k \in 1 .. n : Told(options[k]) \in T
  OBVIOUS
<1>8. \A k \in 1 .. m : i + 1 + k - 1 = i + (k + 1) - 1 /\ k + 1 \in 1 .. (m + 1)
  BY <1>1
<1> HIDE DEF T
<1>9. ToldFrom(options, i) \in Seq(T) /\ Len(ToldFrom(options, i)) = m + 1
  <2>1. ToldFrom(options, i) \in [1 .. (m + 1) -> T]
    BY <1>4, <1>5, <1>7
  <2>2. m + 1 \in Nat
    OBVIOUS
  <2> QED
    BY <2>1, <2>2, SeqDef, LenProperties
<1>10. rest \in Seq(T) /\ Len(rest) = m
  <2>1. \A k \in 1 .. m : Told(options[i + 1 + k - 1]) \in T
    BY <1>4, <1>7, <1>8
  <2>2. rest \in [1 .. m -> T]
    BY <1>6, <2>1
  <2> HIDE DEF rest
  <2> QED
    BY <2>2, SeqDef, LenProperties
<1>11. first \in Seq(T) /\ Len(first) = 1 /\ first[1] = Told(options[i])
  <2>1. Told(options[i]) \in T
    BY <1>1, <1>7
  <2> QED
    BY <2>1
<1>12. /\ first \o rest \in Seq(T) /\ Len(first \o rest) = m + 1
       /\ (first \o rest)[1] = Told(options[i])
       /\ \A k \in 1 .. m : (first \o rest)[k + 1] = rest[k]
  <2> HIDE DEF first, rest
  <2>1. /\ first \o rest \in Seq(T) /\ Len(first \o rest) = Len(first) + Len(rest)
        /\ \A k \in 1 .. (Len(first) + Len(rest)) : (first \o rest)[k] =
              IF k <= Len(first) THEN first[k] ELSE rest[k - Len(first)]
    BY <1>10, <1>11, ConcatProperties
  <2>2. \A k \in 1 .. (m + 1) : (first \o rest)[k] = IF k <= 1 THEN first[k] ELSE rest[k - 1]
    BY <1>10, <1>11, <2>1
  <2>3. \A k \in 1 .. m : k + 1 \in 1 .. (m + 1) /\ ~(k + 1 <= 1) /\ (k + 1) - 1 = k
    OBVIOUS
  <2> QED
    BY <1>10, <1>11, <2>1, <2>2, <2>3
<1>13. ASSUME NEW k \in 1 .. (m + 1) PROVE ToldFrom(options, i)[k] = (first \o rest)[k]
  <2>1. CASE k = 1
    <3>1. i + 1 - 1 = i
      BY <1>1
    <3> QED
      BY <1>5, <1>12, <2>1, <3>1
  <2>2. CASE k # 1
    <3>1. PICK j \in 1 .. m : k = j + 1
      <4>1. k - 1 \in 1 .. m /\ k = (k - 1) + 1
        BY <2>2
      <4> QED
        BY <4>1
    <3>2. ToldFrom(options, i)[k] = Told(options[i + (j + 1) - 1])
      BY <1>5, <3>1
    <3>3. rest[j] = Told(options[i + 1 + j - 1])
      BY <1>6
    <3>4. i + 1 + j - 1 = i + (j + 1) - 1
      BY <1>8
    <3>5. (first \o rest)[k] = rest[j]
      BY <1>12, <3>1
    <3> HIDE DEF rest, first
    <3> QED
      BY <3>2, <3>3, <3>4, <3>5
  <2> QED
    BY <2>1, <2>2
<1>14. ToldFrom(options, i) = first \o rest
  <2> HIDE DEF rest, first
  <2> QED
    BY <1>9, <1>12, <1>13, SeqEqual
<1> QED
  BY <1>14

(* From any place that only separators part from an option, the parser     *)
(* reads that option and those behind it.                                  *)
ReadFrom(s, options, i) ==
    \A j \in 1 .. (Len(s) + 1) :
        j <= Place(s, options, i) /\ AreSeparators(s, j, Place(s, options, i) - 1) =>
            Pairs(s, j) = {ToldFrom(options, i)}

LEMMA ReadAtEnd ==
    ASSUME NEW s \in Seq(Characters), NEW options \in Seq(Options)
    PROVE  ReadFrom(s, options, Len(options) + 1)
<1>1. PICK n \in Nat, l \in Nat : n = Len(options) /\ l = Len(s)
  BY LenProperties
<1>2. Place(s, options, n + 1) = l + 1
  BY <1>1 DEF Place
<1>3. ToldFrom(options, n + 1) = <<>>
  <2>1. n - (n + 1) + 1 = 0
    OBVIOUS
  <2>2. ToldFrom(options, n + 1) = [k \in 1 .. 0 |-> Told(options[(n + 1) + k - 1])]
    BY <1>1, <2>1 DEF ToldFrom
  <2> QED
    BY <2>2
<1>4. ASSUME NEW j \in 1 .. (l + 1), AreSeparators(s, j, (l + 1) - 1)
      PROVE  Pairs(s, j) = { <<>> }
  <2>1. NextKey(s, j) = l + 1
    BY <1>1, <1>4, NextKeyFound
  <2>2. l + 1 > l
    OBVIOUS
  <2> QED
    BY <1>1, <2>1, <2>2, PairsStep
<1> QED
  BY <1>1, <1>2, <1>3, <1>4 DEF ReadFrom

LEMMA ReadBefore ==
    ASSUME NEW s \in Seq(Characters), NEW options \in Seq(Options), Says(s, options),
           NEW i \in 1 .. Len(options), ReadFrom(s, options, i + 1)
    PROVE  ReadFrom(s, options, i)
<1>1. PICK n \in Nat, l \in Nat : n = Len(options) /\ l = Len(s)
  BY LenProperties
<1> DEFINE o == options[i]
           z == Place(s, options, i + 1)
<1>2. /\ IsOption(o) /\ IsWritten(s, o)
      /\ o.at > 1 => s[o.at - 1] \in Separators
      /\ z \in 1 .. (l + 1) /\ Follows(s, o, z)
  BY <1>1, SaidOption, SaidFollows
<1>3. PICK a \in Nat : a = o.at /\ a >= 1 /\ a <= l
  <2>1. o.at \in 1 .. Len(s)
    BY <1>2 DEF IsWritten
  <2> QED
    BY <1>1, <2>1
<1>4. Place(s, options, i) = a
  BY <1>1, <1>3 DEF Place
<1>5. s[a] \notin Separators
  <2>1. s[a] \in Words
    BY <1>2, <1>3, OptionParts
  <2> QED
    BY <2>1, SignsApart
<1>6. /\ IsPair(s, a) /\ PairAt(s, a) = Told(o)
      /\ PastPair(s, a) \in (a + 1) .. z
      /\ AreSeparators(s, PastPair(s, a), z - 1)
  <2> HIDE DEF o, z
  <2> QED
    BY <1>1, <1>2, <1>3, OptionRead DEF PairAt, PastPair, Told
<1>7. Pairs(s, PastPair(s, a)) = {ToldFrom(options, i + 1)}
  <2>1. PICK p \in Nat : p = PastPair(s, a) /\ p >= 1 /\ p <= z /\ p <= l + 1
    BY <1>2, <1>6
  <2>2. p \in 1 .. (l + 1)
    BY <2>1
  <2>3. p <= Place(s, options, i + 1) /\ AreSeparators(s, p, Place(s, options, i + 1) - 1)
    BY <1>6, <2>1
  <2> QED
    BY <1>1, <2>1, <2>2, <2>3 DEF ReadFrom
<1>8. ASSUME NEW j \in 1 .. (l + 1), j <= a, AreSeparators(s, j, a - 1)
      PROVE  Pairs(s, j) = {ToldFrom(options, i)}
  <2>1. NextKey(s, j) = a
    <3>1. a \in 1 .. (Len(s) + 1) /\ j \in 1 .. a
      BY <1>1, <1>3, <1>8
    <3> QED
      BY <1>5, <1>8, <3>1, NextKeyFound
  <2>2. ~(a > l)
    BY <1>3
  <2>3. Pairs(s, j) = {<<PairAt(s, a)>> \o rest : rest \in Pairs(s, PastPair(s, a))}
    BY <1>1, <1>6, <2>1, <2>2, PairsStep
  <2>4. Pairs(s, j) = {<<Told(o)>> \o ToldFrom(options, i + 1)}
    BY <1>6, <1>7, <2>3
  <2> QED
    BY <2>4, ToldFromIs
<1> QED
  BY <1>1, <1>4, <1>8 DEF ReadFrom

(* What a text says, option by option.                                     *)
SaidOptions(options) ==
    [key \in {options[i].key : i \in 1 .. Len(options)} |->
        options[CHOOSE i \in 1 .. Len(options) : options[i].key = key].value]

(* A text that says some options is read as them: values with spaces, with *)
(* quotes or without, whatever separates them (connection_string.cpp:      *)
(* 66-120).                                                                *)
THEOREM TextsReadAsWritten ==
    ASSUME NEW s \in Seq(Characters), NEW options \in Seq(Options), Says(s, options)
    PROVE  ParseConnectionString(s) = {SaidOptions(options)}
<1>1. PICK n \in Nat, l \in Nat : n = Len(options) /\ l = Len(s)
  BY LenProperties
<1> DEFINE S == {i \in 1 .. (n + 1) : ReadFrom(s, options, i)}
<1>2. ASSUME NEW j \in 1 .. (n + 1), Behind(j, n + 1) \subseteq S PROVE j \in S
  <2>1. CASE j = n + 1
    BY <1>1, <2>1, ReadAtEnd
  <2>2. CASE j # n + 1
    <3>1. j \in 1 .. n /\ j + 1 \in Behind(j, n + 1)
      BY <2>2 DEF Behind
    <3>2. ReadFrom(s, options, j + 1)
      BY <1>2, <3>1
    <3> QED
      BY <1>1, <3>1, <3>2, ReadBefore
  <2> QED
    BY <2>1, <2>2
<1>3. ReadFrom(s, options, 1)
  <2>1. 1 .. (n + 1) \subseteq S
    <3> HIDE DEF S
    <3>1. n + 1 \in Nat
      OBVIOUS
    <3> QED
      BY <1>2, <3>1, DownwardInduction
  <2>2. 1 \in 1 .. (n + 1)
    OBVIOUS
  <2> QED
    BY <2>1, <2>2
<1> DEFINE told == ToldFrom(options, 1)
<1>4. Pairs(s, 1) = {told}
  <2>1. PICK z \in Nat : z = Place(s, options, 1) /\ z >= 1
    <3>1. CASE n = 0
      BY <1>1, <3>1 DEF Place
    <3>2. CASE n # 0
      <4>1. 1 \in 1 .. n
        BY <3>2
      <4>2. options[1].at \in 1 .. l
        BY <1>1, <4>1, SaidOption DEF IsWritten
      <4> QED
        BY <1>1, <4>1, <4>2 DEF Place
    <3> QED
      BY <3>1, <3>2
  <2>2. AreSeparators(s, 1, z - 1)
    <3>1. CASE n = 0
      <4>1. z = l + 1 /\ z - 1 = l
        BY <1>1, <2>1, <3>1 DEF Place
      <4> QED
        BY <1>1, <3>1, <4>1 DEF Says
    <3>2. CASE n # 0
      <4>1. z = options[1].at
        BY <1>1, <2>1, <3>2 DEF Place
      <4> QED
        BY <1>1, <3>2, <4>1 DEF Says
    <3> QED
      BY <3>1, <3>2
  <2>3. 1 \in 1 .. (Len(s) + 1)
    BY <1>1
  <2> QED
    BY <1>3, <2>1, <2>2, <2>3 DEF ReadFrom
<1>5. told = [i \in 1 .. n |-> Told(options[i])]
  <2>1. n - 1 + 1 = n /\ \A i \in 1 .. n : 1 + i - 1 = i
    OBVIOUS
  <2> QED
    BY <1>1, <2>1 DEF ToldFrom
<1> HIDE DEF told
<1>6. /\ DOMAIN told = 1 .. n
      /\ \A i \in 1 .. n : told[i].key = options[i].key /\ told[i].value = options[i].value
  BY <1>5 DEF Told
<1>7. \A i, j \in DOMAIN told : told[i].key = told[j].key => i = j
  BY <1>1, <1>6 DEF Says
<1>8. ParseConnectionString(s) =
         {[key \in {told[i].key : i \in DOMAIN told} |->
              told[CHOOSE i \in DOMAIN told : told[i].key = key].value]}
  <2>1. {p \in Pairs(s, 1) : \A i, j \in DOMAIN p : p[i].key = p[j].key => i = j} = {told}
    BY <1>4, <1>7
  <2> DEFINE OptionsOf(pairs) == [key \in {pairs[i].key : i \in DOMAIN pairs} |->
                pairs[CHOOSE i \in DOMAIN pairs : pairs[i].key = key].value]
  <2>2. ParseConnectionString(s) =
           {OptionsOf(pairs) : pairs \in {p \in Pairs(s, 1) :
               \A i, j \in DOMAIN p : p[i].key = p[j].key => i = j}}
    BY DEF ParseConnectionString
  <2>3. ParseConnectionString(s) = {OptionsOf(told)}
    <3> HIDE DEF OptionsOf
    <3> QED
      BY <2>1, <2>2
  <2> QED
    BY <2>3
<1>9. {told[i].key : i \in DOMAIN told} = {options[i].key : i \in 1 .. n}
  BY <1>6
<1>10. ASSUME NEW key \in {options[i].key : i \in 1 .. n}
       PROVE  told[CHOOSE i \in DOMAIN told : told[i].key = key].value
                 = options[CHOOSE i \in 1 .. n : options[i].key = key].value
  <2>1. PICK i \in 1 .. n : options[i].key = key
    OBVIOUS
  <2>2. (CHOOSE j \in DOMAIN told : told[j].key = key) = i
    BY <1>6, <1>7, <2>1
  <2>3. (CHOOSE j \in 1 .. n : options[j].key = key) = i
    BY <1>6, <1>7, <2>1
  <2> QED
    BY <1>6, <2>2, <2>3
<1>11. [key \in {told[i].key : i \in DOMAIN told} |->
           told[CHOOSE i \in DOMAIN told : told[i].key = key].value] = SaidOptions(options)
  <2>1. SaidOptions(options) = [key \in {options[i].key : i \in 1 .. n} |->
           options[CHOOSE i \in 1 .. n : options[i].key = key].value]
    BY <1>1 DEF SaidOptions
  <2> DEFINE F(key) == told[CHOOSE i \in DOMAIN told : told[i].key = key].value
             G(key) == options[CHOOSE i \in 1 .. n : options[i].key = key].value
             K == {told[i].key : i \in DOMAIN told}
             L == {options[i].key : i \in 1 .. n}
  <2>2. K = L /\ \A key \in L : F(key) = G(key)
    BY <1>9, <1>10
  <2>3. [key \in K |-> F(key)] = [key \in L |-> G(key)]
    <3> HIDE DEF F, G, K, L
    <3> QED
      BY <2>2
  <2> QED
    BY <2>1, <2>3
<1> QED
  BY <1>8, <1>11

-----------------------------------------------------------------------------
(* What a call says, and what the code makes of it.                        *)

Gives(source, name) == name \in DOMAIN source /\ source[name] # <<>>

LEMMA FirstOfThree ==
    ASSUME NEW A, NEW B, NEW C, NEW name
    PROVE  FirstGiven(<<A, B, C>>, name) =
              IF Gives(A, name) THEN A[name] ELSE IF Gives(B, name) THEN B[name]
              ELSE IF Gives(C, name) THEN C[name] ELSE <<>>
<1> DEFINE sources == <<A, B, C>>
           giving == {i \in DOMAIN sources : name \in DOMAIN sources[i] /\ sources[i][name] # <<>>}
           least == CHOOSE i \in giving : \A j \in giving : i <= j
<1>1. /\ FirstGiven(sources, name) = IF giving = {} THEN <<>> ELSE sources[least][name]
      /\ sources[1] = A /\ sources[2] = B /\ sources[3] = C
  BY DEF FirstGiven
<1>2. /\ giving \subseteq {1, 2, 3}
      /\ 1 \in giving <=> Gives(A, name)
      /\ 2 \in giving <=> Gives(B, name)
      /\ 3 \in giving <=> Gives(C, name)
  <2>1. DOMAIN sources = {1, 2, 3}
    OBVIOUS
  <2> QED
    BY <1>1, <2>1 DEF Gives
<1> HIDE DEF giving, sources
<1>3. CASE 1 \in giving
  <2>1. (\A j \in giving : 1 <= j) /\ \A i \in giving : (\A j \in giving : i <= j) => i = 1
    BY <1>2, <1>3
  <2>2. least = 1
    BY <1>3, <2>1
  <2> QED
    BY <1>1, <1>2, <1>3, <2>2 DEF sources
<1>4. CASE 1 \notin giving /\ 2 \in giving
  <2>1. (\A j \in giving : 2 <= j) /\ \A i \in giving : (\A j \in giving : i <= j) => i = 2
    BY <1>2, <1>4
  <2>2. least = 2
    BY <1>4, <2>1
  <2> QED
    BY <1>1, <1>2, <1>4, <2>2 DEF sources
<1>5. CASE 1 \notin giving /\ 2 \notin giving /\ 3 \in giving
  <2>1. giving = {3}
    BY <1>2, <1>5
  <2>2. least = 3
    BY <2>1
  <2> QED
    BY <1>1, <1>2, <1>5, <2>2 DEF sources
<1>6. CASE 1 \notin giving /\ 2 \notin giving /\ 3 \notin giving
  <2>1. giving = {}
    BY <1>2, <1>6
  <2> QED
    BY <1>1, <1>2, <1>6, <2>1 DEF sources
<1> QED
  BY <1>3, <1>4, <1>5, <1>6

LEMMA FirstOfOne ==
    ASSUME NEW A, NEW name
    PROVE  FirstGiven(<<A>>, name) = IF Gives(A, name) THEN A[name] ELSE <<>>
<1> DEFINE sources == <<A>>
           giving == {i \in DOMAIN sources : name \in DOMAIN sources[i] /\ sources[i][name] # <<>>}
           least == CHOOSE i \in giving : \A j \in giving : i <= j
<1>1. /\ FirstGiven(sources, name) = IF giving = {} THEN <<>> ELSE sources[least][name]
      /\ sources[1] = A
  BY DEF FirstGiven
<1>2. giving \subseteq {1} /\ (1 \in giving <=> Gives(A, name))
  <2>1. DOMAIN sources = {1}
    OBVIOUS
  <2> QED
    BY <1>1, <2>1 DEF Gives
<1> HIDE DEF giving, sources
<1>3. CASE 1 \in giving
  <2>1. giving = {1}
    BY <1>2, <1>3
  <2>2. least = 1
    BY <2>1
  <2> QED
    BY <1>1, <1>2, <1>3, <2>2 DEF sources
<1>4. CASE 1 \notin giving
  <2>1. giving = {}
    BY <1>2, <1>4
  <2> QED
    BY <1>1, <1>2, <1>4, <2>1 DEF sources
<1> QED
  BY <1>3, <1>4

(* Options there are, with values there are; and what they say of one.     *)
KnownOptions(options) ==
    \A i \in DOMAIN options : \E name \in OptionNames :
        options[i].key = <<name>> /\ Accepts(name, options[i].value)

SaidInText(options, name) ==
    LET saying == {i \in DOMAIN options : options[i].key = <<name>>}
    IN  IF saying = {} THEN <<>> ELSE options[CHOOSE i \in saying : TRUE].value

(* The parser's options, by name.                                          *)
LEMMA SaidOptionsIs ==
    ASSUME NEW options \in Seq(Options), \A i, j \in 1 .. Len(options) : options[i].key = options[j].key => i = j
    PROVE  /\ DOMAIN SaidOptions(options) = {options[i].key : i \in DOMAIN options}
           /\ \A i \in DOMAIN options : SaidOptions(options)[options[i].key] = options[i].value
<1>1. PICK n \in Nat : n = Len(options) /\ DOMAIN options = 1 .. n
  BY LenProperties
<1>2. SaidOptions(options) = [key \in {options[i].key : i \in 1 .. n} |->
           options[CHOOSE i \in 1 .. n : options[i].key = key].value]
  BY <1>1 DEF SaidOptions
<1>3. ASSUME NEW i \in 1 .. n
      PROVE  (CHOOSE j \in 1 .. n : options[j].key = options[i].key) = i
  BY <1>1
<1> QED
  BY <1>1, <1>2, <1>3

LEMMA StringRead ==
    ASSUME NEW s \in Seq(Characters), NEW options \in Seq(Options), Says(s, options)
    PROVE  FromString(s) =
              IF KnownOptions(options) THEN {[name \in OptionNames |-> SaidInText(options, name)]} ELSE {}
<1> DEFINE M == SaidOptions(options)
           Accepted(o) == \A key \in DOMAIN o : /\ key \in {<<name>> : name \in OptionNames}
                                               /\ Accepts(Head(key), o[key])
           Taken0(o) == [name \in OptionNames |-> IF <<name>> \in DOMAIN o THEN o[<<name>>] ELSE <<>>]
<1>1. /\ DOMAIN options = 1 .. Len(options)
      /\ \A i, j \in DOMAIN options : options[i].key = options[j].key => i = j
  BY LenProperties DEF Says
<1>2. /\ DOMAIN M = {options[i].key : i \in DOMAIN options}
      /\ \A i \in DOMAIN options : M[options[i].key] = options[i].value
  BY <1>1, SaidOptionsIs
<1>3. FromString(s) = {Taken0(o) : o \in {m \in ParseConnectionString(s) : Accepted(m)}}
  BY DEF FromString
<1>4. ParseConnectionString(s) = {M}
  BY TextsReadAsWritten
<1> HIDE DEF M
<1>5. Accepted(M) <=> KnownOptions(options)
  <2>1. \A name \in OptionNames : Head(<<name>>) = name
    OBVIOUS
  <2>2. ASSUME KnownOptions(options), NEW key \in DOMAIN M
        PROVE  key \in {<<name>> : name \in OptionNames} /\ Accepts(Head(key), M[key])
    <3>1. PICK i \in DOMAIN options : key = options[i].key
      BY <1>2
    <3>2. PICK name \in OptionNames : key = <<name>> /\ Accepts(name, options[i].value)
      BY <2>2, <3>1 DEF KnownOptions
    <3>3. M[key] = options[i].value
      BY <1>2, <3>1
    <3> QED
      BY <2>1, <3>2, <3>3
  <2>3. ASSUME Accepted(M), NEW i \in DOMAIN options
        PROVE  \E name \in OptionNames : options[i].key = <<name>> /\ Accepts(name, options[i].value)
    <3>1. options[i].key \in DOMAIN M /\ M[options[i].key] = options[i].value
      BY <1>2
    <3>2. /\ options[i].key \in {<<name>> : name \in OptionNames}
          /\ Accepts(Head(options[i].key), options[i].value)
      BY <2>3, <3>1
    <3>3. PICK name \in OptionNames : options[i].key = <<name>>
      BY <3>2
    <3>4. Head(options[i].key) = name
      BY <2>1, <3>3
    <3> QED
      BY <3>2, <3>3, <3>4
  <2> QED
    BY <2>2, <2>3 DEF KnownOptions
<1>6. Taken0(M) = [name \in OptionNames |-> SaidInText(options, name)]
  <2>1. ASSUME NEW name \in OptionNames
        PROVE  (IF <<name>> \in DOMAIN M THEN M[<<name>>] ELSE <<>>) = SaidInText(options, name)
    <3> DEFINE saying == {i \in DOMAIN options : options[i].key = <<name>>}
    <3>1. CASE saying = {}
      <4>1. <<name>> \notin DOMAIN M
        BY <1>2, <3>1
      <4> QED
        BY <3>1, <4>1 DEF SaidInText
    <3>2. CASE saying # {}
      <4>1. PICK i \in DOMAIN options : options[i].key = <<name>>
        BY <3>2
      <4>2. saying = {i}
        BY <1>1, <4>1
      <4>3. (CHOOSE j \in saying : TRUE) = i
        BY <4>2
      <4>4. SaidInText(options, name) = options[i].value
        BY <3>2, <4>3 DEF SaidInText
      <4>5. <<name>> \in DOMAIN M /\ M[<<name>>] = options[i].value
        BY <1>2, <4>1
      <4> QED
        BY <4>4, <4>5
    <3> QED
      BY <3>1, <3>2
  <2> QED
    BY <2>1
<1> HIDE DEF Accepted, Taken0
<1>7. {m \in ParseConnectionString(s) : Accepted(m)} = IF KnownOptions(options) THEN {M} ELSE {}
  BY <1>4, <1>5
<1>8. FromString(s) = IF KnownOptions(options) THEN {Taken0(M)} ELSE {}
  BY <1>3, <1>7
<1> QED
  BY <1>6, <1>8

(* With the function's own parameters.                                     *)
SaidParams(c) == [name \in OptionNames |-> Said(c, name)]

LEMMA ParamsRead ==
    ASSUME NEW c \in Calls, Says(c.text, c.options)
    PROVE  ParamsFrom(c.text, c.named) = IF KnownOptions(c.options) THEN {SaidParams(c)} ELSE {}
<1>1. c.text \in Seq(Characters) /\ c.options \in Seq(Options)
  BY CallsAssumption
<1>2. FromString(c.text) =
         IF KnownOptions(c.options) THEN {[name \in OptionNames |-> SaidInText(c.options, name)]} ELSE {}
  BY <1>1, StringRead
<1>3. SaidParams(c) =
         [name \in OptionNames |-> IF name \in DOMAIN c.named THEN c.named[name]
                                    ELSE SaidInText(c.options, name)]
  BY DEF SaidParams, Said, SaidInText
<1> DEFINE With(p) == [name \in OptionNames |-> IF name \in DOMAIN c.named THEN c.named[name] ELSE p[name]]
<1>4. ParamsFrom(c.text, c.named) = {With(p) : p \in FromString(c.text)}
  BY DEF ParamsFrom
<1>5. With([name \in OptionNames |-> SaidInText(c.options, name)]) = SaidParams(c)
  BY <1>3
<1> HIDE DEF With
<1> QED
  BY <1>2, <1>4, <1>5

(* What a call says of an option, the secret's word and the default after  *)
(* its own.                                                                *)
LEMMA SettingIs ==
    ASSUME NEW c, NEW name \in OptionNames
    PROVE  Setting(c, name) =
              IF Said(c, name) # <<>> THEN Said(c, name)
              ELSE IF Gives(SecretSaid(c), name) THEN SecretSaid(c)[name]
              ELSE IF name = "mechanism" THEN <<"kerberos">> ELSE <<>>
<1> DEFINE A == [o \in OptionNames |-> Said(c, o)]
           C == [o \in {"mechanism"} |-> <<"kerberos">>]
<1>1. Setting(c, name) = FirstGiven(<<A, SecretSaid(c), C>>, name)
  BY DEF Setting
<1>2. A[name] = Said(c, name) /\ (Gives(A, name) <=> Said(c, name) # <<>>)
  BY DEF Gives
<1>3. (Gives(C, name) <=> name = "mechanism") /\ (name = "mechanism" => C[name] = <<"kerberos">>)
  BY DEF Gives
<1> HIDE DEF A, C
<1> QED
  BY <1>1, <1>2, <1>3, FirstOfThree

(* A port that is said is one there is.                                    *)
LEMMA PortSaid ==
    ASSUME NEW c \in Calls, KnownOptions(c.options)
    PROVE  Said(c, "port") \in Ports \cup { <<>> }
<1> DEFINE saying == {i \in DOMAIN c.options : c.options[i].key = <<"port">>}
<1>1. "port" \notin DOMAIN c.named
  BY CallsAssumption
<1>2. CASE saying = {}
  BY <1>1, <1>2 DEF Said
<1>3. CASE saying # {}
  <2>1. PICK i \in saying : i = CHOOSE j \in saying : TRUE
    BY <1>3
  <2>2. Said(c, "port") = c.options[i].value
    BY <1>1, <1>3, <2>1 DEF Said
  <2>3. PICK name \in OptionNames : c.options[i].key = <<name>> /\ Accepts(name, c.options[i].value)
    BY <2>1 DEF KnownOptions
  <2>4. name = "port"
    <3>1. <<name>> = <<"port">>
      BY <2>1, <2>3
    <3> QED
      BY <3>1
  <2>5. c.options[i].value \in Ports
    BY <2>3, <2>4 DEF Accepts
  <2> QED
    BY <2>2, <2>5
<1> QED
  BY <1>2, <1>3

(* The secret a call names is there; what ApplySecret makes of it agrees   *)
(* with what the call says.                                                *)
SecretThere(c) ==
    Said(c, "secret") # <<>> => Said(c, "secret") \in DOMAIN Secrets
                                /\ Secrets[Said(c, "secret")].type = "xmla"

Agrees(s, c) ==
    /\ s = [params |-> s.params, password |-> s.password]
    /\ \A option \in OptionNames : ApplyDefaults(s.params)[option] = Setting(c, option)
    /\ s.password = FirstGiven(<<SecretSaid(c)>>, "password")

LEMMA NoSecretAgrees ==
    ASSUME NEW c, Said(c, "secret") = <<>>
    PROVE  /\ ApplySecret(SaidParams(c)) = {[params |-> SaidParams(c), password |-> <<>>]}
           /\ Agrees([params |-> SaidParams(c), password |-> <<>>], c)
           /\ Setting(c, "port") = Said(c, "port")
<1> DEFINE p == SaidParams(c)
<1>0. "secret" \in OptionNames /\ "port" \in OptionNames /\ "mechanism" \in OptionNames
  BY DEF OptionNames
<1>1. p = [name \in OptionNames |-> Said(c, name)]
  BY DEF SaidParams
<1>2. \A name : ~Gives(SecretSaid(c), name)
  BY DEF SecretSaid, Gives
<1>3. ASSUME NEW option \in OptionNames PROVE ApplyDefaults(p)[option] = Setting(c, option)
  <2>1. ApplyDefaults(p)[option] = IF option = "mechanism" /\ Said(c, option) = <<>> THEN <<"kerberos">>
                                   ELSE Said(c, option)
    BY <1>0, <1>1 DEF ApplyDefaults
  <2> QED
    BY <1>2, <2>1, SettingIs
<1>4. FirstGiven(<<SecretSaid(c)>>, "password") = <<>>
  BY <1>2, FirstOfOne
<1>5. ApplySecret(p) = {[params |-> p, password |-> <<>>]}
  BY <1>0, <1>1 DEF ApplySecret
<1>6. Setting(c, "port") = Said(c, "port")
  BY <1>0, <1>2, SettingIs
<1> HIDE DEF p
<1>7. Agrees([params |-> p, password |-> <<>>], c)
  BY <1>3, <1>4 DEF Agrees
<1> QED
  BY <1>5, <1>6, <1>7 DEF p

WithSecret(p, secret) ==
    [params |-> [name \in OptionNames |-> IF name \in SecretFields THEN Take(p, secret, name) ELSE p[name]],
     password |-> Field(secret, "password")]

LEMMA SecretAgrees ==
    ASSUME NEW c, Said(c, "secret") # <<>>, SecretThere(c)
    PROVE  /\ Agrees(WithSecret(SaidParams(c), Secrets[Said(c, "secret")]), c)
           /\ Setting(c, "port") = Take(SaidParams(c), Secrets[Said(c, "secret")], "port")
<1> DEFINE p == SaidParams(c)
           secret == Secrets[Said(c, "secret")]
           q == [name \in OptionNames |-> IF name \in SecretFields THEN Take(p, secret, name) ELSE p[name]]
<1>0. /\ "secret" \in OptionNames /\ "port" \in OptionNames /\ "mechanism" \in OptionNames
      /\ "port" \in SecretFields /\ "mechanism" \in SecretFields /\ "password" \notin OptionNames
  BY DEF OptionNames, SecretFields
<1>1. \A name \in OptionNames : p[name] = Said(c, name)
  BY DEF SaidParams
<1>2. SecretSaid(c) = secret.fields
  BY DEF SecretSaid, SecretThere
<1>3. DOMAIN secret.fields \subseteq SecretFields \cup {"password"}
  BY SecretsAssumption DEF SecretThere
<1> HIDE DEF secret, p
<1>4. ASSUME NEW name \in OptionNames
      PROVE  /\ name \notin SecretFields => ~Gives(SecretSaid(c), name)
             /\ Take(p, secret, name) =
                   IF Said(c, name) # <<>> THEN Said(c, name)
                   ELSE IF Gives(SecretSaid(c), name) THEN SecretSaid(c)[name] ELSE <<>>
  <2>1. name \notin SecretFields => ~Gives(SecretSaid(c), name)
    BY <1>0, <1>2, <1>3 DEF Gives
  <2>2. Field(secret, name) = IF Gives(SecretSaid(c), name) THEN SecretSaid(c)[name] ELSE <<>>
    BY <1>2 DEF Field, Gives
  <2> QED
    BY <1>1, <2>1, <2>2 DEF Take
<1>5. ASSUME NEW option \in OptionNames PROVE ApplyDefaults(q)[option] = Setting(c, option)
  <2>1. q[option] = IF Said(c, option) # <<>> THEN Said(c, option)
                    ELSE IF Gives(SecretSaid(c), option) THEN SecretSaid(c)[option] ELSE <<>>
    BY <1>1, <1>4
  <2>2. ApplyDefaults(q)[option] = IF option = "mechanism" /\ q[option] = <<>> THEN <<"kerberos">>
                                   ELSE q[option]
    BY <1>0 DEF ApplyDefaults
  <2>3. Gives(SecretSaid(c), option) => SecretSaid(c)[option] # <<>>
    BY DEF Gives
  <2> HIDE DEF q
  <2> QED
    BY <2>1, <2>2, <2>3, SettingIs
<1>6. FirstGiven(<<SecretSaid(c)>>, "password") = Field(secret, "password")
  <2>1. FirstGiven(<<SecretSaid(c)>>, "password") =
           IF Gives(SecretSaid(c), "password") THEN SecretSaid(c)["password"] ELSE <<>>
    BY FirstOfOne
  <2> QED
    BY <1>2, <2>1 DEF Field, Gives
<1>7. Setting(c, "port") = Take(p, secret, "port")
  BY <1>0, <1>4, SettingIs
<1>8. Agrees([params |-> q, password |-> Field(secret, "password")], c)
  <2> HIDE DEF q
  <2> QED
    BY <1>5, <1>6 DEF Agrees
<1> QED
  BY <1>7, <1>8 DEF WithSecret, p, secret

LEMMA AppliedAgrees ==
    ASSUME NEW c \in Calls, KnownOptions(c.options)
    PROVE  /\ \A s \in ApplySecret(SaidParams(c)) :
                 SecretThere(c) /\ Setting(c, "port") \in Ports \cup { <<>> } /\ Agrees(s, c)
           /\ SecretThere(c) /\ Setting(c, "port") \in Ports \cup { <<>> } => ApplySecret(SaidParams(c)) # {}
<1> DEFINE p == SaidParams(c)
           name == Said(c, "secret")
<1>1. CASE name = <<>>
  <2>1. Setting(c, "port") \in Ports \cup { <<>> }
    BY <1>1, NoSecretAgrees, PortSaid
  <2> QED
    BY <1>1, <2>1, NoSecretAgrees DEF SecretThere
<1>2. CASE name # <<>>
  <2> DEFINE Fits(n) == /\ n = p["secret"] /\ Secrets[n].type = "xmla"
                        /\ Take(p, Secrets[n], "port") \in Ports \cup { <<>> }
  <2>1. p["secret"] = name
    BY DEF SaidParams, OptionNames
  <2>2. ApplySecret(p) = {WithSecret(p, secret) : secret \in {Secrets[n] : n \in {m \in DOMAIN Secrets : Fits(m)}}}
    BY <1>2, <2>1 DEF ApplySecret, WithSecret
  <2>3. ASSUME NEW n \in DOMAIN Secrets, Fits(n)
        PROVE  n = name /\ SecretThere(c) /\ Setting(c, "port") \in Ports \cup { <<>> }
    <3>1. n = name /\ SecretThere(c)
      BY <1>2, <2>1, <2>3 DEF SecretThere
    <3> QED
      BY <1>2, <2>3, <3>1, SecretAgrees
  <2>4. ASSUME SecretThere(c), Setting(c, "port") \in Ports \cup { <<>> }
        PROVE  name \in DOMAIN Secrets /\ Fits(name)
    BY <1>2, <2>1, <2>4, SecretAgrees DEF SecretThere
  <2>5. ASSUME NEW s \in ApplySecret(p)
        PROVE  SecretThere(c) /\ Setting(c, "port") \in Ports \cup { <<>> } /\ Agrees(s, c)
    <3> HIDE DEF Fits, p
    <3>1. PICK n \in DOMAIN Secrets : Fits(n) /\ s = WithSecret(p, Secrets[n])
      BY <2>2
    <3>2. n = name /\ SecretThere(c) /\ Setting(c, "port") \in Ports \cup { <<>> }
      BY <2>3, <3>1
    <3>3. Agrees(WithSecret(p, Secrets[name]), c)
      BY <1>2, <3>2, SecretAgrees DEF p
    <3> QED
      BY <3>1, <3>2, <3>3
  <2>6. ASSUME SecretThere(c), Setting(c, "port") \in Ports \cup { <<>> }
        PROVE  ApplySecret(p) # {}
    <3> HIDE DEF Fits, p
    <3> QED
      BY <2>2, <2>4, <2>6
  <2> QED
    BY <2>5, <2>6
<1> QED
  BY <1>1, <1>2

(* A call that means something is resolved to its settings, and no other.  *)
LEMMA Resolved ==
    ASSUME NEW c \in Calls, Says(c.text, c.options), KnownOptions(c.options)
    PROVE  /\ Meaningful(c) => Resolve(SaidParams(c)) # {}
           /\ \A r \in Resolve(SaidParams(c)) :
                 /\ Meaningful(c)
                 /\ \A option \in OptionNames : r.params[option] = Setting(c, option)
                 /\ r.password = FirstGiven(<<SecretSaid(c)>>, "password")
<1> DEFINE p == SaidParams(c)
           Done(s) == [s EXCEPT !.params = ApplyDefaults(@)]
<1>1. Resolve(p) = {r \in {Done(s) : s \in ApplySecret(p)} : Validate(r.params)}
  BY DEF Resolve
<1>2. ASSUME NEW s, Agrees(s, c)
      PROVE  /\ Done(s).params = ApplyDefaults(s.params) /\ Done(s).password = s.password
             /\ Validate(Done(s).params) <=> Setting(c, "host") # <<>> /\ Setting(c, "port") # <<>>
  <2>1. Done(s).params = ApplyDefaults(s.params) /\ Done(s).password = s.password
    BY <1>2 DEF Agrees
  <2>2. /\ ApplyDefaults(s.params)["host"] = Setting(c, "host")
        /\ ApplyDefaults(s.params)["port"] = Setting(c, "port")
    BY <1>2 DEF Agrees, OptionNames
  <2> HIDE DEF Done
  <2> QED
    BY <2>1, <2>2 DEF Validate
<1>3. Meaningful(c) <=> /\ SecretThere(c) /\ Setting(c, "port") \in Ports \cup { <<>> }
                        /\ Setting(c, "host") # <<>> /\ Setting(c, "port") # <<>>
  BY DEF Meaningful, SecretThere, KnownOptions
<1> HIDE DEF Done, p
<1>4. \A s \in ApplySecret(p) :
         SecretThere(c) /\ Setting(c, "port") \in Ports \cup { <<>> } /\ Agrees(s, c)
  BY AppliedAgrees DEF p
<1>5. ASSUME Meaningful(c) PROVE Resolve(p) # {}
  <2>1. PICK s \in ApplySecret(p) : TRUE
    BY <1>3, <1>5, AppliedAgrees DEF p
  <2>2. Validate(Done(s).params)
    BY <1>2, <1>3, <1>4, <1>5
  <2> QED
    BY <1>1, <2>2
<1>6. ASSUME NEW r \in Resolve(p)
      PROVE  /\ Meaningful(c)
             /\ \A option \in OptionNames : r.params[option] = Setting(c, option)
             /\ r.password = FirstGiven(<<SecretSaid(c)>>, "password")
  <2>1. PICK s \in ApplySecret(p) : r = Done(s) /\ Validate(Done(s).params)
    BY <1>1
  <2>2. /\ Agrees(s, c) /\ SecretThere(c) /\ Setting(c, "port") \in Ports \cup { <<>> }
        /\ Setting(c, "host") # <<>> /\ Setting(c, "port") # <<>>
        /\ r.params = ApplyDefaults(s.params) /\ r.password = s.password
    BY <1>2, <1>4, <2>1
  <2>3. Meaningful(c)
    BY <1>3, <2>2
  <2> QED
    BY <2>2, <2>3 DEF Agrees
<1> QED
  BY <1>5, <1>6 DEF p

-----------------------------------------------------------------------------
(* The settings of a session.                                              *)

(* A call's options are what its text says, or its text is refused.        *)
Explained(c) ==
    Says(c.text, c.options) \/ \A p \in ParamsFrom(c.text, c.named) : Resolve(p) = {}

SettingsInv ==
    /\ call \in Calls
    /\ pc \in {"bind", "open"} => failure = "none"
    /\ pc = "open" => params \in ParamsFrom(call.text, call.named)
    /\ failure \in {"binder", "statement"} => pc = "failed"
    /\ MoreSpecificWins

(* What is read of a call's text and what is made of it.                   *)
LEMMA CallRead ==
    ASSUME NEW c \in Calls, Explained(c)
    PROVE  /\ Meaningful(c) => /\ ParamsFrom(c.text, c.named) # {}
                               /\ \A p \in ParamsFrom(c.text, c.named) : Resolve(p) # {}
           /\ \A p \in ParamsFrom(c.text, c.named) : \A r \in Resolve(p) :
                 /\ Meaningful(c)
                 /\ \A option \in OptionNames : r.params[option] = Setting(c, option)
                 /\ r.password = FirstGiven(<<SecretSaid(c)>>, "password")
<1>1. CASE Says(c.text, c.options)
  <2>1. Meaningful(c) => KnownOptions(c.options)
    BY DEF Meaningful, KnownOptions
  <2>2. CASE KnownOptions(c.options)
    <3>1. ParamsFrom(c.text, c.named) = {SaidParams(c)}
      BY <1>1, <2>2, ParamsRead
    <3> QED
      BY <1>1, <2>2, <3>1, Resolved
  <2>3. CASE ~KnownOptions(c.options)
    <3>1. ParamsFrom(c.text, c.named) = {}
      BY <1>1, <2>3, ParamsRead
    <3> QED
      BY <2>1, <2>3, <3>1
  <2> QED
    BY <2>2, <2>3
<1>2. CASE ~Says(c.text, c.options)
  <2>1. ~Meaningful(c)
    BY <1>2 DEF Meaningful
  <2>2. \A p \in ParamsFrom(c.text, c.named) : Resolve(p) = {}
    BY <1>2 DEF Explained
  <2> QED
    BY <2>1, <2>2
<1> QED
  BY <1>1, <1>2

LEMMA SettingsHoldFirst == FunctionsInit => SettingsInv
BY DEF FunctionsInit, OpeningInit, SettingsInv, MoreSpecificWins

(* Behind the opening nothing of the settings changes.                     *)
LEMMA SettingsKept ==
    ASSUME SettingsInv, UNCHANGED <<call, params, password>>,
           pc \notin {"bind", "open", "failed"}, pc' \notin {"bind", "open"},
           failure' = failure \/ (failure' \notin {"binder", "statement"})
    PROVE  SettingsInv'
<1>1. failure \notin {"binder", "statement"}
  BY DEF SettingsInv
<1>2. /\ Meaningful(call)
      /\ \A option \in OptionNames : params[option] = Setting(call, option)
      /\ password = FirstGiven(<<SecretSaid(call)>>, "password")
  BY <1>1 DEF SettingsInv, MoreSpecificWins
<1>3. failure' \notin {"binder", "statement"}
  BY <1>1
<1>4. /\ Meaningful(call')
      /\ \A option \in OptionNames : params'[option] = Setting(call', option)
      /\ password' = FirstGiven(<<SecretSaid(call')>>, "password")
  BY <1>2
<1> QED
  BY <1>3, <1>4 DEF SettingsInv, MoreSpecificWins

(* A step of the thread reads the parameters when it opens, and never      *)
(* again.                                                                  *)
LEMMA OpeningKeepsSettings ==
    ASSUME SettingsInv, \A c \in Calls : Explained(c), Thread
    PROVE  SettingsInv'
<1>1. UNCHANGED call
  BY DEF Thread
<1>2. CASE StartOpening
  <2>1. pc = "open" /\ failure = "none" /\ params \in ParamsFrom(call.text, call.named) /\ call \in Calls
    BY <1>2 DEF StartOpening, SettingsInv
  <2>2. CASE Resolve(params) = {} /\ Fails("binder") /\ UNCHANGED asked
    <3>1. ~Meaningful(call)
      BY <2>1, <2>2, CallRead
    <3>2. ~Meaningful(call')
      BY <1>1, <3>1
    <3> QED
      BY <1>1, <2>1, <2>2, <3>2 DEF Fails, SettingsInv, MoreSpecificWins
  <2>3. ASSUME NEW r \in Resolve(params), params' = r.params, password' = r.password, Goes("create")
        PROVE  SettingsInv'
    <3>1. /\ Meaningful(call)
          /\ \A option \in OptionNames : r.params[option] = Setting(call, option)
          /\ r.password = FirstGiven(<<SecretSaid(call)>>, "password")
      BY <2>1, CallRead
    <3>2. /\ Meaningful(call')
          /\ \A option \in OptionNames : params'[option] = Setting(call', option)
          /\ password' = FirstGiven(<<SecretSaid(call')>>, "password")
      BY <1>1, <2>3, <3>1
    <3>3. pc' = "create" /\ failure' = "none" /\ call' \in Calls
      BY <1>1, <2>1, <2>3 DEF Goes
    <3> QED
      BY <3>2, <3>3 DEF SettingsInv, MoreSpecificWins
  <2> QED
    BY <1>2, <2>2, <2>3 DEF StartOpening
<1>3. CASE ~StartOpening
  <2>1. Context \/ Connect \/ Interrupted \/ Tick \/ \E ok \in BOOLEAN : Shakes(ok)
    BY <1>3 DEF Thread, OpeningNext
  <2> USE DEF Context, CheckNames, ImportTarget, ImportUser, Acquire, Connect, LookUp, OpenSocket, NoSocket,
          NoMoreAddresses, SetNonblocking, CallFails, ConnectsAtOnce, InProgress, DeadlinePassed, Poll,
          PollTimesOut, Writable, Interrupted, Tick, Shakes, Goes, Fails, Unwinds, Abandon, NextAddress,
          Connected
  <2>2. pc \notin {"bind", "open", "failed"}
    BY <2>1
  <2>3. pc' \notin {"bind", "open"}
    BY <2>1, <2>2
  <2>4. UNCHANGED <<params, password>>
    BY <2>1 DEF asked
  <2>5. failure' = failure \/ failure' \notin {"binder", "statement"}
    BY <2>1
  <2> QED
    BY <1>1, <2>2, <2>3, <2>4, <2>5, SettingsKept
<1> QED
  BY <1>2, <1>3

(* One of the bind reads the text, or keeps what was read.                 *)
LEMMA BindKeepsSettings ==
    ASSUME SettingsInv, \A c \in Calls : Explained(c), Bind
    PROVE  SettingsInv'
<1>1. CASE StartBind
  <2>1. UNCHANGED call /\ pc = "bind" /\ failure = "none" /\ call \in Calls
    BY <1>1 DEF StartBind, SettingsInv
  <2>2. CASE ParamsFrom(call.text, call.named) = {} /\ Fails("binder") /\ UNCHANGED params
    <3>1. ~Meaningful(call)
      BY <2>1, <2>2, CallRead
    <3>2. ~Meaningful(call')
      BY <2>1, <3>1
    <3> QED
      BY <2>1, <2>2, <3>2 DEF Fails, SettingsInv, MoreSpecificWins
  <2>3. CASE \E p \in ParamsFrom(call.text, call.named) :
                /\ params' = p
                /\ IF call.kind = "execute" /\ ~ReadsOnly(call.statement)
                   THEN Fails("statement") ELSE Goes("open")
    <3>1. params' \in ParamsFrom(call'.text, call'.named)
      BY <2>1, <2>3
    <3>2. (pc' = "failed" /\ failure' = "statement") \/ (pc' = "open" /\ failure' = "none")
      BY <2>1, <2>3 DEF Fails, Goes
    <3> QED
      BY <2>1, <3>1, <3>2 DEF SettingsInv, MoreSpecificWins
  <2> QED
    BY <1>1, <2>2, <2>3 DEF StartBind
<1>2. CASE ~StartBind
  <2>1. SendRequest \/ NotAnswered \/ \E t \in Tables : Answered(t)
    BY <1>2 DEF Bind
  <2> USE DEF SendRequest, NotAnswered, Answered, Goes, Fails
  <2>2. pc = "session" /\ pc' \notin {"bind", "open"}
    BY <2>1
  <2>3. UNCHANGED <<call, params, password>>
    BY <2>1 DEF asked
  <2>4. failure' = failure \/ failure' \notin {"binder", "statement"}
    BY <2>1
  <2> QED
    BY <2>2, <2>3, <2>4, SettingsKept
<1> QED
  BY <1>1, <1>2

(* A session is opened with what the call says, and with nothing else: the *)
(* function's parameters, the text as it was meant, the secret and the     *)
(* defaults, in that order, for every text that says its options in some   *)
(* form, or is refused.                                                    *)
THEOREM SettingsAsSaid ==
    ASSUME \A c \in Calls : Explained(c)
    PROVE  FunctionsSpec => []MoreSpecificWins
<1>1. ASSUME SettingsInv, [FunctionsNext]_functionVars PROVE SettingsInv'
  <2>1. CASE Bind
    BY <1>1, <2>1, BindKeepsSettings
  <2>2. CASE Thread
    BY <1>1, <2>2, OpeningKeepsSettings
  <2>3. CASE InitGlobal \/ ScanVector \/ UNCHANGED functionVars
    <3>1. UNCHANGED <<call, pc, failure, params, password>>
      BY <2>3 DEF InitGlobal, ScanVector, functionVars, openingVars, asked
    <3>2. Meaningful(call') <=> Meaningful(call)
      BY <3>1
    <3>3. /\ \A option \in OptionNames : Setting(call', option) = Setting(call, option)
          /\ SecretSaid(call') = SecretSaid(call)
      BY <3>1
    <3> QED
      BY <1>1, <3>1, <3>2, <3>3 DEF SettingsInv, MoreSpecificWins
  <2> QED
    BY <1>1, <2>1, <2>2, <2>3 DEF FunctionsNext
<1>2. SettingsInv => MoreSpecificWins
  BY DEF SettingsInv
<1> QED
  BY <1>1, <1>2, SettingsHoldFirst, PTL DEF FunctionsSpec
=============================================================================
