-------------------------------- MODULE Opening --------------------------------
(***************************************************************************)
(* OpenSession (src/xmla_connection.cpp): parameters are resolved, the     *)
(* security context is made (GssContext::Create, src/xmla/gss_context.cpp) *)
(* and the socket connected (SocketChannel, src/xmla/transport.cpp).  The  *)
(* handshake is one step here; Session has its rounds.                     *)
(*                                                                         *)
(* One thread runs; every call it makes to GSSAPI or the system is a step  *)
(* with each outcome the code tells apart.  Time passes in poll only: the  *)
(* name is resolved before the deadline is set.                            *)
(***************************************************************************)
EXTENDS Parameters, FiniteSets

CONSTANTS
    Limit,           \* the timeout, in ticks
    MaxAddresses,    \* bound: addresses a name resolves to
    MaxSignals       \* bound: times a signal interrupts poll

ASSUME OpeningAssumption ==
    Limit \in Nat \ {0} /\ MaxAddresses \in Nat /\ MaxSignals \in Nat

VARIABLES
    pc,              \* where the thread is
    failure,         \* the category of what was thrown, or "none"
    params,          \* XmlaConnectionParams
    password,        \* OpenSession's password
    handles,         \* GSSAPI handles held
    addrinfo,        \* the list getaddrinfo made is held
    addresses,       \* its length
    ai,              \* the address being tried
    open,            \* sockets that are open, named by their address
    nonblocking,     \* those with O_NONBLOCK
    fd,              \* fd_, 0 when not set
    now, deadline,   \* the clock, and the constructor's deadline
    wake,            \* when poll times out
    signals          \* signals so far

asked   == <<params, password>>
address == <<addrinfo, addresses, ai>>
sockets == <<open, nonblocking, fd>>
clock   == <<now, deadline, wake, signals>>
openingVars == <<pc, failure, asked, handles, address, sockets, clock>>

OpeningInit ==
    /\ failure = "none"
    /\ params = [name \in OptionNames |-> <<>>] /\ password = <<>>
    /\ handles = {}
    /\ addrinfo = FALSE /\ addresses = 0 /\ ai = 0
    /\ open = {} /\ nonblocking = {} /\ fd = 0
    /\ now = 0 /\ deadline = 0 /\ wake = 0 /\ signals = 0

Goes(next) == pc' = next /\ UNCHANGED failure
Fails(category) == pc' = "failed" /\ failure' = category

-----------------------------------------------------------------------------
(* The parameters, then the security context.                              *)

StartOpening ==
    /\ pc = "open"
    /\ \/ Resolve(params) = {} /\ Fails("binder") /\ UNCHANGED asked
       \/ \E r \in Resolve(params) :
             params' = r.params /\ password' = r.password /\ Goes("create")
    /\ UNCHANGED <<handles, address, sockets, clock>>

CheckNames ==
    /\ pc = "create"
    /\ IF params["mechanism"] \in Mechanisms /\ IsServiceName(Target(params))
       THEN Goes("target") ELSE Fails("authentication")
    /\ UNCHANGED <<asked, handles, address, sockets, clock>>

(* gss_import_name of the target; without a principal there is no more.    *)
ImportTarget(ok) ==
    /\ pc = "target"
    /\ handles' = IF ok THEN {"target"} ELSE {}
    /\ IF ok THEN Goes(IF params["user"] = <<>> THEN "lookup" ELSE "user") ELSE Fails("authentication")
    /\ UNCHANGED <<asked, address, sockets, clock>>

(* A variant that leaves the target's name on failure.                     *)
ImportUserLeaks(ok) ==
    /\ pc = "user"
    /\ handles' = IF ok THEN handles \cup {"user"} ELSE handles
    /\ IF ok THEN Goes("acquire") ELSE Fails("authentication")
    /\ UNCHANGED <<asked, address, sockets, clock>>

ImportUser(ok) ==
    /\ pc = "user"
    /\ handles' = IF ok THEN handles \cup {"user"} ELSE handles \ {"target"}
    /\ IF ok THEN Goes("acquire") ELSE Fails("authentication")
    /\ UNCHANGED <<asked, address, sockets, clock>>

(* gss_acquire_cred, with the password when there is one.                  *)
Acquire(ok) ==
    /\ pc = "acquire"
    /\ handles' = IF ok THEN (handles \ {"user"}) \cup {"cred"} ELSE handles \ {"user", "target"}
    /\ IF ok THEN Goes("lookup") ELSE Fails("authentication")
    /\ UNCHANGED <<asked, address, sockets, clock>>

-----------------------------------------------------------------------------
(* SocketChannel::SocketChannel.  When it throws, the session unwinds and  *)
(* with it the context.                                                    *)

Unwinds(category) == Fails(category) /\ handles' = {}

(* getaddrinfo finds n addresses.                                          *)
LookUp(n) ==
    /\ pc = "lookup"
    /\ addresses' = n /\ ai' = 1
    /\ IF n > 0
       THEN Goes("address") /\ addrinfo' = TRUE /\ deadline' = now + Limit /\ UNCHANGED handles
       ELSE Unwinds("connection") /\ UNCHANGED <<addrinfo, deadline>>
    /\ UNCHANGED <<asked, sockets, now, wake, signals>>

NextAddress == ai' = ai + 1 /\ Goes("address") /\ UNCHANGED <<addrinfo, addresses, handles>>

(* A variant that tries the same address again.                            *)
AbandonOnly ==
    /\ open' = open \ {ai} /\ nonblocking' = nonblocking \ {ai} /\ UNCHANGED fd
    /\ Goes("address") /\ UNCHANGED <<address, handles>>

(* The descriptor is closed, and the loop goes on.                         *)
Abandon ==
    /\ open' = open \ {ai} /\ nonblocking' = nonblocking \ {ai} /\ UNCHANGED fd
    /\ NextAddress

(* Variants: one that goes on past the last address; one that starts the   *)
(* deadline again for each.                                                *)
OpenSocketPastEnd ==
    /\ pc = "address" /\ ai <= addresses + 1
    /\ open' = open \cup {ai} /\ Goes("flags")
    /\ UNCHANGED <<asked, handles, address, nonblocking, fd, clock>>
OpenSocketAnew ==
    /\ pc = "address" /\ ai <= addresses
    /\ open' = open \cup {ai} /\ Goes("flags")
    /\ deadline' = now + Limit
    /\ UNCHANGED <<asked, handles, address, nonblocking, fd, now, wake, signals>>

OpenSocket ==
    /\ pc = "address" /\ ai <= addresses
    /\ open' = open \cup {ai} /\ Goes("flags")
    /\ UNCHANGED <<asked, handles, address, nonblocking, fd, clock>>

NoSocket ==
    /\ pc = "address" /\ ai <= addresses
    /\ NextAddress
    /\ UNCHANGED <<asked, sockets, clock>>

NoMoreAddresses ==
    /\ pc = "address" /\ ai > addresses
    /\ addrinfo' = FALSE
    /\ Unwinds("connection")
    /\ UNCHANGED <<asked, addresses, ai, sockets, clock>>

SetNonblocking ==
    /\ pc = "flags"
    /\ nonblocking' = nonblocking \cup {ai} /\ Goes("connect")
    /\ UNCHANGED <<asked, handles, address, open, fd, clock>>

(* fcntl fails, or connect does at once, or poll does.                     *)
CallFails ==
    /\ pc \in {"flags", "connect", "poll"}
    /\ Abandon
    /\ UNCHANGED <<asked, clock>>

(* A variant that leaves the socket non-blocking.                          *)
ConnectedNonblocking ==
    /\ fd' = ai /\ UNCHANGED <<open, nonblocking>>
    /\ addrinfo' = FALSE /\ UNCHANGED <<addresses, ai, handles>>
    /\ Goes("handshake")

(* Back to blocking, and the list is freed.  The code does not check the   *)
(* fcntl that restores the flags (transport.cpp:106); with flags that it   *)
(* read from the descriptor, which is open, it is taken to succeed.        *)
Connected ==
    /\ nonblocking' = nonblocking \ {ai} /\ fd' = ai /\ UNCHANGED open
    /\ addrinfo' = FALSE /\ UNCHANGED <<addresses, ai, handles>>
    /\ Goes("handshake")

ConnectsAtOnce ==
    /\ pc = "connect"
    /\ Connected
    /\ UNCHANGED <<asked, clock>>

InProgress ==
    /\ pc = "connect" /\ Goes("wait")
    /\ UNCHANGED <<asked, handles, address, sockets, clock>>

(* The loop around poll: the deadline has passed ...                       *)
DeadlinePassed ==
    /\ pc = "wait" /\ now >= deadline
    /\ Abandon
    /\ UNCHANGED <<asked, clock>>

(* A variant that waits the whole timeout each time.                       *)
PollAnew ==
    /\ pc = "wait" /\ now < deadline
    /\ wake' = now + Limit /\ Goes("poll")
    /\ UNCHANGED <<asked, handles, address, sockets, now, deadline, signals>>

(* ... or poll is called for what remains of it.                           *)
Poll ==
    /\ pc = "wait" /\ now < deadline
    /\ wake' = deadline /\ Goes("poll")
    /\ UNCHANGED <<asked, handles, address, sockets, now, deadline, signals>>

Tick ==
    /\ pc = "poll" /\ now < wake
    /\ now' = now + 1
    /\ UNCHANGED <<pc, failure, asked, handles, address, sockets, deadline, wake, signals>>

Interrupted ==
    /\ pc = "poll" /\ signals < MaxSignals
    /\ signals' = signals + 1 /\ Goes("wait")
    /\ UNCHANGED <<asked, handles, address, sockets, now, deadline, wake>>

PollTimesOut ==
    /\ pc = "poll" /\ now >= wake
    /\ Abandon
    /\ UNCHANGED <<asked, clock>>

(* Writable: SO_ERROR says whether it is connected.                        *)
Writable(error) ==
    /\ pc = "poll"
    /\ IF error THEN Abandon ELSE Connected
    /\ UNCHANGED <<asked, clock>>

-----------------------------------------------------------------------------
(* The session is made, or unwinds with all it holds.                      *)

Dropped == open' = {} /\ nonblocking' = {} /\ fd' = 0 /\ handles' = {}

Shakes(ok) ==
    /\ pc = "handshake"
    /\ IF ok THEN Goes("session") /\ UNCHANGED <<sockets, handles>>
             ELSE Fails("session") /\ Dropped
    /\ UNCHANGED <<asked, address, clock>>

Context == CheckNames \/ \E ok \in BOOLEAN : ImportTarget(ok) \/ ImportUser(ok) \/ Acquire(ok)
Connect == \/ \E n \in 0 .. MaxAddresses : LookUp(n)
           \/ OpenSocket \/ NoSocket \/ NoMoreAddresses \/ SetNonblocking \/ CallFails
           \/ ConnectsAtOnce \/ InProgress \/ DeadlinePassed \/ Poll \/ PollTimesOut
           \/ \E error \in BOOLEAN : Writable(error)

OpeningNext == StartOpening \/ Context \/ Connect \/ Interrupted \/ Tick
                 \/ \E ok \in BOOLEAN : Shakes(ok)

-----------------------------------------------------------------------------
(* Properties.                                                             *)

(* The types; sockets are those of addresses.                              *)
OpeningTypeOK ==
    /\ pc \in {"bind", "open", "create", "target", "user", "acquire", "lookup", "address", "flags",
               "connect", "wait", "poll", "handshake", "session", "bound", "failed"}
    /\ failure \in {"none", "binder", "statement", "authentication", "connection", "session"}
    /\ handles \subseteq {"target", "user", "cred"}
    /\ addrinfo \in BOOLEAN /\ addresses \in 0 .. MaxAddresses /\ ai \in 0 .. (addresses + 1)
    /\ open \subseteq 1 .. addresses /\ nonblocking \subseteq open /\ fd \in 0 .. addresses
    /\ now \in Nat /\ deadline \in Nat /\ wake \in Nat /\ signals \in 0 .. MaxSignals

(* A call that is over, however it ended and wherever it failed, holds no  *)
(* GSSAPI handle, descriptor or address list; one with a session holds one *)
(* descriptor, in blocking mode so that its timeouts bound it, the         *)
(* target's name, a credential exactly when there is a principal, and no   *)
(* name of the principal (gss_context.cpp:449-481, transport.cpp:54-112).  *)
(* The context the handshake makes is the session's (gss_context.cpp:383)  *)
(* and not counted.                                                        *)
HoldsExactly ==
    /\ pc \in {"bound", "failed"} => handles = {} /\ open = {} /\ ~addrinfo /\ fd = 0
    /\ pc \in {"handshake", "session"} =>
          /\ open = {fd} /\ nonblocking = {} /\ ~addrinfo
          /\ handles = {"target"} \cup (IF params["user"] = <<>> THEN {} ELSE {"cred"})

(* Connecting takes no longer than the timeout, for all addresses together *)
(* and whatever signals arrive (transport.cpp:48-50, 84-86).               *)
ConnectBounded == now <= Limit
=============================================================================
