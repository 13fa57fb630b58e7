------------------------------- MODULE Service ------------------------------
(***************************************************************************)
(* The service core of cercall (include/cercall/service.h with its        *)
(* function dictionary, details/functiondict.h) together with the server  *)
(* side of the stream transport and the acceptor                          *)
(* (asio/basicstreamtransport.h, asio/basicstreamacceptor.h).             *)
(*                                                                         *)
(* A session is named by the client it serves; saddr gives the heap     *)
(* address of its transport object, the key of myClients and of         *)
(* myPendingCalls.  myClients holds exactly                             *)
(* the sessions whose transport is OPEN (on_disconnected erases a session *)
(* inside BasicStreamTransport::close).  A pending call is the record     *)
(* [f, s, id]: myPendingCalls holds (f, s); id names the call whose       *)
(* result sink is still to fire.                                          *)
(***************************************************************************)
EXTENDS Naturals, Sequences, FiniteSets

CONSTANTS
  Clients,        \* the client transports the acceptor may hand over
  Funcs,          \* two-way operations registered in myFuncDict
  OneWayFuncs,    \* one-way operations registered in myFuncDict
  MaxCalls,       \* bound on call numbers (see Client)
  MaxEvents,      \* bound: broadcast_event invocations
  MaxStarts,      \* bound: start invocations
  HandlersMayThrow, \* a user handler may let an exception escape
  Addrs,          \* addresses the heap may give a server transport object
  AcceptMayFail,  \* open/bind/listen or async_accept may fail (EADDRINUSE, EMFILE)
  Unregistered    \* operations a client may call that the service never
                  \* added with O_ADD_SERVICE_FUNCTIONS_OF (an older build)

ASSUME MaxEvents \in Nat
ASSUME Unregistered \subseteq Funcs \cup OneWayFuncs

VARIABLES
  acceptor,   \* "closed", "open" (listening) or "unbound" (is_open, not listening)
  armed,      \* an async_accept of the open acceptor is outstanding
  stale,      \* completions of accepts issued before the acceptor was
              \* last closed, still queued: "aborted", or the client whose
              \* connection the accept had already taken
  raised,     \* an exception is propagating out of io_service::run
  starts,     \* start invocations so far
  strans,     \* server transport per client: NONE (not accepted), OPEN, CLOSED
  pending,    \* myPendingCalls with the call whose sink is outstanding
  bcasts,     \* broadcast_event invocations so far
  sassert,    \* history: a read completion reached a cleared listener
  stalled,    \* sessions whose Messenger was left in MESSAGE by an exception
  saddr,      \* address of c's server transport object (Transport* key)
  link, c2s, s2c

Eof == [type |-> "eof"]
NoSink == 0
ResultMsg(f, id, res) == [type |-> "result", f |-> f, id |-> id, res |-> res]
EventMsg == [type |-> "event"]

Sessions == {c \in Clients : strans[c] = "OPEN"}

acceptVars == <<armed, stale, raised, starts>>

(* myAcceptor.is_open() *)
IsOpen == acceptor # "closed"

(* Service::on_accept_error: throws runtime_error out of the caller. *)
OnAcceptError == raised' = TRUE

ServerWriteOk(c) ==
  CASE link[c] = "down" -> {FALSE}
    [] link[c] = "half" -> BOOLEAN
    [] OTHER            -> {TRUE}

ToClient(c, m) == IF link[c] = "up" THEN Append(s2c[c], m) ELSE s2c[c]

(* BasicStreamTransport::close of the sessions S: CLOSED, socket shut    *)
(* down, on_disconnected clears the listener and erases the session from *)
(* myClients.  Its entries of myPendingCalls are only logged, not erased.*)
(* rest[c] is the read completion of c still delivered after the close; *)
(* out[c] what the same step writes to a session c that stays open.      *)
SessionsClosed(S, rest, out) ==
  /\ strans' = [c \in Clients |-> IF c \in S THEN "CLOSED" ELSE strans[c]]
  /\ c2s' = [c \in Clients |-> IF c \in S THEN rest[c] ELSE c2s[c]]
  /\ s2c' = [c \in Clients |-> IF c \in S THEN ToClient(c, Eof) ELSE out[c]]
  /\ link' = [c \in Clients |-> IF c \in S /\ link[c] = "up" THEN "half" ELSE link[c]]

(* The read of c's next header or payload has been performed: data (or  *)
(* end of stream) is in and the Messenger had requested it.              *)
ReadDone(c) == c2s[c] # <<>> /\ c \notin stalled

NoneQueued == [c \in Clients |-> <<>>]

(* Closed from within the session's own read completion handler: no     *)
(* read of that session is outstanding.                                  *)
SessionClosedInHandler(c) == SessionsClosed({c}, NoneQueued, s2c)

(* Closed from elsewhere: a session whose next message (or end of        *)
(* stream) is already in may have its read completion queued (kept).    *)
SessionsClosedOutsideRead(S, out) ==
  \E kept \in SUBSET {c \in S : ReadDone(c)} :
    SessionsClosed(S, [c \in Clients |-> IF c \in kept THEN <<Head(c2s[c])>> ELSE <<>>], out)

(* Service::add_functions: the names the service constructor registers, *)
(* one add_function per member of O_ADD_SERVICE_FUNCTIONS_OF.            *)
ServiceFunctions == (Funcs \cup OneWayFuncs) \ Unregistered

(* FunctionDict::add_function: myFunctionDict maps each registered name  *)
(* to its oneWay flag.                                                  *)
FunctionDict == [f \in ServiceFunctions |-> f \in OneWayFuncs]

(* FunctionDict::find: a name absent from myFunctionDict throws          *)
(* logic_error "not found in function dictionary".                       *)
Found(f) == f \in DOMAIN FunctionDict

(* Mutant: the oneWay flag of the dictionary entry is never set. *)
IsOneWayNever(f) == FALSE

(* FunctionDict::is_one_way (for a name find has found) *)
IsOneWay(f) == FunctionDict[f]

(* Mutant: the pending call is looked up by function name only. *)
FindPendingByName(f, s) == {p \in pending : p.f = f}

(* Service::find_pending_call: the entries of (f, s) in myPendingCalls.  *)
(* The key is the Transport pointer: an entry made by an earlier session *)
(* whose transport had the same address matches too.                    *)
FindPending(f, s) == {p \in pending : p.f = f /\ saddr[p.s] = saddr[s]}

(* Mutant: the result sink holds a plain Transport reference.           *)
ReferencedNoSink(c) ==
  strans[c] = "OPEN" \/ (strans[c] = "CLOSED" /\ c2s[c] # <<>>)

(* The owners of the shared_ptr to c's server transport: its ClientState *)
(* in myClients (the session is OPEN), the read completion bound to      *)
(* sharedThis while it is queued, and the result sink of a pending call, *)
(* which captures clientTr.  The object is freed when none is left.      *)
Referenced(c) ==
  \/ strans[c] = "OPEN"
  \/ strans[c] = "CLOSED" /\ c2s[c] # <<>>
  \/ \E p \in pending : p.s = c /\ p.id # NoSink

(* The address a is taken by a live transport object. *)
InUse(a) == \E c \in Clients : saddr[c] = a /\ Referenced(c)

(* Mutant: the Messenger does not consume the message it handled. *)
ConsumedNot(c) == c2s

(* The Messenger consumes the message it handed to dispatch_func. *)
Consumed(c) == [c2s EXCEPT ![c] = Tail(@)]

(* Service::start -> BasicStreamAcceptor::open, if not is_open: open,    *)
(* bind and listen, then start_accept.  An error of open leaves the      *)
(* acceptor closed, one of bind or listen leaves it open but not         *)
(* listening; either reaches on_accept_error, which throws.              *)
Start ==
  /\ ~IsOpen
  /\ starts < MaxStarts
  /\ starts' = starts + 1
  /\ \/ /\ acceptor' = "open"
        /\ armed' = TRUE
        /\ UNCHANGED <<raised>>
     \/ /\ AcceptMayFail
        /\ acceptor' \in {"closed", "unbound"}
        /\ OnAcceptError
        /\ UNCHANGED armed
  /\ UNCHANGED <<stale, saddr, strans, pending, bcasts, sassert, stalled, link, c2s, s2c>>

(* Service::stop: the acceptor is closed and every session in myClients  *)
(* is closed.  The outstanding accept completes later: operation_aborted *)
(* or, if it had already taken a connection, success.  The other        *)
(* connections the acceptor has not handed over are reset.              *)
Stop ==
  LET waiting == {c \in Clients : strans[c] = "NONE" /\ link[c] # "none" /\ c \notin stale}
      outcome == IF armed THEN {"aborted"} \cup waiting ELSE {"none"}
  IN
  /\ IsOpen
  /\ acceptor' = "closed"
  /\ armed' = FALSE
  /\ \E done \in outcome, kept \in SUBSET {c \in Sessions : ReadDone(c)} :
       /\ stale' = IF armed THEN stale \cup {done} ELSE stale
       /\ SessionsClosed(Sessions \cup (waiting \ {done}),
                        [c \in Clients |-> IF c \in kept THEN <<Head(c2s[c])>> ELSE <<>>], s2c)
  /\ UNCHANGED <<starts, raised, saddr, pending, bcasts, sassert, stalled>>

(* on_client_accepted for c's connection: a new transport object at an  *)
(* address no live object has, stored in myClients under that address,  *)
(* opened, and its header read started.                                  *)
NewSession(c) ==
  /\ \E a \in Addrs : ~InUse(a) /\ saddr' = [saddr EXCEPT ![c] = a]
  /\ strans' = [strans EXCEPT ![c] = "OPEN"]

(* The outstanding async_accept completes with c's connection while the *)
(* acceptor is open: the session is created and start_accept re-arms.   *)
Accept(c) ==
  /\ ~raised
  /\ acceptor = "open"
  /\ armed
  /\ strans[c] = "NONE"
  /\ link[c] # "none"
  /\ c \notin stale
  /\ NewSession(c)
  /\ UNCHANGED <<acceptor, acceptVars, pending, bcasts, sassert, stalled, link, c2s, s2c>>

(* The outstanding async_accept fails (EMFILE, ECONNABORTED; EINVAL on   *)
(* an acceptor that is not listening): on_accept_error throws before    *)
(* start_accept is called again.                                        *)
AcceptError ==
  /\ ~raised
  /\ armed
  /\ IsOpen
  /\ AcceptMayFail \/ acceptor = "unbound"
  /\ armed' = FALSE
  /\ OnAcceptError
  /\ UNCHANGED <<starts, acceptor, stale, saddr, strans, pending, bcasts, sassert, stalled, link, c2s, s2c>>

(* Mutant: the success branch does not test is_open(). *)
TakesConnectionAlways == TRUE

(* The success branch of start_accept's handler: !ec && is_open(). *)
TakesConnection == IsOpen

(* The completion handler of an accept issued before the acceptor was   *)
(* closed runs.  It tests is_open() of the acceptor as it is now:       *)
(* aborted and open again (stop then start) calls on_accept_error;      *)
(* success and open again creates a session and re-arms; success and    *)
(* closed calls on_accept_error with the success code, and the accepted *)
(* socket is destroyed.                                                 *)
StaleAccept(x) ==
  /\ ~raised
  /\ x \in stale
  /\ stale' = stale \ {x}
  /\ CASE x = "aborted" /\ IsOpen ->
            OnAcceptError /\ UNCHANGED <<armed, saddr, strans, link, c2s, s2c>>
       [] x = "aborted" ->
            UNCHANGED <<armed, raised, saddr, strans, link, c2s, s2c>>
       [] TakesConnection ->
            NewSession(x) /\ armed' = TRUE /\ UNCHANGED <<raised, link, c2s, s2c>>
       [] OTHER ->
            OnAcceptError /\ SessionsClosed({x}, NoneQueued, s2c) /\ UNCHANGED <<armed, saddr>>
  /\ UNCHANGED <<starts, acceptor, pending, bcasts, sassert, stalled>>

(* A call message reaches dispatch_func.  One-way: the handler runs, no  *)
(* sink.  Two-way with (f, session) already pending: OperationInProgress *)
(* is written back and the handler is not called.  Otherwise (f, session)*)
(* is recorded and the handler receives a sink that fires later.  A      *)
(* failed write closes the session.  A handler whose exception escapes   *)
(* is rethrown by dispatch_func: the Messenger stays in MESSAGE and      *)
(* requests no further read, the pending entry stays and its sink is     *)
(* gone (NoSink), and the exception leaves io_service::run.              *)
Dispatch(c) ==
  LET m == Head(c2s[c]) IN
  /\ strans[c] = "OPEN"
  /\ ReadDone(c)
  /\ m.type = "call"
  /\ \/ /\ ~Found(m.f)
        \* is_one_way, before the try: find's logic_error leaves
        \* Messenger::read and io_service::run; nothing is pending.
        /\ stalled' = stalled \cup {c}
        /\ raised' = TRUE
        /\ c2s' = Consumed(c)
        /\ UNCHANGED <<pending, strans, link, s2c>>
     \/ /\ Found(m.f)
        /\ IsOneWay(m.f)
        /\ c2s' = Consumed(c)
        /\ UNCHANGED <<pending, stalled, raised, strans, link, s2c>>
     \/ /\ Found(m.f) /\ ~IsOneWay(m.f)
        /\ FindPending(m.f, c) # {}
        /\ \E ok \in ServerWriteOk(c) :
             IF ok
             THEN /\ c2s' = Consumed(c)
                  /\ s2c' = [s2c EXCEPT ![c] = ToClient(c, ResultMsg(m.f, m.id, "inprogress"))]
                  /\ UNCHANGED <<strans, link>>
             ELSE SessionClosedInHandler(c)
        /\ UNCHANGED <<pending, stalled, raised>>
     \/ /\ Found(m.f) /\ ~IsOneWay(m.f)
        /\ FindPending(m.f, c) = {}
        /\ pending' = pending \cup {[f |-> m.f, s |-> c, id |-> m.id]}
        /\ c2s' = Consumed(c)
        /\ UNCHANGED <<stalled, raised, strans, link, s2c>>
     \/ /\ HandlersMayThrow
        /\ Found(m.f)
        /\ IsOneWay(m.f) \/ FindPending(m.f, c) = {}
        /\ pending' = IF IsOneWay(m.f) THEN pending
                      ELSE pending \cup {[f |-> m.f, s |-> c, id |-> NoSink]}
        /\ stalled' = stalled \cup {c}
        /\ raised' = TRUE
        /\ c2s' = Consumed(c)
        /\ UNCHANGED <<strans, link, s2c>>
  /\ UNCHANGED <<starts, saddr, acceptor, armed, stale, bcasts, sassert>>

(* The sink of a handler fires: send_result finds the pending entry,     *)
(* writes the result if the session is still in myClients, and erases   *)
(* the entry.                                                            *)
Complete(p) ==
  /\ ~raised
  /\ p \in pending
  /\ p.id # NoSink
  /\ pending' = pending \ {p}
  /\ IF p.s \in Sessions
     THEN \E ok \in ServerWriteOk(p.s) :
            IF ok
            THEN /\ s2c' = [s2c EXCEPT ![p.s] = ToClient(p.s, ResultMsg(p.f, p.id, "result"))]
                 /\ UNCHANGED <<strans, link, c2s>>
            ELSE SessionsClosedOutsideRead({p.s}, s2c)
     ELSE UNCHANGED <<strans, link, c2s, s2c>>
  /\ UNCHANGED <<saddr, acceptor, acceptVars, bcasts, sassert, stalled>>

(* handle_recv with an error: on_connection_error (no-op), then close. *)
ServerReadError(c) ==
  /\ strans[c] = "OPEN"
  /\ ReadDone(c)
  /\ Head(c2s[c]).type = "eof"
  /\ SessionClosedInHandler(c)
  /\ UNCHANGED <<saddr, acceptor, acceptVars, pending, bcasts, sassert, stalled>>

(* broadcast: the event is written to each session of myClients in the  *)
(* map's order (by Transport address, which the model leaves open).  A   *)
(* write that fails closes the session, and on_disconnected erases the   *)
(* element the range-for stands on; the loop's ++ then reads the freed   *)
(* node, which is undefined behaviour.  The build goes on with the next  *)
(* session, or leaves the loop early (the sessions not reached get no    *)
(* event), or crashes (BroadcastCrash).                                  *)
Broadcast ==
  /\ bcasts < MaxEvents
  /\ bcasts' = bcasts + 1
  /\ \E reached \in SUBSET Sessions, failed \in SUBSET Sessions :
       /\ failed \subseteq reached
       /\ \A c \in reached : ServerWriteOk(c) = {FALSE} => c \in failed
       /\ \A c \in failed : FALSE \in ServerWriteOk(c)
       /\ reached = Sessions \/ failed # {}
       /\ SessionsClosedOutsideRead(failed,
            [c \in Clients |-> IF c \in reached THEN ToClient(c, EventMsg) ELSE s2c[c]])
  /\ UNCHANGED <<saddr, acceptor, acceptVars, pending, sassert, stalled>>

(* A read completion queued before its session was closed runs          *)
(* handle_recv after on_disconnected cleared the listener.  End of       *)
(* stream: the listener is skipped and close is a no-op.                 *)
LateEof(c) ==
  /\ strans[c] = "CLOSED"
  /\ c2s[c] # <<>>
  /\ Head(c2s[c]) = Eof
  /\ c2s' = [c2s EXCEPT ![c] = <<>>]
  /\ UNCHANGED <<saddr, acceptor, acceptVars, strans, pending, bcasts, sassert, stalled, link, s2c>>

(* The service process ends: its sessions, pending calls and listening  *)
(* socket are gone; the acceptor is closed.  The effect on the          *)
(* connections is composed in CercallSystem.                            *)
ProcessDies ==
  /\ acceptor' = "closed"
  /\ armed' = FALSE
  /\ stale' = {}
  /\ raised' = FALSE
  /\ pending' = {}
  /\ stalled' = {}
  /\ strans' = [d \in Clients |-> IF strans[d] = "NONE" /\ link[d] = "none"
                                   THEN "NONE" ELSE "CLOSED"]

(* An OperationInProgress reply whose write fails closes the session    *)
(* inside Messenger::read; on_disconnected frees its ClientState, and    *)
(* read then stores myReceiveState into the freed Messenger: undefined  *)
(* behaviour, which the build survives (Dispatch) or crashes on.         *)
InProgressWriteCrash(c) ==
  LET m == Head(c2s[c]) IN
  /\ ~raised
  /\ strans[c] = "OPEN"
  /\ ReadDone(c)
  /\ m.type = "call"
  /\ Found(m.f) /\ ~IsOneWay(m.f)
  /\ FindPending(m.f, c) # {}
  /\ FALSE \in ServerWriteOk(c)
  /\ ProcessDies
  /\ UNCHANGED <<starts, saddr, bcasts, sassert>>

(* The iteration of broadcast goes on from the freed node of a session *)
(* whose write failed, and the process crashes.                          *)
BroadcastCrash ==
  /\ bcasts < MaxEvents
  /\ bcasts' = bcasts + 1
  /\ \E c \in Sessions : FALSE \in ServerWriteOk(c)
  /\ ProcessDies
  /\ UNCHANGED <<starts, saddr, sassert>>

(* Data: o_assert(myListener != nullptr) fails and the process aborts. *)
LateData(c) ==
  /\ ~raised
  /\ strans[c] = "CLOSED"
  /\ c2s[c] # <<>>
  /\ Head(c2s[c]) # Eof
  /\ sassert' = TRUE
  /\ ProcessDies
  /\ UNCHANGED <<starts, saddr, bcasts>>

(* An exception has left io_service::run: the program's main catches it *)
(* and returns (the example and test servers), ending the process.      *)
Exit ==
  /\ raised
  /\ ProcessDies
  /\ UNCHANGED <<starts, saddr, bcasts, sassert>>

(* ... or the program catches it and calls io_service::run again; the   *)
(* handler that threw is gone, everything else stays queued.            *)
Rerun ==
  /\ raised
  /\ raised' = FALSE
  /\ UNCHANGED <<starts, acceptor, armed, stale, saddr, strans, pending, bcasts, sassert, stalled,
                 link, c2s, s2c>>

ServiceInit ==
  /\ acceptor = "closed"
  /\ strans = [c \in Clients |-> "NONE"]
  /\ pending = {}
  /\ bcasts = 0
  /\ sassert = FALSE
  /\ stalled = {}
  /\ saddr = [c \in Clients |-> "none"]
  /\ armed = FALSE
  /\ stale = {}
  /\ raised = FALSE
  /\ starts = 0

(* The handlers below run only inside io_service::run (~raised). *)
ServiceReceive(c) == ~raised /\ (Dispatch(c) \/ ServerReadError(c) \/ LateEof(c))

ServiceHandlers ==
  \/ AcceptError
  \/ \E x \in stale : StaleAccept(x)
  \/ \E c \in Clients : Accept(c) \/ ServiceReceive(c)
  \/ \E p \in pending : Complete(p)

(* Calls of the program: start, stop, broadcast_event, and what it does *)
(* with an exception out of run.                                        *)
ServiceNext == Start \/ Stop \/ Broadcast \/ Rerun \/ ServiceHandlers
=============================================================================
