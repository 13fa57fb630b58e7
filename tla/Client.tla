------------------------------- MODULE Client -------------------------------
(***************************************************************************)
(* The client core of cercall (include/cercall/client.h with its call     *)
(* queue, details/callqueue.h) together with the client side of its       *)
(* stream transport (asio/basicstreamtransport.h, clienttcptransport.h).  *)
(*                                                                         *)
(* One Client object per element of Clients.  A call is identified by its *)
(* position in the history calls[c]; the continuation stored for it in    *)
(* myClosures or in the call queue is represented by that number.         *)
(* The channels c2s / s2c and the link state are shared with the Service  *)
(* module and composed in CercallSystem.                                   *)
(***************************************************************************)
EXTENDS Naturals, Sequences, FiniteSets

CONSTANTS
  Clients,              \* the Client objects (one transport each)
  Funcs,                \* two-way operations of the interface
  OneWayFuncs,          \* one-way operations (no continuation)
  MaxCallsInProgress,   \* template parameter of Client, >= 1
  MaxCalls,             \* bound: calls issued per client
  ClientMayClose,       \* the user may call Client::close()
  MaxOpens,             \* bound: asynchronous open(Closure) calls per client
  DoubleOpen,           \* the user may open again while an open is under way
  CallsFromErrorContinuation \* a continuation run by the error fan-out
                             \* may itself issue a call

ASSUME MaxCallsInProgress \in Nat \ {0}
ASSUME MaxCalls \in Nat \ {0}
ASSUME Funcs \cap OneWayFuncs = {}

VARIABLES
  ctrans,    \* client transport state: NEW, OPEN, CLOSED
  closures,  \* myClosures: function name -> call number, 0 when absent
  queue,     \* myCallQueue: function name -> queued call numbers
  cphase,    \* "idle", or inside dispatch_connection_error called from
             \* handle_recv ("fanout") or from a failed open ("connfail")
  fanout,    \* closures the fan-out loop has still to visit
  cfault,    \* a result found no closure: the exception ended reading
  calls,     \* history: the operation of every issued call
  answers,   \* history: continuation invocations [id, from, res]
  chains,    \* open(Closure) chains under way: "resolve" or "connect" -> count
  opens,     \* open(Closure) calls so far
  openres,   \* history: results passed to the open continuations
  cassert,   \* an o_assert of the client process failed (process gone)
  acceptor,  \* service endpoint state (connect succeeds when "open")
  link,      \* per connection: none, up, half (one end closed), down
  c2s, s2c   \* in-flight messages client->service and service->client

AllFuncs == Funcs \cup OneWayFuncs
CallId == 1..MaxCalls
NoClosure == 0
Eof == [type |-> "eof"]
CallMsg(f, id) == [type |-> "call", f |-> f, id |-> id]
openVars == <<chains, opens, openres, cassert>>

(* No open, synchronous or asynchronous, is under way.  The code does not *)
(* test this (open checks only myState == NEW); it is the discipline of   *)
(* a user program that waits for an open to finish, lifted by DoubleOpen. *)
NoOpenUnderWay(c) == chains[c]["resolve"] + chains[c]["connect"] = 0

(* The write of BasicStreamTransport: ENOTCONN unless OPEN; it fails     *)
(* when the connection is reset, and may fail once the peer has closed.  *)
ClientWriteOk(c) ==
  CASE ctrans[c] # "OPEN" -> {FALSE}
    [] link[c] = "down" -> {FALSE}
    [] link[c] = "half" -> BOOLEAN
    [] OTHER            -> {TRUE}

(* Data sent over a link whose receiver has gone is lost. *)
ToServer(c, m) == IF link[c] = "up" THEN Append(c2s[c], m) ELSE c2s[c]

(* The read of the current header or payload: if the peer's data or      *)
(* error is already in, asio has performed the read and queued its        *)
(* completion; closing the socket then no longer cancels it.             *)
QueuedCompletion(ch) == {<<>>} \cup (IF ch # <<>> THEN {<<Head(ch)>>} ELSE {})

(* BasicStreamTransport::close: state CLOSED, socket shut down (the peer *)
(* reads end of stream); a read completion not yet performed is          *)
(* aborted and dropped by handle_recv, one already queued (rest) is      *)
(* still delivered.  The client's on_disconnected does nothing.  No-op   *)
(* unless the transport is OPEN.                                         *)
CloseTransport(c, rest) ==
  IF ctrans[c] = "OPEN"
  THEN /\ ctrans' = [ctrans EXCEPT ![c] = "CLOSED"]
       /\ s2c' = [s2c EXCEPT ![c] = rest]
       /\ c2s' = [c2s EXCEPT ![c] = ToServer(c, Eof)]
       /\ link' = [link EXCEPT ![c] = IF @ = "up" THEN "half" ELSE @]
  ELSE UNCHANGED <<ctrans, s2c, c2s, link>>

(* A close issued outside the transport's read completion handler. *)
CloseOutsideRead(c) == \E rest \in QueuedCompletion(s2c[c]) : CloseTransport(c, rest)

(* Mutant: off by one, the queue may hold CallQueueLimit + 1 calls. *)
CanEnqueueOffByOne(c, f) == Len(queue[c][f]) <= MaxCallsInProgress - 1

(* CallQueue::can_enqueue with CallQueueLimit = MaxCallsInProgress - 1. *)
CanEnqueue(c, f) == Len(queue[c][f]) < MaxCallsInProgress - 1

(* Mutant: the queued call is pushed at the front of the list. *)
EnqueueCallFront(c, f, id) == <<id>> \o queue[c][f]

(* CallQueue::enqueue_call: push_back onto the list of function f. *)
EnqueueCall(c, f, id) == Append(queue[c][f], id)

(* Mutant: send_call asks the call queue instead of myClosures. *)
HasClosureQueued(c, f) == queue[c][f] # <<>>

(* myClosures.find(fullFuncName) != myClosures.end() *)
HasClosure(c, f) == closures[c][f] # NoClosure

(* Mutant: the connection error is not dispatched to any closure. *)
OutstandingNone(c, cl) == {}

(* The keys of myClosures (closure map cl) the fan-out loop iterates. *)
Outstanding(c, cl) == {g \in Funcs : cl[c][g] # NoClosure}

(* Client::open(): ClientTcpTransport::open connects (only while the     *)
(* service listens), TcpTransport::open sets OPEN, on_connected starts   *)
(* the header read.  A refused connect leaves the transport NEW.         *)
Open(c) ==
  /\ ctrans[c] = "NEW"
  /\ NoOpenUnderWay(c) \/ DoubleOpen
  /\ acceptor = "open"
  /\ ctrans' = [ctrans EXCEPT ![c] = "OPEN"]
  /\ link' = [link EXCEPT ![c] = "up"]
  /\ UNCHANGED <<closures, queue, cphase, fanout, cfault, calls, answers,
                 acceptor, c2s, s2c>>

(* Client::send_call for a two-way operation.  prepare_call_message      *)
(* throws unless the transport is open; with no outstanding closure the  *)
(* message is written and the closure stored (a failed write calls the   *)
(* continuation with the error instead); otherwise the call is queued,   *)
(* or send_call throws when the queue is full (no state change).  Called *)
(* from a continuation of the error fan-out, a newly stored closure may  *)
(* or may not be reached by the ongoing loop over myClosures.            *)
SendCall(c, f) ==
  LET id == Len(calls[c]) + 1 IN
  /\ id <= MaxCalls
  /\ ctrans[c] = "OPEN"
  /\ ~cfault[c]
  /\ cphase[c] = "idle" \/ CallsFromErrorContinuation
  /\ calls' = [calls EXCEPT ![c] = Append(@, f)]
  /\ \/ /\ ~HasClosure(c, f)
        /\ \E ok \in ClientWriteOk(c) :
             IF ok
             THEN /\ c2s' = [c2s EXCEPT ![c] = ToServer(c, CallMsg(f, id))]
                  /\ closures' = [closures EXCEPT ![c][f] = id]
                  /\ \E seen \in BOOLEAN :
                       fanout' = IF cphase[c] # "idle" /\ seen
                                 THEN [fanout EXCEPT ![c] = @ \cup {f}]
                                 ELSE fanout
                  /\ UNCHANGED <<ctrans, s2c, link, answers>>
             ELSE /\ CloseOutsideRead(c)
                  /\ answers' = [answers EXCEPT ![c] = Append(@,
                                   [id |-> id, from |-> 0, res |-> "write_error"])]
                  /\ UNCHANGED <<closures, fanout>>
        /\ UNCHANGED queue
     \/ /\ HasClosure(c, f)
        /\ CanEnqueue(c, f)
        /\ queue' = [queue EXCEPT ![c][f] = EnqueueCall(c, f, id)]
        /\ UNCHANGED <<closures, fanout, ctrans, s2c, c2s, link, answers>>
  /\ UNCHANGED <<cphase, cfault, acceptor>>

(* send_call overload for one-way operations: write, error ignored. *)
SendOneWay(c, f) ==
  /\ Len(calls[c]) < MaxCalls
  /\ ctrans[c] = "OPEN"
  /\ ~cfault[c]
  /\ cphase[c] = "idle" \/ CallsFromErrorContinuation
  /\ calls' = [calls EXCEPT ![c] = Append(@, f)]
  /\ \E ok \in ClientWriteOk(c) :
       IF ok THEN /\ c2s' = [c2s EXCEPT ![c] = ToServer(c, CallMsg(f, Len(calls[c]) + 1))]
                  /\ UNCHANGED <<ctrans, s2c, link>>
             ELSE CloseOutsideRead(c)
  /\ UNCHANGED <<closures, queue, cphase, fanout, cfault, answers, acceptor>>

(* Client::close(). *)
Close(c) ==
  /\ ClientMayClose
  /\ ctrans[c] = "OPEN"
  /\ cphase[c] = "idle"
  /\ CloseOutsideRead(c)
  /\ UNCHANGED <<closures, queue, cphase, fanout, cfault, calls, answers, acceptor>>

(* A read completion with data reaches the handler of                   *)
(* make_message_handler (handle_recv does not look at the state, so a    *)
(* completion queued before a close is delivered too).                   *)
Receiving(c) ==
  /\ cphase[c] = "idle"
  /\ ~cfault[c]
  /\ s2c[c] # <<>>
  /\ Head(s2c[c]) # Eof

(* After the handler, Messenger::read requests the next header; on a     *)
(* closed socket that read fails, which starts the error fan-out over    *)
(* the closures cl left by the handler.                                  *)
AfterHandler(c, cl) ==
  IF ctrans'[c] = "CLOSED"
  THEN /\ s2c' = [s2c EXCEPT ![c] = <<>>]
       /\ cphase' = [cphase EXCEPT ![c] = "fanout"]
       /\ fanout' = [fanout EXCEPT ![c] = Outstanding(c, cl)]
  ELSE /\ s2c' = [s2c EXCEPT ![c] = Tail(@)]
       /\ UNCHANGED <<cphase, fanout>>

(* dispatch_result: the closure is removed, the head of the call queue   *)
(* (if any) is written and installed as the new closure, then the old    *)
(* closure runs.  A queued write that fails (or finds the transport      *)
(* closed) is ignored.  No closure: the exception stops the message loop.*)
ReceiveResult(c) ==
  LET m == Head(s2c[c]) IN
  /\ Receiving(c)
  /\ m.type = "result"
  /\ IF ~HasClosure(c, m.f)
     THEN /\ cfault' = [cfault EXCEPT ![c] = TRUE]
          /\ s2c' = [s2c EXCEPT ![c] = Tail(@)]
          /\ UNCHANGED <<closures, queue, cphase, fanout, answers, ctrans, c2s, link>>
     ELSE
       LET done == [id |-> closures[c][m.f], from |-> m.id, res |-> m.res] IN
       /\ answers' = [answers EXCEPT ![c] = Append(@, done)]
       /\ UNCHANGED cfault
       /\ IF queue[c][m.f] = <<>>
          THEN LET cls == [closures EXCEPT ![c][m.f] = NoClosure] IN
               /\ closures' = cls
               /\ UNCHANGED <<queue, ctrans, c2s, link>>
               /\ AfterHandler(c, cls)
          ELSE
            LET next == Head(queue[c][m.f])
                cls  == [closures EXCEPT ![c][m.f] = next]
            IN
            /\ queue' = [queue EXCEPT ![c][m.f] = Tail(@)]
            /\ closures' = cls
            /\ \E ok \in ClientWriteOk(c) :
                 CASE ok -> /\ c2s' = [c2s EXCEPT ![c] = ToServer(c, CallMsg(m.f, next))]
                            /\ UNCHANGED <<ctrans, link>>
                   \* the write fails and closes the transport ...
                   [] ctrans[c] = "OPEN" -> CloseTransport(c, <<>>)
                   \* ... or, in a completion run after close, returns ENOTCONN
                   [] OTHER -> UNCHANGED <<ctrans, c2s, link>>
            /\ AfterHandler(c, cls)
  /\ UNCHANGED <<calls, acceptor>>

(* dispatch_event: the event goes to the listeners; no call state. *)
ReceiveEvent(c) ==
  /\ Receiving(c)
  /\ Head(s2c[c]).type = "event"
  /\ UNCHANGED <<ctrans, closures, queue, cfault, calls, answers, acceptor, c2s, link>>
  /\ AfterHandler(c, closures)

(* handle_recv with an error (end of stream, reset): on_connection_error *)
(* runs dispatch_connection_error, which loops over myClosures.  A data  *)
(* completion queued before a close ends the same way when it was the    *)
(* header read: the payload read then fails on the closed socket.        *)
ReadError(c) ==
  /\ cphase[c] = "idle"
  /\ ~cfault[c]
  /\ s2c[c] # <<>>
  /\ Head(s2c[c]) = Eof \/ ctrans[c] = "CLOSED"
  /\ s2c' = [s2c EXCEPT ![c] = <<>>]
  /\ cphase' = [cphase EXCEPT ![c] = "fanout"]
  /\ fanout' = [fanout EXCEPT ![c] = Outstanding(c, closures)]
  /\ UNCHANGED <<ctrans, closures, queue, cfault, calls, answers, acceptor, c2s, link>>

(* One iteration of the fan-out loop: the closure gets the error. *)
FanOutClosure(c, f) ==
  /\ cphase[c] # "idle"
  /\ f \in fanout[c]
  /\ answers' = [answers EXCEPT ![c] = Append(@,
                   [id |-> closures[c][f], from |-> 0, res |-> "conn_error"])]
  /\ fanout' = [fanout EXCEPT ![c] = @ \ {f}]
  /\ UNCHANGED <<ctrans, closures, queue, cphase, cfault, calls, acceptor, link, c2s, s2c,
                 openVars>>

(* Mutant: a failed open never calls its continuation. *)
AfterConnectionErrorSilent(c) ==
  IF cphase[c] = "fanout"
  THEN CloseTransport(c, <<>>) /\ UNCHANGED openres
  ELSE UNCHANGED <<openres, ctrans, s2c, c2s, link>>

(* What follows dispatch_connection_error: handle_recv closes the        *)
(* transport (end of stream and reset are not recoverable); after a     *)
(* failed resolve or connect, the open continuation gets the error.     *)
AfterConnectionError(c) ==
  IF cphase[c] = "fanout"
  THEN CloseTransport(c, <<>>) /\ UNCHANGED openres
  ELSE /\ openres' = [openres EXCEPT ![c] = Append(@, "error")]
       /\ UNCHANGED <<ctrans, s2c, c2s, link>>

(* Mutant: the loop may stop before it has visited every closure. *)
FanOutEndEarly(c) ==
  /\ cphase[c] # "idle"
  /\ closures' = [closures EXCEPT ![c] = [g \in Funcs |-> NoClosure]]
  /\ cphase' = [cphase EXCEPT ![c] = "idle"]
  /\ AfterConnectionError(c)
  /\ UNCHANGED <<queue, fanout, cfault, calls, answers, acceptor, chains, opens, cassert>>

(* End of the loop: myClosures.clear().  The call queue is left as it is.*)
FanOutEnd(c) ==
  /\ cphase[c] # "idle"
  /\ fanout[c] = {}
  /\ closures' = [closures EXCEPT ![c] = [g \in Funcs |-> NoClosure]]
  /\ cphase' = [cphase EXCEPT ![c] = "idle"]
  /\ AfterConnectionError(c)
  /\ UNCHANGED <<queue, fanout, cfault, calls, answers, acceptor, chains, opens, cassert>>

(* Client::open(Closure) -> ClientTcpTransport::open(Closure): in state  *)
(* NEW an async_resolve is started; otherwise the continuation is called *)
(* at once with already_connected.                                        *)
OpenAsync(c) ==
  /\ opens[c] < MaxOpens
  /\ cphase[c] = "idle"
  /\ NoOpenUnderWay(c) \/ DoubleOpen
  /\ opens' = [opens EXCEPT ![c] = @ + 1]
  /\ IF ctrans[c] = "NEW"
     THEN /\ chains' = [chains EXCEPT ![c]["resolve"] = @ + 1]
          /\ UNCHANGED openres
     ELSE /\ openres' = [openres EXCEPT ![c] = Append(@, "already_connected")]
          /\ UNCHANGED chains
  /\ UNCHANGED <<ctrans, closures, queue, cphase, fanout, cfault, calls, answers,
                 acceptor, link, c2s, s2c, cassert>>

(* A resolve or connect error: on_connection_error runs                 *)
(* dispatch_connection_error over myClosures, then the continuation.     *)
ConnectionFailed(c) ==
  /\ cphase' = [cphase EXCEPT ![c] = "connfail"]
  /\ fanout' = [fanout EXCEPT ![c] = Outstanding(c, closures)]

(* handle_resolve: on success async_connect is started. *)
HandleResolve(c) ==
  /\ chains[c]["resolve"] > 0
  /\ cphase[c] = "idle"
  /\ \/ /\ chains' = [chains EXCEPT ![c]["resolve"] = @ - 1, ![c]["connect"] = @ + 1]
        /\ UNCHANGED <<cphase, fanout>>
     \/ /\ chains' = [chains EXCEPT ![c]["resolve"] = @ - 1]
        /\ ConnectionFailed(c)
  /\ UNCHANGED <<ctrans, closures, queue, cfault, calls, answers, acceptor, link, c2s, s2c,
                 opens, openres, cassert>>

(* handle_connect: the connection is accepted while the service listens, *)
(* refused otherwise.  On success TcpTransport::open asserts             *)
(* myState == NEW, sets OPEN (on_connected starts the header read) and   *)
(* the continuation gets true.  If another open got there first the      *)
(* assertion fails and the client process is gone: the system resets    *)
(* its connection, which the service reads as an error.                 *)
HandleConnect(c) ==
  /\ chains[c]["connect"] > 0
  /\ cphase[c] = "idle"
  /\ chains' = [chains EXCEPT ![c]["connect"] = @ - 1]
  /\ IF acceptor = "open"
     THEN IF ctrans[c] = "NEW"
          THEN /\ ctrans' = [ctrans EXCEPT ![c] = "OPEN"]
               /\ link' = [link EXCEPT ![c] = "up"]
               /\ openres' = [openres EXCEPT ![c] = Append(@, "ok")]
               /\ UNCHANGED <<cphase, fanout, cassert, c2s, s2c>>
          ELSE /\ cassert' = [cassert EXCEPT ![c] = TRUE]
               /\ c2s' = [c2s EXCEPT ![c] = ToServer(c, Eof)]
               /\ s2c' = [s2c EXCEPT ![c] = <<>>]
               /\ link' = [link EXCEPT ![c] = IF @ = "none" THEN @ ELSE "down"]
               /\ UNCHANGED <<ctrans, openres, cphase, fanout>>
     ELSE /\ ConnectionFailed(c)
          /\ UNCHANGED <<ctrans, link, openres, cassert, c2s, s2c>>
  /\ UNCHANGED <<closures, queue, cfault, calls, answers, acceptor, opens>>

ClientInit ==
  /\ ctrans = [c \in Clients |-> "NEW"]
  /\ closures = [c \in Clients |-> [f \in Funcs |-> NoClosure]]
  /\ queue = [c \in Clients |-> [f \in Funcs |-> <<>>]]
  /\ cphase = [c \in Clients |-> "idle"]
  /\ fanout = [c \in Clients |-> {}]
  /\ cfault = [c \in Clients |-> FALSE]
  /\ calls = [c \in Clients |-> <<>>]
  /\ answers = [c \in Clients |-> <<>>]
  /\ chains = [c \in Clients |-> [k \in {"resolve", "connect"} |-> 0]]
  /\ opens = [c \in Clients |-> 0]
  /\ openres = [c \in Clients |-> <<>>]
  /\ cassert = [c \in Clients |-> FALSE]

(* The client process runs until an assertion fails. *)
Alive(c) == ~cassert[c]

(* Completion handlers the event loop runs. *)
ClientReceive(c) ==
  /\ Alive(c)
  /\ ReceiveResult(c) \/ ReceiveEvent(c) \/ ReadError(c)
  /\ UNCHANGED openVars
ClientFanOut(c) == Alive(c) /\ ((\E f \in Funcs : FanOutClosure(c, f)) \/ FanOutEnd(c))
ClientOpening(c) == Alive(c) /\ (HandleResolve(c) \/ HandleConnect(c))

(* Steps the user program takes (not guaranteed to happen). *)
ClientUser(c) ==
  /\ Alive(c)
  /\ \/ OpenAsync(c)
     \/ /\ \/ Open(c)
           \/ \E f \in Funcs : SendCall(c, f)
           \/ \E f \in OneWayFuncs : SendOneWay(c, f)
           \/ Close(c)
        /\ UNCHANGED openVars

ClientNext(c) == ClientUser(c) \/ ClientReceive(c) \/ ClientFanOut(c) \/ ClientOpening(c)
=============================================================================
