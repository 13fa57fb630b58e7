---------------------------- MODULE CercallSystem ---------------------------
(***************************************************************************)
(* One cercall Service and a set of Clients connected by TCP streams.     *)
(* Composes the Client and Service modules over the shared channels and   *)
(* adds the network: a connection may be reset at any time (peer process  *)
(* killed, cable pulled), which drops the bytes in flight and makes the   *)
(* next read at each open end fail.                                       *)
(***************************************************************************)
EXTENDS Naturals, Sequences, FiniteSets

CONSTANTS
  Clients, Funcs, OneWayFuncs,
  MaxCallsInProgress, MaxCalls, MaxEvents, MaxStarts, HandlersMayThrow,
  ClientMayClose, CallsFromErrorContinuation, MaxOpens, DoubleOpen,
  LinkMayFail,     \* connections may be reset by the network / a crash
  AcceptMayFail,   \* the acceptor's open, bind, listen or accept may fail
  Addrs,           \* heap addresses of server transport objects
  Unregistered     \* operations a client calls that the service lacks

VARIABLES
  ctrans, closures, queue, cphase, fanout, cfault, calls, answers,
  chains, opens, openres, cassert,
  acceptor, armed, stale, raised, starts, strans, pending, bcasts, sassert, stalled, saddr,
  link, c2s, s2c

clientVars  == <<ctrans, closures, queue, cphase, fanout, cfault, calls, answers,
                 chains, opens, openres, cassert>>
serviceVars == <<armed, stale, raised, starts, strans, pending, bcasts, sassert, stalled, saddr>>
netVars     == <<acceptor, link, c2s, s2c>>
vars == <<clientVars, serviceVars, netVars>>

Cl == INSTANCE Client
Sv == INSTANCE Service

Eof == [type |-> "eof"]

(* The abstract specification, under the refinement mapping: the call   *)
(* history is issued, the continuation invocations are replies.         *)
Rpc == INSTANCE RpcSpec WITH issued <- calls, replies <- answers

(* A step of a Client object, or of the Service, alone. *)
OnClient(A)  == A /\ UNCHANGED serviceVars
OnService(A) == A /\ UNCHANGED clientVars

(* The connection of client c is reset: in-flight bytes are lost and    *)
(* each end that still reads gets an error on its next read.  A read     *)
(* completion already queued at a closed end is not affected.           *)
LinkFail(c) ==
  /\ LinkMayFail
  /\ link[c] \in {"up", "half"}
  /\ link' = [link EXCEPT ![c] = "down"]
  /\ c2s' = [c2s EXCEPT ![c] = IF strans[c] = "CLOSED" THEN @ ELSE <<Eof>>]
  /\ s2c' = [s2c EXCEPT ![c] = IF ctrans[c] = "OPEN" THEN <<Eof>> ELSE @]
  /\ UNCHANGED <<clientVars, serviceVars, acceptor>>

(* The service process ends: the system resets every connection it     *)
(* holds, each open client end reads the error, and the completions      *)
(* queued in the process are gone.                                       *)
ProcessGone ==
  LET gone == {d \in Clients : link[d] \in {"up", "half"}} IN
  /\ link' = [d \in Clients |-> IF d \in gone THEN "down" ELSE link[d]]
  /\ c2s' = [d \in Clients |-> <<>>]
  /\ s2c' = [d \in Clients |-> IF d \in gone /\ ctrans[d] = "OPEN" THEN <<Eof>> ELSE s2c[d]]
  /\ UNCHANGED clientVars

(* It aborts on the failed assertion of a late read completion, or on   *)
(* the freed Messenger after a failed OperationInProgress reply ...       *)
ServiceCrash(c) == (Sv!LateData(c) \/ Sv!InProgressWriteCrash(c)) /\ ProcessGone

(* ... or crashes in broadcast, past the session a failed write erased, *)
BroadcastAborts == Sv!BroadcastCrash /\ ProcessGone

(* ... or main returns after an exception left io_service::run.          *)
ServiceExit == Sv!Exit /\ ProcessGone

Init == Cl!ClientInit /\ Sv!ServiceInit /\ link = [c \in Clients |-> "none"]
        /\ c2s = [c \in Clients |-> <<>>] /\ s2c = [c \in Clients |-> <<>>]

Next ==
  \/ \E c \in Clients : OnClient(Cl!ClientNext(c))
  \/ OnService(Sv!ServiceNext)
  \/ ServiceExit
  \/ BroadcastAborts
  \/ \E c \in Clients : LinkFail(c) \/ ServiceCrash(c)

(* The event loop of each process runs every completion handler that is *)
(* ready; handlers of the service eventually fire their result sinks.   *)
(* User steps (open, calls, close, start, stop, broadcast) and network  *)
(* failures are not required to happen.                                 *)
Fairness ==
  /\ \A c \in Clients :
       /\ WF_vars(OnClient(Cl!ClientReceive(c)))
       /\ WF_vars(OnClient(Cl!ClientFanOut(c)))
       /\ WF_vars(OnClient(Cl!ClientOpening(c)))
       /\ WF_vars(OnService(Sv!ServiceReceive(c)))
       /\ WF_vars(OnService(Sv!Accept(c)))
       /\ WF_vars(ServiceCrash(c))
  /\ WF_vars(OnService(\E p \in pending : Sv!Complete(p)))
  /\ \A x \in {"aborted"} \cup Clients : WF_vars(OnService(Sv!StaleAccept(x)))
  /\ WF_vars(OnService(Sv!Rerun) \/ ServiceExit)

Spec == Init /\ [][Next]_vars
FairSpec == Spec /\ Fairness

-----------------------------------------------------------------------------
CallIds(c) == {i \in 1..Len(calls[c]) : calls[c][i] \in Funcs}
AnswerIdx(c, i) == {k \in DOMAIN answers[c] : answers[c][k].id = i}
Answered(c, i) == AnswerIdx(c, i) # {}
Held(c, i) == \E f \in Funcs : closures[c][f] = i \/ \E k \in DOMAIN queue[c][f] : queue[c][f][k] = i

Msgs == [type : {"call"}, f : Funcs \cup OneWayFuncs, id : 1..MaxCalls]
        \cup [type : {"result"}, f : Funcs, id : 1..MaxCalls, res : {"result", "inprogress"}]
        \cup {[type |-> "event"], Eof}

TypeOK ==
  /\ ctrans \in [Clients -> {"NEW", "OPEN", "CLOSED"}]
  /\ closures \in [Clients -> [Funcs -> 0..MaxCalls]]
  /\ queue \in [Clients -> [Funcs -> Seq(1..MaxCalls)]]
  /\ \A c \in Clients, f \in Funcs : Len(queue[c][f]) <= MaxCallsInProgress - 1
  /\ cphase \in [Clients -> {"idle", "fanout", "connfail"}]
  /\ chains \in [Clients -> [{"resolve", "connect"} -> 0..MaxOpens]]
  /\ opens \in [Clients -> 0..MaxOpens]
  /\ openres \in [Clients -> Seq({"ok", "error", "already_connected"})]
  /\ cassert \in [Clients -> BOOLEAN]
  /\ fanout \in [Clients -> SUBSET Funcs]
  /\ cfault \in [Clients -> BOOLEAN]
  /\ calls \in [Clients -> Seq(Funcs \cup OneWayFuncs)]
  /\ \A c \in Clients : \A k \in DOMAIN answers[c] :
       answers[c][k] \in [id : 1..MaxCalls, from : 0..MaxCalls,
                          res : {"result", "inprogress", "conn_error", "write_error"}]
  /\ acceptor \in {"closed", "open", "unbound"}
  /\ armed \in BOOLEAN
  /\ stale \subseteq {"aborted"} \cup Clients
  /\ raised \in BOOLEAN
  /\ starts \in 0..MaxStarts
  /\ strans \in [Clients -> {"NONE", "OPEN", "CLOSED"}]
  /\ pending \subseteq [f : Funcs, s : Clients, id : 0..MaxCalls]
  /\ stalled \subseteq Clients
  /\ saddr \in [Clients -> Addrs \cup {"none"}]
  /\ bcasts \in 0..MaxEvents
  /\ sassert \in BOOLEAN
  /\ link \in [Clients -> {"none", "up", "half", "down"}]
  /\ \A c \in Clients : \A k \in DOMAIN c2s[c] \cup DOMAIN s2c[c] :
       (k \in DOMAIN c2s[c] => c2s[c][k] \in Msgs) /\ (k \in DOMAIN s2c[c] => s2c[c][k] \in Msgs)

(* Every result the client reads from the wire finds a closure           *)
(* (dispatch_result never throws "closure not found"), and it is the     *)
(* closure of the very call the service answered: the per-name closure   *)
(* map, the call queue and the service's pending-call check together     *)
(* never let one call's result reach another call's continuation.        *)
ResultsMatchCalls ==
  \A c \in Clients :
    /\ ~cfault[c]
    /\ \A k \in DOMAIN answers[c] :
         answers[c][k].res \in {"result", "inprogress"} => answers[c][k].from = answers[c][k].id

(* Continuations of calls to the same operation run in the order the     *)
(* calls were issued (the queue is flushed head first, after the         *)
(* previous result).                                                     *)
PerFunctionFifo ==
  \A c \in Clients : \A k1, k2 \in DOMAIN answers[c] :
    LET i1 == answers[c][k1].id
        i2 == answers[c][k2].id
    IN (k1 < k2 /\ calls[c][i1] = calls[c][i2]) => i1 < i2

(* No silent drops, no double invocation: every two-way call issued is   *)
(* answered exactly once, or its continuation is still held in           *)
(* myClosures or in the call queue.                                      *)
EveryCallAccounted ==
  \A c \in Clients : \A i \in CallIds(c) :
    /\ Cardinality(AnswerIdx(c, i)) <= 1
    /\ Answered(c, i) \/ Held(c, i)

(* At most one call per (client, operation) is anywhere between the two  *)
(* cores: as a call message on the wire, as a live pending call of the   *)
(* service, or as a result on the wire.  This is why the service's       *)
(* OperationInProgress rejection is never sent to a Client object.       *)
InFlight(c, f) ==
  Cardinality({k \in DOMAIN c2s[c] : c2s[c][k].type = "call" /\ c2s[c][k].f = f})
  + Cardinality({p \in pending : p.f = f /\ p.s = c /\ strans[c] = "OPEN"})
  + Cardinality({k \in DOMAIN s2c[c] : s2c[c][k].type = "result" /\ s2c[c][k].f = f})

SingleCallInFlight == \A c \in Clients, f \in Funcs : InFlight(c, f) <= 1

(* The service rejects a call with OperationInProgress only when the     *)
(* same session already has that operation pending; since a Client       *)
(* object never sends a second call to an operation before its result    *)
(* (send_call queues it), no continuation of any client ever receives    *)
(* OperationInProgress, however the sessions of several clients calling  *)
(* the same operation interleave, and although myPendingCalls identifies *)
(* a session by its transport's address, which the heap reuses once the *)
(* transport object is freed.                                            *)
NoSpuriousInProgress ==
  \A c \in Clients : \A k \in DOMAIN answers[c] : answers[c][k].res # "inprogress"

(* The assertion o_assert(myListener != nullptr) of handle_recv holds:   *)
(* no read completion carrying data reaches a service session after      *)
(* Service::stop, a failed broadcast or a failed result write closed it *)
(* (on_disconnected cleared its listener).                               *)
NoDataAfterDisconnect == ~sassert

(* spec.md 4.5, stop(): closes the acceptor and all sessions.  A        *)
(* stopped service serves no session: stop() closes every session of     *)
(* myClients, and the completion of an accept that had taken a          *)
(* connection before the close, run afterwards, tests is_open() before  *)
(* on_client_accepted.                                                   *)
StoppedServesNone == acceptor = "closed" => \A c \in Clients : strans[c] # "OPEN"

(* Refinement: every step of Client and Service together is a step of   *)
(* RpcSpec.  A continuation runs at most once, only for a two-way call   *)
(* already issued, after every earlier call of the same operation; a     *)
(* service answer carries the number of the call it answers; a write     *)
(* error in send_call answers only the call being sent.                  *)
ImplementsRpc == Rpc!Spec

(* Every open(Closure) continuation runs exactly once: with true after   *)
(* the connect, with the error of a failed resolve or connect, or at      *)
(* once with already_connected.  The continuation is called only at the   *)
(* end of the chain of asynchronous handlers, after the connection-error *)
(* fan-out of the failure path.                                          *)
EveryOpenAnswered ==
  \A c \in Clients : \A k \in 1..MaxOpens :
    [](opens[c] >= k => <>(Len(openres[c]) >= k))

(* spec.md, AlreadyConnected: an open of a client that is not NEW is     *)
(* answered with an error.  A second open(Closure) issued while the      *)
(* first is still resolving or connecting sees state NEW and starts its *)
(* own connect; the later handle_connect then reaches                   *)
(* o_assert(myState == NEW) in BasicStreamTransport::open.              *)
NoOpenAssert == \A c \in Clients : ~cassert[c]

(* Liveness: every two-way call issued is eventually answered: its       *)
(* continuation runs with the service's result or with the error of the  *)
(* connection.                                                           *)
EveryCallAnswered ==
  \A c \in Clients : \A i \in 1..MaxCalls :
    [](i \in CallIds(c) => <>Answered(c, i))
=============================================================================
