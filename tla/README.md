# TLA+ models of the cercall RPC runtime

These modules model the call protocol of cercall:
- the `Client` and `Service` objects in `src/include/cercall`;
- the stream transport, TCP client transport and acceptor they use;
- the `Messenger` that frames their messages.

TLC checks them. `PROJECT.json` lists every run, the property mutants, the map from each definition to the source lines it models, the findings and the hazards.

## The system

| Part | Source | State | Operations |
|---|---|---|---|
| Client core | `client.h` | `myClosures` (one continuation per function name), `myCallQueue`, transport | `open`, `open(Closure)`, `close`, `send_call` (two-way and one-way), `dispatch_result`, `dispatch_event`, `on_connection_error` → `dispatch_connection_error` |
| CallQueue | `details/callqueue.h` | per-name list of deferred writes, limit `MaxCallsInProgress-1` | `can_enqueue`, `enqueue_call`, `dequeue_call` |
| Service core | `service.h` | `myClients` (open sessions), `myPendingCalls` (function, session) | `start`, `stop`, `on_client_accepted`, `dispatch_func`, `send_result`, `on_disconnected`, `broadcast` |
| FunctionDict | `details/functiondict.h` | registered functions, one-way flag | `is_one_way`, `call_function` |
| Messenger | `details/messenger.h` | HEADER/MESSAGE state, incoming length | `read`, `write_message_with_header` |
| Stream transport | `asio/basicstreamtransport.h` | NEW / OPEN / CLOSED | `open` (asserts NEW), `read`, `write` (a failure closes), `close` (only from OPEN, calls `on_disconnected`), `handle_recv` |
| Client TCP transport | `asio/clienttcptransport.h` | as above | synchronous `open`; `open(Closure)` → `handle_resolve` → `handle_connect` |
| Acceptor | `asio/basicstreamacceptor.h` | closed / open / unbound (socket open, bind or listen failed), accept armed | `open`, `close`, `is_open`, `start_accept` and its handler |
| Serialization | `boost/`, `cereal/` | none | encode and decode payloads |
| Clock example service | `examples/cerclock/clockservice.cpp` | `myTickInterval`, `myTickTimer`, `myAlarms` (each with a timer), `nextAlarmId` | `set_tick_interval`, `tickTimer`, `set_alarm` and its timer handler, `cancel_alarm`, `close_service`, `signal_handler` |

How the parts interact:

- A client call is written as one framed message.
- The service's `dispatch_func` rejects a second call of the same function from the same session with OperationInProgress. Otherwise it records a pending call and hands the user handler a result sink. A handler exception is rethrown.
- When the sink fires, `send_result` writes the result, but only if the session is still in `myClients`.
- On the client, `dispatch_result` does four things in this order:
  1. it removes the closure;
  2. it writes the next queued call of that function;
  3. it installs that call's closure;
  4. it runs the old closure.
- A read error on the client runs every closure in `myClosures` with the error, then clears the map and closes the transport.
- A failed resolve or connect of `open(Closure)` runs the same loop, then calls the open continuation with the error.
- Each process runs single-threaded, driven by an asio event loop. Concurrency comes from:
  - several processes;
  - completion handlers that asio has already queued when the program closes a socket;
  - callbacks that run inside loops.

## Modules

- **`Client.tla`**: every Client object, with its side of the transport.
  - `closures[c][f]` is `myClosures`. It holds the number of the call whose continuation is stored, or 0 when there is none.
  - `queue[c][f]` is `myCallQueue`.
  - `ctrans` is the transport state.
  - `cphase` and `fanout` model the loop of `dispatch_connection_error` step by step. Because of this, a continuation that runs inside the loop can interleave with it.
    - `"fanout"` means the loop was called from `handle_recv`, and the transport closes after it.
    - `"connfail"` means it was called from a failed open, and the open continuation runs after it.
  - `cfault` records the "closure not found" exception.
  - `chains`, `opens` and `openres` model the `open(Closure)` chains under way and their continuations.
  - `cassert` records an `o_assert` failure, after which the process is gone.
  - The histories `calls` and `answers` record every call issued and every continuation invocation.
  - Actions, one per handler:
    - `Open` is `ClientTcpTransport::open`.
    - `OpenAsync`, `HandleResolve` and `HandleConnect` are the asynchronous open chain.
    - `SendCall` and `SendOneWay` are the two `send_call` overloads.
    - `Close` is `Client::close`.
    - `ReceiveResult` is `dispatch_result`, including the dequeue write.
    - `ReceiveEvent` is `dispatch_event`.
    - `ReadError` is `handle_recv` with an error.
    - `FanOutClosure` and `FanOutEnd` are the loop of `dispatch_connection_error`, followed by `close` or the open continuation.
  - A read completion that asio has already performed is still delivered after `close()`. A completion not yet performed is aborted. The Messenger's next read on the closed socket then fails, and that failure starts the fan-out (`AfterHandler`).
- **`Service.tla`**: the service, its sessions and the acceptor.
  - `strans[c]` is the server transport of client c's session. A session is in `myClients` exactly when this is OPEN.
  - `pending` is `myPendingCalls`. Each entry holds the number of the call whose sink is outstanding, or `NoSink` when the handler threw.
  - `stalled` holds the sessions whose Messenger was left in MESSAGE by a handler exception. Such a session requests no more reads.
  - `sassert` records the failed `o_assert(myListener != nullptr)`.
  - `saddr[c]` is the address (`Transport*`) of client c's server transport, drawn from `Addrs`. `myClients` and `myPendingCalls` are keyed by it, so `FindPending` compares addresses, not sessions. An address stays in use while the transport is `Referenced`: open, holding undelivered bytes, or captured by a live sink (`shared_ptr` in the sink lambda). An entry left with `NoSink` does not pin it.
  - `acceptor` is closed, open, or unbound (the socket is open but bind or listen failed). `armed` says an `async_accept` is outstanding, `stale` holds accept completions that `close()` turned into `operation_aborted` or that completed just before, and still run later.
  - `raised` says an exception has left `ioService.run()` (from `on_accept_error` or a throwing handler). The event loop then runs no handlers. `starts` bounds the calls to `start`.
  - Actions:
    - `Start` is `start` → `BasicStreamAcceptor::open`: success arms an accept; an open, bind or listen error calls `on_accept_error`, which throws.
    - `Stop` closes the acceptor and every session; an armed accept either completes as aborted or has already taken a connection (then a new session would be created after the stop).
    - `Accept` is the accept handler with no error → `on_client_accepted`; `AcceptError` is an accept error; `StaleAccept` is a completion run after `close`, in one of its four outcomes;
    - `Exit` is the example server's `catch` around `ioService.run()`: the process returns and every connection it holds is reset. `Rerun` is a program that calls `run()` again after the exception (asio allows it; the repository's servers do not). `ProcessDies` is the common reset of the service state;
    - `Dispatch` is `dispatch_func`, with five branches: a name the service never registered, one-way, already pending, new, and a handler that throws. For the unregistered name, `FunctionDict::find` (`Found`) throws inside `is_one_way`, before the `try`; the exception leaves the event loop with nothing pending and the session left in MESSAGE (`stalled`). The dictionary itself is `FunctionDict`, filled by `Service::add_functions` (`ServiceFunctions`); the constant `Unregistered` names the operations a client may call that the service lacks (an older service build);
    - `Complete` is the sink firing into `send_result`;
    - `ServerReadError`;
    - `Broadcast` writes the event to each session in `myClients`. A failed write closes its session, and `on_disconnected` erases the map element that the range-for stands on. The loop's `++` then reads a freed node, which is undefined behaviour. The model takes the outcomes a build can produce: the loop goes on; the loop ends early, so the sessions it has not reached get no event (map order is by address, which the model leaves open); or the process crashes (`BroadcastCrash`, composed with `ProcessGone` as `BroadcastAborts` in `CercallSystem.tla`);
    - `LateEof` and `LateData` are completions queued before the session was closed. `LateData` hits the assertion.
  - A session closed from outside its read handler keeps a read completion that is already queued (`SessionsClosedOutsideRead`).
- **`CercallSystem.tla`**: composes the two modules over shared channels.
  - `c2s` and `s2c` are per-connection FIFO sequences of whole messages, because TCP is ordered.
  - `link` is none, up, half (one end has closed) or down (reset).
  - `LinkFail` is a network reset.
  - `ServiceCrash` is the service process dying on the assertion or on the freed Messenger after a failed OperationInProgress reply (`InProgressWriteCrash`: the failed write closes the session inside `Messenger::read`, `on_disconnected` frees its `ClientState`, and `read` then stores `myReceiveState` into it, which is undefined behaviour; the surviving outcome is `Dispatch`'s clean close). `BroadcastAborts` dying in `broadcast`, and `ServiceExit` the process returning after an exception left the event loop. All three reset every connection the service holds (`ProcessGone`).
  - This module also holds the system properties and the refinement.
- **`RpcSpec.tla`**: the abstract specification of what a client's continuations see. It has only `issued` and `replies`.
  - A two-way call is answered at most once.
  - It is answered only after every earlier call of the same operation.
  - A service answer carries the number of its own call.
  - A write error answers only the call being issued, in the same step.
- **`Messenger.tla`**: the framer over one direction of a byte stream.
  - The writer is `Write`: the length check, the two conversions of the length to `MessageSizeType`, and the little-endian header.
  - The reader is `ReadHeader` and `ReadMessage`. Each completes once exactly the requested number of bytes is in, because `async_read` is called with that length.
  - `ForeignWrite` is a peer that writes a zero length prefix.
  - `Frames` is a RECURSIVE reference definition of the wire format.
- **`ClockService.tla`**: the clock example service's timers on its event loop.
  - A timer is its pending waits (`tickWaits`, and `await[k]` for alarm k) plus the completions queued for its handler (`tickQueued`). Expiry completes every pending wait with success; `cancel()` and setting a new expiry time complete them with `operation_aborted`; a completed wait is not affected by `cancel()`.
  - `alarms` is the `std::list` `myAlarms` of alarm nodes; `Id(k)` is the id `nextAlarmId++` gave node k, scaled to `IdBits` with its wrap; `FindAlarm` is `find_alarm` (the first match).
  - Actions: `SetTickInterval`, `TickExpires`, `TickTimer(ec)`, `SetAlarm`, `AlarmExpires(k)`, `CancelAlarm(id)`, `AlarmHandler(k)` (the lambda: broadcast unless aborted, then purge, asserting the alarm is found), `CloseService` and `SignalHandler` (both stop the loop: queued handlers never run).
  - The broadcasts themselves go through `Service::broadcast`, which `Service.tla` models; here they change no state.
- **`MCCercallSystem.tla`**, **`MCMessenger.tla`** and **`MCClockService.tla`**: the TLC wrappers.
  - `MCCercallSystem` adds symmetry over clients and functions.
  - `MCMessenger` adds the payload set.

Abstractions:

- Payloads and serialization are dropped in Client and Service. A message keeps its type, function name and call number.
- In `Messenger` the widths are scaled down. A byte has 4 values and `MessageSizeType` has 4 bits (2 header bytes), in place of 8 bits and 32 bits (4 bytes). The check `len > max - HEADER_SIZE` and the modulo arithmetic are kept as written.
- A user handler either eventually fires its sink or throws. Firing synchronously, inside `dispatch_func`, is one of the modelled interleavings.
- A user continuation is an entry in `answers`. Continuations do not throw and do not call `close`.
- A second `async_connect` on the same socket also closes the first connection inside asio. This is not modelled: the client stops at the assertion either way.

## Properties and runs

| Run | cfg | Expect | Checks |
|---|---|---|---|
| safety_one | MCSafety.cfg | pass | `TypeOK`, `ResultsMatchCalls`, `PerFunctionFifo`, `EveryCallAccounted`, `SingleCallInFlight`, `StoppedServesNone`, `ImplementsRpc` |
| safety_two | MCSafety2.cfg | pass | `NoSpuriousInProgress` |
| liveness | MCLiveness.cfg | pass | `EveryCallAnswered`, `EveryOpenAnswered` under `FairSpec` |
| messenger_framing | MCMessengerFraming.cfg | pass | `FramesRoundTrip`, `ReaderFollowsFrames`, `EveryFrameDelivered` |
| clock_timers | MCClockService.cfg | pass | `TypeOK`, `AlarmAlwaysFound`, `TickerFollowsInterval`, `AlarmsPurged`, `TicksContinue` |
| write_error_drops_calls | MCWriteErrorDropsCalls.cfg | violation | `EveryCallAnswered` |
| reset_drops_queued | MCResetDropsQueued.cfg | violation | `EveryCallAnswered` |
| call_from_error_continuation | MCCallFromErrorContinuation.cfg | violation | `EveryCallAccounted` |
| late_completion | MCLateCompletion.cfg | violation | `NoDataAfterDisconnect` |
| stale_pending_reuse | MCStalePendingReuse.cfg | violation | `NoSpuriousInProgress` |
| double_open | MCDoubleOpen.cfg | violation | `NoOpenAssert` |
| zero_length | MCZeroLength.cfg | violation | `ZeroLengthClosesSession` |

What each property says:

- **`ResultsMatchCalls`**: no result arrives without a closure, and every result or in-progress answer reaches the continuation of the call it answers.
- **`PerFunctionFifo`**: continuations of one function run in the order the calls were issued.
- **`EveryCallAccounted`**: every two-way call is answered at most once. Until it is answered, its continuation is still held in `myClosures` or in the queue.
- **`SingleCallInFlight`**: for each client and function, at most one call is between the two cores. It can be a call message, a live pending entry or a result message.
- **`NoSpuriousInProgress`**: no continuation ever receives OperationInProgress unless its own session still has a call of that function pending, even when several clients call the same function and transport addresses are reused.
- **`StoppedServesNone`**: once the acceptor is closed by `stop`, no session is open; in particular an accept that completes after `stop` creates none.
- **`ImplementsRpc`**: every step of the composed system is a step of `RpcSpec`, under the mapping `issued <- calls`, `replies <- answers`. It is checked in the safety_one setting: queues, throwing handlers, close, resets, crashes, stop and a late accept. The liveness setting adds asynchronous opens, which change neither history, so the refinement is not checked there again.
- **`AlarmAlwaysFound`**: the purge in the alarm handler always finds its alarm, whatever the order of `set_alarm`, `cancel_alarm`, the expiries and the handlers.
- **`TickerFollowsInterval`**: `myTickTimer` has at most one pending wait (ticks never double), none when the interval is zero, and a wait or a queued tick when it is nonzero, however `set_tick_interval` races a tick that has expired but not run.
- **`AlarmsPurged`** (liveness): every alarm, fired or cancelled, eventually leaves `myAlarms` while the service runs.
- **`TicksContinue`** (liveness): once the interval stays nonzero and the service keeps running, ticks are handled forever.
- **`EveryCallAnswered`** (liveness): every call is eventually answered.
- **`EveryOpenAnswered`** (liveness): every `open(Closure)` continuation eventually runs.
- **`FramesRoundTrip`**: the frames the writer produced split, by the reference `Frames`, into exactly the payloads written.
- **`ReaderFollowsFrames`**: the payloads `Messenger::read` hands to the handler are a prefix of the reference frames of the byte stream.
- **`EveryFrameDelivered`** (liveness): every frame written is delivered, unless the reader stopped on a zero prefix.
- **`NoDataAfterDisconnect`**, **`NoOpenAssert`** and **`ZeroLengthClosesSession`**: what the code's assertions and the spec require; see the findings.

Each property of a passing run has a mutant in `PROJECT.json`: a plausible bug in the mapped code that makes TLC report the property violated under that run's configuration.

Bounds:

- safety_one: about 410 thousand states, under a minute.
  - 1 client, two two-way functions, a registered one-way function `w` and a one-way function `u` that the service never registered; one address;
  - `MaxCallsInProgress = 3`, so a queue holds up to 2 calls;
  - 3 calls, so a queue can fill (three calls of one function), or a function can be called while another is outstanding;
  - 1 broadcast, which may fail and crash;
  - user close, resets, throwing handlers, and two `start`s with `stop`s between them, so an accept completion after a stop happens and a restarted acceptor serves a new session.
  - The unregistered name is a one-way one because `Funcs` is a symmetry set. It reaches the same escape from `is_one_way` as a two-way name would, since the lookup comes before `dispatch_func` tells the two apart.
- safety_two: about 250 thousand states.
  - 2 clients, one function and two addresses, so a closed session's address can be reused by the other client;
  - queue limit 1 and 2 calls; one `start`, which may fail (`AcceptMayFail`);
  - one broadcast over both sessions, so the loop can end early after one session's write failed;
  - no user close (safety_one has it). Resets still free transports, so addresses are still reused.
  - This is the smallest setting in which two sessions have the same function pending.
- liveness: about 40 thousand states.
  - 1 client, 1 function, queue limit 0, 3 calls, 2 asynchronous opens, no user close;
  - resets, resolve and connect errors, and two starts (a restart after a stop); no accept error.
  - This is the setting in which the code does answer every call; see the findings.
- clock_timers: about 7 thousand states. Three alarms and four requests: enough for a cancel to race an expiry, for `set_tick_interval` to race an expired tick (in both directions, zero and nonzero), and for shutdown to cut queued handlers. Alarm ids are 2 bits wide, so the three ids are distinct (see the hazard on the wrap).
- messenger_framing: about 2.4 thousand states, with 4 writes drawn from five payloads:
  - short payloads;
  - the longest payload accepted (11 bytes, frame 13 = 2^4 - 1 - 2);
  - the shortest payload refused (12). spec.md allows payloads up to 2^SizeBits - 1 - HEADER_SIZE (13 here, 2^32 - 5 at full width). The code's check counts the header in the message length, so it refuses 12 and 13. This is recorded on the length hazard, not as a run;
  - a payload (16) whose length prefix would wrap to 0 if the length check were missing;
  - a foreign writer of zero prefixes.

The system runs say `CHECK_DEADLOCK FALSE`: `starts` bounds the calls to `start`, so a behaviour may end in a stopped, idle system with nothing to do; this is the program's idle state, not a deadlock of the protocol. The clock run says it too: after `close_service` or a signal the loop has stopped and the process returns, and with zero interval and every alarm purged the service waits for requests. The Messenger runs say `CHECK_DEADLOCK FALSE`, because the writer is bounded and the reader then waits for data, which is the program's idle state.

Fairness (liveness runs only):

- Each event loop eventually runs any completion handler that is ready. This gives weak fairness on:
  - the client's receive, fan-out and open-chain steps;
  - the service's receive and accept steps, per client;
  - each accept completion left by `close()`, separately (`StaleAccept(x)` for each x), because asio runs every queued completion however often the program stops and restarts;
  - the process's reaction to an exception that left the event loop (`Rerun` or `ServiceExit`): the program either runs the loop again or returns;
  - the service's crash on a queued late completion (the crash in `broadcast` belongs to a user call and is not forced);
  - the Messenger's two read steps;
  - the clock service's timer handlers and the expiry of a pending timer (a timer's duration is finite).
- Every handler that has not thrown eventually fires its sink. This gives weak fairness on `Complete`. Without it, a call could wait forever by design of the user code.
- User steps, network failures and foreign peers get no fairness.

## Findings

1. **write_error_drops_calls** (a divergence from the spec).
   - A failed write in `send_call` closes the transport.
   - The pending read is then aborted with `operation_aborted` in state CLOSED, so `on_connection_error` is not called.
   - `Client::on_disconnected` does nothing, so every other outstanding continuation is dropped.
   - spec.md says a transport-error close invokes every outstanding closure.
   - An explicit `Client::close` takes the same path and drops them too. spec.md (line 186) says closing the session triggers the error fan-out for all outstanding closures, so this is the same divergence.
2. **reset_drops_queued** (a bug). `dispatch_connection_error` answers only `myClosures`. Calls waiting in `myCallQueue` are never answered.
3. **call_from_error_continuation** (a bug). A continuation run by the fan-out that issues a call inserts into `myClosures` during the range-for. This is undefined behaviour. The new closure is then erased by `clear()` without being invoked.
4. **late_completion** (a bug). The service closes a session whose read of a call has already completed inside asio. This happens on `stop`, on a failed broadcast or on a failed result write. `on_disconnected` has cleared the listener, so the queued `handle_recv` reaches `o_assert(myListener != nullptr)`. That aborts the service process; in a release build it is a null dereference.
5. **stale_pending_reuse** (a divergence from the spec).
   - A handler exception leaves its `myPendingCalls` entry with no sink; `on_disconnected` only logs pending entries, where the spec (4.5) drops them.
   - The entry is keyed by the `Transport*`. Once that session is closed and the transport freed, a new session may get the same address.
   - That session's first call of the function is rejected with OperationInProgress although nothing of it is pending.
   - It shows in a program that runs the event loop again after the exception; the repository's example servers return instead.
6. **double_open** (a bug).
   - Two `open(Closure)` calls made before the first connect completes both pass the NEW check.
   - The second successful `handle_connect` then aborts the client on `o_assert(myState == NEW)`.
   - The spec promises AlreadyConnected.
7. **zero_length** (a divergence from the spec). A zero length prefix makes `Messenger::read` throw out of the event loop and stop reading. The spec says the session is closed with ProtocolError.

The same divergence has a second entry point. A call naming an operation the service never registered makes `is_one_way` throw `logic_error` out of `dispatch_func` (service.h:341) and the event loop. spec.md 4.3 fails only that session. safety_one drives this path with the unregistered one-way `u`. It checks that the call properties and the refinement still hold when the program then exits or runs the loop again. This is listed as a hazard, not as another violation run, because the mechanism is the zero_length finding's: an exception out of the read completion handler.

## Simplifications inside the modules

- `ReceiveResult`: a result completion that runs after `close()` with a call of that operation queued writes the dequeued call, gets ENOTCONN (`close()` is not reached again), installs its closure, answers the old one, and then fans out on the failed next read.
- `Referenced` frees a closed transport's address as soon as no bytes or live sink hold it. The aborted read completion that still holds `sharedThis` until it runs is left out, so addresses are reused earlier than in the code. This is the permissive direction for `NoSpuriousInProgress`.
- `armed` is a boolean: after stop, start and a stale successful accept (which re-arms), the code has two accepts outstanding; the model keeps one.
- Result sinks fire as their own step (`Complete`). A sink that a handler calls synchronously inside `dispatch_func` is the interleaving in which `Complete` follows `Dispatch` directly. A failed write in that sink is modelled as a close outside the read, not as the use after free of `InProgressWriteCrash`.
- `NoOpenUnderWay` is not code. It is the discipline of a user program that waits for `open` to finish, and `DoubleOpen` lifts it.
- `LinkFail` replaces an open end's channel with the error. A read asio had already performed before the reset is lost, so the "handled, then error" orders are not explored.
- `HandleConnect` omits that asio's `async_connect` closes the socket first. With two chains, that close aborts the other chain's connect (or closes an OPEN transport). The `double_open` state is reached either way.

## Not modelled, and why

- **User continuations that throw or call `close`**, and **event listener registration**: these have no protocol state of the library.
- **A deaf acceptor.** After an accept error that a program survives (`Rerun`), the acceptor is open but no accept is armed, so no client is ever accepted again. The liveness run assumes no accept fails; this is recorded as a hazard.
- **`Rerun`** is not code of the repository: it stands for a program that calls `ioService.run()` again, which asio supports. It is unmapped.
- **The clock service's alarm id wrap.** The model keeps it, but it reads an alarm's id as if the node were alive. When an id is reused while the older alarm is outstanding, the older handler reads its node after the newer handler has freed it. This is a use after free, so the run stays below the wrap.
- **`cancel_alarm` after the alarm's expiry** still delivers the alarm. The interface promises nothing here, so this is a hazard, not a property.
- **The clock client** (`clockclient.cpp`) is a short script of calls whose protocol is the Client's.
- **Buffer allocation** for an announced length (up to 4 GiB): memory is not modelled.
- **Serialization, logging, examples and unit-test programs**: pure data conversion and I/O. These files make up most of the repository's lines, which is why the map covers a small share of them:
  - the boost and cereal back-ends turn values into archives;
  - `process.cpp` and `program.cpp` are command-line and process helpers for the tests;
  - the unit tests (`calltest.cpp`, `errorstest.cpp`, `eventstest.cpp` and their servers) are scripts of calls against the Client and Service that the modules already model, plus test-only services. One of these, `CalculatorService`, shares one timer among all `add_and_delay_result` calls; its answers are any-time sink completions, which `Complete` already covers.
- **`FunctionDict::call_function` and `find_function_name`**: the first is type-erased argument decoding (serialization); the second, with the `myFunctionMap` it reads, is not used by the runtime.
