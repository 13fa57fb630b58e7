---------------------------- MODULE ClockService ----------------------------
(***************************************************************************)
(* The clock example service (src/examples/cerclock/clockservice.cpp): a  *)
(* cercall Service whose handlers arm asio steady_timers on the service's *)
(* event loop.  set_tick_interval (re)arms myTickTimer, whose handler      *)
(* tickTimer broadcasts a tick and re-arms it; set_alarm appends an Alarm *)
(* with its own timer to the std::list myAlarms, and the timer's handler  *)
(* broadcasts the alarm (unless aborted) and purges it; cancel_alarm      *)
(* cancels the timer of the first alarm with the given id.                *)
(*                                                                         *)
(* A timer is modelled by what asio does with its waits: a pending wait   *)
(* completes with success when the timer expires, and with                *)
(* operation_aborted when cancel() or a new expiry time is set; either    *)
(* completion is then queued and its handler runs later on the loop.  A  *)
(* wait that has already completed is not affected by cancel().  Time     *)
(* itself is abstracted: any pending timer may expire at any moment.      *)
(* Only zero and nonzero tick intervals are told apart, which is all the *)
(* code tests.  An alarm is named by the index of its allocation, and    *)
(* carries the id nextAlarmId++ gave it, a ClockAlarmId scaled to IdBits. *)
(* Client requests are bounded inputs; get_time changes no state.        *)
(***************************************************************************)
EXTENDS Naturals, Sequences, SequencesExt

CONSTANTS
  MaxAlarms,    \* bound: calls to set_alarm
  MaxRequests,  \* bound: calls to set_tick_interval and cancel_alarm
  IdBits        \* width of ClockAlarmId

Intervals == {0, 1}                 \* myTickInterval: zero or a nonzero value
Ecs       == {"ok", "aborted"}      \* the error code a wait completes with
Nodes     == 1..MaxAlarms           \* the Alarm objects, in order of creation
AlarmIds  == 0..(2^IdBits - 1)

VARIABLES
  interval,    \* myTickInterval
  tickWaits,   \* waits pending on myTickTimer
  tickQueued,  \* tickQueued[ec]: tickTimer completions queued with ec
  alarms,      \* myAlarms: the list of Alarm nodes
  await,       \* await[k]: the wait on alarm k's timer
  created,     \* alarms created so far
  requests,    \* requests served so far
  running,     \* ioService.run() is running
  purgeFailed  \* the purge's assert(it != myAlarms.end()) failed

vars == <<interval, tickWaits, tickQueued, alarms, await, created, requests,
          running, purgeFailed>>

(* static nextAlarmId = 1U, incremented once per alarm: it wraps. *)
Id(k) == k % 2^IdBits

(* find_alarm: the position of the first alarm with this id, or 0. *)
FindAlarm(id) ==
  LET found == {i \in DOMAIN alarms : Id(alarms[i]) = id} IN
  IF found = {} THEN 0 ELSE Min(found)

(* cancel() and setting an expiry time: every pending wait completes    *)
(* with operation_aborted.                                                *)
CancelTick == tickQueued' = [tickQueued EXCEPT !["aborted"] = @ + tickWaits]

Serve == /\ running
         /\ requests < MaxRequests
         /\ requests' = requests + 1

Init ==
  /\ interval = 0
  /\ tickWaits = 0
  /\ tickQueued = [ec \in Ecs |-> 0]
  /\ alarms = <<>>
  /\ await = [k \in Nodes |-> "none"]
  /\ created = 0
  /\ requests = 0
  /\ running = TRUE
  /\ purgeFailed = FALSE

(* set_tick_interval: store the interval, cancel the timer, and for a     *)
(* nonzero interval set the expiry from now and wait again; then answer. *)
SetTickInterval(i) ==
  /\ Serve
  /\ interval' = i
  /\ CancelTick
  /\ tickWaits' = IF i # 0 THEN 1 ELSE 0
  /\ UNCHANGED <<alarms, await, created, running, purgeFailed>>

(* The expiry time of myTickTimer is reached. *)
TickExpires ==
  /\ running
  /\ tickWaits > 0
  /\ tickQueued' = [tickQueued EXCEPT !["ok"] = @ + tickWaits]
  /\ tickWaits' = 0
  /\ UNCHANGED <<interval, alarms, await, created, requests, running, purgeFailed>>

(* Mutant: the handler re-arms with async_wait only, without setting the *)
(* next expiry time (which cancels the waits already pending).           *)
TickTimerNoExpiry(ec) ==
  /\ running
  /\ tickQueued[ec] > 0
  /\ IF ec # "aborted" /\ interval # 0
     THEN /\ tickQueued' = [tickQueued EXCEPT ![ec] = @ - 1]
          /\ tickWaits' = tickWaits + 1
     ELSE /\ tickQueued' = [tickQueued EXCEPT ![ec] = @ - 1]
          /\ UNCHANGED tickWaits
  /\ UNCHANGED <<interval, alarms, await, created, requests, running, purgeFailed>>

(* Mutant: the handler broadcasts but never re-arms the timer. *)
TickTimerOnce(ec) ==
  /\ running
  /\ tickQueued[ec] > 0
  /\ tickQueued' = [tickQueued EXCEPT ![ec] = @ - 1]
  /\ UNCHANGED <<tickWaits, interval, alarms, await, created, requests, running, purgeFailed>>

(* tickTimer: unless aborted, broadcast a tick and, while the interval is *)
(* nonzero, move the expiry on (cancelling any pending wait) and wait.   *)
TickTimer(ec) ==
  /\ running
  /\ tickQueued[ec] > 0
  /\ IF ec # "aborted" /\ interval # 0
     THEN /\ tickQueued' = [tickQueued EXCEPT ![ec] = @ - 1, !["aborted"] = @ + tickWaits]
          /\ tickWaits' = 1
     ELSE /\ tickQueued' = [tickQueued EXCEPT ![ec] = @ - 1]
          /\ UNCHANGED tickWaits
  /\ UNCHANGED <<interval, alarms, await, created, requests, running, purgeFailed>>

(* Mutant: the alarm is appended under the counter before the increment. *)
SetAlarmOffByOne ==
  LET k == created IN
  /\ running
  /\ created < MaxAlarms
  /\ created' = created + 1
  /\ alarms' = Append(alarms, k)
  /\ await' = [await EXCEPT ![k] = "pending"]
  /\ UNCHANGED <<interval, tickWaits, tickQueued, requests, running, purgeFailed>>

(* set_alarm: append an Alarm with the next id, wait on its timer, and   *)
(* answer with the id.                                                    *)
SetAlarm ==
  LET k == created + 1 IN
  /\ running
  /\ created < MaxAlarms
  /\ created' = k
  /\ alarms' = Append(alarms, k)
  /\ await' = [await EXCEPT ![k] = "pending"]
  /\ UNCHANGED <<interval, tickWaits, tickQueued, requests, running, purgeFailed>>

(* The expiry time of alarm k's timer is reached. *)
AlarmExpires(k) ==
  /\ running
  /\ await[k] = "pending"
  /\ await' = [await EXCEPT ![k] = "ok"]
  /\ UNCHANGED <<interval, tickWaits, tickQueued, alarms, created, requests, running, purgeFailed>>

(* Mutant: cancel_alarm also erases the alarm from the list. *)
CancelAlarmErasing(id) ==
  LET i == FindAlarm(id) IN
  /\ Serve
  /\ IF i # 0 /\ await[alarms[i]] = "pending"
     THEN /\ await' = [await EXCEPT ![alarms[i]] = "aborted"]
          /\ alarms' = RemoveAt(alarms, i)
     ELSE UNCHANGED <<await, alarms>>
  /\ UNCHANGED <<interval, tickWaits, tickQueued, created, running, purgeFailed>>

(* cancel_alarm: cancel the timer of the first alarm with this id, if    *)
(* any, and answer.  A timer that has expired already is not affected.   *)
CancelAlarm(id) ==
  LET i == FindAlarm(id) IN
  /\ Serve
  /\ IF i # 0 /\ await[alarms[i]] = "pending"
     THEN await' = [await EXCEPT ![alarms[i]] = "aborted"]
     ELSE UNCHANGED await
  /\ UNCHANGED <<interval, tickWaits, tickQueued, alarms, created, running, purgeFailed>>

(* Mutant: the handler purges the alarm only when it fired. *)
AlarmHandlerKeepsCancelled(k) ==
  LET i == FindAlarm(Id(k)) IN
  /\ running
  /\ await[k] \in Ecs
  /\ await' = [await EXCEPT ![k] = "run"]
  /\ IF await[k] = "aborted" THEN UNCHANGED <<alarms, running, purgeFailed>>
     ELSE IF i = 0 THEN /\ purgeFailed' = TRUE
                        /\ running' = FALSE
                        /\ UNCHANGED alarms
     ELSE /\ alarms' = RemoveAt(alarms, i)
          /\ UNCHANGED <<running, purgeFailed>>
  /\ UNCHANGED <<interval, tickWaits, tickQueued, created, requests>>

(* The handler of alarm k's timer: unless aborted, broadcast the alarm;  *)
(* then find the alarm by its id and erase it.  A failed assert aborts   *)
(* the process.                                                            *)
AlarmHandler(k) ==
  LET i == FindAlarm(Id(k)) IN
  /\ running
  /\ await[k] \in Ecs
  /\ await' = [await EXCEPT ![k] = "run"]
  /\ IF i = 0
     THEN /\ purgeFailed' = TRUE
          /\ running' = FALSE
          /\ UNCHANGED alarms
     ELSE /\ alarms' = RemoveAt(alarms, i)
          /\ UNCHANGED <<running, purgeFailed>>
  /\ UNCHANGED <<interval, tickWaits, tickQueued, created, requests>>

(* iosWork.reset(); ioService.stop(): run() returns without running the  *)
(* handlers still queued, and main returns.                               *)
StopLoop ==
  /\ running' = FALSE
  /\ UNCHANGED <<interval, tickWaits, tickQueued, alarms, await, created, purgeFailed>>

(* close_service, requested by a client. *)
CloseService == Serve /\ StopLoop

(* signal_handler on SIGINT or SIGTERM. *)
SignalHandler == running /\ StopLoop /\ UNCHANGED requests

Next ==
  \/ \E i \in Intervals : SetTickInterval(i)
  \/ TickExpires
  \/ \E ec \in Ecs : TickTimer(ec)
  \/ SetAlarm
  \/ \E k \in Nodes : AlarmExpires(k) \/ AlarmHandler(k)
  \/ \E id \in AlarmIds : CancelAlarm(id)
  \/ CloseService
  \/ SignalHandler

(* The event loop runs every queued handler, and a pending timer expires *)
(* after its finite duration.  Requests and signals are not forced.       *)
Fairness ==
  /\ WF_vars(TickExpires)
  /\ \A ec \in Ecs : WF_vars(TickTimer(ec))
  /\ \A k \in Nodes : WF_vars(AlarmExpires(k)) /\ WF_vars(AlarmHandler(k))

Spec == Init /\ [][Next]_vars /\ Fairness
-----------------------------------------------------------------------------
TypeOK ==
  /\ interval \in Intervals
  /\ tickWaits \in Nat
  /\ tickQueued \in [Ecs -> 0..MaxRequests]
  /\ alarms \in Seq(Nodes)
  /\ await \in [Nodes -> {"none", "pending", "run"} \cup Ecs]
  /\ created \in 0..MaxAlarms
  /\ requests \in 0..MaxRequests

(* The purge in the alarm handler (assert(it != myAlarms.end()) in        *)
(* set_alarm's lambda) always finds its alarm, whatever the order of       *)
(* set_alarm, cancel_alarm, the expiries and the handlers: only the alarm's *)
(* own handler erases it, and each alarm's timer completes exactly once.   *)
AlarmAlwaysFound == ~purgeFailed

(* myTickTimer follows myTickInterval, however set_tick_interval races a  *)
(* tick whose wait has completed but whose handler has not yet run: there *)
(* is never more than one wait pending (ticks never double, because        *)
(* tickTimer moves the expiry, cancelling the wait set_tick_interval       *)
(* armed, before it waits again); a zero interval leaves no wait pending;  *)
(* a nonzero interval always has a wait pending or a tick queued.          *)
TickerFollowsInterval ==
  /\ tickWaits <= 1
  /\ interval = 0 => tickWaits = 0
  /\ interval # 0 => tickWaits + tickQueued["ok"] >= 1

(* No alarm stays in myAlarms forever while the service runs: a cancelled *)
(* alarm is purged by its aborted handler as a fired one is.              *)
AlarmsPurged ==
  \A k \in Nodes : (k \in Range(alarms)) ~> (k \notin Range(alarms) \/ ~running)

(* Once the tick interval stays nonzero and the service keeps running,    *)
(* ticks are broadcast forever: tickTimer keeps re-arming myTickTimer.     *)
TickHandled == tickQueued'["ok"] < tickQueued["ok"]

TicksContinue ==
  <>[](interval # 0 /\ running) => []<><<TickHandled>>_vars
=============================================================================
