\* A continuation invoked by the error fan-out issues a new call: the call is dropped.
CONSTANTS
  Clients = {c1}
  Funcs = {f1, f2}
  OneWayFuncs = {}
  MaxCallsInProgress = 1
  MaxCalls = 2
  MaxStarts = 1
  MaxEvents = 1
  HandlersMayThrow = FALSE
  ClientMayClose = FALSE
  MaxOpens = 0
  DoubleOpen = FALSE
  CallsFromErrorContinuation = TRUE
  Addrs = {a1}
  AcceptMayFail = FALSE
  Unregistered = {}
  LinkMayFail = TRUE
SPECIFICATION Spec
\* A quiescent system (every event loop waiting for I/O) is not an error.
CHECK_DEADLOCK FALSE
INVARIANT EveryCallAccounted
