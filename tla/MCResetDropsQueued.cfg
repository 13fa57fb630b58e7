\* A connection reset while calls are queued: the queued continuations are never invoked.
CONSTANTS
  Clients = {c1}
  Funcs = {f1}
  OneWayFuncs = {}
  MaxCallsInProgress = 2
  MaxCalls = 2
  MaxStarts = 1
  MaxEvents = 1
  HandlersMayThrow = FALSE
  ClientMayClose = FALSE
  MaxOpens = 0
  DoubleOpen = FALSE
  CallsFromErrorContinuation = FALSE
  Addrs = {a1}
  AcceptMayFail = FALSE
  Unregistered = {}
  LinkMayFail = TRUE
SPECIFICATION FairSpec
\* A quiescent system (every event loop waiting for I/O) is not an error.
CHECK_DEADLOCK FALSE
PROPERTY EveryCallAnswered
