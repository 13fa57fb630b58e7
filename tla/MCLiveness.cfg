\* Every call and every open continuation is answered when the only
\* failures are connection resets, resolve and connect errors and the
\* service stopping; the client opens synchronously or with open(Closure).
CONSTANTS
  Clients = {c1}
  Funcs = {f1}
  OneWayFuncs = {}
  MaxCallsInProgress = 1
  MaxCalls = 3
  MaxStarts = 2
  MaxEvents = 1
  HandlersMayThrow = FALSE
  ClientMayClose = FALSE
  MaxOpens = 2
  DoubleOpen = FALSE
  CallsFromErrorContinuation = FALSE
  Addrs = {a1}
  AcceptMayFail = FALSE
  Unregistered = {}
  LinkMayFail = TRUE
SPECIFICATION FairSpec
PROPERTY EveryCallAnswered
PROPERTY EveryOpenAnswered
CHECK_DEADLOCK FALSE
