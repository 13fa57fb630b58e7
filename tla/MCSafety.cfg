\* Safety of the call protocol between Client and Service, with user
\* close, connection resets, broadcasts, two start/stop cycles and a
\* one-way operation u the service never registered.
CONSTANTS
  Clients = {c1}
  Funcs = {f1, f2}
  OneWayFuncs = {w, u}
  MaxCallsInProgress = 3
  MaxCalls = 3
  MaxStarts = 2
  MaxEvents = 1
  HandlersMayThrow = TRUE
  ClientMayClose = TRUE
  MaxOpens = 0
  DoubleOpen = FALSE
  CallsFromErrorContinuation = FALSE
  Addrs = {a1}
  AcceptMayFail = FALSE
  Unregistered = {u}
  LinkMayFail = TRUE
SPECIFICATION Spec
SYMMETRY ClientSymmetry
INVARIANT TypeOK
INVARIANT ResultsMatchCalls
INVARIANT PerFunctionFifo
INVARIANT EveryCallAccounted
INVARIANT SingleCallInFlight
CHECK_DEADLOCK FALSE
INVARIANT StoppedServesNone
PROPERTY ImplementsRpc
