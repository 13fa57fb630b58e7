\* Service::stop while a client's call has already been read by the
\* reactor: the queued read completion runs after on_disconnected.
CONSTANTS
  Clients = {c1}
  Funcs = {f1}
  OneWayFuncs = {}
  MaxCallsInProgress = 1
  MaxCalls = 1
  MaxStarts = 1
  MaxEvents = 0
  HandlersMayThrow = FALSE
  ClientMayClose = FALSE
  MaxOpens = 0
  DoubleOpen = FALSE
  CallsFromErrorContinuation = FALSE
  Addrs = {a1}
  AcceptMayFail = FALSE
  Unregistered = {}
  LinkMayFail = FALSE
SPECIFICATION Spec
INVARIANT NoDataAfterDisconnect
CHECK_DEADLOCK FALSE
