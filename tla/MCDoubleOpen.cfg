\* open(Closure) issued twice before the first connect completes: the
\* second handle_connect asserts myState == NEW.
CONSTANTS
  Clients = {c1}
  Funcs = {f1}
  OneWayFuncs = {}
  MaxCallsInProgress = 1
  MaxCalls = 1
  MaxStarts = 1
  MaxEvents = 0
  HandlersMayThrow = FALSE
  ClientMayClose = FALSE
  MaxOpens = 2
  DoubleOpen = TRUE
  CallsFromErrorContinuation = FALSE
  Addrs = {a1}
  AcceptMayFail = FALSE
  Unregistered = {}
  LinkMayFail = FALSE
SPECIFICATION Spec
INVARIANT NoOpenAssert
CHECK_DEADLOCK FALSE
