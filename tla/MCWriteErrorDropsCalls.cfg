\* A write in send_call fails while a call of another operation is
\* outstanding: the transport closes without a connection error, so that
\* other call's continuation is never invoked.
CONSTANTS
  Clients = {c1}
  Funcs = {f1, f2}
  OneWayFuncs = {}
  MaxCallsInProgress = 1
  MaxCalls = 2
  MaxStarts = 1
  MaxEvents = 1
  HandlersMayThrow = FALSE
  ClientMayClose = FALSE
  MaxOpens = 0
  DoubleOpen = FALSE
  CallsFromErrorContinuation = FALSE
  Addrs = {a1}
  AcceptMayFail = FALSE
  Unregistered = {}
  LinkMayFail = TRUE
SPECIFICATION FairSpec
PROPERTY EveryCallAnswered
CHECK_DEADLOCK FALSE
