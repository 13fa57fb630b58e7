\* A handler of c1's call throws: the pending entry keyed by c1's
\* transport address outlives the session; once that transport is freed
\* and c2's transport is allocated at the same address, c2's first call
\* of the operation is rejected with OperationInProgress.
CONSTANTS
  Clients = {c1, c2}
  Funcs = {f1}
  OneWayFuncs = {}
  MaxCallsInProgress = 1
  MaxCalls = 1
  MaxStarts = 2
  MaxEvents = 1
  HandlersMayThrow = TRUE
  ClientMayClose = FALSE
  MaxOpens = 0
  DoubleOpen = FALSE
  CallsFromErrorContinuation = FALSE
  Addrs = {a1, a2}
  AcceptMayFail = FALSE
  Unregistered = {}
  LinkMayFail = FALSE
SPECIFICATION Spec
SYMMETRY ClientSymmetry
INVARIANT NoSpuriousInProgress
CHECK_DEADLOCK FALSE
