\* Two clients calling the same operation, two heap addresses the
\* allocator may reuse, failing accepts: sessions of the service are
\* kept apart (pending calls, in-progress rejections, results), also
\* when a broadcast leaves its loop after one session's write failed.
CONSTANTS
  Clients = {c1, c2}
  Funcs = {f1}
  OneWayFuncs = {}
  MaxCallsInProgress = 2
  MaxCalls = 2
  MaxStarts = 1
  MaxEvents = 1
  HandlersMayThrow = FALSE
  ClientMayClose = FALSE
  MaxOpens = 0
  DoubleOpen = FALSE
  CallsFromErrorContinuation = FALSE
  Addrs = {a1, a2}
  AcceptMayFail = TRUE
  Unregistered = {}
  LinkMayFail = TRUE
SPECIFICATION Spec
SYMMETRY ClientSymmetry
INVARIANT NoSpuriousInProgress
CHECK_DEADLOCK FALSE
