\* Two ids and two operations, so that an id is used again while the worker
\* that held it still runs, with a subscription limit that bites; events enough
\* to see one too many after a cancellation.
CONSTANTS
  Ids = {a, b}
  MaxOps = 2
  MaxReads = 5
  MaxEvents = 2
  MaxSubscriptions = 1
  InitTimeout = TRUE
  IdleTimeout = TRUE
  WriteTimeout = TRUE
  PingInterval = FALSE
  NoOp = NoOp

SPECIFICATION Spec

INVARIANTS
  Cancellable
  ActiveBound
  OperationFrames
  LastWords
  WireOrder

CHECK_DEADLOCK FALSE
