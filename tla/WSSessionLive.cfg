\* Liveness: one subscription at a time, pings, and a peer that may stall.
CONSTANTS
  Ids = {a, b}
  MaxOps = 2
  MaxReads = 3
  MaxEvents = 1
  MaxSubscriptions = 0
  InitTimeout = TRUE
  IdleTimeout = FALSE
  WriteTimeout = TRUE
  PingInterval = TRUE
  NoOp = NoOp

SPECIFICATION FairSpec

PROPERTIES
  InitDeadline
  CancelledEnds
  DisconnectEndsAll

CHECK_DEADLOCK FALSE
