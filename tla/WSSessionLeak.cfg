\* One operation, and no idle timeout (the default of ReadIdleTimeout).
CONSTANTS
  Ids = {a}
  MaxOps = 1
  MaxReads = 3
  MaxEvents = 1
  MaxSubscriptions = 0
  InitTimeout = TRUE
  IdleTimeout = FALSE
  WriteTimeout = TRUE
  PingInterval = FALSE
  NoOp = NoOp

SPECIFICATION FairSpec

PROPERTY ServerCloseCancels

CHECK_DEADLOCK FALSE
