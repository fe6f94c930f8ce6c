\* Two connections for one place, and a call of Shutdown at any time.
CONSTANTS
  Conns = {c1, c2}
  Stoppers = {s1}
  MaxConnections = 1
  WriteTimeout = TRUE
  Session = Session
  Nobody = Nobody

SPECIFICATION FairSpec

INVARIANTS
  ConnectionLimit
  DrainedOnNil

PROPERTIES
  NoAddDuringWait
  ShutdownReturns

CHECK_DEADLOCK FALSE
