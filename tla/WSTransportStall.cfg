\* One connection, and no write timeout (the default).
CONSTANTS
  Conns = {c1}
  Stoppers = {s1}
  MaxConnections = 1
  WriteTimeout = FALSE
  Session = Session
  Nobody = Nobody

SPECIFICATION FairSpec

PROPERTY ShutdownHeedsContext

CHECK_DEADLOCK FALSE
