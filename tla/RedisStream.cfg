CONSTANTS
  Requests = {r1, x1}
  Malformed = {x1}
  Publishers = {p1, p2}
  Topics = {t1, t2}
  Buffer = 1
  MaxActive = 1
  MaxMessages = 2
SPECIFICATION Spec
INVARIANT CounterExact
PROPERTIES
  PromiseSpec
  StreamsEnd
