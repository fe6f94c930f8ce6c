\* Two publishers and two subscribers of one topic, a buffer of one message so
\* that the second unread one is skipped, and one closer.
CONSTANTS
  Publishers = {p1, p2}
  Subscribers = {s1, s2}
  Closers = {c1}
  Topics = {a}
  Buffer = 1
  MaxCalls = 2
  NoMessage = NoMessage
  Nobody = Nobody

SPECIFICATION FairSpec

INVARIANTS
  NoPanic
  PublisherOrder

PROPERTIES
  StreamsEnd
  PublishReturns
  ContractSpec

CHECK_DEADLOCK FALSE
