\* Two workers and two fields, of which each makes any one or two of two calls
\* that are remembered and one that is not.
CONSTANTS
  NumFields = 2
  Concurrency = 2
  Keys = {a, b, x}
  Cached = {a, b}
  MaxSteps = 2

SPECIFICATION FairSpec

INVARIANTS
  Joined
  SharedResult
  OneLateCall

PROPERTIES
  SlotsOnce
  QueryEnds
  WaitersLeave

CHECK_DEADLOCK FALSE
