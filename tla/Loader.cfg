\* Two loaders, two keys in batches of one, two goroutines that load and two
\* that dispatch.
CONSTANTS
  NumLoaders = 2
  Keys = {k1, k2}
  MaxBatch = 1
  Loadings = {g1, g2}
  Dispatchers = {d1, d2}
  Absent = Absent
  Unready = Unready
  Failed = Failed
  Nobody = Nobody
  Idle = Idle

SPECIFICATION FairSpec

INVARIANTS
  AskedOnce
  DispatchResolves

PROPERTIES
  NoQueueRace
  Memoised
  DispatchEnds

CHECK_DEADLOCK FALSE
