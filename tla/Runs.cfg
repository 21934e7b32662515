\* Two workers, two keys, all kinds of requests, one failed database call.
SPECIFICATION Spec
CONSTANTS
  Keys = {k1, k2}
  Workers = {w1, w2}
  Batches <- SomeBatches
  NoValue = NoValue
  NoRun = NoRun
  MaxRequests = 4
  MaxFaults = 1
SYMMETRY Interchangeable
INVARIANTS TypeOK FinishedRunIsComplete MetricsAreKept
PROPERTIES KeysStay IsRunStore
CHECK_DEADLOCK FALSE
