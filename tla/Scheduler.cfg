\* Two threads, two jobs, a fault and a crash; no symmetry, for the liveness.
SPECIFICATION FairSpec
CONSTANTS
  Jobs = {j1, j2}
  Handlers = {h1, h2}
  Crons <- EveryUnit
  First = {j1}
  Params = {p}
  Broken = {}
  NextOccurrence <- Periodic
  NoDoc = NoDoc
  NoJob = NoJob
  MaxTime = 1
  MaxRequests = 2
  MaxFaults = 1
  MaxCrashes = 1
INVARIANTS TypeOK OneDeploymentPerOccurrence CacheMirrorsDb
PROPERTIES CacheFrozenDuringTick RequestsAnswered DueJobRuns
