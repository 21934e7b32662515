\* The platform always rejects the deployment of one of two jobs.
SPECIFICATION FairSpec
CONSTANTS
  Jobs = {j1, j2}
  Handlers = {h1}
  Crons <- EveryUnit
  First = {}
  Params = {}
  Broken = {j1}
  NextOccurrence <- Periodic
  NoDoc = NoDoc
  NoJob = NoJob
  MaxTime = 1
  MaxRequests = 2
  MaxFaults = 0
  MaxCrashes = 0
PROPERTY DueJobRuns
