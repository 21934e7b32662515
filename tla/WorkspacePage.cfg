\* Two requests fail.
SPECIFICATION FairSpec
CONSTANTS
  NoData = NoData
  MaxFaults = 2
INVARIANTS TypeOK FlagIsFreed StartIsSeen
PROPERTIES PageCatchesUpInTime LoadingEnds
CHECK_DEADLOCK FALSE
