\* No request fails; a reload may come while a list request is under way.
SPECIFICATION FairSpec
CONSTANTS
  NoData = NoData
  MaxFaults = 0
PROPERTY PageCatchesUp
CHECK_DEADLOCK FALSE
