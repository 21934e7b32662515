\* Two projects.  A page of services does less than one of jobs.
SPECIFICATION FairSpec
CONSTANTS
  Places = {p, q}
  NoPlace = NoPlace
  Kinds = {"services", "jobs", "files"}
  MaxClicks = 4
  MaxChanges = 1
  MaxFaults = 1
INVARIANTS TypeOK PageIsRight
PROPERTIES NeverBack ChangeShows
CHECK_DEADLOCK FALSE
