\* A user with a project of his own and another that comes and goes.
SPECIFICATION FairSpec
CONSTANTS
  Projects = {own, p}
  Own = own
  None = None
  MaxEvents = 3
INVARIANTS TypeOK BreaksOnlyUnknown ProjectIsChosen ChangesAreListed
PROPERTIES LoginGetsIn
CHECK_DEADLOCK FALSE
