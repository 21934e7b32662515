\* A deletion beside a renaming.
SPECIFICATION Spec
CONSTANTS
  Names = {n1, n2}
  Workers = {w1, w2}
  NoDoc = NoDoc
  MaxRequests = 3
  MaxFaults = 0
PROPERTY ActiveAreRenamed
CHECK_DEADLOCK FALSE
