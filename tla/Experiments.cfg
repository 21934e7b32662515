\* Two workers, every kind of request on either, one failed call.
SPECIFICATION Spec
CONSTANTS
  Names = {n1, n2}
  Workers = {w1, w2}
  NoDoc = NoDoc
  MaxRequests = 5
  MaxFaults = 1
SYMMETRY WorkersAlike
INVARIANTS TypeOK AcknowledgedStay
PROPERTY ChangesAreAsked
CHECK_DEADLOCK FALSE
