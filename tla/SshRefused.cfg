\* A pod that refuses connections to the public-key port.
SPECIFICATION FairSpec
CONSTANTS
  Targets = {c1, c2}
  Sessions = {s1}
  Background = bg
  None = None
  Kubernetes = TRUE
  NoApi = {c1}
  LateKeys = {}
  MaxFaults = 0
PROPERTY KeysGetRecorded
