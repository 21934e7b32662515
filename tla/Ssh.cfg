\* Docker, a login at a time, a container without public-key server, one
\* whose key comes late, an exception or a restart.
SPECIFICATION FairSpec
CONSTANTS
  Targets = {c1, c2}
  Sessions = {s1}
  Background = bg
  None = None
  Kubernetes = FALSE
  NoApi = {c1}
  LateKeys = {c2}
  MaxFaults = 1
INVARIANTS TypeOK AskedIsRecorded FullRunReplaces KnownKeyPrinted
PROPERTY KeysGetRecorded
