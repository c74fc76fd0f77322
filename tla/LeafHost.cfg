CONSTANTS
  Leaves = {l1, l2}
  Rebuilds = {r1}
  Impatient = {l1}
  Names = {n1, n2}
  Namings <- OneOrTwo
  Crashes = 1
SPECIFICATION FairHost
INVARIANTS
  HostTypeOK
  OneCoordinator
  VerdictNamesSource
  OwnDirectory
PROPERTIES
  JobsEnd
  Serialized
