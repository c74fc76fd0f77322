CONSTANTS
  Leader = leader
  Procs = {p1}
  MayElevate = {p1}
  AsyncReap = TRUE
  IoMayFail = TRUE
  MaxWrites = 1
  Adapters = {"none", "loopback_server", "signal_injector", "local_http_origin"}
SPECIFICATION StageFairSpec
INVARIANTS
  StageTypeOK
  CompleteIsClean
  VerdictJoinsAdapter
  ComparedAsHashed
  UnspawnedNeverRan
PROPERTY StageEnds
