CONSTANTS
  Leader = leader
  Procs = {p1}
  MayElevate = {}
  AsyncReap = TRUE
  IoMayFail = FALSE
  MaxWrites = 0
  Adapters = {"local_http_origin"}
SPECIFICATION StageSpec
INVARIANT TimeoutIsReported
