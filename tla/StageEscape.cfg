CONSTANTS
  Leader = leader
  Procs = {p1}
  MayElevate = {}
  AsyncReap = TRUE
  IoMayFail = FALSE
  MaxWrites = 0
  Adapters = {"none"}
SPECIFICATION StageSpec
INVARIANT EscapeeIsLeak
