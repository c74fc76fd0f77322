CONSTANTS
  Leader = leader
  Procs = {p1, p2}
  MayElevate = {p1, p2}
  AsyncReap = FALSE
  IoMayFail = TRUE
  MaxWrites = 2
SPECIFICATION Spec
SYMMETRY Symmetry
INVARIANTS
  TypeOK
  ReceiptAuthentic
  ExitedIsAlone
  SurvivorsConfessed
  SweptBeforeReport
  StreamsFrozen
PROPERTIES
  DeadlineKillPinned
  Implements
