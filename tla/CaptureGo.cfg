CONSTANTS
  Leader = leader
  Procs = {p1, p2}
  MayElevate = {p1}
  AsyncReap = TRUE
  IoMayFail = TRUE
  MaxWrites = 1
SPECIFICATION FairSpec
INVARIANTS
  ReceiptAuthentic
PROPERTIES
  ReceiptEventually
  GroupDiesOut
