CONSTANTS
  Leader = leader
  Procs = {p1}
  MayElevate = {leader}
  AsyncReap = FALSE
  IoMayFail = FALSE
  MaxWrites = 0
SPECIFICATION FairSpec
PROPERTY ReceiptEventually
