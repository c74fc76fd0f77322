CONSTANTS
  Phases = {"run", "build", "compile"}
  Emitters = {"compiled"}
  Mishaps = 2
  Faults = 2
  Selected = 2
  Actions = {"errorcheck", "compiledir", "run", "runoutput"}
  Snags = 2
SPECIFICATION Spec
INVARIANTS
  RowsTypeOK
  AcceptedIsPinned
  PassIsAccepted
  SealedIsRecorded
  LedgerJoined
  PassIsOneProgram
  PublishedIsAuthentic
  CleanRowPasses
  ScopedCharge
  PassIsEarned
