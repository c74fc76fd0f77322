CONSTANTS
  N = 4
  Skips = {1}
  Simples = {2}
  Adapters = {3}
  Contexts = {c1, c2}
  Selections = {{1, 2, 3, 4}, {1, 3}}
  Mishaps = {"partial", "failed", "mutated", "unprobed", "torn", "altered"}
  Quota = 0
  StableSort = FALSE
SPECIFICATION Spec
INVARIANTS
  TypeOK
  CertifiedIsPinned
  EveryRootOnce
  RowsBacked
  ResumeLosesNothing
PROPERTIES
  AsOneRun
