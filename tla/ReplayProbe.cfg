CONSTANTS
  N = 2
  Skips = {}
  Simples = {1}
  Adapters = {}
  Contexts = {c1}
  Selections = {{1, 2}}
  Mishaps = {"unprobed"}
  Quota = 0
  StableSort = TRUE
SPECIFICATION Spec
INVARIANT CheckpointResumable
