CONSTANTS
  N = 5
  Skips = {1}
  Simples = {2, 4}
  Adapters = {}
  Contexts = {c1}
  Selections = {{1, 2, 3, 4, 5}}
  Mishaps = {}
  Quota = 1
  StableSort = TRUE
SPECIFICATION FairSpec
PROPERTY ContinuationsFinish
