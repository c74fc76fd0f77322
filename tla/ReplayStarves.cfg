CONSTANTS
  N = 4
  Skips = {}
  Simples = {1, 3, 4}
  Adapters = {2}
  Contexts = {c1}
  Selections = {{1, 2, 3, 4}}
  Mishaps = {}
  Quota = 1
  StableSort = TRUE
SPECIFICATION FairSpec
PROPERTY EveryRootReached
