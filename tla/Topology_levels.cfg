SPECIFICATION SeedSpec
CONSTANTS
  Records = {a, b, c}
  Workers = {w1, w2}
  MaxKey = 13
  MinLeaf = 1
  MaxLeaf = 2
  MinInternal = 2
  MaxInternal = 4
  DrainBatch = 2
SYMMETRY Symmetry
INVARIANTS OneParent LevelsDescend EveryBodyReachable 
CHECK_DEADLOCK FALSE
