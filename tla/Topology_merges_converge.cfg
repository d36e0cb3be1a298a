SPECIFICATION PairFairSpec
CONSTANTS
  Records = {a, b, c, d, e}
  Workers = {w1, w2}
  MaxKey = 3
  MinLeaf = 2
  MaxLeaf = 4
  MinInternal = 1
  MaxInternal = 2
  DrainBatch = 1
PROPERTIES MergesComplete
CHECK_DEADLOCK FALSE
