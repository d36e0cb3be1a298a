SPECIFICATION FairSpec
CONSTANTS
  Records = {a, b, c}
  Workers = {w1}
  MaxKey = 5
  MinLeaf = 1
  MaxLeaf = 2
  MinInternal = 1
  MaxInternal = 2
  DrainBatch = 1
PROPERTIES SplitsComplete
CHECK_DEADLOCK FALSE
