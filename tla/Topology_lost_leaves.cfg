SPECIFICATION Spec
CONSTANTS
  Records = {a, b, c}
  Workers = {w1, w2}
  MaxKey = 3
  MinLeaf = 1
  MaxLeaf = 2
  MinInternal = 1
  MaxInternal = 2
  DrainBatch = 1
INVARIANT LeafLevelReachable
CHECK_DEADLOCK FALSE
