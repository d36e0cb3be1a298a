SPECIFICATION Spec
CONSTANTS
  Records = {a, b, c}
  Workers = {w1}
  MaxKey = 7
  MinLeaf = 1
  MaxLeaf = 2
  MinInternal = 1
  MaxInternal = 2
  DrainBatch = 2
SYMMETRY Symmetry
INVARIANTS SplitFamilies EveryBodyReachable
PROPERTIES KeysNeverReused
CHECK_DEADLOCK FALSE
