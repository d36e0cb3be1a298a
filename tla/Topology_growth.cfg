SPECIFICATION Spec
CONSTANTS
  Records = {a, b, c, d, e}
  Workers = {w1, w2}
  MaxKey = 5
  MinLeaf = 2
  MaxLeaf = 4
  MinInternal = 1
  MaxInternal = 2
  DrainBatch = 2
SYMMETRY Symmetry
INVARIANTS TypeOK ExactMembership SynopsisCovers
PROPERTIES DrainKeepsMinima DrainingOnlyShrinks
CHECK_DEADLOCK FALSE
