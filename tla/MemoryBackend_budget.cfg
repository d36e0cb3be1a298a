SPECIFICATION Spec
CONSTANTS
    Keys = {k1, k2}
    Values = {v}
    Absent = Absent
    Untouched = Untouched
    Txns = {t1, t2}
    MaxHistory = 2
    MaxMutations = 2
    MaxRevision = 3
SYMMETRY Symmetry
CHECK_DEADLOCK FALSE
INVARIANTS TypeOK EvidenceReleased
