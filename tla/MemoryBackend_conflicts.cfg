SPECIFICATION Spec
CONSTANTS
    Keys = {k}
    Values = {v}
    Absent = Absent
    Untouched = Untouched
    Txns = {t1, t2, t3}
    MaxHistory = 1
    MaxMutations = 1
    MaxRevision = 4
SYMMETRY Symmetry
CHECK_DEADLOCK FALSE
INVARIANTS EvidenceExact
PROPERTIES ImplementsContract ProtectedReadsCurrent
