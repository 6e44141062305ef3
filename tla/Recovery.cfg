SPECIFICATION Spec
CONSTANTS
    Keys = {k1, k2}
    Values = {v1, v2}
    Absent = Absent
    MaxRecords = 4
    MaxBehind = 1
SYMMETRY Symmetry
CHECK_DEADLOCK FALSE
INVARIANTS
    RecoveredIsHistory
    NothingIgnored
    ReplayIdempotent
