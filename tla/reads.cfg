\* Four rows about three keys, two scores, pages of one.
SPECIFICATION ReadsSpec
CONSTANTS
    Keys = {k1, k2, k3}
    ScoreValues = {1, 2}
    Floors = {0, 2}
    Limit = 1
    MaxPending = 2
    MaxRows = 4
SYMMETRY Interchangeable
CHECK_DEADLOCK FALSE
INVARIANTS
    WalkIsExact
    NoneSkipped
