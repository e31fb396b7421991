SPECIFICATION Spec
CONSTANTS
    Setters = {s1, s2}
    Keys = {k1, k2}
    Values = {a, b}
    NoValue = NoValue
    Absent = Absent
    Malformed = Malformed
    Partial = Partial
    SaveMayFail = TRUE
    CallersLeave = TRUE
INVARIANTS NeverTorn LonePersisted
