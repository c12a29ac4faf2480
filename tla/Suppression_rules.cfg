SPECIFICATION Spec
CONSTANTS
    Candidate = {x, y}
    Demo = {x}
    Absent = absent
    Axis = {"product", "brand", "source"}
    Drifting = {"brand", "source"}
    Value = {v}
    NoValue = empty
    Never = never
    Nobody = nobody
    RuleLimit = 2
    MaxNow = 1
CHECK_DEADLOCK FALSE
INVARIANTS
    TypeOK
PROPERTIES
    CommandsTakeEffect
    HiddenUntilReversed
    RestoredUntilSuppressed
