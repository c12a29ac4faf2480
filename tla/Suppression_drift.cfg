SPECIFICATION Spec
CONSTANTS
    Candidate = {x, y}
    Demo = {x}
    Absent = absent
    Axis = {"product", "brand"}
    Drifting = {"brand"}
    Value = {v}
    NoValue = empty
    Never = never
    Nobody = nobody
    RuleLimit = 1
    MaxNow = 1
CHECK_DEADLOCK FALSE
PROPERTIES
    IdentityEditNeverReleases
