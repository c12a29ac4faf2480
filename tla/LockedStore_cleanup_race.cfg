SPECIFICATION Spec
CONSTANTS
    Writer = {w1, w2, w3}
    Twice = {w1}
    Nobody = nobody
    MayCrash = {w1}
    MayFail = {}
    MaySlow = {}
CHECK_DEADLOCK FALSE
PROPERTIES
    FreshLockIsNeverBypassed
