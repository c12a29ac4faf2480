SPECIFICATION FairSpec
CONSTANTS
    Writer = {w1, w2}
    Twice = {w1}
    Nobody = nobody
    MayCrash = {w1}
    MayFail = {w1}
    MaySlow = {}
CHECK_DEADLOCK FALSE
INVARIANTS
    TypeOK
    NothingIsLeftBehind
    MutualExclusion
PROPERTIES
    Progress
    ImplementsSerialStore
