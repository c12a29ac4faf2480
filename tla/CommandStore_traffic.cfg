SPECIFICATION Spec
CONSTANTS
    Draft = {d1}
    FirstDraft = d1
    NoDraft = none
    Quoting = {d1}
    Id = {demo, c1, c2, c3}
    Synthetic = {demo}
    Absent = absent
    Complete = {p, q}
    Vague = vague
    Request = {r1, r2, r3}
    Nobody = nobody
    HistoryLimit = 1
    CandidateLimit = 2
    Traffics <- MCTraffics
SYMMETRY Symmetry
CHECK_DEADLOCK FALSE
INVARIANTS
    TypeOK
    DuplicatesAreKnown
    AppliedAtMostOnce
PROPERTIES
    OnlyOnWhatWasSeen
    CommandsRunTheWorkflow
