SPECIFICATION Spec
CONSTANTS
    Draft = {d1}
    FirstDraft = d1
    NoDraft = none
    Quoting = {d1}
    Id = {c1, c2}
    Synthetic = {}
    Absent = absent
    Complete = {p, q}
    Vague = vague
    Request = {r1, r2}
    Nobody = nobody
    HistoryLimit = 2
    CandidateLimit = 2
    Traffics <- MCWork
SYMMETRY Symmetry
CHECK_DEADLOCK FALSE
PROPERTIES
    SpecialistsWaitForTheOwner
