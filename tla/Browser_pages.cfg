SPECIFICATION MCSpec
CONSTANTS
    phone = phone
    desktop = desktop
    first = first
    second = second
    None = None
    Client = {phone, desktop}
    Candidate = {first, second}
    MaxClicks = 2
    MaxFaults = 1
SYMMETRY MCSymmetry
INVARIANTS
    TypeOK
    ScreenIsOneAnswer
    VerificationAnswerIsWhole
PROPERTIES
    RevisionsGuardTheOwner
CHECK_DEADLOCK FALSE
