SPECIFICATION FairSpec
CONSTANTS
    r1 = r1
    r2 = r2
    picture = picture
    a1 = a1
    a2 = a2
    a3 = a3
    b1 = b1
    NoObject = NoObject
    NoEvent = NoEvent
    Call <- MCCall
    Run <- MCRun
    Object <- MCObject
    RunOf <- MCRunOf
    ObjectOf <- MCObjectOf
    MaxFaults = 2
    MaxKills = 1
CHECK_DEADLOCK FALSE
INVARIANTS TypeOK LogIsSound
PROPERTIES FailuresDoNotSpread EveryCallEnds ImplementsEventLog
