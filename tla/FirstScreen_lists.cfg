SPECIFICATION MCSpec
CONSTANTS
    c1 = c1
    c2 = c2
    c3 = c3
    c4 = c4
    main = main
    Curiosity = Curiosity
    Candidate = {c1, c2, c3, c4}
    Lane <- MCLane
    Ranked <- MCRanked
    Demo <- MCDemo
    Limit = 3
    LaneCap = 2
CONSTRAINT FewExcluded
INVARIANTS
    TypeOK
    CardsFollowTheRules
    AbsenceIsExplained
    PendingIsNotOutscored
PROPERTY OthersStayOnScreen
