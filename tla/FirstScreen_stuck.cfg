SPECIFICATION MCSpec
CONSTANTS
    main = main
    Curiosity = Curiosity
    Candidate <- MCCandidate
    Lane <- MCLane
    Ranked <- MCRanked
    Demo <- MCDemo
    Limit = 5
    LaneCap = 2
INVARIANT ViableCandidatesAreShown
