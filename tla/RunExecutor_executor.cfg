SPECIFICATION FairExecutorSpec
CONSTANTS
    Limits <- MCLimits
    Default <- MCDefault
    Budgets <- MCBudgets
CHECK_DEADLOCK FALSE
INVARIANTS
    TypeOK
    LogTellsTheRun
    LineageIsTrue
    LoopsAreBounded
    ApprovedWorkIsCurrent
PROPERTIES
    ExecutionEnds
