SPECIFICATION WorkflowSpec
CONSTANTS
    Draft = {d1, d2}
    FirstDraft = d1
    NoDraft = none
    Quoting = {d1}
    MaxRevision <- MCMaxRevision
CHECK_DEADLOCK FALSE
INVARIANTS
    WorkflowTypeOK
    ContentIsCurrent
    ApprovalIsEarned
    DuplicatesStayOut
PROPERTIES
    ApprovalPromise
    ApprovalEndsVisibly
