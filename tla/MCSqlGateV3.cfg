\* Deadlock is checked: what is refused, rejected or validated stays so.
SPECIFICATION Spec
CONSTANTS
    NULL = NULL
    NONE = NONE
    A = A
    B = B
    Requests <- MCRequests
    Payloads <- MCPayloads
    Edits <- MCEdits
    Judges <- MCJudges
    Fold <- MCFold
    Values <- MCValues
    Null <- NULL
    NoCandidate <- NONE
    NoReport <- NONE
INVARIANTS
    PassedIsExact
    PassedWasGenerated
    GeneratedIsInspected
    RenderingPasses
