SPECIFICATION Spec
CONSTANTS
    Requests <- MCRequests
    Fold <- MCFold
    FrozenSchema = FrozenSchema
    NoReport = NoReport
INVARIANTS
    OnlyClosure
    PlanInOrder
    ConflictIsReal
    ColumnsUnmistakable
    NothingSkipped
PROPERTIES
    Advances
