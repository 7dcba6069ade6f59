SPECIFICATION Spec
CONSTANTS
    Requests <- MCRequests
    Reproposed <- MCReproposed
    Fold <- MCFold
    NoReport = NoReport
INVARIANTS
    OnlyClosure
    ResolvedIsComplete
    OpenStaysUnresolved
    HintsNeverDecide
