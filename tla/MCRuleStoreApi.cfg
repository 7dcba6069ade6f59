SPECIFICATION Spec
CONSTANTS
    Requests = {r1, r2}
    Keys <- MCKeys
    Damaged <- MCDamaged
    Configurations <- MCConfigurations
CHECK_DEADLOCK FALSE
INVARIANTS
    ResponseCurrent
    UnavailableShows
    AllClosed
