SPECIFICATION FairSpec
CONSTANTS
    Objects = {o1, o2}
    MaxFaults = 2
    MaxChanges = 1
CHECK_DEADLOCK FALSE
INVARIANTS
    StandingFaultCaught
    BlameIsFounded
    ModificationShows
PROPERTIES
    SessionReleased
