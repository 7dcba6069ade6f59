SPECIFICATION PersistenceSpec
CONSTANTS
    Savers = {s1, s2, s3}
    Candidates = {c1, c2}
    NoCandidate = NoCandidate
    Readers = {r1, r2}
    Approvals = {a1, a2}
    Damaged = Damaged
    Missing = Missing
    w1 = w1
    w2 = w2
    w3 = w3
    path = path
    Writers = {w1, w2, w3}
    Paths = {path}
    Dest <- MCDest
    Overwriting = {w3}
    Absent = Absent
    Foreign = Foreign
    p = p
    q = q
    o = o
    Runs = {p, q, o}
    OverwritingRuns = {o}
    Blocks <- MCBlocks
    Elsewhere = Elsewhere
    Nul = Nul
CHECK_DEADLOCK FALSE
INVARIANTS
    NoPartialDocument
    ReportedIsOnDisk
PROPERTIES
    ImplementsInsertOnlyStore
    ImplementsApprovalAuthority
    ClientReleased
    ImplementsAtomicPublish
    NoSilentOverwrite
