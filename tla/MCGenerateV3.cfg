SPECIFICATION FairSpec
CONSTANTS
    a = a
    b = b
    out = out
    other = other
    good = good
    bad = bad
    Runs = {a, b}
    Retries <- FullRetries
    Sqls = {good, bad}
    PassingSqls = {good}
    Paths = {out, other}
    PackPath <- SamePack
    Exporting = {a, b}
    ExportPath <- MCExportPath
    OverwritingRuns = {b}
    Absent = Absent
    Foreign = Foreign
    NoCandidate = NoCandidate
    NoPack = NoPack
CHECK_DEADLOCK FALSE
INVARIANTS
    AttemptsAgree
    StaleNeverGenerates
    PackMatchesStore
    VerificationHonest
    ExitBacked
    ExportHasPack
PROPERTIES
    NoCallAfterCandidate
    EveryRunEnds
