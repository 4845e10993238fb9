SPECIFICATION FairSpec
CONSTANTS
    None = None
    Projects = {p, q}
    Scans = {s1, s2}
    Kinds = {"config_sync", "collection_sync", "scan", "legacy"}
    MaxRuns = 2
    MaxVersion = 1
    MaxPolls = 1
    MaxRestarts = 1
    Faults = TRUE
CHECK_DEADLOCK FALSE
INVARIANTS
    NoOrphanScan
PROPERTIES
    VerdictIsOurs
    LegacyStartsFresh
    RunEnds
