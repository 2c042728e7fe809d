SPECIFICATION FairSpec
CONSTANTS
    s1 = s1
    s2 = s2
    Orphan = orphan
    Nobody = nobody
    Syncer = {s1, s2}
    SourceTypes = {"github", "local"}
    GitMayFail = TRUE
    DbMayFail = TRUE
    MaxRequests = 2
    MaxVersions = 2
    MaxCrashes = 1
CHECK_DEADLOCK FALSE
INVARIANTS
    TypeOK
    SyncingHasSync
    FailedExplained
    SavedIsFresh
    
PROPERTIES
    CloneStaysSafe
    SyncEnds
