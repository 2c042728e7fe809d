SPECIFICATION FairRequestSpec
CONSTANTS
    s1 = s1
    s2 = s2
    Orphan = orphan
    Nobody = nobody
    Syncer = {s1, s2}
    SourceTypes = {"github"}
    GitMayFail = TRUE
    DbMayFail = TRUE
    MaxRequests = 1
    MaxVersions = 2
    MaxCrashes = 1
    MaxReruns = 1
CHECK_DEADLOCK FALSE
INVARIANTS
    RequestTypeOK
    SearchesOwnTree
    FreshResearch
PROPERTIES
    ImplementsSync
    RequestsAnswered
