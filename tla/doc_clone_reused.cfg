SPECIFICATION Spec
CONSTANTS
    s1 = s1
    s2 = s2
    Orphan = orphan
    Nobody = nobody
    Syncer = {s1, s2}
    SourceTypes = {"github"}
    GitMayFail = FALSE
    DbMayFail = FALSE
    MaxRequests = 2
    MaxVersions = 2
    MaxCrashes = 0
CHECK_DEADLOCK FALSE
PROPERTY
    CloneKept
