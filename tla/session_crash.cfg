SPECIFICATION FairSpec
CONSTANTS
    r1 = r1
    r2 = r2
    c1 = c1
    Runner = {r1}
    Canceller = {c1}
    CreateMaxSteps = {8}
    RerunMaxSteps = {0, 12}
    ForceValues = {TRUE}
    DbMayFail = TRUE
    MaxRuns = 2
    MaxMatches = 1
    MaxTerms = 1
    MaxCount = 0
    MaxCancels = 1
    MaxCrashes = 1
CHECK_DEADLOCK FALSE
PROPERTIES
    NeverPendingAgain
    RunningEnds
    RequestsReturn
    ImplementsLifecycle
