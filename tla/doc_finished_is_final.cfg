SPECIFICATION Spec
CONSTANTS
    r1 = r1
    r2 = r2
    c1 = c1
    Runner = {r1}
    Canceller = {c1}
    CreateMaxSteps = {8}
    RerunMaxSteps = {0}
    ForceValues = {FALSE}
    DbMayFail = FALSE
    MaxRuns = 1
    MaxMatches = 1
    MaxTerms = 1
    MaxCount = 0
    MaxCancels = 1
    MaxCrashes = 0
CHECK_DEADLOCK FALSE
PROPERTIES
    FinishedIsFinal
