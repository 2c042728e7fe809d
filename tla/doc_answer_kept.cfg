SPECIFICATION Spec
CONSTANTS
    r1 = r1
    r2 = r2
    c1 = c1
    Runner = {r1, r2}
    Canceller = {}
    CreateMaxSteps = {8}
    RerunMaxSteps = {0}
    ForceValues = {FALSE}
    DbMayFail = FALSE
    MaxRuns = 2
    MaxMatches = 1
    MaxTerms = 1
    MaxCount = 0
    MaxCancels = 0
    MaxCrashes = 0
CHECK_DEADLOCK FALSE
PROPERTIES
    AnswerKept
