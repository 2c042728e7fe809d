SPECIFICATION Spec
CONSTANTS
    r1 = r1
    r2 = r2
    c1 = c1
    Runner = {r1}
    Canceller = {c1}
    CreateMaxSteps = {8}
    RerunMaxSteps = {0, 12}
    ForceValues = {FALSE, TRUE}
    DbMayFail = FALSE
    MaxRuns = 2
    MaxMatches = 2
    MaxTerms = 2
    MaxCount = 60
    MaxCancels = 1
    MaxCrashes = 0
CHECK_DEADLOCK FALSE
INVARIANTS
    TypeOK
    AuditTrail
    TotalsExact
    TokensRecorded
PROPERTY
    AnswerOnlyAdvances
