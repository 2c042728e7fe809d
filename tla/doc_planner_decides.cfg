SPECIFICATION Spec
CONSTANTS
    source = source
    top = top
    docs = docs
    link = link
    t1 = t1
    t2 = t2
    t3 = t3
    File = {source, top, docs, link}
    Term = {t1, t2, t3}
    Unsearchable = {t3}
    Attributes <- MCAttributes
    WalkOrder <- MCWalkOrder
    FallbackTerms <- MCFallbackTerms
    Texts <- MCTexts
    PlannedTerms <- MCPlannedTerms
    PlannedPaths <- MCPlannedPaths
    Limits <- MCLimits
    MaxTerms = 2
    MaxResults = 2
    Before = 1
    After = 1
    MaxChanges = 1
CHECK_DEADLOCK FALSE
INVARIANT
    PlannerDecides
