\* Two overlapping requests of one session, three in all.
SPECIFICATION Spec
CONSTANTS
    w1 = w1
    w2 = w2
    gpt = gpt
    gpt5 = gpt5
    claude = claude
    missing = missing
    empty = empty
    Worker = {w1, w2}
    Provider = {"openai", "anthropic", "other"}
    Model = {gpt, gpt5, claude}
    ColumnModel = gpt
    DefaultModel <- Settings
    Offered <- Dictionaries
    Unset = missing
    Blank = empty
    MaxRequests = 3
SYMMETRY AnyWorker
INVARIANTS
    TypeOK
    ColumnsAgree
    AskedAsRequested
CHECK_DEADLOCK FALSE
