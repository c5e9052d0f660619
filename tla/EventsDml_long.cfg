CONSTANTS
    Conns = {c1}
    e1 = e1
    e2 = e2
    x = x
    y = y
    Ids = {e1, e2}
    AutoIds = {a1, a2, a3, a4}
    NoId = NoId
    Null = Null
    Cancelled = Cancelled
    Status = "status"
    Fields <- MCFields
    ReadOnly <- MCReadOnly
    Vals <- MCVals
    MaxAttempts = 2
    Statements <- LongStatements
    Seeds <- MCSeeds
    MaxStatements = 2
SPECIFICATION Spec
CHECK_DEADLOCK FALSE
SYMMETRY AutoSymmetry
INVARIANTS PrefixApplied DoneMeansStored ReportIsTrue DuplicatesOnlyFromLostReplies
PROPERTY KeepsPromise
