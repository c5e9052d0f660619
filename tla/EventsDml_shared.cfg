CONSTANTS
    Conns = {c1, c2}
    e1 = e1
    e2 = e2
    x = x
    y = y
    Ids = {e1, e2}
    AutoIds = {a1}
    NoId = NoId
    Null = Null
    Cancelled = Cancelled
    Status = "status"
    Fields <- MCFields
    ReadOnly <- MCReadOnly
    Vals <- MCVals
    MaxAttempts = 2
    Statements <- SharedStatements
    Seeds <- MCSeeds
    MaxStatements = 1
SPECIFICATION FairSpec
CHECK_DEADLOCK FALSE
INVARIANTS TypeOK PrefixApplied DoneMeansStored ReportIsTrue
PROPERTY StatementEnds
