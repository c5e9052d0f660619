CONSTANTS
    Events <- MCEvents
    Day = 3
    TsMax = 30
    RfcMin <- MCRfcMin
    RfcMax = 12
    NoInstant = NoInstant
    Queries <- PairQueries
    Options <- AllOptions
    Nows = {3}
    PageSize = 3
    ChunkSize = 2
SPECIFICATION FairSpec
CHECK_DEADLOCK FALSE
INVARIANTS TypeOK BoundsCoverFilter ScanIsExact DefaultWindowRules
PROPERTY ScanEnds
