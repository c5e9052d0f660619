CONSTANTS
    Events <- MCEvents
    Day = 3
    TsMax = 30
    RfcMin <- MCRfcMin
    RfcMax = 12
    NoInstant = NoInstant
    Queries <- OpenQueries
    Options <- NoOptions
    Nows = {3}
    PageSize = 5
    ChunkSize = 2
SPECIFICATION Spec
CHECK_DEADLOCK FALSE
INVARIANT HintIsHarmless
