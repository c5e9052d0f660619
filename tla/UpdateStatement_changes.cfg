SPECIFICATION FairSpec
CONSTANTS
    Day = 4
    Lo = 4
    Hi = 8
    Zone = 1
    Null = Null
    None = None
    Malformed = Malformed
    Empty = Empty
    Columns <- MCColumns
    Ids = {1, 2}
    Bodies <- MCBodies
    Sets <- MCSets
    PageSize = 2
    MaxChanges = 1
INVARIANTS TypeOK NodesAgree EveryMatchUpdated UpdatedOnce
PROPERTIES UnsetColumnsKept SetColumnsReadBack UpdateEnds
CHECK_DEADLOCK FALSE
