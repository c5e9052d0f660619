SPECIFICATION Spec
CONSTANTS
    Day = 4
    Lo = 4
    Hi = 8
    Zone = 1
    Null = Null
    None = None
    Malformed = Malformed
    Empty = Empty
    Columns <- MCColumns
    Ids = {1}
    Bodies <- LocalBodies
    Sets <- AllDaySets
    PageSize = 1
    MaxChanges = 0
PROPERTY ReturningOnlyReports
CHECK_DEADLOCK FALSE
