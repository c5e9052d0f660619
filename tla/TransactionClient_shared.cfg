CONSTANTS
    Txns = {x1, x2}
    Threads = {t1, t2}
    None = None
    Proxies = {None, "malformed"}
    Life = 1
    Margin = 1
    MaxTime = 1
    MaxChanges = 1
    MaxStatements = 2
SPECIFICATION FairSpec
CHECK_DEADLOCK FALSE
INVARIANTS TypeOK NothingUsedIsDestroyed OneCredential CredentialIsCurrent UnauthorizedExplained
PROPERTY ClientObtained
