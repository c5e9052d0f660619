CONSTANTS
    Conns = {c1}
    k1 = k1
    k2 = k2
    t = t
    Cals = {k1, k2}
    Labels = {t}
    None = None
    Seeds <- TwoCalendars
    AliasMaps <- ClashingAliases
    MaxAttempts = 1
    MaxStatements = 0
    MaxAttaches = 1
SPECIFICATION Spec
CHECK_DEADLOCK FALSE
INVARIANT EveryCalendarMounted
