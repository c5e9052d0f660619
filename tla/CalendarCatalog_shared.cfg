CONSTANTS
    Conns = {c1, c2}
    k1 = k1
    k2 = k2
    t = t
    Cals = {k1, k2, k3}
    Labels = {t}
    None = None
    Seeds <- OneCalendar
    AliasMaps <- SomeAliases
    MaxAttempts = 2
    MaxStatements = 2
    MaxAttaches = 2
SPECIFICATION Spec
CHECK_DEADLOCK FALSE
SYMMETRY ConnSymmetry
INVARIANTS TypeOK DropsOnlyOwn DropTakesEffect CanCleanUp GhostsExplained AttachMountsAll
