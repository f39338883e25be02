SPECIFICATION FairSpecScope
CONSTANTS
    c1 = c1
    c2 = c2
    c3 = c3
    base = base
    g1 = g1
    g2 = g2
    t1 = t1
    t2 = t2
    t3 = t3
    Callers = {c1, c2}
    GroupIds = {base, g1, g2}
    Base = base
    Tasks = {t1, t2, t3}
    MaxFailures = 1
    Nil = Nil
INVARIANTS RoutedToOwnGroup OneDriverPerGroup
PROPERTIES WaitersAnswered
