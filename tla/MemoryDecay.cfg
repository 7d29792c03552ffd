CONSTANTS
    e1 = e1
    f1 = f1
    r1 = r1
    t1 = t1
    Fact = {f1}
    RawTurn = {r1}
    Storer = {t1}
    Entity = {e1}
    Keep <- MCKeep
    OldAfter = 9
    RecentDays = 3
    LeastRecent = 1
    LastDay = 2
    MaxTurns = 1
    MaxEdits = 0
SPECIFICATION MemorySpec
INVARIANTS UnusedFactsFade
CHECK_DEADLOCK FALSE
