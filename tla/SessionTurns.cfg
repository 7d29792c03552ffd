CONSTANTS
    Turns = {q1, q2, q3, r}
    Reactions = {r}
    q1 = q1
    q2 = q2
    q3 = q3
    r = r
    NoTurn = NoTurn
    MaxHistory = 4
    MaxMessages = 4
    KeepRecent = 2
    MaxClears = 1
    MaxFaults = 1
SPECIFICATION SessionSpec
INVARIANTS TurnsStayWhole HistoryIsRecent 
    ForgottenUnlessOverlapped  
CHECK_DEADLOCK FALSE
SYMMETRY Questions
