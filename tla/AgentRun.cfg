SPECIFICATION Spec
CONSTANTS
    a = a
    b = b
    c1 = c1
    c2 = c2
    c3 = c3
    t1 = t1
    t2 = t2
    s1 = s1
    n1 = n1
    n2 = n2
    d1 = d1
    p1 = p1
    p2 = p2
    p3 = p3
    Chat = {c1, c2, c3}
    Discord = {c3}
    DailyLimit = 1
    SupTurns = 2
    SubTurns = 1
    Batches <- MCBatches
    MaxMessages = 3
    MaxBreaks = 1
    Provider = {p1, p2, p3}
    Chains <- MCChains
    Caller = {t1, t2}
    User = {a}
    Cooldown = 2
    Forever = 3
    MaxCalls = 2
    Payer = {t1, t2}
    Amount = {1, 2}
    Empty = Empty
    MaxOrders = 4
    ToolCall <- MCToolCall
    NoResult = 0
    Warn = 2
    Critical = 4
    Break = 6
    Window = 4
    Least = 3
    LeastPingPong = 4
    LeastPolls = 2
    MaxCallsSeen = 6
    Manager = {t1, t2}
    Static = {s1}
    Dynamic = {n1, n2}
    Config = {a, b}
    Missing = Missing
    Made = {d1}
    MaxChanges = 3
INVARIANTS
    BudgetHolds
    RaisesOnlyAfterAll
    BudgetBalances
    BreakerMeansRepeats
    
PROPERTIES
    MessageIsAnswered
\* Messages, calls and time are bounded.
CHECK_DEADLOCK FALSE
