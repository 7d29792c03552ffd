SPECIFICATION Spec
CONSTANTS
    a1 = a1
    a2 = a2
    c1 = c1
    e1 = e1
    f1 = f1
    r1 = r1
    s1 = s1
    t1 = t1
    u1 = u1
    u2 = u2
    Fact = {f1}
    RawTurn = {r1}
    Storer = {t1}
    Entity = {e1}
    Keep <- MCKeep
    OldAfter = 2
    RecentDays = 2
    LeastRecent = 1
    LastDay = 2
    MaxTurns = 1
    MaxEdits = 1
    Agent = {a1, a2}
    Skill = {s1}
    Shared = Shared
    MaxChanges = 4
    Yield = {0, 2, 5}
    JudgeScore = {30, 50, 80}
    MinQuality = 45
    GoodQuality = 75
    MaxIterations = 2
    EnoughTopics = 2
    MaxRuns = 2
    Comp = {c1}
    Tier1 = {c1}
    Listing <- MCListing
    Post = {u1, u2}
    KnownCap = 1
    MaxAlerts = 1
    NoListing = NoListing
    MaxRows = 5
    MaxMoves = 2
    MaxFaults = 1
    LastWatchDay = 1
    Category = 2
    SourcesEach = 2
    BatchSize = 1
    MaxParts = 2
    MaxReports = 2
    MaxKills = 1
    Peer = {a1, a2}
    Listed = {a1}
    User = User
    Stranger = Stranger
    TopicOwner = a1
    MaxMsgs = 2
    MaxPosts = 1
    MaxFeedback = 1
    MaxDeaths = 1
INVARIANTS
    
    
    DeliveryIsHonest
    FeedbackFindsItsAuthor
PROPERTIES
    UsedFactsStay
    ResearchEnds
    ReportsEnd
\* Days, changes, moves and runs are bounded.
CHECK_DEADLOCK FALSE
