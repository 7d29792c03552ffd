\* Two commands at a time, three commands by a person and the checks of cron.
SPECIFICATION LiveSpec
CONSTANTS
    p1 = p1
    p2 = p2
    NoPlan = NoPlan
    None = None
    Process <- MCProcess
    Shape <- MCShape
    MaxCommands = 3
    MaxPlans = 2
    MaxTime = 1
    MaxFaults = 1
INVARIANTS
    OnlyApprovedIsLive
    RecordIsHonest
    
    NoEarlyResume

    
\* Commands and time are bounded, but cron goes on checking.
CHECK_DEADLOCK FALSE
