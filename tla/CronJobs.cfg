CONSTANTS
    a1 = a1
    a2 = a2
    digest = digest
    retention = retention
    heartbeat = heartbeat
    Agents = {a1, a2}
    Jobs = {digest, retention, heartbeat}
    Schedule <- MCSchedule
    Registered <- MCRegistered
    Triggerable = {retention, heartbeat}
    HoursPerDay = 2
    DaysPerWeek = 2
    MaxNow = 4
    MaxCrashes = 1
    MaxControls = 1
SPECIFICATION CronSpec
INVARIANTS  DueJobsRun OverlapOnlyByHand
CHECK_DEADLOCK FALSE
