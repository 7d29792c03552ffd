\* Three calls by two agents, an error and a crash.
SPECIFICATION LiveSpec
CONSTANTS
    a = a
    b = b
    a1 = a1
    a2 = a2
    b1 = b1
    NoThread = NoThread
    Conn <- MCConn
    Thread <- MCThread
    Home <- MCHome
    MaxCalls = 3
    MaxFaults = 1
    MaxCrashes = 1
INVARIANTS
    TypeOK
    DoneIsWritten
    
    DirtyReadsAreOfRaisedCalls
    NothingTwice
PROPERTIES
    ImplementsAtomicCalls
    EveryCallEnds
\* The calls of an instance are bounded, so it stops.
CHECK_DEADLOCK FALSE
