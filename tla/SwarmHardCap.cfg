CONSTANTS
    Agents = {1, 2, 3}
    UserMsgs = {"u1"}
    PeerMsgs = {}
    Roots = {"topic"}
    Parent <- MCParent
    Question <- MCQuestion
    Author <- MCAuthor
    Addressed <- MCAddressed
    RepliedTo <- MCRepliedTo
    Owner <- MCOwner
    NoOwner = NoOwner
    Delays <- MCDelays
    Expiry = 1
    MaxImplicit = 2
    MaxPeerReplies = 2
    MaxTime = 4
    MaxFaults = 0
SPECIFICATION Spec
INVARIANTS HardCap
CHECK_DEADLOCK FALSE
