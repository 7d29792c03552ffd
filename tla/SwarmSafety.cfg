CONSTANTS
    Agents = {1, 2}
    UserMsgs = {"u1", "owned"}
    PeerMsgs = {"p1"}
    Roots = {"topic"}
    Parent <- MCParent
    Question <- MCQuestion
    Author <- MCAuthor
    Addressed <- MCAddressed
    RepliedTo <- MCRepliedTo
    Owner <- MCOwner
    NoOwner = NoOwner
    Delays <- MCDelays
    Expiry = 2
    MaxImplicit = 1
    MaxPeerReplies = 2
    MaxTime = 4
    MaxFaults = 1
SPECIFICATION Spec
INVARIANTS TypeOK OneHolder CapUnlessLapsed
PROPERTIES ImplementsReplySlots
CHECK_DEADLOCK FALSE
