CONSTANTS
    Agents = {1, 2}
    UserMsgs = {"u1", "reply"}
    PeerMsgs = {}
    Roots = {"topic"}
    Parent <- MCParent
    Question <- MCQuestion
    Author <- MCAuthor
    Addressed <- MCAddressed
    RepliedTo <- MCRepliedTo
    Owner <- MCOwner
    NoOwner = NoOwner
    Delays <- UnitDelays
    Expiry = 2
    MaxImplicit = 1
    MaxPeerReplies = 2
    MaxTime = 2
    MaxFaults = 0
SPECIFICATION FairSpec
PROPERTIES  AddressedAnswers
CHECK_DEADLOCK FALSE
