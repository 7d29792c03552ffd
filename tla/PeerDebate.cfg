CONSTANTS
    a1 = a1
    a2 = a2
    Peer = {a1, a2}
    Listed = {a1, a2}
    User = User
    Stranger = Stranger
    TopicOwner = a1
    MaxMsgs = 3
    MaxPosts = 1
    MaxFeedback = 0
    MaxDeaths = 0
SPECIFICATION Spec
INVARIANTS NoPeerDebate
CHECK_DEADLOCK FALSE
