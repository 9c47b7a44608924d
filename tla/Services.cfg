INIT Init
NEXT Next
CONSTANTS
    Publishers = {"p1", "p2"}
    Subscribers = {"s1"}
    Capacity = 2
    ChannelCapacity = 2
    MaxEvents = 4
    MaxTopics = 2
    MaxSubscriptions = 3
    Sessions = {"c1", "c2"}
    Nodes = {"n"}
    Roots = {"tmp", "session"}
    Local = "backend"
    MaxPasses = 2
    Calls = {"c1", "c2"}
    Chats = {"x", "y"}
    MaxInFlight = 2
    MaxLost = 1
    MaxExecutions = 2
    MaxReplies = 1
    PeerAgents = {"a", "b", "c"}
    MaxPeerCalls = 3
    maxPeerCallDepth = 3
    MaxPeerExecutions = 1
INVARIANTS
    EventsReachSubscribers
    CallbacksExact
    PeerCallsNest
    SettingsTakeEffect
    ConversationFaithful
PROPERTIES
    ChatRecordAgrees
    CleanupKeeps
    SignInHolds
    TurnsKept
CHECK_DEADLOCK FALSE
