INIT MCInit
NEXT MCNext
CONSTANTS
    q1 = q1
    q2 = q2
    Runs <- AllRuns
    NoRun = NoRun
    Cancellable = {}
    Sessions = {1, 2}
    Chunks = 2
    MaxQueued = 2
    MaxHeartbeatSeq = 2
    MaxRunnerBoots = 2
    MaxBackendBoots = 1
    StoreErrors = FALSE
    RegisterRace = FALSE
INVARIANTS
    NoDeliveryFault
    NoCallerStranded
PROPERTIES
    KeepsContract
SYMMETRY RunSymmetry
CHECK_DEADLOCK FALSE
