SPECIFICATION Spec
CONSTANTS
    Runs = {"q"}
    NoRun = NoRun
    Cancellable = {}
    Sessions = {1, 2, 3}
    Chunks = 0
    MaxQueued = 2
    MaxHeartbeatSeq = 0
    MaxRunnerBoots = 1
    MaxBackendBoots = 1
    StoreErrors = FALSE
    RegisterRace = TRUE
INVARIANTS
    LostIsGone
CHECK_DEADLOCK FALSE
