INIT Init
NEXT Next
CONSTANTS
    Execs = {e1, e2}
    NoExec = NoExec
    Triggers = {"initial", "sync"}
    MaxMsgs = 2
    MaxQueue = 1
    MaxGen = 2
    Withdrawals = FALSE
    MaxStops = 1
    MaxEnds = 1
    MaxBoots = 1
    Shutdowns = TRUE
    AgentFailures = FALSE
    StoreErrors = FALSE
    Quota = FALSE
INVARIANTS
    AgentGuardedUnlessStopped
    InOrder
    NotStranded
SYMMETRY ExecSymmetry
ACTION_CONSTRAINT OneKind
CHECK_DEADLOCK FALSE
