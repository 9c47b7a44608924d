SPECIFICATION Spec
CONSTANTS
    Execs = {e1, e2}
    NoExec = NoExec
    Triggers = {"initial"}
    MaxMsgs = 2
    MaxQueue = 1
    MaxGen = 1
    Withdrawals = FALSE
    MaxStops = 1
    MaxEnds = 0
    MaxBoots = 1
    Shutdowns = FALSE
    AgentFailures = FALSE
    StoreErrors = FALSE
    Quota = FALSE
INVARIANTS
    AgentGuarded
SYMMETRY ExecSymmetry
CHECK_DEADLOCK FALSE
