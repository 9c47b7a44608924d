SPECIFICATION Spec
CONSTANTS
    Execs = {e1, e2}
    NoExec = NoExec
    Triggers = {"initial", "sync"}
    MaxMsgs = 2
    MaxQueue = 1
    MaxGen = 1
    Withdrawals = TRUE
    MaxStops = 0
    MaxEnds = 0
    MaxBoots = 1
    Shutdowns = FALSE
    AgentFailures = TRUE
    StoreErrors = TRUE
    Quota = TRUE
INVARIANTS
    GuardExact
    NoRerun
SYMMETRY ExecSymmetry
CHECK_DEADLOCK FALSE
