SPECIFICATION FairSpec
CONSTANTS
    Execs = {e1, e2}
    NoExec = NoExec
    Triggers = {"initial"}
    MaxMsgs = 2
    MaxQueue = 2
    MaxGen = 1
    Withdrawals = FALSE
    MaxStops = 0
    MaxEnds = 0
    MaxBoots = 2
    Shutdowns = FALSE
    AgentFailures = FALSE
    StoreErrors = FALSE
    Quota = FALSE
PROPERTIES
    QueueDrains
CHECK_DEADLOCK FALSE
