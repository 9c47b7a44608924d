SPECIFICATION FairSpec
CONSTANTS
    Definitions <- ScheduledDefinitions
    Nodes = {"a", "b", "c", "d", "e", "f"}
    Loops = {"k", "l"}
    Clients = {r1, r2}
    Texts = {"ok"}
    MaxCrashes = 1
    MaxMishaps = 1
    Resumed = {"gate"}
INVARIANTS SettlesTruly
PROPERTIES Terminates
