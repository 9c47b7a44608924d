INIT Init
NEXT Next
CONSTANTS
    RequestIds = {f, g}
    MaxAttempts = 2
    MaxKept = 1
    MaxConcurrent = 2
    MaxStreams = 3
    Backlog = 2
    Keep = 2
    MaxOutput = 3
    TerminalStreams = {s1, s2}
    MaxJobs = 1
INVARIANTS
    ServedOnce
    FilesAsNamed
    GitTold
    SandboxCurrent
    MountsConfine
    
CHECK_DEADLOCK FALSE
