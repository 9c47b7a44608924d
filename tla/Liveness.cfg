SPECIFICATION MCSpec
CONSTANTS
    q = q
    NoRun = NoRun
    A = A
    B = B
    C = C
    D = D
    r1 = r1
    r2 = r2
    Chats = {A, B, C}
    k1 = k1
    k2 = k2
    k3 = k3
    Calls = {k1, k2, k3}
    Dirs <- MCDirs
    Under <- MCUnder
    RunnerOf <- MCRunnerOf
    Requests <- SideBySide
    ParallelEntry = TRUE
INVARIANTS
    GrantPassIsLoop
PROPERTIES
    NoStarvation
    RunsSettle
