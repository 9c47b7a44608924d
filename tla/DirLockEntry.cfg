SPECIFICATION Spec
CONSTANTS
    A = A
    B = B
    C = C
    D = D
    r1 = r1
    r2 = r2
    Chats = {A, B, C, D}
    k1 = k1
    k2 = k2
    k3 = k3
    Calls = {k1, k2, k3}
    Dirs <- MCDirs
    Under <- MCUnder
    RunnerOf <- MCRunnerOf
    Requests <- MixedRequests
    ParallelEntry = FALSE
INVARIANTS
    HolderExclusion
    RunExclusion
    RunsBacked
    NoLostWakeup
PROPERTIES
    NoOvertaking
SYMMETRY CallSymmetry
