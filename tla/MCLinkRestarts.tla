-------------------------- MODULE MCLinkRestarts --------------------------
(***************************************************************************)
(* Two instances of RunnerLink side by side, over the same two runs.  This *)
(* module's own constants are those of a replay: one of the runs is        *)
(* dispatched, and its messages are sent again over two sessions that may  *)
(* overlap.  Restarts has both runs, starts of the runner and the backend, *)
(* and a failing store.                                                    *)
(***************************************************************************)
EXTENDS RunnerLink, TLC

CONSTANTS q1, q2

VARIABLE focus

AllRuns == {q1, q2}
Restarts == INSTANCE RunnerLink WITH
    Chunks <- 0, MaxHeartbeatSeq <- 0,
    MaxBackendBoots <- 2, StoreErrors <- TRUE

RunSymmetry == Permutations(AllRuns)

\* Bound: one run is dispatched in a replay.
OneRun == Cardinality({r \in Runs : outcome'[r] # "none"}) <= 1

MCInit == focus \in {"replay", "restarts"} /\ Init
ReplayStep == focus = "replay" /\ Next /\ OneRun /\ UNCHANGED focus
RestartStep == focus = "restarts" /\ Restarts!Next /\ UNCHANGED focus
MCNext == ReplayStep \/ RestartStep
=============================================================================
