---------------------------- MODULE MCLiveness ----------------------------
(***************************************************************************)
(* Who waits is served: agents of one chat side by side at the lock        *)
(* manager (this module's own constants), and callers of one run over      *)
(* restarts of the runner and the backend (Link).  focus is the one a      *)
(* behaviour is about; the other stays as it starts.                       *)
(***************************************************************************)
EXTENDS MCDirLock

CONSTANTS q, NoRun

VARIABLES
    focus,
    bboot, bnext, bqueue, highest, knownBoot, conn, tracked, got, finalized,
    outcome, cancelAsked, sess,
    rboot, rnext, rqueue, lastB, seenBoot, rsess, attached, rackDirty,
    run, emitted, cancelled

linkVars == <<bboot, bnext, bqueue, highest, knownBoot, conn, tracked, got, finalized,
              outcome, cancelAsked, sess, rboot, rnext, rqueue, lastB, seenBoot, rsess,
              attached, rackDirty, run, emitted, cancelled>>

OneRun == {q}
Link == INSTANCE RunnerLink WITH
    Runs <- OneRun, Cancellable <- OneRun, Sessions <- {1, 2}, Chunks <- 0, MaxQueued <- 1,
    MaxHeartbeatSeq <- 0, MaxRunnerBoots <- 2, MaxBackendBoots <- 2, StoreErrors <- FALSE,
    RegisterRace <- FALSE

MCInit == focus \in {"lock", "link"} /\ Init /\ Link!Init
LockStep == focus = "lock" /\ Next /\ UNCHANGED <<focus, linkVars>>
LinkStep == focus = "link" /\ Link!Next /\ UNCHANGED <<focus, vars>>
Settled == focus = "link" /\ UNCHANGED <<focus, vars, linkVars>>   \* only the lock never stops
MCNext == LockStep \/ LinkStep \/ Settled

\* Link's own fairness, where a behaviour is about it.
LinkProgress == focus = "link" /\ Link!Progress /\ UNCHANGED <<focus, vars>>
MCSpec == MCInit /\ [][MCNext]_<<focus, vars, linkVars>> /\ WF_linkVars(LinkProgress)

\* A run whose caller gave up settles, and one nobody waits for after a backend
\* restart is stopped, whatever breaks or restarts in between (Cancel,
\* buildRegister, MarkFinalized).
RunsSettle ==
    /\ Link!CancelSettles
    /\ Link!OrphansStopped
=============================================================================
