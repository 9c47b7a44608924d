---------------------------- MODULE MCWorkflow ----------------------------
(***************************************************************************)
(* The instance of WorkflowRun whose scheduling and liveness are checked.  *)
(***************************************************************************)
EXTENDS WorkflowRun, TLC

Examples == INSTANCE MCWorkflowDefinitions
\* The definitions that schedule, and one whose human is asked twice.
ScheduledDefinitions == Examples!ScheduleDefinitions @@ [gate |-> Examples!HumanGate]

\* What a run settles as is true of its nodes: a node that waits for all its
\* parents was given what they last produced, a failure is not absorbed by an
\* old success, no fresh run fails because a node was forgotten, and a loop is
\* run no more often than it allows (evaluateDownstream, settleGlobalStatus,
\* admitViaEdge).
SettlesTruly ==
    /\ TypeOK
    /\ FreshInputs
    /\ FailClosed
    /\ Fresh => NoPhantomFailure
    /\ LoopBudget
============================================================================
