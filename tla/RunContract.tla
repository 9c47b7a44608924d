----------------------------- MODULE RunContract -----------------------------
(***************************************************************************)
(* What the runner link promises its callers about a run, without sessions,*)
(* queues or acknowledgements: the dispatcher of a run                     *)
(* (backend/lib/agents/dispatch) on one side, the agent process on the     *)
(* runner on the other.  RunnerLink implements this specification.         *)
(***************************************************************************)
CONSTANT Runs

VARIABLES
    caller,   \* what the dispatcher of each run has been told
    agent     \* what became of the agent process of each run

vars == <<caller, agent>>

Init ==
    /\ caller = [r \in Runs |-> "none"]
    /\ agent = [r \in Runs |-> "none"]

Dispatch(r) ==
    /\ caller[r] = "none"
    /\ caller' = [caller EXCEPT ![r] = "pending"]
    /\ UNCHANGED agent

\* An agent is started once and only for a run that somebody asked for and that
\* has not been given up.  After a restart of the backend it may still start:
\* nobody can call the request back before the runner registers again.
Start(r) ==
    /\ agent[r] = "none"
    /\ caller[r] \in {"pending", "closed"}
    /\ agent' = [agent EXCEPT ![r] = "running"]
    /\ UNCHANGED caller

Finish(r) ==
    /\ agent[r] = "running"
    /\ agent' = [agent EXCEPT ![r] = "done"]
    /\ UNCHANGED caller

\* A result is only ever the result of an agent that finished, though its runner
\* may have restarted meanwhile.
Result(r) ==
    /\ caller[r] = "pending" /\ agent[r] \in {"done", "gone"}
    /\ caller' = [caller EXCEPT ![r] = "result"]
    /\ UNCHANGED agent

\* One registration may report any number of runs lost: none of them is running,
\* and the result of one that finished was lost with its runner.
Lose ==
    \E lost \in SUBSET {r \in Runs : /\ caller[r] = "pending"
                                    /\ agent[r] \in {"none", "dead", "gone"}} :
        /\ caller' = [r \in Runs |-> IF r \in lost THEN "lost" ELSE caller[r]]
        /\ UNCHANGED agent

RunnerRestart ==
    /\ agent' = [r \in Runs |-> CASE agent[r] = "running" -> "dead"
                                 [] agent[r] = "done" -> "gone"
                                 [] OTHER -> agent[r]]
    /\ UNCHANGED caller

BackendRestart ==
    /\ caller' = [r \in Runs |-> IF caller[r] = "pending" THEN "closed" ELSE caller[r]]
    /\ UNCHANGED agent

Next ==
    \/ \E r \in Runs : Dispatch(r) \/ Start(r) \/ Finish(r) \/ Result(r)
    \/ Lose \/ RunnerRestart \/ BackendRestart

Spec == Init /\ [][Next]_vars
=============================================================================
