--------------------------- MODULE WorkflowNodes ---------------------------
(***************************************************************************)
(* The nodes of a workflow that take steps of their own: those that run an *)
(* agent and those that run another workflow.                              *)
(***************************************************************************)
EXTENDS Integers, Sequences, FiniteSets, SequencesExt

-----------------------------------------------------------------------------
(***************************************************************************)
(* The execution of the agent nodes of a workflow, one after the other:    *)
(* an actor and the reviewer that is paired with it, on the same agent.    *)
(* A node starts its agent on the first CLI target with quota, asks the    *)
(* user when there is none, collects the status of the run, starts it once *)
(* more when a required output is missing, and leaves its CLI sessions and *)
(* its target for the nodes that follow.                                   *)
(*                                                                         *)
(* A target is a record of a CLI and a model.  A session is the number it  *)
(* was opened as; 0 is none.                                               *)
(***************************************************************************)

CONSTANTS AgentTargets, PairsFor, MaxNodes, MaxRetries, MaxQuotaChanges, MaxRuns, MaxRestarts

VARIABLES
    values,     \* RunValues: the session of each CLI, the target of the actor
    upstream,   \* the target in the settled result of the actor
    node,       \* the node that is executed
    run,        \* its run
    quota,      \* what is left for each target
    opened,     \* the CLI that opened each session
    headless, budget,
    actual      \* history: the target of the last actor run that succeeded
nodeVars == <<values, upstream, node, run, quota, opened, headless, budget, actual>>

Targets == ToSet(AgentTargets) \cup UNION {ToSet(PairsFor[t]) : t \in DOMAIN PairsFor}
CLIs == {t.cli : t \in Targets}
NoTarget == [cli |-> "", model |-> ""]
NoSessions == [c \in CLIs |-> 0]
Fresh == [sessions |-> NoSessions, target |-> NoTarget]
NoRun == [target |-> NoTarget, session |-> 0, prompt |-> "", published |-> {}, channel |-> {}, outcome |-> "none", output |-> 0]
NoNode == [role |-> "actor", at |-> "idle", policy |-> "inherit", attempt |-> 0, prompt |-> "", first |-> "", sessions |-> NoSessions,
           candidates |-> <<>>, forced |-> "", chosen |-> NoTarget, target |-> NoTarget, session |-> 0, artifacts |-> {}, published |-> {}]

AgentInit ==
    /\ values = Fresh /\ upstream = NoTarget /\ node = NoNode /\ run = NoRun
    /\ quota = [t \in Targets |-> "good"] /\ opened = <<>>
    /\ headless \in BOOLEAN
    /\ budget = [nodes |-> 0, quota |-> 0, runs |-> 0, restarts |-> 0] /\ actual = NoTarget

\* latestActorTarget: what this execution of the workflow has recorded, else the result.
latestActorTarget == IF values.target # NoTarget THEN values.target ELSE upstream

\* Run, up to its first attempt: the sessions a node inherits, its prompt, and the
\* candidates of a paired reviewer; resolvePairingPlan fails when it knows no actor or no
\* pair for its target.
Begin(policy) ==
    LET inherited == IF policy = "inherit" THEN values.sessions ELSE NoSessions
        prompt == IF inherited # NoSessions THEN "followup" ELSE "task"
        paired == node.role = "reviewer"
        resolved == paired => latestActorTarget \in DOMAIN PairsFor
    IN  /\ node.at = "idle" /\ budget.nodes < MaxNodes
        /\ budget' = [budget EXCEPT !.nodes = @ + 1]
        /\ node' = [NoNode EXCEPT !.role = node.role, !.at = IF resolved THEN "selecting" ELSE "failed", !.policy = policy,
                                  !.attempt = 1, !.prompt = prompt, !.first = prompt, !.sessions = inherited,
                                  !.candidates = IF paired /\ resolved THEN PairsFor[latestActorTarget] ELSE <<>>]
        /\ UNCHANGED <<values, upstream, run, quota, opened, headless, actual>>

\* The targets of the node: those of the pairing, else those of the agent.
EffectiveTargets == IF node.candidates # <<>> THEN node.candidates ELSE AgentTargets

\* RunWithOptions: a model that was asked for needs any quota, the automatic choice enough.
Selectable(i) ==
    LET t == EffectiveTargets[i] IN
    IF node.forced # ""
    THEN /\ t.model = node.forced /\ quota[t] # "none"
         /\ \A j \in 1..i-1 : EffectiveTargets[j].model # node.forced
    ELSE quota[t] = "good" /\ \A j \in 1..i-1 : quota[EffectiveTargets[j]] # "good"

\* The run of the selected target; it resumes the session its CLI has in the map.
Start ==
    /\ node.at = "selecting" /\ budget.runs < MaxRuns
    /\ \E i \in DOMAIN EffectiveTargets :
          /\ Selectable(i)
          /\ LET t == EffectiveTargets[i] IN
             run' = [NoRun EXCEPT !.target = t, !.session = node.sessions[t.cli], !.prompt = node.prompt]
    /\ node' = [node EXCEPT !.at = "running"] /\ budget' = [budget EXCEPT !.runs = @ + 1]
    /\ UNCHANGED <<values, upstream, quota, opened, headless, actual>>

\* No target has quota: a headless run fails, another one asks the user.
NoQuota ==
    /\ node.at = "selecting" /\ ~\E i \in DOMAIN EffectiveTargets : Selectable(i)
    /\ node' = [node EXCEPT !.at = IF headless THEN "failed" ELSE "suspended"]
    /\ UNCHANGED <<values, upstream, run, quota, opened, headless, budget, actual>>

\* The reply, as ClassifyQuotaReply reads it: wait, cancel, or one of the targets, of which
\* the model is kept.
ReplyContinue ==
    /\ node.at = "suspended"
    /\ node' = [node EXCEPT !.at = "selecting"]
    /\ UNCHANGED <<values, upstream, run, quota, opened, headless, budget, actual>>
ReplyCancel ==
    /\ node.at = "suspended"
    /\ node' = [node EXCEPT !.at = "failed"]
    /\ UNCHANGED <<values, upstream, run, quota, opened, headless, budget, actual>>
ReplyTarget(t) ==
    /\ node.at = "suspended" /\ t \in ToSet(EffectiveTargets)
    /\ node' = [node EXCEPT !.at = "selecting", !.forced = t.model, !.chosen = t]
    /\ UNCHANGED <<values, upstream, run, quota, opened, headless, budget, actual>>

\* The quota of a target changes.
QuotaChanges(t, q) ==
    /\ budget.quota < MaxQuotaChanges /\ quota[t] # q
    /\ quota' = [quota EXCEPT ![t] = q] /\ budget' = [budget EXCEPT !.quota = @ + 1]
    /\ UNCHANGED <<values, upstream, node, run, opened, headless, actual>>

\* The run reports an artifact: PublishStatusUpdate puts it into the listener's channel.
Publish ==
    /\ node.at = "running" /\ run.outcome = "none" /\ run.published = {}
    /\ run' = [run EXCEPT !.published = {budget.runs}, !.channel = {budget.runs}]
    /\ node' = [node EXCEPT !.published = @ \cup {budget.runs}]
    /\ UNCHANGED <<values, upstream, quota, opened, headless, budget, actual>>

\* processUpdate.
Collect ==
    /\ node.at = "running" /\ run.channel # {}
    /\ node' = [node EXCEPT !.artifacts = @ \cup run.channel]
    /\ run' = [run EXCEPT !.channel = {}]
    /\ UNCHANGED <<values, upstream, quota, opened, headless, budget, actual>>

\* The run ends, with the session it has resumed or opened, or without one.
EndRun(outcome) ==
    /\ node.at = "running" /\ run.outcome = "none"
    /\ \/ run.session # 0 /\ run' = [run EXCEPT !.outcome = outcome, !.output = run.session] /\ UNCHANGED opened
       \/ run.session = 0 /\ run' = [run EXCEPT !.outcome = outcome, !.output = Len(opened) + 1] /\ opened' = Append(opened, run.target.cli)
       \/ outcome = "error" /\ run' = [run EXCEPT !.outcome = outcome] /\ UNCHANGED opened
    /\ UNCHANGED <<values, upstream, node, quota, headless, budget, actual>>

\* The outcome may be taken before the last updates: they are drained first.
Drained(channel) == channel

\* SessionMap.With.
With(m, cli, sid) == [m EXCEPT ![cli] = sid]

\* Mutant: the preferred target is recorded.
RecordedFirst(t) == EffectiveTargets[1]

\* recordActualTarget.
Recorded(t) == t

\* The rest of an attempt: the outcome is taken, the session and the target are recorded,
\* the required outputs are looked for.  A missing one starts the node once more, in the
\* session of the attempt with the notice alone, else with the prompt repeated.
TakeOutcome(present) ==
    LET ok == run.outcome = "ok"
        session == IF run.output # 0 THEN run.output ELSE node.session
        again == ok /\ ~present /\ node.attempt <= MaxRetries
        inSession == session # 0
    IN  /\ node.at = "running" /\ run.outcome # "none" /\ (present => ok)
        /\ values' = [sessions |-> IF run.output # 0 /\ node.policy = "inherit" THEN With(node.sessions, run.target.cli, run.output) ELSE values.sessions,
                      target |-> IF ok /\ node.role = "actor" THEN Recorded(run.target) ELSE values.target]
        /\ actual' = IF ok /\ node.role = "actor" THEN run.target ELSE actual
        /\ node' = [node EXCEPT !.artifacts = @ \cup Drained(run.channel), !.target = run.target, !.session = session,
                                !.at = IF again THEN "selecting" ELSE IF present THEN "succeeded" ELSE "failed",
                                !.attempt = IF again THEN @ + 1 ELSE @,
                                !.forced = IF again THEN "" ELSE @, !.chosen = IF again THEN NoTarget ELSE @,
                                !.sessions = IF again /\ inSession THEN With(@, run.target.cli, session) ELSE @,
                                !.prompt = IF ~again THEN @ ELSE IF inSession THEN "notice" ELSE "again " \o node.first]
        /\ run' = IF again THEN [run EXCEPT !.channel = {}] ELSE run
        /\ UNCHANGED <<upstream, quota, opened, headless, budget>>

\* The node is timed out or cancelled.
Timeout ==
    /\ node.at \in {"running", "suspended"}
    /\ node' = [node EXCEPT !.at = "failed"]
    /\ UNCHANGED <<values, upstream, run, quota, opened, headless, budget, actual>>

\* The workflow goes on: the reviewer after the actor, the actor again after the reviewer.
Continue ==
    /\ node.at = "succeeded"
    /\ upstream' = IF node.role = "actor" THEN node.target ELSE upstream
    /\ node' = [NoNode EXCEPT !.role = IF node.role = "actor" THEN "reviewer" ELSE "actor"]
    /\ run' = NoRun
    /\ UNCHANGED <<values, quota, opened, headless, budget, actual>>

\* The workflow is driven again from its snapshot: the results are there, the values not.
Restart ==
    /\ budget.restarts < MaxRestarts /\ node.at # "succeeded"
    /\ (node.role = "reviewer" \/ upstream = NoTarget)
    /\ budget' = [budget EXCEPT !.restarts = @ + 1]
    /\ values' = Fresh /\ node' = [NoNode EXCEPT !.role = node.role] /\ run' = NoRun
    /\ UNCHANGED <<upstream, quota, opened, headless, actual>>

AgentNext ==
    \/ \E p \in {"inherit", "fresh"} : Begin(p)
    \/ Start \/ NoQuota \/ ReplyContinue \/ ReplyCancel \/ Publish \/ Collect \/ Timeout \/ Continue \/ Restart
    \/ \E t \in Targets : ReplyTarget(t) \/ \E q \in {"none", "low", "good"} : QuotaChanges(t, q)
    \/ \E o \in {"ok", "error"} : EndRun(o)
    \/ \E b \in BOOLEAN : TakeOutcome(b)

AgentSpec == AgentInit /\ [][AgentNext]_nodeVars

-----------------------------------------------------------------------------
\* However the targets change with the quota, a run resumes only a session that its own CLI
\* has opened (SessionMap).
OwnSession == run.session # 0 => opened[run.session] = run.target.cli

\* A reviewer runs on a target that is paired with the one the actor has really used, not
\* with the one it was to use, also when the workflow was driven again in between
\* (resolvePairingPlan).
PairedReviewer ==
    node.role = "reviewer" /\ run.target # NoTarget => actual \in DOMAIN PairsFor /\ run.target \in ToSet(PairsFor[actual])

\* The result of a node holds every artifact its runs have reported, also what was reported
\* just before a run ended (agentRunner.Run).
ArtifactsComplete == node.at = "succeeded" => node.published \subseteq node.artifacts

\* "agentFollowUpPrompt is sent when an agent node resumes an existing CLI session": a run
\* that opens a session is given the task.
FollowUpResumes == run.prompt \in {"followup", "notice", "again followup"} => run.session # 0

\* "Use <cli> <model>" forces the chosen target (runWithQuotaDecisions).
ForcedIsChosen == node.at = "running" /\ node.chosen # NoTarget => run.target = node.chosen

-----------------------------------------------------------------------------
(***************************************************************************)
(* The nodes that run another workflow: once, or once for each line of a   *)
(* file, some of them at a time.  The workflows that run one another are   *)
(* kept in a chain, which may hold no workflow twice.                      *)
(***************************************************************************)

CONSTANTS Workflows, MaxItems, MaxParallel, maxDepth

VARIABLES
    chain,      \* the workflows that run one another, without the root
    subNode,       \* the node of the last one: where it is
    file,       \* the lines of its items file, and what becomes of its reading
    items,      \* the lines it has read
    item,       \* where the run of each item is
    results,    \* itemResults
    written,    \* the output file
    cancelled
subVars == <<chain, subNode, file, items, item, results, written, cancelled>>

Missing == -1
NotWritten == <<-1>>

SubInit ==
    /\ chain = <<>> /\ subNode = "idle"
    /\ file \in [lines : {Missing} \cup 0..MaxItems, error : {"none", "open", "read"}]
    /\ items = 0 /\ item = [i \in 1..MaxItems |-> "none"] /\ results = <<>> /\ written = NotWritten /\ cancelled = FALSE

\* The checks of Run on the chain.
MayNest(w) == w \notin ToSet(chain) /\ Len(chain) < maxDepth

\* Run of a node that names a workflow: it is refused, or the workflow is run; one of its
\* own nodes may do the same.
Nest(w) ==
    /\ subNode = "idle" /\ Len(chain) <= maxDepth
    /\ chain' = IF MayNest(w) THEN Append(chain, w) ELSE chain
    /\ subNode' = IF MayNest(w) THEN "idle" ELSE "failed"
    /\ UNCHANGED <<file, items, item, results, written, cancelled>>

\* runSingle: the sub-workflow has ended, completed or not.
RunSingle(status) ==
    /\ subNode = "idle" /\ chain # <<>>
    /\ subNode' = IF status = "completed" THEN "succeeded" ELSE "failed"
    /\ UNCHANGED <<chain, file, items, item, results, written, cancelled>>

\* runFanout, up to the runs: the items are read.  A file that cannot be opened fails the
\* node, unless it is missing or out of bounds; the scanner ends at the first error.
ReadItems ==
    /\ subNode = "idle" /\ Len(chain) = 1
    /\ IF file.lines # Missing /\ file.error = "open"
       THEN subNode' = "failed" /\ UNCHANGED <<items, written>>
       ELSE \E n \in (IF file.lines = Missing THEN {0} ELSE IF file.error = "read" THEN 0..file.lines ELSE {file.lines}) :
               /\ items' = n
               /\ subNode' = IF n = 0 THEN "succeeded" ELSE "fanout"
               /\ written' = IF n = 0 THEN <<>> ELSE written
    /\ UNCHANGED <<chain, file, item, results, cancelled>>

Running == {i \in 1..MaxItems : item[i] = "running"}
Add(i, status) == results' = Append(results, [index |-> i, status |-> status])

\* An item that could not be started is recorded as failed.
ResultRecorded(i) == Add(i, "failed")

\* The semaphore.
MayRun == Cardinality(Running) < MaxParallel

\* The goroutine of an item: it gets a place, or the node is cancelled.
StartItem(i) ==
    /\ subNode = "fanout" /\ i <= items /\ item[i] = "none" /\ MayRun /\ ~cancelled
    /\ item' = [item EXCEPT ![i] = "running"]
    /\ UNCHANGED <<chain, subNode, file, items, results, written, cancelled>>
SkipItem(i) ==
    /\ subNode = "fanout" /\ i <= items /\ item[i] = "none" /\ cancelled
    /\ item' = [item EXCEPT ![i] = "done"] /\ ResultRecorded(i)
    /\ UNCHANGED <<chain, subNode, file, items, written, cancelled>>

\* A run that has not completed fails its item, with or without an error.
ItemStatus(status) == IF status = "completed" THEN "succeeded" ELSE "failed"

\* The sub-workflow of an item has ended: with an error, or with the status of its run.
EndItem(i, status) ==
    /\ subNode = "fanout" /\ item[i] = "running"
    /\ item' = [item EXCEPT ![i] = status] /\ Add(i, ItemStatus(status))
    /\ UNCHANGED <<chain, subNode, file, items, written, cancelled>>

Cancel ==
    /\ subNode = "fanout" /\ ~cancelled /\ cancelled' = TRUE
    /\ UNCHANGED <<chain, subNode, file, items, item, results, written>>

\* The results in the order of the items.
Sorted(s) == SortSeq(s, LAMBDA a, b : a.index < b.index)

\* All goroutines have ended: the results are sorted and written; a failed item or a
\* cancellation fails the node.
EndFanout ==
    /\ subNode = "fanout" /\ \A i \in 1..items : item[i] \notin {"none", "running"}
    /\ written' = [k \in 1..Len(results) |-> Sorted(results)[k].index]
    /\ subNode' = IF cancelled \/ \E k \in 1..Len(results) : results[k].status = "failed" THEN "failed" ELSE "succeeded"
    /\ UNCHANGED <<chain, file, items, item, results, cancelled>>

SubNext ==
    \/ \E w \in Workflows : Nest(w)
    \/ \E s \in {"completed", "failed", "error"} : RunSingle(s) \/ \E i \in 1..MaxItems : EndItem(i, s)
    \/ ReadItems \/ Cancel \/ EndFanout
    \/ \E i \in 1..MaxItems : StartItem(i) \/ SkipItem(i)

SubSpec == SubInit /\ [][SubNext]_subVars

-----------------------------------------------------------------------------
\* However the items are interleaved and wherever the node is cancelled, its output has one
\* line for each item, in the order of the items (runFanout).
OutputInOrder == subNode \in {"succeeded", "failed"} /\ items > 0 => written = [k \in 1..items |-> k]

\* A node that succeeds has run each item it has read to its end, never more at a time
\* than the bound (runFanout).
SucceededRanAll ==
    /\ subNode = "succeeded" => \A i \in 1..items : item[i] = "completed"
    /\ Cardinality(Running) <= MaxParallel

\* "any other error fails the node before the output file is touched": a file that could
\* not be read to its end is not taken for a shorter one.
ReadErrorFails == subNode = "succeeded" /\ chain # <<>> /\ written # NotWritten => file.lines = Missing \/ items = file.lines
=============================================================================
