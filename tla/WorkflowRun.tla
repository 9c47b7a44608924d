---------------------------- MODULE WorkflowRun ----------------------------
(***************************************************************************)
(* One workflow run of the backend: Execute with its node workers, the     *)
(* suspension of a node for a human reply or a quota decision, the row of  *)
(* the run in the database, the user's replies and re-drives, the          *)
(* cancellation of the run and the restart of the backend.                 *)
(*                                                                         *)
(* Locks: mu guards e (with the queue of the scheduler), waitMu guards     *)
(* waiters, executing, replayPending and replayMsgs.  A step that holds    *)
(* one of them is one action; what the code does between two critical      *)
(* sections is split where another goroutine can see the difference.       *)
(***************************************************************************)
EXTENDS WorkflowEngine

CONSTANTS
    Definitions,    \* the definitions a run may have, by name
    Nodes,          \* the ids of their nodes
    Loops,          \* the ids of their loops
    Clients,        \* the requests (replies and re-drives) of the users
    Texts,          \* what a user may reply
    MaxCrashes,     \* restarts of the backend
    MaxMishaps,     \* cancellations, quota decisions and faults, together
    Resumed         \* bound: the definitions whose runs see requests and restarts

NoNode == ""
NoMsg == [node |-> NoNode, iter |-> 0, seq |-> 0]
NoWaiter == [msg |-> NoMsg, reply |-> ""]

NoStates == [n \in Nodes |-> Unsettled]
NoCounts == [n \in Nodes |-> 0]
NoIterations == [l \in Loops |-> 0]
NoMsgs == [n \in Nodes |-> NoMsg]
NoReplies == [n \in Nodes |-> ""]

EmptyLocals ==
    [results |-> NoStates, readyQueue |-> <<>>, running |-> {}, executionCount |-> NoCounts,
     loopIter |-> NoIterations, exhaustedNoFallback |-> FALSE, replaying |-> FALSE]
IdleWorker == [pc |-> "idle", result |-> Unsettled, iteration |-> 0, seq |-> 0, quota |-> FALSE]
IdleClient == [pc |-> "idle", msg |-> NoMsg, node |-> NoNode, text |-> "", snap |-> <<>>]
NoRow == [status |-> "", states |-> NoStates, loopIterations |-> NoIterations,
          executionCounts |-> NoCounts, suspendedNodes |-> NoMsgs, suspendedNode |-> NoNode]

VARIABLES
    workflow,       \* the name of the run's definition
    e,              \* the locals of Execute guarded by mu
    sched,          \* where the goroutine of Execute is
    signal,         \* a token in eventCh; further tokens only repeat a pass
    tails,          \* workers that have settled and not yet refreshed and signalled
    cancelled,      \* the context of the run is cancelled
    worker,         \* the worker of each node
    replies, reuse, \* HumanReplies and ReuseMessageIDs of the run context
    waiters,        \* waitingByRun and waitingByMsg
    executing, replayPending, replayMsgs,
    row,            \* the row of the run
    client,         \* the users' requests
    asked,          \* the messages delivered to the chat
    used,           \* how many of the bounded events have happened
    ghost           \* history: see GhostInit

locals == <<e, sched, signal, tails, cancelled, worker, replies, reuse>>
registry == <<waiters, executing, replayPending, replayMsgs>>
vars == <<workflow, locals, registry, row, client, asked, used, ghost>>

defn == Definitions[workflow]

Waiting == {n \in Nodes : waiters[n] # NoWaiter}
Suspended(r) == {n \in Nodes : r.suspendedNodes[n] # NoMsg}
MsgsOf(r) == {r.suspendedNodes[n] : n \in Suspended(r)}

\* version[n]: how often n has settled with a result of its own; saw[n]: the
\* versions the last execution of n was given; runs[n]: how often n has run in
\* this execution; kept: the nodes whose work the row holds for the execution;
\* accepted: the messages one of whose replies was put into a channel or began a
\* replay; dropped: the messages one of whose replies the guard of a live run
\* has turned away; overlap: two executions of the run met.
GhostInit ==
    [version |-> NoCounts, saw |-> [n \in Nodes |-> NoCounts], runs |-> NoCounts,
     kept |-> {}, accepted |-> {}, dropped |-> {}, overlap |-> FALSE]

Init ==
    /\ workflow \in DOMAIN Definitions
    /\ e = EmptyLocals /\ sched = "none" /\ signal = FALSE /\ tails = 0 /\ cancelled = FALSE
    /\ worker = [n \in Nodes |-> IdleWorker]
    /\ replies = NoReplies /\ reuse = NoMsgs
    /\ waiters = [n \in Nodes |-> NoWaiter]
    /\ executing = FALSE /\ replayPending = FALSE /\ replayMsgs = {}
    /\ row = NoRow
    /\ client = [c \in Clients |-> IF workflow \in Resumed THEN IdleClient
                                  ELSE [IdleClient EXCEPT !.pc = "done"]]
    /\ asked = {}
    /\ used = [crashes |-> 0, mishaps |-> 0]
    /\ ghost = GhostInit

---------------------------------------------------------------------------
(* The row of the run. *)

\* The columns of node_states have no loop iterations.
ToDBNodeStates(results) == [n \in Nodes |-> [results[n] EXCEPT !.iters = NoIters]]

StartRun == [NoRow EXCEPT !.status = "RUNNING"]

\* The settled results without those of the running and of the suspended nodes.
SnapshotStates(suspended) ==
    [n \in Nodes |-> IF n \in e.running \/ suspended[n] # NoMsg THEN Unsettled ELSE e.results[n]]
MsgsOfWaiters(ws) == [n \in Nodes |-> ws[n].msg]

MarkWaitingHuman(ws, n) ==
    [status |-> "WAITING_HUMAN", states |-> ToDBNodeStates(SnapshotStates(MsgsOfWaiters(ws))),
     loopIterations |-> e.loopIter, executionCounts |-> e.executionCount,
     suspendedNodes |-> MsgsOfWaiters(ws), suspendedNode |-> n]

\* The node last suspended stays the one of the legacy column while it waits;
\* otherwise the first of the set in the order of the ids takes its place.
CompatSuspendedNode(previous, suspended) ==
    IF previous # NoNode /\ suspended[previous] # NoMsg THEN {previous}
    ELSE {n \in Nodes : suspended[n] # NoMsg}

MarkRunning(r) == [r EXCEPT !.status = "RUNNING"]
SettleRun(r, status, results) == [r EXCEPT !.status = status, !.states = ToDBNodeStates(results)]
ResetAllRunningWorkflows(r) ==
    IF r.status = "RUNNING" THEN [r EXCEPT !.status = "FAILED"] ELSE r

---------------------------------------------------------------------------
(* The entry of Execute. *)

\* The results a snapshot gives back, without the nodes that are to be woken.
SeedNodes(snap) ==
    [n \in Nodes |-> IF snap.suspendedNodes[n] # NoMsg THEN Unsettled ELSE snap.states[n]]
SettledIn(results) == {n \in NodeSet(defn) : results[n] # Unsettled}

\* Either the seeds are replayed in the order of a map and the suspended nodes
\* are activated, or the roots are enqueued.
Seeded(seeds, snap) ==
    LET start == [EmptyLocals EXCEPT !.results = seeds, !.loopIter = snap.loopIterations,
                                     !.executionCount = snap.executionCounts]
    IN  IF SettledIn(seeds) = {}
        THEN {EnqueueRoots(defn, start)}
        ELSE {ReplaySeeds(defn, start, order, activate) :
                order \in SeedOrders(SettledIn(seeds)), activate \in SeedOrders(Suspended(snap))}

Enter(seeds, snap, given) ==
    /\ e' \in Seeded(seeds, snap)
    /\ sched' = "loop" /\ signal' = FALSE /\ cancelled' = FALSE
    /\ replies' = given /\ reuse' = snap.suspendedNodes
    /\ executing' = TRUE
    /\ ghost' = [ghost EXCEPT !.runs = NoCounts, !.kept = SettledIn(seeds)]
    /\ UNCHANGED <<tails, worker>>

\* Execute of a new run.
Start ==
    /\ row = NoRow /\ sched = "none"
    /\ row' = StartRun
    /\ Enter(NoStates, NoRow, NoReplies)
    /\ UNCHANGED <<workflow, waiters, replayPending, replayMsgs, client, asked, used>>

---------------------------------------------------------------------------
(* The scheduling loop. *)

\* One pass: what is queued is launched, and the loop ends when nothing is left.
Launch ==
    /\ sched = "loop" /\ ~cancelled
    /\ LET queued == ToSet(e.readyQueue)
           idle == e.readyQueue = <<>> /\ e.running = {}
       IN  /\ e' = [e EXCEPT !.running = @ \cup queued, !.readyQueue = <<>>,
                             !.executionCount = [n \in Nodes |->
                                IF n \in queued THEN @[n] + 1 ELSE @[n]]]
           /\ worker' = [n \in Nodes |->
                IF n \in queued
                THEN [IdleWorker EXCEPT !.pc = "launched", !.iteration = e.executionCount[n] + 1]
                ELSE worker[n]]
           /\ sched' = IF idle THEN "drain" ELSE "select"
    /\ UNCHANGED <<workflow, signal, tails, cancelled, replies, reuse, registry, row, client, asked,
                   used, ghost>>

StopLoop ==
    /\ sched = "loop" /\ cancelled
    /\ sched' = "drain"
    /\ UNCHANGED <<workflow, e, signal, tails, cancelled, worker, replies, reuse, registry, row,
                   client, asked, used, ghost>>

Wake ==
    /\ sched = "select" /\ (signal \/ cancelled)
    /\ sched' = "loop" /\ signal' = FALSE
    /\ UNCHANGED <<workflow, e, tails, cancelled, worker, replies, reuse, registry, row, client,
                   asked, used, ghost>>

\* g.Wait, the sweep, the final status and its row.
Conclude ==
    /\ sched = "drain" /\ tails = 0 /\ \A n \in Nodes : worker[n].pc = "idle"
    /\ LET swept == SweepDormantOrphans(defn, e.results)
       IN  /\ e' = [e EXCEPT !.results = swept]
           /\ row' = SettleRun(row, FinalStatus(defn, e, swept, cancelled), swept)
    /\ sched' = "settled"
    /\ UNCHANGED <<workflow, signal, tails, cancelled, worker, replies, reuse, registry, client,
                   asked, used, ghost>>

Leave ==
    /\ sched = "settled"
    /\ executing' = FALSE /\ sched' = "over"
    /\ UNCHANGED <<workflow, e, signal, tails, cancelled, worker, replies, reuse, waiters,
                   replayPending, replayMsgs, row, client, asked, used, ghost>>

---------------------------------------------------------------------------
(* The worker of a node. *)

SetWorker(n, w) == worker' = [worker EXCEPT ![n] = w]

\* The worker copies the results under mu and decides on the copy.
Begin(n) ==
    LET ready == EvaluateNodeReadiness(defn, n, e.results)
        ran == [ghost EXCEPT !.runs[n] = @ + 1, !.saw[n] = ghost.version]
    IN  /\ worker[n].pc = "launched"
        /\ SetWorker(n, [worker[n] EXCEPT
                !.pc = CASE ready # "run" -> "skip"
                         [] defn.spec[n].type = "human" -> "ask"
                         [] OTHER -> "work",
                !.result = IF ready = "run" THEN Unsettled ELSE Skipped(ready)])
        /\ ghost' = IF ready = "run" THEN ran ELSE ghost
        /\ UNCHANGED <<workflow, e, sched, signal, tails, cancelled, replies, reuse, registry, row,
                       client, asked, used>>

\* The result is stored and the dependents are evaluated, under mu.
Store(n, result) ==
    e' = EvaluateDownstream(defn, [e EXCEPT !.results[n] = result, !.running = @ \ {n}], n)

\* Mutant: a worker that skips its node does not wake the scheduler.
SettleSkippedSilently(n) ==
    /\ worker[n].pc = "skip"
    /\ Store(n, worker[n].result)
    /\ SetWorker(n, IdleWorker)
    /\ signal' = signal
    /\ UNCHANGED <<workflow, sched, tails, cancelled, replies, reuse, registry, row, client, asked,
                   used, ghost>>

\* A worker that finds its node is to be skipped.
SettleSkipped(n) ==
    /\ worker[n].pc = "skip"
    /\ Store(n, worker[n].result)
    /\ SetWorker(n, IdleWorker)
    /\ signal' = TRUE
    /\ UNCHANGED <<workflow, sched, tails, cancelled, replies, reuse, registry, row, client, asked,
                   used, ghost>>

\* The counters of the loops the node belongs to, as they are when it settles.
SnapshotNodeLoops(n) ==
    LET ids == {l \in LoopIds(defn) : n \in LoopOf(defn, l).nodes}
    IN  IF ids = {} THEN NoIters ELSE [l \in ids |-> e.loopIter[l]]

\* normalizeResult of what a runner may return, and of a human's reply.
Outcome(status, exit, out) == Result(status, "", exit, out, NoIters)
Outcomes == {Outcome("SUCCEEDED", 0, ""), Outcome("FAILED", 1, "")}

Finish(n) ==
    /\ \/ worker[n].pc = "work" /\ \E r \in Outcomes : Store(n, [r EXCEPT !.iters = SnapshotNodeLoops(n)])
       \/ worker[n].pc = "settle" /\ Store(n, [worker[n].result EXCEPT !.iters = SnapshotNodeLoops(n)])
    /\ SetWorker(n, IdleWorker)
    /\ tails' = tails + 1
    /\ ghost' = [ghost EXCEPT !.version[n] = @ + 1]
    /\ UNCHANGED <<workflow, sched, signal, cancelled, replies, reuse, registry, row, client, asked,
                   used>>

\* The suspension of the nodes that still wait is refreshed, then eventCh.
Refresh ==
    /\ tails > 0
    /\ tails' = tails - 1 /\ signal' = TRUE
    /\ IF Waiting = {}
       THEN row' = row
       ELSE LET suspended == MsgsOfWaiters(waiters)
            IN  \E n \in CompatSuspendedNode(row.suspendedNode, suspended) :
                row' = [row EXCEPT !.states = ToDBNodeStates(SnapshotStates(suspended)),
                                   !.loopIterations = e.loopIter,
                                   !.executionCounts = e.executionCount,
                                   !.suspendedNodes = suspended, !.suspendedNode = n]
    /\ UNCHANGED <<workflow, e, sched, cancelled, worker, replies, reuse, registry, client, asked,
                   used, ghost>>

---------------------------------------------------------------------------
(* The suspension of a node. *)

\* An agent whose targets have no quota asks for a decision.
SuspendQuota(n) ==
    /\ worker[n].pc = "work" /\ defn.spec[n].type = "agent" /\ used.mishaps < MaxMishaps
    /\ SetWorker(n, [worker[n] EXCEPT !.pc = "ask", !.quota = TRUE, !.seq = @ + 1])
    /\ used' = [used EXCEPT !.mishaps = @ + 1]
    /\ UNCHANGED <<workflow, e, sched, signal, tails, cancelled, replies, reuse, registry, row, client,
                   asked, ghost>>

\* What follows a reply: the human node settles with it, the agent goes on.
Answered(w, text) ==
    IF w.quota THEN [w EXCEPT !.pc = "work"]
    ELSE [w EXCEPT !.pc = "settle", !.result = Outcome("SUCCEEDED", 0, text)]

\* A reply of the run context is taken instead of asking.
TakeHumanReply(n) ==
    /\ worker[n].pc = "ask" /\ replies[n] # ""
    /\ replies' = [replies EXCEPT ![n] = ""]
    /\ SetWorker(n, Answered(worker[n], replies[n]))
    /\ UNCHANGED <<workflow, e, sched, signal, tails, cancelled, reuse, registry, row, client, asked,
                   used, ghost>>

\* The first suspension after a restart keeps the message of the one before.
MessageID(n) ==
    IF reuse[n] # NoMsg THEN reuse[n]
    ELSE [node |-> n, iter |-> worker[n].iteration, seq |-> worker[n].seq]

\* Under waitMu: the waiter, the row, and the end of a pending replay.
Register(n) ==
    LET ws == [waiters EXCEPT ![n] = [msg |-> MessageID(n), reply |-> ""]]
    IN  /\ worker[n].pc = "ask" /\ replies[n] = ""
        /\ waiters' = ws
        /\ reuse' = [reuse EXCEPT ![n] = NoMsg]
        /\ row' = MarkWaitingHuman(ws, n)
        /\ replayPending' = FALSE
        /\ replayMsgs' = IF replayPending THEN {} ELSE replayMsgs
        /\ SetWorker(n, [worker[n] EXCEPT !.pc = "deliver"])
        /\ UNCHANGED <<workflow, e, sched, signal, tails, cancelled, replies, executing, client, asked,
                       used, ghost>>

\* The question reaches the chat; when it cannot be delivered the node fails.
DeliverSuspension(n) ==
    /\ worker[n].pc = "deliver"
    /\ \/ /\ asked' = asked \cup {waiters[n].msg}
          /\ SetWorker(n, [worker[n] EXCEPT !.pc = "wait"])
          /\ used' = used
       \/ /\ used.mishaps < MaxMishaps
          /\ used' = [used EXCEPT !.mishaps = @ + 1]
          /\ SetWorker(n, [worker[n] EXCEPT !.pc = "unregister", !.result = Outcome("FAILED", 0, "")])
          /\ asked' = asked
    /\ UNCHANGED <<workflow, e, sched, signal, tails, cancelled, replies, reuse, registry, row, client,
                   ghost>>

\* The reply is taken from the channel; whether the row is to be marked running
\* is decided under waitMu, and written after it.
Receive(n) ==
    /\ worker[n].pc = "wait" /\ waiters[n].reply # ""
    /\ SetWorker(n, [worker[n] EXCEPT
            !.pc = IF Cardinality(Waiting) <= 1 THEN "mark" ELSE "unregister",
            !.result = Outcome("SUCCEEDED", 0, waiters[n].reply)])
    /\ UNCHANGED <<workflow, e, sched, signal, tails, cancelled, replies, reuse, registry, row, client,
                   asked, used, ghost>>

MarkResumed(n) ==
    /\ worker[n].pc = "mark"
    /\ row' = MarkRunning(row)
    /\ SetWorker(n, [worker[n] EXCEPT !.pc = "unregister"])
    /\ UNCHANGED <<workflow, e, sched, signal, tails, cancelled, replies, reuse, registry, client,
                   asked, used, ghost>>

CancelWait(n) ==
    /\ worker[n].pc = "wait" /\ cancelled
    /\ SetWorker(n, [worker[n] EXCEPT !.pc = "unregister", !.result = Outcome("FAILED", 0, "")])
    /\ UNCHANGED <<workflow, e, sched, signal, tails, cancelled, replies, reuse, registry, row, client,
                   asked, used, ghost>>

\* The deferred removal of the waiter.  An agent goes on after a decision, and
\* fails without one.
Unregister(n) ==
    LET w == worker[n]
    IN  /\ w.pc = "unregister"
        /\ waiters' = [waiters EXCEPT ![n] = NoWaiter]
        /\ SetWorker(n, IF w.result.status = "SUCCEEDED" THEN Answered(w, w.result.out)
                        ELSE [w EXCEPT !.pc = "settle"])
        /\ UNCHANGED <<workflow, e, sched, signal, tails, cancelled, replies, reuse, executing,
                       replayPending, replayMsgs, row, client, asked, used, ghost>>

---------------------------------------------------------------------------
(* Cancellation and restart. *)

CancelRun ==
    /\ executing /\ ~cancelled /\ used.mishaps < MaxMishaps
    /\ cancelled' = TRUE
    /\ used' = [used EXCEPT !.mishaps = @ + 1]
    /\ UNCHANGED <<workflow, e, sched, signal, tails, worker, replies, reuse, registry, row, client,
                   asked, ghost>>

\* The backend stops and starts again: memory is lost, the row stays.
Crash ==
    /\ used.crashes < MaxCrashes /\ workflow \in Resumed /\ row # NoRow
    /\ used' = [used EXCEPT !.crashes = @ + 1]
    /\ row' = ResetAllRunningWorkflows(row)
    /\ e' = EmptyLocals /\ sched' = "none" /\ signal' = FALSE /\ tails' = 0 /\ cancelled' = FALSE
    /\ worker' = [n \in Nodes |-> IdleWorker]
    /\ replies' = NoReplies /\ reuse' = NoMsgs
    /\ waiters' = [n \in Nodes |-> NoWaiter]
    /\ executing' = FALSE /\ replayPending' = FALSE /\ replayMsgs' = {}
    /\ client' = [c \in Clients |-> IF client[c].pc = "idle" THEN IdleClient
                                    ELSE [IdleClient EXCEPT !.pc = "done"]]
    /\ UNCHANGED <<workflow, asked, ghost>>

---------------------------------------------------------------------------
(* A reply: tryResumeWorkflow, ResumeByMessageID, waitForReplayAndDeliver. *)

SetClient(c, v) == client' = [client EXCEPT ![c] = v]
Goto(c, pc) == SetClient(c, [client[c] EXCEPT !.pc = pc])
Done(c) == SetClient(c, [IdleClient EXCEPT !.pc = "done"])
clientOnly == <<workflow, locals, registry, row, asked, used, ghost>>

RowWaitsFor(m) == row.status = "WAITING_HUMAN" /\ m \in MsgsOf(row)
LiveMessage(m) == \E n \in Nodes : waiters[n].msg = m
HasActiveOrReplayMessage(m) == LiveMessage(m) \/ (replayPending /\ m \in replayMsgs)

\* A reply for a message nobody waits for goes to the only one that is waited
\* for, if there is just one.
Target(m) ==
    IF RowWaitsFor(m) \/ HasActiveOrReplayMessage(m) THEN {m}
    ELSE IF row.status = "WAITING_HUMAN" /\ Cardinality(Suspended(row)) = 1 THEN MsgsOf(row)
    ELSE {NoMsg}

TryResumeWorkflow(c) ==
    /\ client[c].pc = "idle"
    /\ \E m \in asked, text \in Texts : \E t \in Target(m) :
        IF t = NoMsg THEN Done(c)
        ELSE SetClient(c, [client[c] EXCEPT !.pc = "reply", !.msg = t, !.text = text])
    /\ UNCHANGED clientOnly

\* The node whose waiter can take the client's reply: its channel holds one.
Reachable(c) == {n \in Nodes : waiters[n].msg = client[c].msg /\ waiters[n].reply = ""}
Accept(c) == ghost' = [ghost EXCEPT !.accepted = @ \cup {client[c].msg}]
PutReply(c) ==
    /\ \E n \in Reachable(c) : waiters' = [waiters EXCEPT ![n].reply = client[c].text]
    /\ Accept(c)

DeliverResumeByMessageID(c) ==
    /\ client[c].pc = "reply"
    /\ IF Reachable(c) # {}
       THEN PutReply(c) /\ Done(c)
       ELSE Goto(c, "guard1") /\ UNCHANGED <<waiters, ghost>>
    /\ UNCHANGED <<workflow, locals, executing, replayPending, replayMsgs, row, asked, used>>

Guard1(c) ==
    /\ client[c].pc = "guard1"
    /\ Goto(c, IF replayPending /\ client[c].msg \in replayMsgs THEN "poll" ELSE "lookup")
    /\ UNCHANGED clientOnly

\* The reply waits for the waiter of a replay, for its end, or thirty seconds.
WaitForReplayAndDeliver(c) ==
    /\ client[c].pc \in {"poll", "poll2"}
    /\ \/ Reachable(c) # {} /\ PutReply(c) /\ Done(c)
       \/ /\ Reachable(c) = {} /\ ~replayPending
          /\ Goto(c, IF client[c].pc = "poll" THEN "lookup" ELSE "reload")
          /\ UNCHANGED <<waiters, ghost>>
       \/ replayPending /\ Done(c) /\ UNCHANGED <<waiters, ghost>>
    /\ UNCHANGED <<workflow, locals, executing, replayPending, replayMsgs, row, asked, used>>

FindWaitingHumanByMessageID(c) ==
    LET m == client[c].msg
        node == CHOOSE n \in Nodes : row.suspendedNodes[n] = m
        next == IF client[c].pc = "lookup" THEN "guard2" ELSE "guard3"
    IN  /\ client[c].pc \in {"lookup", "reload"}
        /\ IF RowWaitsFor(m)
           THEN SetClient(c, [client[c] EXCEPT !.pc = next, !.snap = row, !.node = node])
           ELSE Done(c)
        /\ UNCHANGED clientOnly

\* Under waitMu: a run that replays is waited for (once), a live one turns the
\* reply away, and otherwise the replay begins.
Guard2(c) ==
    /\ client[c].pc \in {"guard2", "guard3"}
    /\ IF client[c].pc = "guard2" /\ replayPending
       THEN Goto(c, "poll2") /\ UNCHANGED <<replayPending, replayMsgs, ghost>>
       ELSE IF executing \/ Waiting # {}
       THEN /\ Done(c)
            /\ ghost' = [ghost EXCEPT !.dropped = @ \cup {client[c].msg}]
            /\ UNCHANGED <<replayPending, replayMsgs>>
       ELSE /\ Goto(c, "resume")
            /\ replayPending' = TRUE /\ replayMsgs' = replayMsgs \cup MsgsOf(client[c].snap)
            /\ Accept(c)
    /\ UNCHANGED <<workflow, locals, waiters, executing, row, asked, used>>

\* The answered node gets the reply of the client; a re-drive has none.
GivenReplies(c) ==
    [n \in Nodes |-> IF n = client[c].node THEN client[c].text ELSE ""]

MarkRedriven(c) ==
    /\ client[c].pc \in {"resume", "redriving"}
    /\ row' = MarkRunning(row)
    /\ Goto(c, IF client[c].pc = "resume" THEN "execute" ELSE "reexecute")
    /\ UNCHANGED <<workflow, locals, registry, asked, used, ghost>>

\* What a re-drive keeps of the snapshot: success and a false condition.
KeptSeeds(seeds) ==
    [n \in Nodes |->
        IF \/ seeds[n].status = "SUCCEEDED"
           \/ seeds[n].status = "SKIPPED" /\ seeds[n].reason = "condition_false"
        THEN seeds[n] ELSE Unsettled]

\* Execute is entered, or fails before anything runs (the chat's runner is
\* offline, its directory is gone).
Drive(c) ==
    LET snap == client[c].snap
        seeds == IF client[c].pc = "execute" THEN SeedNodes(snap) ELSE KeptSeeds(SeedNodes(snap))
    IN  /\ client[c].pc \in {"execute", "reexecute"}
        /\ IF executing
           THEN /\ ghost' = [ghost EXCEPT !.overlap = TRUE] /\ Goto(c, "stuck")
                /\ UNCHANGED <<locals, executing>>
           ELSE Enter(seeds, snap, GivenReplies(c)) /\ Goto(c, "driving")
        /\ UNCHANGED <<workflow, waiters, replayPending, replayMsgs, row, asked, used>>

DriveFails(c) ==
    /\ client[c].pc \in {"execute", "reexecute"} /\ used.mishaps < MaxMishaps
    /\ used' = [used EXCEPT !.mishaps = @ + 1]
    /\ Goto(c, "return")
    /\ UNCHANGED <<workflow, locals, registry, row, asked, ghost>>

\* The deferred end of the replay, after Execute has returned.
Return(c) ==
    /\ \/ client[c].pc = "driving" /\ sched = "over"
       \/ client[c].pc = "return"
    /\ replayPending' = FALSE
    /\ replayMsgs' = replayMsgs \ MsgsOf(client[c].snap)
    /\ Done(c)
    /\ UNCHANGED <<workflow, locals, waiters, executing, row, asked, used, ghost>>

---------------------------------------------------------------------------
(* A re-drive: handleWorkflowRedrive and RedriveFailed. *)

RedriveFailed(c) ==
    /\ client[c].pc = "idle" /\ row.status = "FAILED"
    /\ ~(executing /\ Waiting = {})
    /\ SetClient(c, [client[c] EXCEPT !.pc = "busy", !.snap = row])
    /\ UNCHANGED clientOnly

\* Mutant: a re-drive that is about to execute does not count.
BusyGuardExecuting(c) ==
    /\ client[c].pc = "busy"
    /\ IF executing \/ Waiting # {}
       THEN Done(c) /\ replayPending' = replayPending
       ELSE Goto(c, "redriving") /\ replayPending' = TRUE
    /\ UNCHANGED <<workflow, locals, waiters, executing, replayMsgs, row, asked, used, ghost>>

\* Under waitMu: one execution or replay of the run at a time.
BusyGuard(c) ==
    /\ client[c].pc = "busy"
    /\ IF executing \/ replayPending \/ Waiting # {}
       THEN Done(c) /\ replayPending' = replayPending
       ELSE Goto(c, "redriving") /\ replayPending' = TRUE
    /\ UNCHANGED <<workflow, locals, waiters, executing, replayMsgs, row, asked, used, ghost>>

---------------------------------------------------------------------------
WorkerStep(n) ==
    \/ Begin(n) \/ SettleSkipped(n) \/ Finish(n) \/ TakeHumanReply(n) \/ Register(n)
    \/ DeliverSuspension(n) \/ Receive(n) \/ MarkResumed(n) \/ CancelWait(n) \/ Unregister(n)
ClientStep(c) ==
    \/ DeliverResumeByMessageID(c) \/ Guard1(c) \/ WaitForReplayAndDeliver(c)
    \/ FindWaitingHumanByMessageID(c) \/ Guard2(c) \/ MarkRedriven(c) \/ Drive(c) \/ Return(c)
    \/ BusyGuard(c)
Engine == Launch \/ StopLoop \/ Wake \/ Conclude \/ Leave \/ Refresh

\* The run has ended, or waits for a reply nobody is left to give.
Quiet ==
    /\ \A c \in Clients : client[c].pc \in {"idle", "done", "driving", "stuck"}
    /\ sched \in {"none", "over", "select"} /\ tails = 0 /\ ~(sched = "select" /\ signal)
    /\ \A n \in Nodes : worker[n].pc \in {"idle", "wait"} /\ waiters[n].reply = ""
Rest == Quiet /\ UNCHANGED vars

Next ==
    \/ Start \/ Engine \/ CancelRun \/ Crash
    \/ \E n \in Nodes : WorkerStep(n) \/ SuspendQuota(n)
    \/ \E c \in Clients : ClientStep(c) \/ DriveFails(c) \/ TryResumeWorkflow(c) \/ RedriveFailed(c)
    \/ Rest

\* The goroutines of a run are scheduled: as long as one of them can go on, one
\* of them does.  Users, cancellation, crashes and faults need not happen.
Progress == Start \/ Engine \/ \E n \in Nodes : WorkerStep(n)
Fairness == WF_vars(Progress)

Spec == Init /\ [][Next]_vars
FairSpec == Spec /\ Fairness

---------------------------------------------------------------------------
(* Properties. *)

Fresh == ghost.kept = {} /\ used.crashes = 0
Ended == sched \in {"settled", "over"}
LoopFree == defn.loops = <<>>
EndsGreen == Ended /\ row.status = "COMPLETED" /\ Fresh

TypeOK ==
    /\ workflow \in DOMAIN Definitions /\ e.running \subseteq Nodes /\ ToSet(e.readyQueue) \subseteq Nodes
    /\ \A n \in Nodes : worker[n].pc # "idle" => n \in e.running
    /\ sched \in {"none", "loop", "select", "drain", "settled", "over"}
    /\ tails \in 0 .. Cardinality(Nodes) /\ Waiting \subseteq e.running
    /\ row.status \in {"", "RUNNING", "WAITING_HUMAN", "COMPLETED", "FAILED", "CANCELLED"}

\* A node that waits for all its parents works on what they last produced: in a
\* run that completes, the last execution of a node that does not join always
\* and has no conditional edge was given the final result of each parent,
\* however the workers interleave and however often loops run them again
\* (engine.go, the snapshot of the worker and evaluateDownstream).
WaitsForAll(n) == defn.spec[n].join # "always" /\ Conditional(defn, n) = <<>>
FreshInputs ==
    EndsGreen =>
        \A n \in NodeSet(defn) : e.results[n].status = "SUCCEEDED" /\ WaitsForAll(n) =>
            \A dep \in ToSet(Depends(defn, n)) : ghost.saw[n][dep.node] = ghost.version[dep.node]

\* A node that failed last is handled: a successor on a condition of it
\* succeeded, and was given that very failure.
FreshlyHandled(n) ==
    \E m \in NodeSet(defn) :
        /\ \E dep \in ToSet(Conditional(defn, m)) : dep.node = n
        /\ e.results[m].status = "SUCCEEDED" /\ ghost.saw[m][n] = ghost.version[n]

\* A failure is never absorbed by an old success: when the successors on a
\* condition of a node have no other edges, a run that completes has handled
\* its last failure (settleGlobalStatus, and the skip of evaluateDownstream).
FailClosed ==
    EndsGreen =>
        \A n \in NodeSet(defn) :
            /\ e.results[n].status = "FAILED"
            /\ \A m \in NodeSet(defn) : Unconditional(defn, m) # <<>> =>
                    \A dep \in ToSet(Conditional(defn, m)) : dep.node # n
            => FreshlyHandled(n)

\* The same of every node: a run completes only if each node that failed last
\* was absorbed by a when-branch downstream of the failure.
FailureAbsorbed == EndsGreen => \A n \in NodeSet(defn) : e.results[n].status = "FAILED" => FreshlyHandled(n)

\* No trigger is lost: an execution that settles FAILED has a node that failed
\* in it, or has breached a loop (the scheduling loop and its queue,
\* settleGlobalStatus); it never fails because a node was forgotten.
NoPhantomFailure ==
    Ended /\ row.status = "FAILED" /\ ~e.exhaustedNoFallback =>
        \E n \in NodeSet(defn) : e.results[n].status = "FAILED"

\* The circuit breaker holds: a node that a counting edge of a top-level loop
\* re-enters runs at most once more than the loop allows (admitViaEdge).
LoopBudget ==
    \A n \in NodeSet(defn) : \A dep \in ToSet(Depends(defn, n)) :
        dep.counts # "" /\ LoopOf(defn, dep.counts).parent = "" =>
            ghost.runs[n] <= LoopOf(defn, dep.counts).max + 1

\* A run is driven by one execution at a time (the guards of ResumeByMessageID
\* and RedriveFailed).
NoOverlap == ~ghost.overlap

\* The row a restart would read is complete: when the run is still and nodes
\* wait, the row lists exactly their messages and every settled result
\* (MarkWaitingHuman, RefreshSuspension).
SnapshotComplete ==
    Quiet /\ Waiting # {} =>
        /\ row.suspendedNodes = MsgsOfWaiters(waiters)
        /\ \A n \in Nodes \ Waiting : row.states[n] = ToDBNodeStates(e.results)[n]
        /\ row.loopIterations = e.loopIter

\* A restored run of a definition without loops does not redo the work its row
\* holds (the guard on settled nodes in admitViaEdge during the replay).
ResumeKeepsWork == LoopFree /\ executing => \A n \in ghost.kept : ghost.runs[n] = 0

\* A run whose nodes wait is found by a reply after a restart.
WaitingIsPersisted == Quiet /\ Waiting # {} => row.status = "WAITING_HUMAN"

\* A reply is turned away as late or duplicate only when another reply for the
\* same message was accepted.
OnlyLateRepliesIgnored == ghost.dropped \subseteq ghost.accepted

\* The goroutines of a run never wait for each other: every execution ends, or
\* comes to wait for its user or for a restart (the tokens of eventCh, the loop
\* and g.Wait).
Terminates == (sched = "loop") ~> (sched \in {"over", "none"} \/ Waiting # {})

=============================================================================
