# A TLA+ verification of asgard

asgard runs coding agents for many users: a **backend** (Go, `backend/`) keeps
chats, workflows and the registry of **runners**; a runner (Go, `runner/`) is a
process on some machine that executes agents in sandboxes and holds one control
stream to the backend. This directory holds TLA+ modules that model the parts of
that system whose correctness depends on the order of concurrent steps or on an
algorithm that is easy to get wrong, the TLC configurations that check them on
small instances, and TLAPS proofs of the properties that matter most.

`PROJECT.json` is the machine-readable index: components, runs, mutants (for each
property a plausible bug in the code that TLC then catches), the map from
definitions to source lines, hazards, findings and theorems.

## 1. Inventory

The parts that carry the program's logic, the state each keeps, what happens to
it, and what makes it correct. `PROJECT.json` lists every component with its files,
and says of each how much of it is modelled.

| Component | State | Operations | What makes it correct |
|---|---|---|---|
| Directory lock manager, `dirlock` | `holders`, FIFO `waiters` | `Acquire` (re-entry, free, wait), grant pass, release, cancellation, `UnlockIdle`, `ForceReleaseChat` | no two chats of a runner in overlapping directories unless both read; no waiter forgotten, overtaken or starved; `activeRuns` exact |
| Runner hub, `runnerhub` | per node: connection, boot id, unacked queue, highest seq; tracked runs; finalized runs | `Dispatch`, `Cancel`, `register`, write loop, `handleUpstream`, `applyResult`, `detach` | every run gets one outcome, the true one; replay neither loses nor duplicates; lost means gone |
| Runner's connection, run table and executor, `runner/lib/conn`, `runs`, `exec` | unacked queue with a limit, last backend seq, seen boot id, active runs | reconnect loop, `Register`, read and write loops, heartbeat, `StartRun`, `CancelRun`, results | a run starts at most once; orphans are stopped; a full queue blocks and does not drop |
| Execution guard, queue and parks, `api` | `activeExecutions`, `queueParks`, queued messages | triggers, enqueue, withdraw, stop, consumer, drain, `RunnerOnline`, recovery at boot | one agent of a chat at a time; messages in order, at most once; none forgotten when the runner is there |
| Dispatcher, `agents/dispatch` | the caller's side of a run | `Remote.Run` | returns when the agent is gone |
| Workflow engine, `workflow` | node states, edges, loop counters, row of the run | readiness, joins, skips, loops, settlement, cancellation, suspension, replies, replay, re-drive | nodes work on their last inputs; a run settles truly and always; a resumed run keeps its work |
| Workflow nodes | CLI sessions, targets, items | attempts, quota, pairing, fan-out | sessions of their own CLI only; a reviewer that is not the actor; no item lost |
| Workflow transcript and run files, `api`, `dbmodels` | bubbles, row, files | events, answers, saves, reads | an answer reaches its asker; a row names files that are there |
| Session row, ask-user, events, peer calls, callbacks | row, questions, ring buffers, chains, waiters | read-modify-write, ask and reply, publish and subscribe, enter and leave, retry | no lost update; a reply reaches its asker; no gap; chains stay linear; one execution per call |
| Cleanup, agent definitions, settings, start and end of the server | records, directories, served lists, files, listeners | passes, changes, saves, `New` and `Stop` | a record outlives its files; what was set is in force; nothing is left open |
| Sign-in, `auth` | verifier, pending logins, pictures | verification, login, fetch | an outage logs nobody out; a login ends where it began |
| Runner services, files, git, sandbox | caches, streams, processes, inodes, refs, mounts | requests, commands, terminals, transfers, listings, pushes, diffs, apply | carried out once; output whole; nothing outside the chat's paths; what is told is what was done |
| Built-in agent (`simplest`), wrapper of command line agents, notebook plugin | session file, turns, streams, instruction file, accounts, processed files | prompts, tools, requests, takeover, relay, scan | turns kept and balanced; edits land; the owner gets his file back |

Interactions. An HTTP handler takes the *guard* of a chat and runs the single-agent
executor, which takes the *directory lock* and calls the *dispatcher*; the
dispatcher calls `Hub.Dispatch`, and the hub's write loop sends a `StartRun` on the
runner's *control stream*. Output and result come back on the same stream and are
delivered to the dispatcher's channel. When a node registers, the hub notifies the
server (`OnNodeOnline`), which restarts the queues of its chats. Releasing a guard
starts a drain that may start the next consumer. Agents call back into the backend
(call-peer, ask-user) inside the guard of the chat that started them. A workflow
runs its nodes through the same dispatcher; its events claim and release the guard.

What is hard here: the guard, the parks and the queue are three stores without a
common lock; sessions break at any moment and each side notices on its own; either
process may crash between any two steps; a Register is processed by a goroutine
that may be overtaken; a stop or a cancelled context races everything; rows and
files are written one after the other. The `hazards` in `PROJECT.json` list these
places with their lines and the properties aimed at them.

## 2. Modules

### The core

**`DirLock`** (with `MCDirLock`). `Manager.mu` makes every section of `dirlock.go`
atomic, so each action is one critical section. `holders` is the map of the same
name (a chat without a lock has the value `Free`); `call` holds the invocations of
`Acquire` (waiting, ready: the channel is closed but the goroutine has not run,
held); the FIFO list is `ahead`, which gives for each waiting call those before it.
The list is only ever appended to and filtered, so this is the same information
without sequences, and the proofs need no induction. The grant pass is a loop that
merges each granted waiter into the locks and tests the next one against the result
and against the waiters it kept. The module states what the loop computes:
`IsGrantPass(hs, ws, G)` holds of exactly one set `G`; `GrantPassIsLoop` checks that
this is the loop's result. `torn` is a history variable for `ForceReleaseChat`,
which the session handler uses with runs still alive: the exclusion of *runs* (not
of locks) is given up for that chat on purpose. `ParallelEntry` says whether a chat
may request while an earlier request of it waits. Today it may not: the guard
admits one execution per chat and `enterPeerCall` makes nested agents a chain.

**`RunnerLink`** and **`RunContract`**. One node, both processes, the sessions between
them. `sess[s]` holds both ends of a connection: what is on the wire, what each
writer has sent, the handshake, and the message the backend is handling (`hnd`),
because `handleUpstream` drops the lock between applying a message and recording its
seq. A queue or stream is a set of messages with distinct sequence numbers, and
writers send the smallest one not yet sent; acks are cumulative so only the latest
is kept. `handle` on the runner is one step, as a run has a serial worker.
`RunnerCrash` and `BackendCrash` lose the memory of a process and keep the table of
finalized runs. RunEvents travel like output chunks and are not told apart.
`RegisterRace` says whether a Register may be processed after its session is gone or
after that of a later session. The code allows it (the store lookup in `register`
comes before the lock), and some properties do not survive it: finding 1.
`RunContract` has two variables, the caller's view and the agent's fate: an agent
starts at most once, a result is that of a finished agent, a run is reported lost
only when no agent is or will be there. `KeepsContract` is the refinement; the
mapping keeps the caller's outcome and abstracts the run table (`agentState`).

**`ChatQueue`** (with `MCChatQueue`). One chat bound to one runner whose current agent
is a single agent. Every access to the guard, the park or the queue is a step.
`exec` holds the executions from the moment they take the guard; `gor` counts the
other goroutines by the step they are about to take (they are interchangeable),
`loaded` the drains that hold a soft park they read. Message numbers give the order
in which they were sent; the queue is a set and its head the smallest, because
`RequeueFront` puts a message back before the others. `attempt` is what happened to
the latest dispatch of a message. `stage` follows the boot: the hub accepts runners
before the server is published, so an online notification may find no server, and
`ResumeQueuesOfOnlineRunners` exists for that. Left out: `UpdateQueuedMessage` (edits
text), the stop marker and the notices in the transcript, reads of the session row
(assumed to succeed). The load and the cancel in the stop handler are one step: the
handle is a pointer, and cancelling an execution that has ended has no effect. A
synchronous execution is cancelled by the end of its caller's own run as well
(`CallerEnds`): an agent that called a peer and is gone wants no answer
(`message_trigger_handler.go:337`). `Shutdown` ends the context of all executions and of
those that are still to begin, while handlers and goroutines of the process go on;
`Restart` may come at any moment, with or without it.

**`WorkflowEngine`** and **`WorkflowRun`** (with `MCWorkflow`, `MCWorkflowDefinitions`).
`WorkflowEngine` is the pure part: what `Execute` computes under its lock when a node
settles, when a restored run replays its seeds and when the run ends, as operators on
one record `e` of its locals. `WorkflowRun` adds the scheduler with its bounded
queue, node workers, suspension, the run's row, replies, re-drives, cancellation and
restarts. Definitions are the repository's examples and those of the engine's tests.

### Services of the backend, work, runner

| Module | Parts and what they model |
|---|---|
| `EventHub` | `SessionEventHub`: topics with their ring, subscribers with their channel, the collection of idle topics between lookup and publication, a browser that reconnects with an id, with 0 or without one. `from` and `at` are history variables: where a browser's view and its connection begin |
| `AgentCalls` | *callbacks*: calls repeated over lost connections under one sequence number, the kept outcomes, ask-user waiters; *peers*: the chain of call-peer |
| `ChatSession` | *row*: transactions of several writers on the session's row; *ask*: quota questions, replies, their retirement after a restart, flag and transcript |
| `Cleanup` | a pass over idle sessions, batches per runner, the sweep of orphans |
| `SignIn` | *auth*: discovery under the context of a request, verification through an outage, refresh; *login*: pending logins and their cookies; *avatar*: fetches, image and sidecar |
| `AgentStore`, `AppLifecycle` | definitions from etcd and the jobs made of them; `New`, `Run`, `Stop` with the listeners, and configurations whose proxy rules are empty or whose runner section is not valid |
| `Settings` | *key bindings*, a file whose saves are merged; *proxy rules*, a file that is replaced, or written in place when it is mounted or there is no room for another, and reloaded |
| `SimplestAgent` | *agent*: turns, tools, compaction and cancellation of the built-in agent, with a stream that closes without an event; *session*: its append-only file, shared by processes |
| `Provider` | *request*: a conversation as a request of three APIs, with reasoning that is signed, unsigned or redacted; *stream*: fragments as blocks, labelled by index, by id, by both, by one and then the other, or by neither |
| `WorkflowNodes` | *agent nodes*: targets, quota, sessions, pairing, artifacts; *sub-workflows*: fan-out with a bound |
| `WorkflowTranscript` | *chat*: events of a run as bubbles, answers and the chat's guard; *files*: row and files of a run, written one after the other |
| `Definition` | the checks of a definition, each step of each walk: cycles, loops, pairings |
| `Notebook` | *notes*: processed files over overlapping and killed runs; *pid lock* of the scan, with numbers of processes that are used again |
| `CliRuns` | *takeover* of the instruction file, which the owner has, has read-only or does not have; *stream* of a command line agent's events, its exit and a cancellation before or after it |
| `Accounts` | *quota*: shared answers and the choice; *relay* of a session between accounts |
| `RunnerServices` | *requests* and their cache; *commands* with stream, grace time and resumption; *terminals* |
| `RunnerFiles`, `ScopedPaths` | *transfers*, *listings* and searches; the resolution of a chat's paths in three places |
| `GitTree` | *push* and the ref it records; *diff* of head, index and work tree |
| `RunnerSandbox`, `SandboxMounts` | *sandbox* applying revisions, *remote configuration*; the order of mounts |
| `AgentTools` | *edit*, *diff text* (equal lines by Myers' algorithm, or none beyond its limit), *mutation queue*, *output tail*, *shell stand-in* with the command lines that it splits |

A module with several parts has one `Init`, `Next` and set of variables per part; the
parts share no state and are together because they belong to one component.

The three pack modules `MCServices`, `MCWork` and `MCRunner` check these parts side by
side: `focus` is chosen in the initial state and names the part a behaviour is about,
and the variables of the others are `Off` (or stay as they start). The state space is
the disjoint union of those of the parts, one run instead of forty-five, and each
property of a pack is the conjunction of the properties of the parts of one theme.
`MCServices` extends `EventHub`, `AgentCalls` and `Cleanup`, the parts that are proved
about, and has instances of the others, as `MCRunner` extends `RunnerServices`;
`NewerIsLoop` compares `Newer` with the loop of `Subscribe` on every ring of the instance. `MCLinkRestarts` and `MCLiveness` are put together in the same way.

## 3. Runs

Deadlock is checked for `dirlock_entry`, `liveness`, `work` and `workflow_schedule`. The
others set `CHECK_DEADLOCK FALSE`: an idle chat, a link whose bounded sessions are
used up and a request that was answered rightly stop.

| Run (cfg) | Checks | Instance |
|---|---|---|
| `dirlock_entry` (DirLockEntry) | `HolderExclusion`, `RunExclusion`, `RunsBacked`, `NoLostWakeup`, `NoOvertaking` | chats A, B, C on one runner, D on another, 3 concurrent calls, a directory with two below it, upgrades and expansions among the requests |
| `liveness` (Liveness) | `GrantPassIsLoop`, `NoStarvation`; `RunsSettle` | three chats, A requesting side by side with itself; one cancellable run, 2 sessions, 2 boots of each process, runner queue of 1 |
| `link_restarts` (LinkRestarts) | `NoDeliveryFault`, `NoCallerStranded`, `KeepsContract` | *replay*: 2 output chunks, heartbeats up to seq 2, runner queue of 2, a runner restart, 2 sessions, one of two runs dispatched (`OneRun`); *restarts*: 2 runs, 2 sessions, a restart of each process, store errors |
| `link_stale_register` (StaleRegister) | `LostIsGone`, violated | 3 sessions, late Registers |
| `chat_turns` (ChatTurns) | `AgentGuardedUnlessStopped`, `InOrder`, `NotStranded` | 2 executions, 2 messages, limit 1, either 2 registrations of the runner, or one stop and the end of one caller, or the shutdown of the server (`OneKind`) |
| `chat_errors` (ChatQueueErrors) | `GuardExact`, `NoRerun` | waiting callers, failing agents and statements, missing quota, withdrawals |
| `chat_restart` (ChatQueueRestart) | `QueueDrains` | a restart of the backend at any moment, limit 2, fair goroutines |
| `chat_stop_agent` (StopLeavesAgent) | `AgentGuarded`, violated | the stop button once |
| `workflow_schedule` (WorkflowSchedule) | `SettlesTruly`, `Terminates` | eight definitions; a cancellation or a fault; for the human gate also replies, re-drives and a restart (`Resumed`) |
| `services`, `work`, `runner` (same names) | one property per theme, see the comments of the packs | the instances in the packs: two or three actors, one or two faults or crashes each |

What the properties say, beyond their names:

- `NoLostWakeup`: each waiter is blocked by a lock or by a conflicting waiter before
  it, in every state; so no release, cancellation, downgrade or grant forgets one.
- `RunsBacked`: `activeRuns` is the number of live calls granted on that lock. A
  grant that arrives as its context ends is the case that breaks it.
- `NoDeliveryFault`: no message of the runner's stream is applied twice, skipped,
  or refused by the hub, whatever is replayed over whichever sessions.
- `NoCallerStranded` conjoins the type invariant with three facts. `NoneStranded`:
  every run the hub tracks has something left that will settle it, a queued message,
  an entry in the runner's table, or a Register on its way. `LostNeedsRestart`: only a
  restart of the runner loses runs, never a restart of the backend or a broken
  session. `OnlineIsConnected`: a node shown online has a session.
- `KeepsContract`: each step of the link is a step of `RunContract` or a stutter.
- `AgentGuardedUnlessStopped`: in the life of one backend, an agent of the chat runs
  only inside the execution that holds the guard and waits for it. Three things cancel
  an execution and are the exceptions: the stop button, the end of the run of an agent
  that waits for the answer of a synchronous execution, and the shutdown of the server
  (finding 2).
- `NotStranded`: when all goroutines of a chat have gone, a message is queued only if
  the runner is offline, so that its return starts a consumer, or the park is hard.
  It is about backends whose statements succeed, since a drain whose `Peek` fails
  gives up.
- `GuardExact`: the guard names an execution exactly while that execution is inside
  the guarded section. `releaseExecution` deletes whatever is there, so a release too
  many would free another execution's guard.
- `NoRerun`: a message that reached the runner is never queued again.
- `InOrder`: what a consumer has in hand was sent before all that is queued.
- `SettlesTruly`: nodes that wait for all parents work on their last results, no
  failure is absorbed by an old success, a fresh run never fails for a node that did
  not, and no loop exceeds its budget. `Terminates`: every execution ends or waits
  for the user.
- `EventsReachSubscribers`: the events a browser has had are those after the place where
  its view begins, without one missing, and with an empty channel it has the newest. A
  view begins with a resync, or with a subscription that names no event. The second also
  happens after an absence, as the resync of an empty topic has the id 0: what was
  published while that browser was away is skipped (`ViewsBeginByResync`, section 6).
- Some properties name a case in which the code does not do what they say, so that they
  hold beside it and not by leaving it out of the model: a client that goes away during
  discovery (`RecoversInTime`), a save that has to write in place (`RunsWhatWasSaved`),
  rules that are refused (`ChangesApply`), a number of a dead process that is used again
  (`RefusedForALiveOne`), an opener that found no file (`AckedStays`), a provider that
  closes its stream without an event (`StreamBalanced`), an instruction file that could not be
  written the first time (`OwnerGetsFileBack`), a command line with operators
  (`DirectIsAll`). Where a comment of the code promises the plain form, section 6 has it.

Why the bounds are enough. The races are between two actors and one disturbance: two
executions (one ending, one beginning), two messages (one in hand, one queued), one
reconnect after the first registration, one restart. `DirLock` needs three chats for
overtaking and a fourth, on another runner, for the runner comparison. Two sessions
give one reconnect, with the old session still open on either end; the stale Register
needs a third. Two runs are needed for a position in the stream that one side kept
and the other forgot. `OneRun` keeps the replays to one run, whose chunks, result and
heartbeats already fill the queue; the second half has two runs without output. A stop
after a reconnect adds nothing to a stop (`OneKind`): the stop handler never looks at
the runner, and a caller's end or a shutdown does what a stop does. A browser needs three
subscriptions: one that is told to load afresh, one that misses events, one that comes
back. Three fragments of a stream show an index that is bound to a block found by its
id and is used alone afterwards. Texts whose difference is larger than `MaxMyersDistance`
are among those compared. Two numbers of processes, of which one is used again, are
enough for the lock of the notebook. In the workflow run only the definition with the human gate has re-drives
and restarts, because in the others they repeat the schedule from the same snapshot;
`work` checks two more definitions with them. Sequence numbers are 64 bit in the
code and do not wrap in practice; they are natural numbers here, bounded by the number
of messages. For the core, the proofs of section 5 remove the bounds.

## 4. Fairness

- `NoStarvation` is checked under the specification of the lock without fairness. Its premise says that
  each chat's lock is free again and again, which is up to the agents; nothing else
  needs to be fair, because grants happen inside the releases.
- `RunnerLink!FairSpec` (and `MCLiveness`, which takes its `Progress` for the behaviours
  about the link) has weak fairness on `Progress`: the goroutines of both processes, the
  runner's reconnect loop (it retries forever), and the end of a *cancelled* agent
  (the executor kills the sandbox). Callers, crashes, breaking sessions and agents
  that were not cancelled owe nothing. The number of sessions is bounded, and the last
  one does not break.
- `ChatQueue!FairSpec` has weak fairness on `Progress`: goroutines go on and agents end.
  Users and the connection owe nothing; `QueueDrains` assumes that the runner stays
  online from some moment on, and that the backend is not left shut down. The repository's README promises "While a runner is
  offline, messages for its chats stay queued and resume when it reconnects."
- `WorkflowRun!FairSpec` has weak fairness on the scheduling loop, the workers and the
  tails of the goroutines that settle. Nodes end by themselves; users, the clock and
  the operator who restarts the backend owe nothing.

## 5. Proofs

`tlapm <module>.tla` checks them. They hold for all values of the constants that
satisfy the assumptions the modules name (`DirLockConstants`, `ChatQueueConstants`,
`RunnerLinkConstants`, `CallbackConstants`, `PeerConstants`, `HubConstants`,
`CleanupConstants`), and for the extra assumption in the last column.

| Module | Theorem | States | Assumes |
|---|---|---|---|
| `DirLockProofs` | `TypeCorrect` | `TypeOK` | |
| | `WakeUps` | `NoLostWakeup` | |
| | `Accounting` | `RunsBacked` | |
| | `Exclusion` | `HolderExclusion` | `~ParallelEntry` |
| | `RunsExclude` | `RunExclusion` | `~ParallelEntry` |
| | `FirstComeFirstServed` | `NoOvertaking`, an action property | `~ParallelEntry` |
| `ChatQueueProofs` | `TypeCorrect` | `TypeOK` | |
| | `GuardIsExact` | `GuardExact` | |
| | `RunsInOrder` | `InOrder` | |
| | `NeverReruns` | `NoRerun` | |
| | `NoneStranded` | `NotStranded` | `~StoreErrors` |
| | `AgentsAreGuarded` | `AgentGuardedUnlessStopped` | |
| `RunnerLinkProofs` | `TypeCorrect` | `TypeOK` | |
| | `OnlineServed` | `OnlineIsConnected` | `~RegisterRace` |
| `RunnerContractProofs` | `ContractKept` | `KeepsContract`, the refinement of `RunContract` | `~RegisterRace` |
| | `NothingMisdelivered` | `NoDeliveryFault` | `~RegisterRace` |
| | `LostRunsAreGone` | `LostIsGone` | `~RegisterRace` |
| | `NobodyIsStranded` | `NoneStranded` | `~RegisterRace` |
| | `OnlyRestartsLose` | `LostNeedsRestart` | `~RegisterRace` |
| | `CallersServed` | `NoCallerStranded`, the conjunction the run checks | `~RegisterRace` |
| `AgentCallsProofs` | `AskedOnce`, `RepliesReachTheirAgent`, `PlacesCounted`, `CallsAreExact` | `OneExecution`, `ReplyIsForAsker`, `NoPlaceLeaks`, their conjunction `CallbacksExact` | |
| | `ChainIsExact`, `NobodyWaitsForItself`, `CallersWait`, `CallsNest` | `ChainMatches`, `NoWaitCycle`, `OneCallPerCaller`, their conjunction `PeerCallsNest` | |
| `EventHubProofs` | `StreamHasNoGap`, `StreamIsCaughtUp`, `EventsReach` | `NoGap`, `CaughtUp`, their conjunction `EventsReachSubscribers` | |
| `CleanupProofs` | `RecordsOutlive`, `KeptFilesStay`, `CleanupIsSafe` | `RecordOutlivesDirectories`, `FilesOfKeptStay`, action properties, their conjunction `CleanupKeeps` | |
| `RunnerServicesProofs` | `RequestsCorrect`, `CommandsCorrect`, `TerminalsCorrect`, `ServicesCorrect` | `RequestsServed`, `CommandServed`, `TerminalsSwept`, their conjunction `ServedOnce` | |

The three assumptions. `~ParallelEntry` is what the callers of the lock manager
guarantee (section 2); with parallel requests of one chat a granted waiter is merged
into whatever its chat holds, and exclusion fails. `~StoreErrors` excludes
a drain whose `Peek` fails, which gives up by design. `~RegisterRace` excludes a
Register that is processed after its session is gone or after a later session's; the
code does not exclude it, and run `link_stale_register` shows what it breaks: the
theorems say what holds once it is excluded.

*DirLock.* The invariant is `TypeOK /\ WaitersAreList /\ NoLostWakeup`.
`WaitersAreList` says that `ahead` is a strict linear order of the waiting calls: without
it "a waiter before" could be circular. The core is a lemma on the grant pass: after
it, each waiter left is blocked by the locks as they now are or by a waiter left
before it. Steps that only add locks or waiters cannot unblock anyone; steps that
take a lock or a waiter away run the pass. `Exclusion` adds `EntryOK` and `OneEntry`
(a chat has at most one request under way in its entry, and while it waits it holds
no lock) and needs them where a granted waiter is merged into its chat's lock: what
results is exactly the claim the conflict test looked at. `RunExclusion` follows with
`RunsBacked` and `ClaimsDirs`: a live run lies within the lock that counts it. That
directories form a tree describes the instances; the proofs use only that the
overlap test is symmetric and what lies under what.

*ChatQueue.* The invariant is `IInv == TypeOK /\ GuardExact /\ HandInv`. `HandInv`
collects what the order and the once-only properties need of each other: messages in
hand, queued or dispatched have been sent, what is in hand is not queued, a message
in hand for the first time has no attempt, a message to be put back has not been seen
by a runner, and `InOrder`. They are inductive only together: that a put-back keeps
`NoRerun` needs `RequeueUnseen`, that it keeps `InOrder` needs `GuardExact`, and that a
`Pop` keeps `InOrder` needs that the head is smaller than the rest, which rests on the
well-foundedness of `<` on the naturals. `NoneStranded` adds `ParksStale` (a soft park of
an earlier registration is always seen to be stale) and `Watched`: while a message
is queued for an online runner somebody is still to look at the queue, a consumer, a
drain, a notification or the boot; the proof follows this duty from one goroutine to
the next. `AgentsAreGuarded` adds `Attended`, the pairing of the agent and the
execution that waits for it while nothing has cancelled one: no stop, no end of a caller's own run
and no shutdown.

*RunnerLink.* `LinkInv` is `TypeOK`, an invariant of the agent and one of its reports. The
first relates the two ends of each session (`SessionInv`), the boot numbers in
Registers and in the memory of either side (`BootInv`), the tracked runs, the states of
the run table and the StartRuns still queued or on the wire: a run starts at most
once because its StartRun exists only before it has started (`StartInv`, `DownFresh`,
`QueueFresh`). `CallInv` adds the stream of the runner: what it has sent but not had
acknowledged is queued, in order and without a hole, from the backend's `highest`
upwards or further back, on every session (`FlowInv`), the message in a handler is
the next one or an old one (`HandlerInv`), chunks and results are those the run has
emitted (`DataInv`), and a run the runner reports in a Register is one it
executes or will still report on (`SnapshotInv`, `OwedInv`). That no result
is refused, that a chunk is applied once and that a run reported lost is gone are then
consequences, and every action is a step of `RunContract`: `AgentsStep` gives the fate
of the agent, `CallersStep` the caller's view.

`ServeInv` is `CallInv` and what no caller waiting in vain needs. A StartRun that no
runner has had is still in the hub's queue, with a number ahead of every position that
could trim it: the runner's `lastB`, the one in a Register under way, the last one
acknowledged (`WaitsInv`); what the stream has sent of it is still on its way
(`BehindAll`). That rests on `DownNumbers`: the numbers of the hub's queue grow and no
position is ahead of them, whichever backend process numbered it. Then every run the hub
tracks for the runner's present process is under way or has its StartRun queued
(`FateInv`), and `RegisterFinds` follows: Register finds each tracked run named by the
runner or its request kept, and so fails only the runs of an earlier runner process.

*AgentCalls, calls to the backend.* `CallbacksInv`: the backend's map holds each execution
that is not finished (`KeptInv`), and it holds one per call, hence `OneExecution`: an
eviction takes only outcomes away. The executions not finished are counted by
`inFlight` (`PlacesInv`), which every beginning and every end moves together with the set.
`RepliesInv` follows the number of a reply from the waiter's channel through the
outcome to the agent and says at each of them whom the reply is meant for.

*AgentCalls, calls to other agents.* `PeersInv`: what makes a cycle impossible is the
chain, which `enterPeerCall` searches for the target; but the chain outlives callers that
end first, and then says nothing of who waits. `PlaceInv` relates the two: a call whose
callers all still wait, up to the agent that holds the chat, stands in the chain one
place further down than it has callers. As the chain has no agent twice, all
those agents differ. `RootInv` says that such a call finds the chain begun by the agent that
holds the chat, `PunctualInv` the same for all calls while none was late, which
`OneCallPerCaller` needs. The callers of a call, `Ancestors`, are defined as a least closed
set, so that the proof needs no recursion.

*EventHub.* `HubInv`: a topic's ring holds its newest events, numbered without a hole up to
the topic's number (`RingsInv`). The events a browser has had and then those in its channel
are numbered one after the other from where its view begins; a resync at the head of the
channel begins another view, at the number the topic had when the browser subscribed
(`StreamsInv`). `PlacesInv` joins the two, and is what the collection of idle topics
could break: a connected browser follows the topic in the map, and the last number of
its stream is that of the topic. It holds after a browser has come back because it is
either answered from a ring that holds what it misses, or told to load afresh, or begins
a view at the topic's number. Of browsers that are away nothing is claimed but what they
have had. The replay is a lemma (`NewerIs`): `Newer` is defined as the suffix of a
ring that begins behind the browser's id, which needs no induction; that it is what
the loop of `Subscribe` selects is checked by TLC (`NewerIsLoop`).

*Cleanup.* `CleanupInv` relates the list of the pass to records that may have changed
since: `ListInv` says that a listed chat that did not become active meanwhile is still
as it was read, and that nothing of a confirmed one is left on its runner, although
the answer comes before the deletion of its record; `SweepInv`, that the sweep knows every
chat that did not begin after its list was taken; `AgesInv`, that fresh files belong to a
fresh record. The two action properties are proved of each action from that: which
actions take a record away (`RecordTaken`), which remove a directory (`FilesStep`).

*RunnerServices, requests.* `RequestsInv`: an entry of the cache is of a function that is
being carried out or has its result, a request has one entry, and a result that is
not dropped has its entry still (`ResultsKept`). So an attempt that finds no entry is the
first, or comes after the result was dropped, and then nothing of the request is being
carried out, since a running function has its entry (`RunningIsKept`).

*RunnerServices, commands.* `CommandInv`: the run is started by the first attempt, the
only one that is not a resumed one (`StartedByFirst`). The frames of the stream that the
backend reads go on from the offset it has, one after the other, up to what the ring
counts as sent to the newest stream, and an outcome comes behind them only when all
that was written is sent (`StreamFlows`); streams have different generations
(`GensDiffer`), so one that was superseded adds nothing to it. `attached` is the number
of handlers that listen (`Counted`); the last of them to leave starts the timer, and a
stream that attaches stops it only while it counts itself in. The stream that has
started the run attaches in a step of its own, perhaps after a newer one, whose
place it then takes; until any has, nothing is sent and that one is still to come
(`Tended`), from which `NoOrphan` follows.

*RunnerServices, terminals.* `TerminalInv` is the property itself and `WaitedFor`, that a handler
that has returned has waited for its shell: nothing can be marked any more, and the
sweep with which it returns takes what is. A shell loses the key only to a newer
stream, whose sweep of it begins in the same step.

Only model-checked, and why: all liveness (`NoStarvation`, `RunsSettle`, `QueueDrains`,
`Terminates`), which needs fairness and `ENABLED`; `GrantPassIsLoop`, whose loop is a fold
over a sequence and would need induction over data; `AgentTools` and `WorkflowEngine`
(hence `WorkflowRun`), which are recursive operators; and the parts in the three
packs other than `AgentCalls`, `EventHub`, `Cleanup` and `RunnerServices`, for which
nothing has been attempted.

## 6. Findings

Two are shown by runs that expect a violation.

1. *A stale Register loses a live run* (`link_stale_register`,
   `runnerhub/connection.go:212`). Two sessions of a runner register in two goroutines.
   If the earlier one gets the lock last, it judges the runs by an older list and
   reports a run as lost that the runner is executing; the caller may dispatch it
   again beside the first. With the same race `OnlineIsConnected` fails: a registration
   that finishes after its session was torn down leaves the node online without a
   connection until the next one.
2. *A stopped execution leaves its agent behind* (`chat_stop_agent`,
   `single_agent_sequential.go:382`). The execution returns as soon as its context ends,
   releases lock and guard and lets the next one start, while the dispatcher still
   waits for the agent to stop. The run shows it for the stop button; the end of a
   caller's own run and the shutdown of the server end the context as well.

The others are stated in the modules as properties that no run checks, each with the
words of the code it comes from. TLC finds each violated when it is added to the cfg
of the run that has the part.

| Property | Module | What the code says, and what it does |
|---|---|---|
| `OnlyErrorsPark` | `ChatQueue` | `runner_binding.go:226` parks hard "on an error a retry would repeat"; a stopped execution parks hard too (`message_trigger_handler.go:558`), and a message that was enqueued meanwhile waits although nothing failed |
| `NoPhantomFailure` | `WorkflowRun` | `redrive.go:13` resumes a failed run from where it failed; a re-drive may end FAILED again without a node that failed in it |
| `WaitingIsPersisted` | `WorkflowRun` | of two humans side by side, the RUNNING of one reply overwrites the WAITING_HUMAN of the other suspension (`human.go:197`) until the next event |
| `AnswersArrive`, `NoStalePrompt` | `WorkflowTranscript` | `workflow_persist.go:679` drops no answer silently and 520 leaves no prompt of a node that succeeded; with two questions open, one that a re-drive asked again has an id that matches neither |
| `RefreshIsAtomic` | `WorkflowTranscript` | `persistence.go:119` calls the refresh of a suspension atomic; it writes files and then the row (`workflow_run.go:633`) |
| `FollowUpResumes`, `ForcedIsChosen` | `WorkflowNodes` | `runner_agent.go:46` sends the follow-up only to a resumed session, and 697 forces the chosen target; the follow-up is sent whenever any CLI has a session, also to one that opens its first, and the choice is passed on by its model, which another CLI may have |
| `ReadErrorFails` | `WorkflowNodes` | `runner_workflow.go:239` fails the node on any read error; the scanner's is not looked at, and the lines so far are the items |
| `ReportIsCircular` | `Definition` | `definition.go:724` walks conditional edges as well, so the cycle it reports may not be the one that is circular |
| `OpenIsShown`, `OrphansRetired` | `ChatSession` | a question whose line could not be appended has a waiter and no bubble; `dbmodels/session.go:784` retires every question from before the start, but a retirement taken up again after a crash keeps the cutoff it began with |
| `BindersAgree` | `ChatSession` | without a row (`StartsThere = FALSE`) there is nothing to lock, and on Postgres two that bind a chat may be told different runners (`session.go:543`) |
| `RunningNeverCleaned` | `Cleanup` | `dbmodels/cleanup.go:28` never cleans a running session; one that starts after the list was taken loses its directories |
| `RunnerJobsCurrent` | `AgentStore` | `cron/manager.go:83` follows the effective agents; two reloads at once may install the older list last (89 before the lock of 126) |
| `LatestInForce` | `AppLifecycle` | `app.go:241` reloads proxy and main configuration on every change; a proxy section without rules is refused and the old rules go on (`manager.go:304`), and an invalid runner section keeps the previous one (`app.go:551`) |
| `DisallowedClosed` | `AppLifecycle` | `hub.go:422` closes the sessions of nodes that are not allowed; one that passed the check and is not yet in `conns` survives |
| `SavedIsInForce`, `RulesAtomic` | `Settings` | the answer says saved and reloaded (`manage_handler.go:529`); a reload may refuse the rules, and rules and hosts may be of two reloads (`manager.go:298`, 315). `SavedIsInForce` is violated though no save wrote in place; one that does may in addition be read half written (`manage_handler.go:508`) |
| `DiscoveryIsDetached` | `SignIn` | `service.go:396` keeps a client that disconnects from failing the probe for everyone; the discovery before it runs under the request's context, and its cancellation is kept as a failure for all (188, 192) |
| `ViewsBeginByResync` | `EventHub` | `event_hub.go:199` sends a resync when the topic is empty; that resync has the id 0, and a browser that comes back with 0, or that has had no event, gets neither replay nor resync and misses what was published while it was away |
| `TurnsClosed` | `SimplestAgent` | `agent.go:398` lets consumers always close the turn; a provider that closes its stream without an event ends the run with the turn open (466). No built-in provider does so |
| `AppendOnly` | `SimplestAgent` | `manager.go:90` calls a session an append-only tree; an opener that found no file (178) and locks it (209) after another process has made it writes over what was acknowledged, and one that read before another's last write goes on from an older leaf |
| `ToolMessagesFollow` | `SimplestAgent` | `openai.go:265` wants results right behind their calls; the results made up for calls that were interrupted come last, behind the message of the next prompt (`session.go:608`) |
| `DeferredLand` | `SimplestAgent` | `manager.go:821` defers entries until the first message; in a session whose file was written before it had one they are never written |
| `UserTextSent`, `ResponsesMerged` | `Provider` | without an image only the first text of a message is sent (`openai.go:192`); an image between two results keeps them apart (`google.go:266`, 286) |
| `DeadAreTakenOver` | `Notebook` | `state.go:262` takes over locks of dead processes; the process is known by its number only (331), and the server is process 1 of its image, so that after a crash in a scan it finds its own number in the file and refuses every later scan |
| `LockExcludes` | `Notebook` | `state.go:276` calls the lock race-free; of two that find it stale, the slower removes what the faster has just made (309) |
| `ContentNeverDestroyed`, `ContractInForce` | `CliRuns` | `takeover.go` keeps the owner's text in the memory of the run: a killed run leaves the contract behind, and overlapping runs replace each other's |
| `CreatedIsRemoved` | `CliRuns` | `takeover.go:46` removes a file again that was absent; one whose first write failed has no marker and stays, empty |
| `NoEmptySuccess` | `CliRuns` | `agy/prompt.go:148`; a command that dies after it named its session and before it answered is an empty success |
| `AncillaryCurrent` | `Accounts` | `claude_session.go:103`; a file that changed without growing is not copied (268) |
| `RetryGetsResult` | `RunnerServices` | `idem.go:16` gives a retry the cached result; for a function that was interrupted by the lost connection this is the interruption |
| `RecordsWhatWasPushed` | `GitTree` | `git.go:51` records the commit that was pushed; the agent may commit between the push and the reading of the ref |
| `NothingStale`, `WatchersLive` | `RunnerSandbox` | `sandbox.go:109` serializes reading and applying, but a change carries its tree to the lock; the timer of an attempt may cancel the watchers of the step that has just succeeded (`remote.go:132`) |
| `UniqueInFile` | `AgentTools` | `edit.go:22`; places are counted without overlaps, so "aa" in "aaa" passes |
| `HeadersName`, `NumbersRight` | `AgentTools` | `diffrender.go:330` numbers every hunk from 1; a part that is one blank line is dropped and not counted (212) |
| `CreatesSerialize` | `AgentTools` | `file_mutation_queue.go:18`; two spellings of a directory that is a link have two queues while the file is missing |
| `DirectIsMeant` | `AgentTools` | `fakebash.go:661` handles && and ||, by ending the command there: "true \|\| tool" runs the tool, and redirections become arguments (602) |
| `OutputIsOwn` | `AgentTools` | `fakebash.go:73` falls back to memory; without a file the identifier is empty, which the storage takes for the latest command |

Met while modelling and not stated as a property: `requireAuthConfigured` fails after hub
and proxy were started, and `New` returns without closing them (`app.go:461`; the
process ends). The hunk of a change that is only staged is read later, when both
sides of its contents are equal (`runnerfs/git.go:669`). A directory that is listed
read-write below a masked one becomes read-only, because the mask is bound after it
(`bwrap.go:740`). The README of the repository (line 390) cancels a run whose reply
*contains* "abort"; the engine compares the whole reply. The guard of a chat is released by a
workflow's events and again by its trigger (`workflow_persist.go:387`, 551), stored
unconditionally by a redrive (`workflow_handler.go:411`) and released by the
settlement of a runner's cron run (`runner_callbacks.go:657`). Past its limit in
memory the shell stand-in neither buffers nor shows output when nothing stores it
(`fakebash.go:197`).

## 7. Reading the modules

Each module begins with a comment on the code it models. Definitions keep the names
of the Go functions where a function is one action; where a function takes several
steps, the actions are named for the steps. Definitions under a comment that begins
with "Mutant" are the plausible bugs used to show that a property can fail; no
action uses them. In `PROJECT.json`, `map` gives the source
lines of operations and of definitions that stand for lines of their own; `map_helpers` those
of helpers whose lines lie within them. The proof modules are laid out from the bottom up: lemmas about
operators and about records, one lemma per action or per group of actions that
disturb the same conjunct, the step, the theorem. In `RunnerLinkProofs` and
`RunnerContractProofs` the actions that change one session are handled through
`Sets(s, x)`: the session `s` becomes `x` and the others stay.

## 8. Plan

In this order:

1. Proofs: `WorkflowTranscript`, `AgentStore` and `ChatSession`, whose invariants the
   packs check.
2. A composition of the guard: workflows, re-drives and cron runs on the guard that
   `ChatQueue` has for single agents. Property: `GuardExact` for all kinds of execution.
3. A composition of `ChatQueue` and `DirLock`: the lock that is kept because messages
   were queued when the run ended and that nobody releases when they are withdrawn.
   The product of the two is beyond a run of minutes; it needs abstractions of both.

## 9. Not modelled

Several nodes at once (they share a mutex and nothing else), runner authentication and
protocol versions, status snapshots for the user interface, the bytes of terminals and
the text of prompts and diffs' paths, cookies' cryptography, the identity provider,
git itself, symbolic links and globs in mounts, the scheduler of cron, partial
JSON, the migration of session files of the built-in agent's first two versions, what an
event published into a topic that was just collected would have told (it is in no
stream), metrics, configuration dialogues, the web interface and generated code.
`PROJECT.json` gives the reason for each component, and for each that is modelled in part
what is left out.
