------------------------------ MODULE MCWork ------------------------------
(***************************************************************************)
(* Workflow runs, the parts they are built from and the command line       *)
(* agents they use, model-checked side by side.  Each part is checked on   *)
(* an instance of its own: focus names the one a behaviour is about, the   *)
(* variables of the others are Off, or stay as they start.                 *)
(***************************************************************************)
EXTENDS Integers, Sequences, FiniteSets, TLC

VARIABLES
    focus,
    workflow, e, sched, signal, tails, workflowCancelled, worker,
    workflowReplies, reuse, waiters, executing, replayPending, replayMsgs,
    workflowRow, client, asked, used, ghost,
    values, upstream, nodeNode, nodeRun, quota, opened, headless, budget,
    actual,
    chain, subNode, subFile, items, item, results, written, subCancelled,
    transcript, transcriptNode, transcriptRow, engine, guard, status, replay,
    reply, given, reached, reported, transcriptReplies, redrives, crashes,
    memory, filesRow, logs, spec, temps, save, saved, torn, dirty,
    saveFaults, stops,
    check, edges, indegree, queue, done, color, stack, loops, counting,
    exhausted, groups,
    content, entry, notebookRun, edits, runs, processed, raced, failures,
    overlapped,
    pidlockFile, holder, rounds, deaths, processes, again,
    takeoverFile, agentFile, takeoverRun, kills, faults, alone, owned,
    cli, emitted, pipe, child, cliCancelled, reader, acc, reports, answer,
    now, entries, chooser,
    jsonl, ancillary, relay, history, time, failed

Off == "off"

-----------------------------------------------------------------------------
Examples == INSTANCE MCWorkflowDefinitions

Workflow == INSTANCE WorkflowRun WITH
    Definitions <- Examples!ResumeDefinitions, Nodes <- {"a", "b", "c"},
    Loops <- {"l"}, Clients <- {"r1", "r2"}, Texts <- {"ok"}, MaxCrashes <- 1,
    MaxMishaps <- 1, Resumed <- DOMAIN Examples!ResumeDefinitions,
    cancelled <- workflowCancelled,
    replies <- workflowReplies, row <- workflowRow
workflowAll == <<workflow, e, sched, signal, tails, workflowCancelled, worker,
                 workflowReplies, reuse, waiters, executing, replayPending,
                 replayMsgs, workflowRow, client, asked, used, ghost>>
WorkflowInit ==
    IF focus = "workflow" THEN Workflow!Init
    ELSE workflow = Off /\ e = Off /\ sched = Off /\ signal = Off /\
         tails = Off /\ workflowCancelled = Off /\ worker = Off /\
         workflowReplies = Off /\ reuse = Off /\ waiters = Off /\
         executing = Off /\ replayPending = Off /\ replayMsgs = Off /\
         workflowRow = Off /\ client = Off /\ asked = Off /\ used = Off /\
         ghost = Off

\* One execution at a time drives a run; the row of a still run has every
\* waiting node and every result; and a restored run does not redo the work
\* its row holds (ResumeByMessageID, RedriveFailed, RefreshSuspension,
\* admitViaEdge).
ResumeSafe ==
    focus = "workflow" =>
        /\ Workflow!NoOverlap
        /\ Workflow!SnapshotComplete
        /\ Workflow!ResumeKeepsWork

-----------------------------------------------------------------------------
Target(program, model) == [cli |-> program, model |-> model]
AgentTargets == <<Target("c", "m"), Target("d", "m")>>
PairsFor == (Target("c", "m") :> <<Target("d", "n")>>) @@ (Target("d", "m") :> <<Target("c", "n")>>)

WorkflowNodes == INSTANCE WorkflowNodes WITH
    AgentTargets <- AgentTargets, PairsFor <- PairsFor, MaxNodes <- 3,
    MaxRetries <- 1, MaxQuotaChanges <- 1, MaxRuns <- 2, MaxRestarts <- 1,
    Workflows <- {"a", "b", "c"}, MaxItems <- 3, MaxParallel <- 2,
    maxDepth <- 2, node <- nodeNode, run <- nodeRun, file <- subFile,
    cancelled <- subCancelled
nodeAll == <<values, upstream, nodeNode, nodeRun, quota, opened, headless,
             budget, actual>>
NodeInit ==
    IF focus = "node" THEN WorkflowNodes!AgentInit
    ELSE values = Off /\ upstream = Off /\ nodeNode = Off /\ nodeRun = Off /\
         quota = Off /\ opened = Off /\ headless = Off /\ budget = Off /\
         actual = Off

subAll == <<chain, subNode, subFile, items, item, results, written,
            subCancelled>>
SubInit ==
    IF focus = "sub" THEN WorkflowNodes!SubInit
    ELSE chain = Off /\ subNode = Off /\ subFile = Off /\ items = Off /\
         item = Off /\ results = Off /\ written = Off /\ subCancelled = Off

\* A node resumes only a session its own CLI has opened, a reviewer is paired
\* with what the actor really used, no artifact is lost; and a fan-out
\* succeeds only with every item run, its output in order (SessionMap,
\* resolvePairingPlan, agentRunner.Run, runFanout).
NodesHonest ==
    /\ focus = "node" =>
            /\ WorkflowNodes!OwnSession
            /\ WorkflowNodes!PairedReviewer
            /\ WorkflowNodes!ArtifactsComplete
    /\ focus = "sub" =>
            /\ WorkflowNodes!OutputInOrder
            /\ WorkflowNodes!SucceededRanAll

-----------------------------------------------------------------------------
NodeNames == [h |-> <<"gate">>, d |-> <<"dev">>]

Transcript == INSTANCE WorkflowTranscript WITH
    Name <- NodeNames, AgentNodes <- {"d"}, Fanout <- "d", Items <- {"1"},
    Slots <- {"s", "t"}, MaxAsks <- 1, MaxReplies <- 2, MaxRedrives <- 1,
    MaxCrashes <- 1, node <- transcriptNode, row <- transcriptRow,
    replies <- transcriptReplies, RunNodes <- {"a", "b"}, MaxExecutions <- 2,
    MaxSaveFaults <- 1, MaxStops <- 1
transcriptAll == <<transcript, transcriptNode, transcriptRow, engine, guard,
                   status, replay, reply, given, reached, reported,
                   transcriptReplies, redrives, crashes>>
TranscriptInit ==
    IF focus = "transcript" THEN Transcript!TranscriptInit
    ELSE transcript = Off /\ transcriptNode = Off /\ transcriptRow = Off /\
         engine = Off /\ guard = Off /\ status = Off /\ replay = Off /\
         reply = Off /\ given = Off /\ reached = Off /\ reported = Off /\
         transcriptReplies = Off /\ redrives = Off /\ crashes = Off

stateFilesAll == <<memory, filesRow, logs, spec, temps, save, saved, torn,
                   dirty, saveFaults, stops>>
StateFilesInit ==
    IF focus = "runfiles" THEN Transcript!FilesInit
    ELSE memory = Off /\ filesRow = Off /\ logs = Off /\ spec = Off /\
         temps = Off /\ save = Off /\ saved = Off /\ torn = Off /\
         dirty = Off /\ saveFaults = Off /\ stops = Off

\* A node that waits has a bubble whose answer reaches it and no other node,
\* a chat whose run is still is given back, and a row names files that are
\* there and read as saved, over crashes between the writes
\* (workflow_persist.go, SaveRun).
TranscriptMatchesRun ==
    /\ focus = "transcript" =>
            /\ Transcript!AskShown
            /\ Transcript!UpdatesKept
            /\ Transcript!AnswerReachesAsker
            /\ Transcript!ChatIsGivenBack
    /\ focus = "runfiles" =>
            /\ Transcript!RowReadable
            /\ Transcript!ReadAsSaved
            /\ Transcript!TempsGo

-----------------------------------------------------------------------------
Def == INSTANCE Definition WITH
    MaxNode <- 3, MaxLoop <- 3
defAll == <<check, edges, indegree, queue, done, color, stack, loops,
            counting, exhausted, groups>>
DefInit ==
    IF focus = "definition" THEN Def!Init
    ELSE check = Off /\ edges = Off /\ indegree = Off /\ queue = Off /\
         done = Off /\ color = Off /\ stack = Off /\ loops = Off /\
         counting = Off /\ exhausted = Off /\ groups = Off

\* Accepted is just what has no unconditional cycle, the cycle a refusal
\* reports is one, accepted loops nest, and no reviewer of a pairing is an
\* actor (detectCycle, findCyclePath, validateLoops, validateModelPairings).
DefinitionsSound ==
    focus = "definition" =>
        /\ Def!AcceptsAcyclic
        /\ Def!ReportIsCycle
        /\ Def!LoopsNest
        /\ Def!ReviewersDoNotAct

-----------------------------------------------------------------------------
BaseOf(f) == IF f = 3 THEN "y" ELSE "x"

Notebook == INSTANCE Notebook WITH
    Files <- {1, 2, 3}, BaseOf <- BaseOf, Journal <- {2, 3},
    JournalBatch <- 2, Runs <- {"r1", "r2"}, MaxContent <- 2,
    MaxFailCount <- 2, MaxEdits <- 1, MaxRuns <- 2,
    Holders <- {"h1", "h2", "h3"}, MaxRounds <- 4, MaxDeaths <- 1,
    Numbers <- {1, 2},
    run <- notebookRun, file <- pidlockFile
notesAll == <<content, entry, notebookRun, edits, runs, processed, raced,
              failures, overlapped>>
NotesInit ==
    IF focus = "notebook" THEN Notebook!NotesInit
    ELSE content = Off /\ entry = Off /\ notebookRun = Off /\ edits = Off /\
         runs = Off /\ processed = Off /\ raced = Off /\ failures = Off /\
         overlapped = Off

pidAll == <<pidlockFile, holder, rounds, deaths, processes, again>>
PidInit ==
    IF focus = "pidlock" THEN Notebook!PidInit
    ELSE pidlockFile = Off /\ holder = Off /\ rounds = Off /\ deaths = Off /\
         processes = Off /\ again = Off

\* A file no agent has worked on is taken up again or has failed too often
\* without a success, and the scan's lock is refused only for a live one or
\* for a number in use again (NeedsProcessing, RecordFailure, FileLock.Acquire).
NotesProcessed ==
    /\ focus = "notebook" =>
            /\ Notebook!NotForgotten
            /\ Notebook!GivenUpAfterFailures
    /\ focus = "pidlock" => Notebook!RefusedForALiveOne

-----------------------------------------------------------------------------
CliRuns == INSTANCE CliRuns WITH
    Runs <- {"r1", "r2"}, OpencodeRuns <- {"r2"}, MaxKills <- 1, MaxFaults <- 1, Messages <- {1, 2},
    MaxLines <- 4, MaxBig <- 1, Capacity <- 1, file <- takeoverFile,
    run <- takeoverRun, cancelled <- cliCancelled
Accounts == INSTANCE Accounts WITH
    MaxAccount <- 2, Choosers <- {"r1", "r2"}, TTL <- 2, ErrTTL <- 1,
    MaxRefresh <- 1, MaxNow <- 3, MaxRelayAccount <- 3, MaxTurns <- 3,
    MaxSize <- 2, MaxFailures <- 1
takeoverAll == <<takeoverFile, agentFile, takeoverRun, kills, faults, alone,
                 owned>>
TakeoverInit ==
    IF focus = "takeover" THEN CliRuns!TakeoverInit
    ELSE takeoverFile = Off /\ agentFile = Off /\ takeoverRun = Off /\
         kills = Off /\ faults = Off /\ alone = Off /\ owned = Off

cliAll == <<cli, emitted, pipe, child, cliCancelled, reader, acc, reports,
            answer>>
CliInit ==
    IF focus = "cli" THEN CliRuns!CliInit
    ELSE cli = Off /\ emitted = Off /\ pipe = Off /\ child = Off /\
         cliCancelled = Off /\ reader = Off /\ acc = Off /\ reports = Off /\
         answer = Off

quotaAll == <<now, entries, chooser>>
QuotaInit == Accounts!QuotaInit

relayAll == <<jsonl, ancillary, relay, history, time, failed>>
RelayInit ==
    IF focus = "relay" THEN Accounts!RelayInit
    ELSE jsonl = Off /\ ancillary = Off /\ relay = Off /\ history = Off /\
         time = Off /\ failed = Off

\* Over overlapping and killed runs the owner has his file back; the events
\* of a command give the answer it meant and no failure is a success; an
\* account is chosen by answers that live, asked for once; and the account a
\* session goes on in has its history, in order (BeginFileTakeover,
\* prompt.go, cachedAccountQuota, relayClaudeSession).
CliRunsFaithful ==
    /\ [](focus = "takeover" => /\ CliRuns!OwnerGetsFileBack
                                /\ CliRuns!LeftoverCleared)
    /\ [](focus = "cli" => /\ CliRuns!LastResultDecides
                           /\ CliRuns!StepsWhole
                           /\ CliRuns!OneMessage
                           /\ CliRuns!BadExitIsNoSuccess)
    /\ [](focus = "quota" => /\ Accounts!OneFetch
                             /\ Accounts!FollowsStrategy)
    /\ [](focus = "relay" => /\ Accounts!HistoryWhole
                             /\ Accounts!AncillaryThere)
    /\ Accounts!AnswersLive

-----------------------------------------------------------------------------
Init ==
    /\ focus \in {"workflow", "node", "sub", "transcript", "runfiles",
               "definition", "notebook", "pidlock", "takeover", "cli",
               "quota", "relay"}
    /\ WorkflowInit /\ NodeInit /\ SubInit /\ TranscriptInit
    /\ StateFilesInit /\ DefInit /\ NotesInit /\ PidInit /\ TakeoverInit
    /\ CliInit /\ QuotaInit /\ RelayInit

WorkflowStep ==
    /\ focus = "workflow" /\ Workflow!Next
    /\ UNCHANGED <<focus, nodeAll, subAll, transcriptAll, stateFilesAll,
                   defAll, notesAll, pidAll, takeoverAll, cliAll, quotaAll,
                   relayAll>>

NodeStep ==
    /\ focus = "node" /\ WorkflowNodes!AgentNext
    /\ UNCHANGED <<focus, workflowAll, subAll, transcriptAll, stateFilesAll,
                   defAll, notesAll, pidAll, takeoverAll, cliAll, quotaAll,
                   relayAll>>

SubStep ==
    /\ focus = "sub" /\ WorkflowNodes!SubNext
    /\ UNCHANGED <<focus, workflowAll, nodeAll, transcriptAll, stateFilesAll,
                   defAll, notesAll, pidAll, takeoverAll, cliAll, quotaAll,
                   relayAll>>

TranscriptStep ==
    /\ focus = "transcript" /\ Transcript!TranscriptNext
    /\ UNCHANGED <<focus, workflowAll, nodeAll, subAll, stateFilesAll, defAll,
                   notesAll, pidAll, takeoverAll, cliAll, quotaAll, relayAll>>

StateFilesStep ==
    /\ focus = "runfiles" /\ Transcript!FilesNext
    /\ UNCHANGED <<focus, workflowAll, nodeAll, subAll, transcriptAll, defAll,
                   notesAll, pidAll, takeoverAll, cliAll, quotaAll, relayAll>>

DefStep ==
    /\ focus = "definition" /\ Def!Next
    /\ UNCHANGED <<focus, workflowAll, nodeAll, subAll, transcriptAll,
                   stateFilesAll, notesAll, pidAll, takeoverAll, cliAll,
                   quotaAll, relayAll>>

NotesStep ==
    /\ focus = "notebook" /\ Notebook!NotesNext
    /\ UNCHANGED <<focus, workflowAll, nodeAll, subAll, transcriptAll,
                   stateFilesAll, defAll, pidAll, takeoverAll, cliAll,
                   quotaAll, relayAll>>

PidStep ==
    /\ focus = "pidlock" /\ Notebook!PidNext
    /\ UNCHANGED <<focus, workflowAll, nodeAll, subAll, transcriptAll,
                   stateFilesAll, defAll, notesAll, takeoverAll, cliAll,
                   quotaAll, relayAll>>

TakeoverStep ==
    /\ focus = "takeover" /\ CliRuns!TakeoverNext
    /\ UNCHANGED <<focus, workflowAll, nodeAll, subAll, transcriptAll,
                   stateFilesAll, defAll, notesAll, pidAll, cliAll, quotaAll,
                   relayAll>>

CliStep ==
    /\ focus = "cli" /\ CliRuns!CliNext
    /\ UNCHANGED <<focus, workflowAll, nodeAll, subAll, transcriptAll,
                   stateFilesAll, defAll, notesAll, pidAll, takeoverAll,
                   quotaAll, relayAll>>

QuotaStep ==
    /\ focus = "quota" /\ Accounts!QuotaNext
    /\ UNCHANGED <<focus, workflowAll, nodeAll, subAll, transcriptAll,
                   stateFilesAll, defAll, notesAll, pidAll, takeoverAll,
                   cliAll, relayAll>>

RelayStep ==
    /\ focus = "relay" /\ Accounts!RelayNext
    /\ UNCHANGED <<focus, workflowAll, nodeAll, subAll, transcriptAll,
                   stateFilesAll, defAll, notesAll, pidAll, takeoverAll,
                   cliAll, quotaAll>>

\* The instances beside WorkflowRun may stop.
Others ==
    /\ focus # "workflow"
    /\ UNCHANGED <<focus, workflowAll, nodeAll, subAll, transcriptAll,
                   stateFilesAll, defAll, notesAll, pidAll, takeoverAll,
                   cliAll, quotaAll, relayAll>>

Next ==
    \/ WorkflowStep \/ NodeStep \/ SubStep \/ TranscriptStep
    \/ StateFilesStep \/ DefStep \/ NotesStep \/ PidStep \/ TakeoverStep
    \/ CliStep \/ QuotaStep \/ RelayStep \/ Others
=============================================================================
