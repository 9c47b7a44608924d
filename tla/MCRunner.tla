----------------------------- MODULE MCRunner -----------------------------
(***************************************************************************)
(* The runner, its sandbox, the accounts and the tools of its agents,      *)
(* model-checked side by side.  The services of the runner are checked as  *)
(* their module has them, the other parts on instances of their own: focus *)
(* names the one a behaviour is about, the variables of the others are Off *)
(* or stay as they start.                                                  *)
(***************************************************************************)
EXTENDS RunnerServices, TLC

VARIABLES
    focus,
    entries, inodes, writer, reader, stored,
    dir, listing, stable, changes, found,
    job, opened,
    gitDir, config, branch, heads, tracking, server, steps, op, ops,
    head, index, work, born, view, frame,
    tree, holds, conf, cfgErr, proxyErr, closed, gen, applied, pm, managers,
    servers, sshFile, agent, synced, failures,
    revision, accepted, manager, taken, part, loader, loadErr, treeErr, told,
    attempts, shut,
    request, built,
    edit, outcome,
    texts, report,
    exists, fileContent, call, entry, aborts, present,
    full, accumulated, file, cmd,
    invoked, proc, daemon, wire, client, latest

Off == "off"

-----------------------------------------------------------------------------
RunnerFiles == INSTANCE RunnerFiles WITH
    Writers <- {"v", "w"}, Twins <- {"v", "w"}, MaxNames <- 2, MaxSeeks <- 1,
    MaxName <- 4, Limit <- 2, MaxChanges <- 2, MaxFiles <- 4,
    SearchLimits <- {1, 4}
Scoped == INSTANCE ScopedPaths WITH
    Chat <- "chat", Placeholder <- "session-id", Others <- {"other"},
    Files <- {"x"}, Shared <- <<"w">>, MaxSub <- 2
transferAll == <<entries, inodes, writer, reader, stored>>
TransferInit ==
    IF focus = "transfer" THEN RunnerFiles!TransferInit
    ELSE entries = Off /\ inodes = Off /\ writer = Off /\ reader = Off /\
         stored = Off

listingAll == <<dir, listing, stable, changes, found>>
ListingInit ==
    IF focus = "listing" THEN RunnerFiles!ListingInit
    ELSE dir = Off /\ listing = Off /\ stable = Off /\ changes = Off /\
         found = Off

scopedAll == <<job, opened>>
ScopedInit ==
    IF focus = "paths" THEN Scoped!Init
    ELSE job = Off /\ opened = Off

\* A name has an upload's own data or a whole replacement, a reader is given
\* each part in its position, a listing shows what stays once and in order,
\* and a path opens what was authorised and nothing outside (writeBeneath,
\* PutAttachment, remoteReader, afterToken, AuthCandidates).
FilesAsNamed ==
    /\ focus = "transfer" =>
            /\ RunnerFiles!UploadsKept
            /\ RunnerFiles!NoTempLeft
            /\ RunnerFiles!ReplacedWhole
            /\ RunnerFiles!ReadsInPlace
    /\ focus = "listing" =>
            /\ RunnerFiles!StableListedOnce
            /\ RunnerFiles!PagesInOrder
            /\ RunnerFiles!SearchShares
    /\ focus = "paths" =>
            /\ Scoped!OpensWhatIsAuthorized
            /\ Scoped!StaysInside
            /\ Scoped!MeansSameFile
            /\ Scoped!NormalizedOnce

-----------------------------------------------------------------------------
GitTree == INSTANCE GitTree WITH
    Branches <- {"main", "topic"}, Remotes <- {"origin", "fork"},
    Central <- "origin", MaxAgentSteps <- 1, MaxOps <- 1, Paths <- {"p", "q"},
    Contents <- {1, 2}, MaxDiffFrame <- 4, Sizes <- {0, 1, 2, 3, 5}
pushAll == <<gitDir, config, branch, heads, tracking, server, steps, op, ops>>
PushInit ==
    IF focus = "push" THEN GitTree!PushInit
    ELSE gitDir = Off /\ config = Off /\ branch = Off /\ heads = Off /\
         tracking = Off /\ server = Off /\ steps = Off /\ op = Off /\
         ops = Off

diffAll == <<head, index, work, born, view, frame>>
DiffInit ==
    IF focus = "diff" THEN GitTree!DiffInit
    ELSE head = Off /\ index = Off /\ work = Off /\ born = Off /\
         view = Off /\ frame = Off

\* The ref the runner records for a push is what the push set, and the diff
\* view hides no path that differs anywhere, within its frame (pushTracking,
\* writeTracking, mergeNameStatusEntries, finish).
GitTold ==
    /\ focus = "push" => GitTree!RecordsThePush
    /\ focus = "diff" =>
            /\ GitTree!NoChangeHidden
            /\ GitTree!EntriesTell
            /\ GitTree!FrameFits

-----------------------------------------------------------------------------
RunnerSandbox == INSTANCE RunnerSandbox WITH
    MaxRevisions <- 3, MaxFailures <- 2, MaxStarts <- 3,
    Callers <- {"setup", "watch"}, MaxRevision <- 3, MaxAttempts <- 4
sandboxAll == <<tree, holds, conf, cfgErr, proxyErr, closed, gen, applied, pm,
                managers, servers, sshFile, agent, synced, failures>>
SandboxInit ==
    IF focus = "sandbox" THEN RunnerSandbox!SandboxInit
    ELSE tree = Off /\ holds = Off /\ conf = Off /\ cfgErr = Off /\
         proxyErr = Off /\ closed = Off /\ gen = Off /\ applied = Off /\
         pm = Off /\ managers = Off /\ servers = Off /\ sshFile = Off /\
         agent = Off /\ synced = Off /\ failures = Off

remoteAll == <<revision, accepted, manager, taken, part, loader, loadErr,
               treeErr, told, attempts, shut>>
RemoteInit ==
    IF focus = "remote" THEN RunnerSandbox!RemoteInit
    ELSE revision = Off /\ accepted = Off /\ manager = Off /\ taken = Off /\
         part = Off /\ loader = Off /\ loadErr = Off /\ treeErr = Off /\
         told = Off /\ attempts = Off /\ shut = Off

\* Runs are admitted just when the sandbox has what it is configured for,
\* with the keys of that revision and one server; and a runner is healthy
\* only with both parts loaded and nothing rejected since (Ready, Close,
\* syncSSHCredentials, RemoteConfig).
SandboxCurrent ==
    /\ focus = "sandbox" =>
            /\ RunnerSandbox!ReadyIsServed
            /\ RunnerSandbox!NoServerLeft
            /\ RunnerSandbox!KeysCurrent
    /\ focus = "remote" =>
            /\ RunnerSandbox!HealthTells
            /\ RunnerSandbox!StartedOnce

-----------------------------------------------------------------------------
RunDirs == {<<"home">>, <<"home", "data", "other">>, <<"home", "data", "own">>, <<"proj">>, <<"proj", "a">>, <<"proj", "a", "x">>}
EntryRoots == {<<"home">>, <<"home", "cli">>, <<"home", "data">>, <<"proj">>, <<"proj", "a">>, <<"proj", "b">>}

Mounts == INSTANCE SandboxMounts WITH
    RunDirs <- RunDirs, Roots <- EntryRoots, KeepNames <- {"a", "b"}
mountsAll == <<request, built>>
MountsInit ==
    IF focus = "mounts" THEN Mounts!Init
    ELSE request = Off /\ built = Off

\* Whatever roots, masks and directories are combined, nothing beneath a
\* read-only root can be written, no secret is seen, a read-only agent writes
\* no directory of the host, and an agent can work where it runs
\* (appendReadonlyBinds, appendProxySensitiveMaskArgs, SandboxCwd).
MountsConfine ==
    focus = "mounts" =>
        /\ Mounts!ReadonlyWins
        /\ Mounts!SecretsHidden
        /\ Mounts!RunDirWritable
        /\ Mounts!MaskedStaysReadOnly
        /\ Mounts!ReadOnlyWritesNothing
        /\ Mounts!CwdVisible

-----------------------------------------------------------------------------
OldTexts == {<<"a">>, <<"q">>, <<"s">>, <<"n">>, <<"q", "a">>, <<"a", "n">>, <<"a", "a">>, <<"s", "n">>}

AgentTools == INSTANCE AgentTools WITH
    Letters <- {"a", "Q", "s", "n"}, MaxContent <- 3, OldTexts <- OldTexts,
    NewTexts <- {<<>>, <<"b">>}, Lines <- {"x", "y", ""}, MaxLength <- 4,
    Context <- 1, MaxMyersDistance <- 6, Calls <- {"e1", "e2", "w"}, Writers <- {"w"},
    MaxAborts <- 1, MaxBytes <- 3, MaxLines <- 2, MaxTotal <- 8,
    MaxPieces <- 3, MaxInMemory <- 1, ShortOutput <- 2
editAll == <<edit, outcome>>
EditInit ==
    IF focus = "edit" THEN AgentTools!EditInit
    ELSE edit = Off /\ outcome = Off

textAll == <<texts, report>>
TextInit ==
    IF focus = "difftext" THEN AgentTools!DiffInit
    ELSE texts = Off /\ report = Off

queueAll == <<exists, fileContent, call, entry, aborts, present>>
QueueInit ==
    IF focus = "queue" THEN AgentTools!QueueInit
    ELSE exists = Off /\ fileContent = Off /\ call = Off /\ entry = Off /\
         aborts = Off /\ present = Off

shownAll == <<full, accumulated, file, cmd>>
ShownInit ==
    IF focus = "tail" THEN AgentTools!TailInit
    ELSE full = Off /\ accumulated = Off /\ file = Off /\ cmd = Off

bashAll == <<invoked, proc, daemon, wire, client, latest>>
BashInit ==
    IF focus = "bash" THEN AgentTools!BashInit
    ELSE invoked = Off /\ proc = Off /\ daemon = Off /\ wire = Off /\
         client = Off /\ latest = Off


-----------------------------------------------------------------------------
Init ==
    /\ focus \in {"requests", "command", "terminal", "transfer", "listing",
               "paths", "push", "diff", "sandbox", "remote", "mounts", "edit",
               "difftext", "queue", "tail", "bash"}
    /\ RequestsInit /\ CommandInit /\ TerminalInit /\ TransferInit
    /\ ListingInit /\ ScopedInit /\ PushInit /\ DiffInit /\ SandboxInit
    /\ RemoteInit /\ MountsInit /\ EditInit /\ TextInit /\ QueueInit
    /\ ShownInit /\ BashInit

RequestsStep ==
    /\ focus = "requests" /\ RequestsNext
    /\ UNCHANGED <<focus, commandVars, terminalVars, transferAll, listingAll,
                   scopedAll, pushAll, diffAll, sandboxAll, remoteAll,
                   mountsAll, editAll, textAll, queueAll, shownAll, bashAll>>

CommandStep ==
    /\ focus = "command" /\ CommandNext
    /\ UNCHANGED <<focus, requestVars, terminalVars, transferAll, listingAll,
                   scopedAll, pushAll, diffAll, sandboxAll, remoteAll,
                   mountsAll, editAll, textAll, queueAll, shownAll, bashAll>>

TerminalStep ==
    /\ focus = "terminal" /\ TerminalNext
    /\ UNCHANGED <<focus, requestVars, commandVars, transferAll, listingAll,
                   scopedAll, pushAll, diffAll, sandboxAll, remoteAll,
                   mountsAll, editAll, textAll, queueAll, shownAll, bashAll>>

TransferStep ==
    /\ focus = "transfer" /\ RunnerFiles!TransferNext
    /\ UNCHANGED <<focus, requestVars, commandVars, terminalVars, listingAll,
                   scopedAll, pushAll, diffAll, sandboxAll, remoteAll,
                   mountsAll, editAll, textAll, queueAll, shownAll, bashAll>>

ListingStep ==
    /\ focus = "listing" /\ RunnerFiles!ListingNext
    /\ UNCHANGED <<focus, requestVars, commandVars, terminalVars, transferAll,
                   scopedAll, pushAll, diffAll, sandboxAll, remoteAll,
                   mountsAll, editAll, textAll, queueAll, shownAll, bashAll>>

ScopedStep ==
    /\ focus = "paths" /\ Scoped!Next
    /\ UNCHANGED <<focus, requestVars, commandVars, terminalVars, transferAll,
                   listingAll, pushAll, diffAll, sandboxAll, remoteAll,
                   mountsAll, editAll, textAll, queueAll, shownAll, bashAll>>

PushStep ==
    /\ focus = "push" /\ GitTree!PushNext
    /\ UNCHANGED <<focus, requestVars, commandVars, terminalVars, transferAll,
                   listingAll, scopedAll, diffAll, sandboxAll, remoteAll,
                   mountsAll, editAll, textAll, queueAll, shownAll, bashAll>>

DiffStep ==
    /\ focus = "diff" /\ GitTree!DiffNext
    /\ UNCHANGED <<focus, requestVars, commandVars, terminalVars, transferAll,
                   listingAll, scopedAll, pushAll, sandboxAll, remoteAll,
                   mountsAll, editAll, textAll, queueAll, shownAll, bashAll>>

SandboxStep ==
    /\ focus = "sandbox" /\ RunnerSandbox!SandboxNext
    /\ UNCHANGED <<focus, requestVars, commandVars, terminalVars, transferAll,
                   listingAll, scopedAll, pushAll, diffAll, remoteAll,
                   mountsAll, editAll, textAll, queueAll, shownAll, bashAll>>

RemoteStep ==
    /\ focus = "remote" /\ RunnerSandbox!RemoteNext
    /\ UNCHANGED <<focus, requestVars, commandVars, terminalVars, transferAll,
                   listingAll, scopedAll, pushAll, diffAll, sandboxAll,
                   mountsAll, editAll, textAll, queueAll, shownAll, bashAll>>

MountsStep ==
    /\ focus = "mounts" /\ Mounts!Next
    /\ UNCHANGED <<focus, requestVars, commandVars, terminalVars, transferAll,
                   listingAll, scopedAll, pushAll, diffAll, sandboxAll,
                   remoteAll, editAll, textAll, queueAll, shownAll, bashAll>>

EditStep ==
    /\ focus = "edit" /\ AgentTools!EditNext
    /\ UNCHANGED <<focus, requestVars, commandVars, terminalVars, transferAll,
                   listingAll, scopedAll, pushAll, diffAll, sandboxAll,
                   remoteAll, mountsAll, textAll, queueAll, shownAll, bashAll>>

TextStep ==
    /\ focus = "difftext" /\ AgentTools!DiffNext
    /\ UNCHANGED <<focus, requestVars, commandVars, terminalVars, transferAll,
                   listingAll, scopedAll, pushAll, diffAll, sandboxAll,
                   remoteAll, mountsAll, editAll, queueAll, shownAll, bashAll>>

QueueStep ==
    /\ focus = "queue" /\ AgentTools!QueueNext
    /\ UNCHANGED <<focus, requestVars, commandVars, terminalVars, transferAll,
                   listingAll, scopedAll, pushAll, diffAll, sandboxAll,
                   remoteAll, mountsAll, editAll, textAll, shownAll, bashAll>>

ShownStep ==
    /\ focus = "tail" /\ AgentTools!TailNext
    /\ UNCHANGED <<focus, requestVars, commandVars, terminalVars, transferAll,
                   listingAll, scopedAll, pushAll, diffAll, sandboxAll,
                   remoteAll, mountsAll, editAll, textAll, queueAll, bashAll>>

BashStep ==
    /\ focus = "bash" /\ AgentTools!BashNext
    /\ UNCHANGED <<focus, requestVars, commandVars, terminalVars, transferAll,
                   listingAll, scopedAll, pushAll, diffAll, sandboxAll,
                   remoteAll, mountsAll, editAll, textAll, queueAll, shownAll>>

Next ==
    \/ RequestsStep \/ CommandStep \/ TerminalStep \/ TransferStep
    \/ ListingStep \/ ScopedStep \/ PushStep \/ DiffStep \/ SandboxStep
    \/ RemoteStep \/ MountsStep \/ EditStep \/ TextStep \/ QueueStep
    \/ ShownStep \/ BashStep
=============================================================================
