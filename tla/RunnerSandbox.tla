--------------------------- MODULE RunnerSandbox ---------------------------
(***************************************************************************)
(* The sandbox server of a runner and the configuration it is given.       *)
(***************************************************************************)
EXTENDS Integers, Sequences, FiniteSets

-----------------------------------------------------------------------------
(***************************************************************************)
(* A runner's sandbox settings (runner/lib/sandbox): each revision of the  *)
(* configuration tree is applied to the proxy, which is started, reloaded, *)
(* retried or stopped, and to the keys in ~/.ssh and in the ssh agent.     *)
(*                                                                         *)
(* A revision is [rev, proxy, valid, key].  An apply runs under the        *)
(* sandbox's mutex and is one step; a proxy's server goroutine runs beside *)
(* it, and its last stores are a step each.                                *)
(***************************************************************************)

CONSTANTS MaxRevisions, MaxFailures, MaxStarts, Callers

VARIABLES
    tree,       \* the revision the source has
    holds,      \* per caller of refresh, the revision it was called with
    conf, cfgErr, proxyErr, closed, gen, applied,   \* the Sandbox
    pm,         \* the proxy manager's number, or 0
    managers,   \* per manager: stopped, running, address published, rules
    servers,    \* the server goroutines, one per start
    sshFile, agent, synced,     \* the key in ~/.ssh, the agent's keys, the key last set up
    failures
sandboxVars == <<tree, holds, conf, cfgErr, proxyErr, closed, gen, applied, pm, managers, servers, sshFile, agent, synced, failures>>

NoTree == [rev |-> 0, proxy |-> FALSE, valid |-> FALSE, key |-> 0]
NoKey == 0
NewManager(r) == [stopped |-> FALSE, running |-> FALSE, addr |-> FALSE, rules |-> r]

SandboxInit ==
    /\ tree \in {[rev |-> 1, proxy |-> p, valid |-> TRUE, key |-> 1] : p \in BOOLEAN}
    /\ holds = [c \in Callers |-> IF c = "setup" THEN tree ELSE NoTree]
    /\ conf = NoTree /\ cfgErr = FALSE /\ proxyErr = FALSE /\ closed = FALSE /\ gen = 0 /\ applied = 0
    /\ pm = 0 /\ managers = <<>> /\ servers = <<>>
    /\ sshFile = NoKey /\ agent = {} /\ synced = NoKey /\ failures = 0

proxyVars == <<conf, cfgErr, proxyErr, closed, gen, applied, pm, managers, servers>>
sshVars == <<sshFile, agent, synced>>

Running(m) == managers[m].running /\ managers[m].addr

-----------------------------------------------------------------------------
\* The source takes a new revision and calls back.
Revise(p, v, k) ==
    /\ tree.rev < MaxRevisions /\ holds["watch"] = NoTree
    /\ tree' = [rev |-> tree.rev + 1, proxy |-> p, valid |-> v, key |-> k]
    /\ holds' = [holds EXCEPT !["watch"] = tree']
    /\ UNCHANGED <<proxyVars, sshVars, failures>>

\* The goroutine of startProxyLocked.
Started(m) == Append(servers, [manager |-> m, gen |-> gen + 1, at |-> "serve"])

\* A proxy is started again only after its end was reported.
MayRetry(m) == proxyErr /\ ~Running(m)

\* The proxy of an apply, and whether its bind succeeds; c is the configuration read.
ApplyProxy(c, ok) ==
    LET start(ms, m) ==
            /\ gen' = gen + 1 /\ proxyErr' = ~ok
            /\ IF ok THEN /\ managers' = [ms EXCEPT ![m].running = TRUE, ![m].addr = TRUE]
                          /\ servers' = Started(m)
               ELSE managers' = ms /\ UNCHANGED servers
    IN
    IF ~c.proxy /\ (pm # 0 \/ proxyErr)
    THEN /\ gen' = gen + 1 /\ pm' = 0 /\ proxyErr' = FALSE
         /\ managers' = IF pm = 0 THEN managers ELSE [managers EXCEPT ![pm].stopped = TRUE, ![pm].running = FALSE, ![pm].addr = FALSE]
         /\ servers' = [i \in DOMAIN servers |->
                          IF servers[i].manager = pm /\ servers[i].at = "serve" THEN [servers[i] EXCEPT !.at = "ended"] ELSE servers[i]]
    ELSE IF pm # 0
    THEN LET ms == [managers EXCEPT ![pm].rules = c.rev] IN
         /\ UNCHANGED pm
         /\ IF MayRetry(pm) THEN start(ms, pm) ELSE managers' = ms /\ UNCHANGED <<servers, gen, proxyErr>>
    ELSE IF c.proxy
    THEN LET ms == Append(managers, NewManager(c.rev)) IN pm' = Len(ms) /\ start(ms, Len(ms))
    ELSE UNCHANGED <<pm, managers, servers, gen, proxyErr>>

\* syncSSHCredentials removes from the agent the key of a file it overwrites or removes.
AgentWithout(t) == IF sshFile # NoKey /\ sshFile # t.key THEN agent \ {sshFile} ELSE agent

\* The keys of an apply: a revoked key is cleared, a new one set up, which may fail.
ApplyKeys(t, ok) ==
    LET changed == t.key # NoKey /\ synced # t.key
        revoked == t.key = NoKey /\ synced # NoKey
    IN
    /\ sshFile' = t.key
    /\ agent' = IF revoked THEN {} ELSE AgentWithout(t) \cup (IF changed /\ ok THEN {t.key} ELSE {})
    /\ synced' = IF changed THEN t.key ELSE IF revoked THEN NoKey ELSE synced

MayApply == ~closed

\* refresh and apply.  The configuration is read from the source now; the credentials are
\* those the caller was given.  A bind or a key set-up may fail.
Refresh(c, bound, loaded) ==
    /\ holds[c] # NoTree /\ holds' = [holds EXCEPT ![c] = NoTree]
    /\ Len(servers) < MaxStarts
    /\ (bound /\ loaded) \/ failures < MaxFailures
    /\ failures' = IF bound /\ loaded THEN failures ELSE failures + 1
    /\ IF ~MayApply THEN UNCHANGED <<proxyVars, sshVars>>
       ELSE /\ ApplyKeys(holds[c], loaded)
            /\ applied' = holds[c].rev
            /\ IF tree.valid
               THEN ApplyProxy(tree, bound) /\ conf' = tree /\ cfgErr' = FALSE
               ELSE cfgErr' = TRUE /\ UNCHANGED <<conf, gen, proxyErr, pm, managers, servers>>
            /\ UNCHANGED closed
    /\ UNCHANGED tree

\* serve: the server ends by itself, and when it has ended ...
ServerFails(i) ==
    /\ servers[i].at = "serve" /\ failures < MaxFailures /\ failures' = failures + 1
    /\ servers' = [servers EXCEPT ![i].at = "ended"]
    /\ UNCHANGED <<tree, holds, conf, cfgErr, proxyErr, closed, gen, applied, pm, managers, sshVars>>
\* ... two stores ...
StoreRunning(i) ==
    /\ servers[i].at = "ended" /\ servers' = [servers EXCEPT ![i].at = "stored"]
    /\ managers' = [managers EXCEPT ![servers[i].manager].running = FALSE]
    /\ UNCHANGED <<tree, holds, conf, cfgErr, proxyErr, closed, gen, applied, pm, sshVars, failures>>
StoreAddr(i) ==
    /\ servers[i].at = "stored" /\ servers' = [servers EXCEPT ![i].at = "report"]
    /\ managers' = [managers EXCEPT ![servers[i].manager].addr = FALSE]
    /\ UNCHANGED <<tree, holds, conf, cfgErr, proxyErr, closed, gen, applied, pm, sshVars, failures>>

\* Mutant: an older server is not told apart.
IsCurrentAny(i) == ~closed

IsCurrent(i) == servers[i].gen = gen /\ ~closed

\* ... and the report, under the sandbox's mutex.
OnExit(i) ==
    /\ servers[i].at = "report" /\ servers' = [servers EXCEPT ![i].at = "done"]
    /\ proxyErr' = (proxyErr \/ IsCurrent(i))
    /\ UNCHANGED <<tree, holds, conf, cfgErr, closed, gen, applied, pm, managers, sshVars, failures>>

Close ==
    /\ ~closed /\ closed' = TRUE /\ gen' = gen + 1 /\ pm' = 0
    /\ managers' = IF pm = 0 THEN managers ELSE [managers EXCEPT ![pm].stopped = TRUE, ![pm].running = FALSE, ![pm].addr = FALSE]
    /\ servers' = [i \in DOMAIN servers |->
                     IF servers[i].manager = pm /\ servers[i].at = "serve" THEN [servers[i] EXCEPT !.at = "ended"] ELSE servers[i]]
    /\ UNCHANGED <<tree, holds, conf, cfgErr, proxyErr, applied, sshVars, failures>>

SandboxNext ==
    \/ \E p, v \in BOOLEAN, k \in 0..2 : Revise(p, v, k)
    \/ \E c \in Callers, bound, loaded \in BOOLEAN : Refresh(c, bound, loaded)
    \/ \E i \in DOMAIN servers : ServerFails(i) \/ StoreRunning(i) \/ StoreAddr(i) \/ OnExit(i)
    \/ Close

SandboxSpec == SandboxInit /\ [][SandboxNext]_sandboxVars

-----------------------------------------------------------------------------
Ready == ~cfgErr /\ ~proxyErr /\ conf # NoTree /\ (pm # 0 => Running(pm))
Serving(m) == \E i \in DOMAIN servers : servers[i].manager = m /\ servers[i].at = "serve"
Settled == (\A c \in Callers : holds[c] = NoTree) /\ \A i \in DOMAIN servers : servers[i].at \in {"serve", "done"}

\* Once nothing is under way, runs are admitted just when the sandbox has what its configuration
\* asks for: the proxy listens, with the rules of that configuration, or there is to be none.  No
\* late report of an older server stops a new one, and no late store hides it (Sandbox.Ready).
ReadyIsServed ==
    Settled /\ ~closed /\ conf # NoTree /\ ~cfgErr =>
        (Ready <=> IF conf.proxy THEN pm # 0 /\ Serving(pm) /\ managers[pm].rules = conf.rev
                   ELSE \A m \in DOMAIN managers : ~Serving(m))

\* A server listens only for the manager in use, and none after Close.
NoServerLeft == \A m \in DOMAIN managers : Serving(m) => m = pm /\ ~closed

\* With no failure the agent holds just the key of the revision that was applied: a key that
\* was replaced or revoked is out of it (syncSSHCredentials, apply).
KeysCurrent == applied > 0 /\ failures = 0 => agent = {sshFile} \ {NoKey}

\* "serializes reading the source and applying, so a stale snapshot never overwrites a newer one".
NothingStale == [][applied' >= applied]_sandboxVars

-----------------------------------------------------------------------------
(***************************************************************************)
(* The runner's view of the shared configuration: two parts are started,   *)
(* the tree and the agent definitions, and started parts watch etcd.  What *)
(* does not start is retried for as long as the runner lives, and the      *)
(* runner reports to the backend why it is not usable.                     *)
(*                                                                         *)
(* etcd's content is a revision that is accepted or rejected.  A start     *)
(* step has a time limit; the watchers live on the step's own context.     *)
(* The manager and the store that watch etcd are external: they take up a  *)
(* revision and call back.                                                 *)
(***************************************************************************)

CONSTANTS MaxRevision, MaxAttempts

VARIABLES
    revision,     \* etcd's revision
    accepted,     \* whether the decoder accepts it
    manager,      \* the tree's revision the manager has, 0 before it started
    taken,        \* the revision the watcher has looked at last
    part,         \* for each part: ready, its watchers, and how often it was started
    loader,       \* the load that runs: its part and step, the tree it hands out, whether it is the first
    loadErr, treeErr,
    told,         \* the tree the runner was handed last
    attempts,
    shut
remoteVars == <<revision, accepted, manager, taken, part, loader, loadErr, treeErr, told, attempts, shut>>

Parts == {"tree", "agents"}
NotStarted == [ready |-> FALSE, watching |-> FALSE, starts |-> 0]
Resting == [at |-> "sleeps", part |-> "tree", tree |-> 0, first |-> FALSE]

\* The first load runs before anybody asks.
RemoteInit ==
    /\ revision = 1 /\ accepted \in BOOLEAN /\ manager = 0 /\ taken = 0
    /\ part = [p \in Parts |-> NotStarted] /\ loader = [Resting EXCEPT !.at = "begins", !.first = TRUE]
    /\ loadErr = FALSE /\ treeErr = FALSE /\ told = 0 /\ attempts = 0 /\ shut = FALSE

Loading(step) == ~shut /\ loader.at = step
Goes(to) == loader' = [loader EXCEPT !.at = to]

-----------------------------------------------------------------------------
(* One load: whatever is not loaded yet, the tree first. *)

Pending == {p \in Parts : ~part[p].ready}
First == IF "tree" \in Pending THEN "tree" ELSE "agents"

Attempt ==
    /\ Loading("begins") /\ attempts < MaxAttempts /\ Pending # {}
    /\ loader' = [loader EXCEPT !.at = "starting", !.part = First] /\ attempts' = attempts + 1
    /\ UNCHANGED <<revision, accepted, manager, taken, part, loadErr, treeErr, told, shut>>

\* etcd does not answer in time, or the revision that is there is rejected.
StartFails ==
    /\ Loading("starting")
    /\ loader' = Resting /\ loadErr' = TRUE
    /\ UNCHANGED <<revision, accepted, manager, taken, part, treeErr, told, attempts, shut>>

StartSucceeds ==
    /\ Loading("starting") /\ (loader.part = "tree" => accepted)
    /\ part' = [part EXCEPT ![loader.part].watching = TRUE, ![loader.part].starts = @ + 1]
    /\ IF loader.part = "tree" THEN manager' = revision /\ taken' = revision ELSE UNCHANGED <<manager, taken>>
    /\ Goes("started")
    /\ UNCHANGED <<revision, accepted, loadErr, treeErr, told, attempts, shut>>

\* The timer of the step fires before it is stopped.
TimerFires ==
    /\ Loading("started")
    /\ part' = [part EXCEPT ![loader.part].watching = FALSE]
    /\ UNCHANGED <<revision, accepted, manager, taken, loader, loadErr, treeErr, told, attempts, shut>>

RemoteReady ==
    /\ Loading("started")
    /\ part' = [part EXCEPT ![loader.part].ready = TRUE]
    /\ loader' = [loader EXCEPT !.at = "fires", !.tree = manager]
    /\ UNCHANGED <<revision, accepted, manager, taken, loadErr, treeErr, told, attempts, shut>>

Clears(left) == left = {}

\* The tree was read before it is handed out.
Fires ==
    /\ Loading("fires")
    /\ told' = IF loader.part = "tree" THEN loader.tree ELSE told
    /\ loadErr' = IF Clears(Pending) THEN FALSE ELSE loadErr
    /\ loader' = IF Pending = {} THEN [Resting EXCEPT !.at = "loaded"] ELSE [loader EXCEPT !.at = "begins"]
    /\ UNCHANGED <<revision, accepted, manager, taken, part, treeErr, attempts, shut>>

RetryLoop == Loading("sleeps") /\ Goes("begins")
             /\ UNCHANGED <<revision, accepted, manager, taken, part, loadErr, treeErr, told, attempts, shut>>

-----------------------------------------------------------------------------
(* The watcher. *)

Change ==
    /\ revision < MaxRevision /\ revision' = revision + 1 /\ accepted' \in BOOLEAN
    /\ UNCHANGED <<manager, taken, part, loader, loadErr, treeErr, told, attempts, shut>>

Watches == ~shut /\ part["tree"].watching /\ taken < revision

OnChange ==
    /\ Watches /\ accepted
    /\ taken' = revision /\ manager' = revision /\ treeErr' = FALSE /\ told' = revision
    /\ UNCHANGED <<revision, accepted, part, loader, loadErr, attempts, shut>>

\* The tree that was accepted before stays in use.
OnError ==
    /\ Watches /\ ~accepted
    /\ taken' = revision /\ treeErr' = TRUE
    /\ UNCHANGED <<revision, accepted, manager, part, loader, loadErr, told, attempts, shut>>

CloseRemote ==
    /\ ~shut /\ shut' = TRUE
    /\ part' = [p \in Parts |-> [part[p] EXCEPT !.watching = FALSE]]
    /\ UNCHANGED <<revision, accepted, manager, taken, loader, loadErr, treeErr, told, attempts>>

RemoteNext == \/ Attempt \/ StartFails \/ StartSucceeds \/ TimerFires \/ RemoteReady \/ Fires \/ RetryLoop
        \/ Change \/ OnChange \/ OnError \/ CloseRemote
RemoteSpec == RemoteInit /\ [][RemoteNext]_remoteVars

RemoteTypeOK ==
    /\ {revision, manager, taken, told} \subseteq 0..MaxRevision /\ attempts \in 0..MaxAttempts
    /\ loader.at \in {"begins", "starting", "started", "fires", "sleeps", "loaded"}

-----------------------------------------------------------------------------
Healthy == ~loadErr /\ ~treeErr
FirstLoadDone == ~loader.first

\* The runner is reported healthy only with both parts loaded and no rejected revision after the one
\* in use, whatever failed in between: an unhealthy runner would be given work.
HealthTells == (FirstLoadDone /\ Healthy) =>
    /\ \A p \in Parts : part[p].ready
    /\ manager = taken

\* A part is started once: the retries of the other do not start a second set of watchers.
StartedOnce == \A p \in Parts : part[p].starts <= 1

\* The context of a step that succeeded drives its watchers for as long as the runner lives.
WatchersLive == ~shut => \A p \in Parts : part[p].ready => part[p].watching

\* The runner is handed the tree the manager has.
ToldCurrent == (loader.at = "loaded" /\ ~shut) => told = manager
=============================================================================
