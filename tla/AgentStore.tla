------------------------------ MODULE AgentStore ------------------------------
(***************************************************************************)
(* The agent definitions kept up to date from etcd (config/agent_store.go) *)
(* and their two consumers: the server's reload (api/manage_handler.go)    *)
(* with the backend's cron jobs, and the runner's cron jobs                *)
(* (runner/lib/cron).  Each definition is written to a directory named for *)
(* its content; a rebuild removes the directories nobody should need.      *)
(*                                                                         *)
(* There is one global agent and one of this runner, both scheduled        *)
(* workflows.  A version is the content of a definition: 0 is no agent and *)
(* Bad one that does not parse.                                            *)
(***************************************************************************)
EXTENDS Integers, FiniteSets

CONSTANTS MaxVersion, MaxChanges

VARIABLES
    role,       \* the process the store is in
    etcd, snap,             \* what is stored, and the snapshots under way to the watchers
    files, built, global, loadErr, disk, accepted, handed,
    proc, registered, reloading, serving, jobs, changes
storeVars == <<role, etcd, snap, files, built, global, loadErr, disk, accepted, handed,
               proc, registered, reloading, serving, jobs, changes>>

Sources == {"agents", "runners"}
Procs == Sources \cup {"start"}
Bad == -1
None == 0
Versions == 1..MaxVersion
NoSnap == -2
Nobody == "nobody"
NoJob == [version |-> None, schedule |-> None]
\* The schedule a version of the definition states.
Schedule(v) == IF v = None THEN None ELSE (v + 1) \div 2

Dirs(b) == {<<k, b[k]>> : k \in {x \in Sources : b[x] # None}}

consumers == <<proc, registered, reloading, serving, jobs>>

Init ==
    /\ role \in {"backend", "runner"}
    /\ etcd = [w \in Sources |-> 1] /\ snap = [w \in Sources |-> NoSnap]
    /\ files = etcd /\ built = [agents |-> 1, runners |-> None] /\ global = 1 /\ loadErr = FALSE
    /\ disk = {<<"agents", 1>>} /\ accepted = {} /\ handed = {}
    /\ proc = [p \in Procs |-> [at |-> IF p = "start" THEN "reload" ELSE "idle", list |-> None]]
    /\ registered = FALSE /\ reloading = Nobody /\ serving = None /\ jobs = NoJob /\ changes = 0

At(p, at) == [proc EXCEPT ![p].at = at]

-----------------------------------------------------------------------------
\* External: a definition is edited, and the watch reports it.
Change(w, v) ==
    /\ changes < MaxChanges /\ snap[w] = NoSnap /\ v # etcd[w]
    /\ etcd' = [etcd EXCEPT ![w] = v] /\ snap' = [snap EXCEPT ![w] = v] /\ changes' = changes + 1
    /\ UNCHANGED <<role, files, built, global, loadErr, disk, accepted, handed, consumers>>

\* Besides the current directories: the previous ones, what is served and what was handed out.
Kept(old) == old \cup accepted \cup handed

\* watchLoop, rebuildLocked.  The callback is the one registered at this moment.
Rebuild(w) ==
    LET f == [files EXCEPT ![w] = snap[w]]
        new == [agents |-> f.agents, runners |-> IF f.runners = built.runners THEN built.runners ELSE None]
    IN
    /\ proc[w].at = "idle" /\ snap[w] # NoSnap
    /\ files' = f /\ snap' = [snap EXCEPT ![w] = NoSnap]
    /\ IF f.agents = Bad
       THEN loadErr' = TRUE /\ UNCHANGED <<built, global, disk>>
       ELSE /\ built' = new /\ global' = f.agents /\ loadErr' = FALSE
            /\ disk' = (disk \cup Dirs(new)) \cap (Dirs(new) \cup Kept(Dirs(built)))
    /\ proc' = At(w, IF registered THEN "reload" ELSE "idle")
    /\ UNCHANGED <<role, etcd, accepted, handed, registered, reloading, serving, jobs, changes>>

\* Who has reloaded: a watcher waits for the next snapshot; at the start the backend
\* registers its callback and reloads once more, the runner only registers.
Then(p) ==
    CASE p \in Sources \/ registered -> "idle"
      [] OTHER -> "register"

AfterRegister == IF role = "backend" THEN "reload" ELSE "idle"

Register ==
    /\ proc["start"].at = "register" /\ registered' = TRUE
    /\ proc' = At("start", AfterRegister)
    /\ UNCHANGED <<role, etcd, snap, files, built, global, loadErr, disk, accepted, handed, reloading, serving, jobs, changes>>

-----------------------------------------------------------------------------
MayReload == reloading = Nobody

\* Server.reload, under reloadMu: LoadAll ...
LoadAll(p) ==
    /\ role = "backend" /\ proc[p].at = "reload" /\ MayReload
    /\ IF loadErr
       THEN proc' = At(p, Then(p)) /\ UNCHANGED <<handed, reloading>>
       ELSE /\ handed' = handed \cup (IF global = None THEN {} ELSE {<<"agents", global>>}) /\ reloading' = p
            /\ proc' = [proc EXCEPT ![p] = [at |-> "serve", list |-> global]]
    /\ UNCHANGED <<role, etcd, snap, files, built, global, loadErr, disk, accepted, registered, serving, jobs, changes>>
\* ... the list is served ...
Serve(p) ==
    /\ proc[p].at = "serve" /\ serving' = proc[p].list /\ proc' = At(p, "accept")
    /\ UNCHANGED <<role, etcd, snap, files, built, global, loadErr, disk, accepted, handed, registered, reloading, jobs, changes>>
\* ... Accept ...
Accept(p) ==
    /\ proc[p].at = "accept"
    /\ accepted' = (IF proc[p].list = None THEN {} ELSE {<<"agents", proc[p].list>>}) /\ handed' = {}
    /\ proc' = At(p, "cron")
    /\ UNCHANGED <<role, etcd, snap, files, built, global, loadErr, disk, registered, reloading, serving, jobs, changes>>
\* ... and WorkflowCronManager.Reload, which registers every job anew.
ReloadJobs(p) ==
    /\ proc[p].at = "cron"
    /\ jobs' = IF <<"agents", proc[p].list>> \in disk THEN [version |-> proc[p].list, schedule |-> Schedule(proc[p].list)] ELSE NoJob
    /\ reloading' = Nobody /\ proc' = At(p, Then(p))
    /\ UNCHANGED <<role, etcd, snap, files, built, global, loadErr, disk, accepted, handed, registered, serving, changes>>

-----------------------------------------------------------------------------
\* RunnerCronManager.Reload: the agents of the runner are asked for without a lock ...
Agents(p) ==
    /\ role = "runner" /\ proc[p].at = "reload"
    /\ IF loadErr \/ files.runners = Bad
       THEN proc' = At(p, Then(p)) /\ UNCHANGED <<built, disk>>
       ELSE /\ built' = [built EXCEPT !.runners = files.runners] /\ disk' = disk \cup Dirs(built')
            /\ proc' = [proc EXCEPT ![p] = [at |-> "read", list |-> files.runners]]
    /\ UNCHANGED <<role, etcd, snap, files, global, loadErr, accepted, handed, registered, reloading, serving, jobs, changes>>
\* ... their definitions are read ...
ReadDefinitions(p) ==
    /\ proc[p].at = "read"
    /\ proc' = [proc EXCEPT ![p] = [at |-> "apply", list |-> IF <<"runners", @.list>> \in disk THEN @.list ELSE None]]
    /\ UNCHANGED <<role, etcd, snap, files, built, global, loadErr, disk, accepted, handed, registered, reloading, serving, jobs, changes>>
\* ... and the jobs are brought up to date: a job whose schedule is the same is left alone.
Apply(p) ==
    LET v == proc[p].list IN
    /\ proc[p].at = "apply"
    /\ jobs' = IF jobs.version # None /\ v # None /\ jobs.schedule = Schedule(v) THEN jobs
               ELSE [version |-> v, schedule |-> Schedule(v)]
    /\ proc' = At(p, Then(p))
    /\ UNCHANGED <<role, etcd, snap, files, built, global, loadErr, disk, accepted, handed, registered, reloading, serving, changes>>

Next ==
    \/ \E w \in Sources : Rebuild(w) \/ \E v \in Versions \cup {None, Bad} : Change(w, v)
    \/ Register
    \/ \E p \in Procs : LoadAll(p) \/ Serve(p) \/ Accept(p) \/ ReloadJobs(p) \/ Agents(p) \/ ReadDefinitions(p) \/ Apply(p)

Spec == Init /\ [][Next]_storeVars

-----------------------------------------------------------------------------
Settled == registered /\ (\A w \in Sources : snap[w] = NoSnap) /\ \A p \in Procs : proc[p].at = "idle"

\* The directories of the list the server serves, and of a list it is about to serve, are on
\* disk, however many changes arrive meanwhile and whichever of them are rejected.
ServedReadable ==
    role = "backend" =>
        /\ serving # None => <<"agents", serving>> \in disk
        /\ \A p \in Procs : proc[p].at \in {"serve", "accept", "cron"} /\ proc[p].list # None => <<"agents", proc[p].list>> \in disk

\* When every change was taken in and the definitions parse, the server serves the ones in etcd
\* and its jobs are theirs: no change is missed at the start, and none is applied out of order.
BackendUpToDate ==
    role = "backend" /\ Settled /\ ~loadErr =>
        serving = etcd.agents /\ jobs = [version |-> etcd.agents, schedule |-> Schedule(etcd.agents)]

\* "Reload synchronizes scheduled jobs with the runner's effective workflow agents": when every
\* change was taken in, the job is the definition's.
RunnerJobsCurrent ==
    role = "runner" /\ Settled /\ ~loadErr /\ etcd.runners # Bad => jobs.version = etcd.runners
=============================================================================
