---------------------------- MODULE AppLifecycle ----------------------------
(***************************************************************************)
(* The life of the backend process (lib/app: New, retryConfig, Run, Start, *)
(* Stop) and of the listeners it opens: the degraded endpoint, the runner  *)
(* hub, the LLM proxy and the public server, each with its own goroutine.  *)
(* The configuration manager calls back with changes from the moment it is *)
(* started, while New is still building what the changes are for.          *)
(***************************************************************************)
EXTENDS Naturals, FiniteSets

CONSTANTS Nodes, MaxTries, MaxChanges

VARIABLES main, opened, tree, conf, pm, hub, conn, change, stop, server, cancelled
appVars == <<main, opened, tree, conf, pm, hub, conn, change, stop, server, cancelled>>

\* Configurations: a version, which is the proxy's rules, whether they name a host, the runners that
\* are allowed and whether the section they are in is valid.
NoConf == [set |-> FALSE, rules |-> 0, hosts |-> FALSE, allowed |-> {}, valid |-> FALSE]
NoProxy == [made |-> FALSE, held |-> FALSE, rules |-> 0, hosts |-> FALSE, stopped |-> FALSE, thread |-> "none"]
NoHub == [held |-> FALSE, closed |-> FALSE]
NoChange == [at |-> "idle", tree |-> NoConf, hub |-> FALSE, count |-> 0, built |-> FALSE, was |-> 0]
NoServer == [set |-> FALSE, down |-> "no", shut |-> FALSE, thread |-> "none"]
Away == [at |-> "away", since |-> 0]

Init ==
    /\ main = [at |-> "manager", tries |-> 0, took |-> NoConf]
    /\ opened = {} /\ cancelled = FALSE
    /\ \E hosts \in BOOLEAN : tree = [set |-> TRUE, rules |-> 1, hosts |-> hosts, allowed |-> Nodes, valid |-> TRUE]
    /\ conf = NoConf /\ pm = NoProxy /\ hub = NoHub /\ conn = [n \in Nodes |-> Away]
    /\ change = NoChange /\ stop = "no" /\ server = NoServer

Goto(at) == main' = [main EXCEPT !.at = at]
Built == main.at \in {"start", "set", "check", "select", "down", "stop"}

-----------------------------------------------------------------------------
(* New.  A configuration that is not there or not valid is tried again     *)
(* later, behind an endpoint that says so.                                 *)

\* What is open when an attempt has failed: its client is closed, the endpoint is up.
Abandoned(o) == (o \ {"etcd"}) \cup {"degraded"}

Unavailable ==
    /\ main' = [main EXCEPT !.at = "retry", !.tries = @ + 1]
    /\ opened' = Abandoned(opened) /\ conf' = NoConf /\ change' = [NoChange EXCEPT !.count = change.count]
    /\ UNCHANGED <<tree, pm, hub, conn, stop, server, cancelled>>

NewManager ==
    /\ main.at = "manager"
    /\ \/ Unavailable
       \/ opened' = opened \cup {"etcd"} /\ Goto("watch")
          /\ UNCHANGED <<tree, conf, pm, hub, conn, change, stop, server, cancelled>>
StartManager ==
    /\ main.at = "watch"
    /\ \/ Unavailable
       \/ Goto("get") /\ UNCHANGED <<opened, tree, conf, pm, hub, conn, change, stop, server, cancelled>>
\* The snapshot is taken, and becomes the configuration in a second step.
TakeSnapshot ==
    /\ main.at = "get" /\ main' = [main EXCEPT !.at = "conf", !.took = tree]
    /\ UNCHANGED <<opened, tree, conf, pm, hub, conn, change, stop, server, cancelled>>
UseSnapshot ==
    /\ main.at = "conf"
    /\ \/ Unavailable
       \/ main.took.valid /\ conf' = main.took /\ Goto("store")
          /\ UNCHANGED <<opened, tree, pm, hub, conn, change, stop, server, cancelled>>
StartStore ==
    /\ main.at = "store"
    /\ \/ Unavailable
       \/ opened' = opened \cup {"store"} /\ Goto("proxy")
          /\ UNCHANGED <<tree, conf, pm, hub, conn, change, stop, server, cancelled>>
Retry ==
    /\ main.at = "retry"
    /\ IF cancelled THEN Goto("returned") /\ opened' = opened \ {"degraded"}
       ELSE main.tries < MaxTries /\ Goto("manager") /\ UNCHANGED opened
    /\ UNCHANGED <<tree, conf, pm, hub, conn, change, stop, server, cancelled>>

\* Only when it is enabled, which needs rules.
MakeProxy ==
    /\ main.at = "proxy"
    /\ \/ conf.hosts /\ pm' = [pm EXCEPT !.made = TRUE, !.rules = conf.rules, !.hosts = TRUE] /\ Goto("holder")
       \/ UNCHANGED pm /\ Goto("hub")
    /\ UNCHANGED <<opened, tree, conf, hub, conn, change, stop, server, cancelled>>
HoldProxy ==
    /\ main.at = "holder" /\ pm' = [pm EXCEPT !.held = TRUE] /\ Goto("hub")
    /\ UNCHANGED <<opened, tree, conf, hub, conn, change, stop, server, cancelled>>

MakeHub ==
    /\ main.at = "hub" /\ hub' = [hub EXCEPT !.held = TRUE] /\ Goto("listen")
    /\ UNCHANGED <<opened, tree, conf, pm, conn, change, stop, server, cancelled>>
StartHub ==
    /\ main.at = "listen" /\ hub' = [hub EXCEPT !.held = TRUE] /\ Goto("auth")
    /\ \/ opened' = opened \cup {"hub", "scheduler"}
       \/ opened' = opened \cup {"scheduler"}
    /\ UNCHANGED <<tree, conf, pm, conn, change, stop, server, cancelled>>

\* Without a configured sign-in New returns at once; the process ends with what it opened.
RequireAuth ==
    /\ main.at = "auth" /\ (Goto("api") \/ Goto("rejected"))
    /\ UNCHANGED <<opened, tree, conf, pm, hub, conn, change, stop, server, cancelled>>
\* api.New fails: all that New opened is closed.
MakeServer ==
    /\ main.at = "api"
    /\ \/ /\ Goto("start") /\ opened' = opened \ {"degraded"} /\ UNCHANGED <<pm, hub, conn>>
       \/ /\ Goto("failed") /\ opened' = {} /\ pm' = [pm EXCEPT !.stopped = TRUE]
          /\ hub' = [hub EXCEPT !.closed = TRUE] /\ conn' = [n \in Nodes |-> Away]
    /\ UNCHANGED <<tree, conf, change, stop, server, cancelled>>

-----------------------------------------------------------------------------
(* A change of the configuration, in the manager's goroutine.              *)
\* The hub is looked up before anything of the change is applied.
Change ==
    /\ "etcd" \in opened /\ main.at # "watch"
    /\ change.at = "idle" /\ change.count < MaxChanges
    /\ \E allowed \in SUBSET Nodes, hosts, valid \in BOOLEAN :
          LET new == [set |-> TRUE, rules |-> tree.rules + 1, hosts |-> hosts, allowed |-> allowed, valid |-> valid]
          IN  /\ tree' = new
              /\ change' = [at |-> "apply", tree |-> new, hub |-> hub.held, count |-> change.count + 1, built |-> Built,
                             was |-> pm.rules]
    /\ UNCHANGED <<main, opened, conf, pm, hub, conn, stop, server, cancelled>>
\* A section of runners that is not valid keeps the previous one.
ApplyChange ==
    /\ change.at = "apply"
    /\ change' = [change EXCEPT !.at = IF conf.set /\ change.hub /\ change.tree.valid THEN "refresh" ELSE "reload"]
    /\ conf' = IF ~conf.set THEN conf
               ELSE IF change.tree.valid THEN change.tree
               ELSE [change.tree EXCEPT !.allowed = conf.allowed, !.valid = conf.valid]
    /\ UNCHANGED <<main, opened, tree, pm, hub, conn, stop, server, cancelled>>
RefreshAllowed ==
    /\ change.at = "refresh" /\ change' = [change EXCEPT !.at = "reload"]
    /\ conn' = [n \in Nodes |-> IF conn[n].at = "added" /\ n \notin conf.allowed THEN Away ELSE conn[n]]
    /\ UNCHANGED <<main, opened, tree, conf, pm, hub, stop, server, cancelled>>
\* Rules that name no host, and a proxy that is switched off, are refused: a report, and the rules
\* stay as they were.
ReloadProxy ==
    /\ change.at = "reload" /\ change' = [change EXCEPT !.at = "idle"]
    /\ pm' = IF pm.held /\ change.tree.hosts THEN [pm EXCEPT !.rules = change.tree.rules, !.hosts = change.tree.hosts] ELSE pm
    /\ UNCHANGED <<main, opened, tree, conf, hub, conn, stop, server, cancelled>>

-----------------------------------------------------------------------------
(* Connections of runners: checked when the handshake is done, added to    *)
(* the hub's set later.                                                    *)
Handshake(n) ==
    /\ "hub" \in opened /\ ~hub.closed /\ conn[n].at = "away" /\ n \in conf.allowed
    /\ conn' = [conn EXCEPT ![n] = [at |-> "checked", since |-> 0]]
    /\ UNCHANGED <<main, opened, tree, conf, pm, hub, change, stop, server, cancelled>>
ServeSession(n) ==
    /\ conn[n].at = "checked"
    /\ conn' = [conn EXCEPT ![n] = IF ~hub.closed THEN [at |-> "added", since |-> change.count] ELSE Away]
    /\ UNCHANGED <<main, opened, tree, conf, pm, hub, change, stop, server, cancelled>>
Detach(n) ==
    /\ conn[n].at = "added" /\ conn' = [conn EXCEPT ![n] = Away]
    /\ UNCHANGED <<main, opened, tree, conf, pm, hub, change, stop, server, cancelled>>

-----------------------------------------------------------------------------
(* Run: Start in this goroutine, Stop in it and, when the context ends, in *)
(* another; each is done once, and who comes second waits for it.          *)
Cancel ==
    /\ ~cancelled /\ cancelled' = TRUE
    /\ UNCHANGED <<main, opened, tree, conf, pm, hub, conn, change, stop, server>>

Start ==
    /\ main.at = "start" /\ Goto("set")
    /\ pm' = IF pm.made THEN [pm EXCEPT !.thread = "spawned"] ELSE pm
    /\ UNCHANGED <<opened, tree, conf, hub, conn, change, stop, server, cancelled>>
SetServer ==
    /\ main.at = "set" /\ server' = [server EXCEPT !.set = TRUE] /\ Goto("check")
    /\ UNCHANGED <<opened, tree, conf, pm, hub, conn, change, stop, cancelled>>

MayListen == server.down = "no"

CheckServer ==
    /\ main.at = "check"
    /\ IF MayListen THEN Goto("select") /\ server' = [server EXCEPT !.thread = "spawned"]
       ELSE Goto("stop") /\ server' = [server EXCEPT !.shut = TRUE]
    /\ UNCHANGED <<opened, tree, conf, pm, hub, conn, change, stop, cancelled>>
\* The server's goroutine failed, a signal came, or its context is done.
Select ==
    /\ main.at = "select" /\ Goto("down")
    /\ UNCHANGED <<opened, tree, conf, pm, hub, conn, change, stop, server, cancelled>>
LeaveStart ==
    /\ main.at = "down" /\ server.down = "done" /\ Goto("stop")
    /\ UNCHANGED <<opened, tree, conf, pm, hub, conn, change, stop, server, cancelled>>
Return ==
    /\ main.at = "stop" /\ stop = "done" /\ Goto("returned")
    /\ UNCHANGED <<opened, tree, conf, pm, hub, conn, change, stop, server, cancelled>>

\* publicSrv.ListenAndServe, which does nothing on a server that has been shut down.
Listen ==
    /\ server.thread = "spawned"
    /\ server' = [server EXCEPT !.thread = IF server.shut THEN "ended" ELSE "serving"]
    /\ UNCHANGED <<main, opened, tree, conf, pm, hub, conn, change, stop, cancelled>>

\* Server.Shutdown: wanted by Start or by Stop.
BeginShutdown ==
    /\ server.down = "no" /\ (main.at = "down" \/ stop = "server")
    /\ server' = [server EXCEPT !.down = "begun"]
    /\ UNCHANGED <<main, opened, tree, conf, pm, hub, conn, change, stop, cancelled>>
ShutdownServer ==
    /\ server.down = "begun"
    /\ server' = IF server.set THEN [server EXCEPT !.down = "done", !.shut = TRUE,
                                                   !.thread = IF @ = "serving" THEN "ended" ELSE @]
                 ELSE [server EXCEPT !.down = "done"]
    /\ UNCHANGED <<main, opened, tree, conf, pm, hub, conn, change, stop, cancelled>>

\* ProxyManager.Shutdown.
ProxyDown == [pm EXCEPT !.stopped = TRUE]

BeginStop ==
    /\ stop = "no" /\ (main.at = "stop" \/ (cancelled /\ Built))
    /\ stop' = "hub"
    /\ pm' = IF pm.made THEN [ProxyDown EXCEPT !.thread = IF @ = "serving" THEN "ended" ELSE @] ELSE pm
    /\ UNCHANGED <<main, opened, tree, conf, hub, conn, change, server, cancelled>>
StopHub ==
    /\ stop = "hub" /\ stop' = "server"
    /\ hub' = [hub EXCEPT !.closed = TRUE] /\ opened' = opened \ {"hub"}
    /\ conn' = [n \in Nodes |-> Away]
    /\ UNCHANGED <<main, tree, conf, pm, change, server, cancelled>>
StopRest ==
    /\ stop = "server" /\ server.down = "done" /\ stop' = "done"
    /\ opened' = opened \ {"scheduler", "store", "etcd"}
    /\ UNCHANGED <<main, tree, conf, pm, hub, conn, change, server, cancelled>>

\* The proxy's goroutine: bind, which is refused once stopped, and serve, which closes the
\* listener at once on a server that has been shut down.
BindProxy ==
    /\ pm.thread = "spawned"
    /\ \/ pm' = [pm EXCEPT !.thread = IF pm.stopped THEN "ended" ELSE "bound"]
       \/ pm' = [pm EXCEPT !.thread = "ended"]
    /\ UNCHANGED <<main, opened, tree, conf, hub, conn, change, stop, server, cancelled>>
ServeProxy ==
    /\ pm.thread = "bound" /\ pm' = [pm EXCEPT !.thread = IF pm.stopped THEN "ended" ELSE "serving"]
    /\ UNCHANGED <<main, opened, tree, conf, hub, conn, change, stop, server, cancelled>>

Next ==
    \/ NewManager \/ StartManager \/ TakeSnapshot \/ UseSnapshot \/ StartStore \/ Retry
    \/ MakeProxy \/ HoldProxy \/ MakeHub \/ StartHub \/ RequireAuth \/ MakeServer
    \/ Change \/ ApplyChange \/ RefreshAllowed \/ ReloadProxy
    \/ \E n \in Nodes : Handshake(n) \/ ServeSession(n) \/ Detach(n)
    \/ Cancel \/ Start \/ SetServer \/ CheckServer \/ Select \/ LeaveStart \/ Return \/ Listen
    \/ BeginShutdown \/ ShutdownServer \/ BeginStop \/ StopHub \/ StopRest \/ BindProxy \/ ServeProxy

Spec == Init /\ [][Next]_appVars

-----------------------------------------------------------------------------
\* Nothing is left when it should be gone, however the end of the context, the start and the
\* goroutines interleave: an attempt that failed leaves only the endpoint that says so; after Run
\* no listener serves, no connection of a runner is kept and nothing New opened is open (New,
\* Start, Stop, Server.Start, Server.Shutdown, ProxyManager.bind, Hub.Stop).
NothingLeftOpen ==
    /\ main.at = "retry" => opened \subseteq {"degraded"}
    /\ main.at = "returned" => opened = {} /\ pm.thread # "serving" /\ server.thread # "serving"
    /\ main.at \in {"returned", "failed"} => \A n \in Nodes : conn[n].at # "added"

\* A change that came when the hub listened or the application was built is applied as far as it is
\* valid: connections from before it whose runner is no longer allowed are closed; the runners that
\* are allowed are the new ones, unless their section is not valid; the proxy has the new rules, or
\* the old ones when the new ones name no host, and never none (New's OnChange callback,
\* reloadRunnerConfig, RefreshAllowed, ProxyManager.Reload).
ChangesApply ==
    /\ change.at = "idle" /\ change.count > 0 =>
        /\ \A n \in Nodes : conn[n].at = "added" /\ conn[n].since < change.count => n \in conf.allowed
        /\ change.built /\ tree.valid => conf.allowed = tree.allowed
        /\ change.built /\ pm.made => pm.rules = IF tree.hosts THEN tree.rules ELSE change.was
    /\ pm.made => pm.hosts

\* "reloading proxy and main config" (app.go:241): what was changed last is in force.
LatestInForce ==
    change.at = "idle" /\ change.built => (pm.made => pm.rules = tree.rules) /\ conf.allowed = tree.allowed

\* "closes the sessions of nodes that are no longer allowed" (hub.go:422).
DisallowedClosed ==
    change.at = "idle" /\ change.built => \A n \in Nodes : conn[n].at = "added" => n \in conf.allowed
=============================================================================
