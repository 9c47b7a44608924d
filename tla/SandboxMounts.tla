---------------------------- MODULE SandboxMounts ----------------------------
(***************************************************************************)
(* The mount lists a runner gives bubblewrap (backend/lib/bwrap): one for  *)
(* an agent's command-line tool and one for the commands it or a workflow  *)
(* runs. A list is an ordered sequence of mounts over a small host tree,   *)
(* and what the sandbox sees of a path is decided by the last mount at or  *)
(* above it. Symbolic links, globs and the environment are left out.       *)
(***************************************************************************)
EXTENDS Integers, Sequences, FiniteSets

CONSTANTS
    RunDirs,      \* directories a session may run in and a configuration may name
    Roots,        \* directories a configuration may mount read-only
    KeepNames     \* names a mask rule may keep or match

VARIABLES
    request,      \* what the sandbox is asked for
    built         \* the mounts, once they are listed; <<>> before, and when it fails

mountVars == <<request, built>>

\* The host: HOME with its keys, the server's configuration, a tool's own
\* directory and the session data (the layout of a runner without a data
\* volume), and a project beside it.
Home == <<"home">>
Ssh == <<"home", "ssh">>
Config == <<"home", "config">>
Cli == <<"home", "cli">>
Data == <<"home", "data">>
Session == <<"home", "data", "own">>
Logs == <<"home", "data", "logs">>
Project == <<"proj">>
Tree == {Home, Ssh, Ssh \o <<"key">>, Ssh \o <<"pub">>, Config, Cli, Data, Session, Data \o <<"other">>, Logs,
         Project, Project \o <<"a">>, Project \o <<"a", "x">>, Project \o <<"a", "y">>, Project \o <<"b">>}

Beneath(base, p) == Len(base) <= Len(p) /\ SubSeq(p, 1, Len(base)) = base
beneathAny(dirs, p) == \E d \in dirs : Beneath(d, p)
Children(d) == {p \in Tree : Len(p) = Len(d) + 1 /\ Beneath(d, p)}

\* Mounts: a host directory at its own path, read-write or read-only, or
\* something empty in its place.
Bind(p) == [at |-> p, mode |-> "rw"]
RoBind(p) == [at |-> p, mode |-> "ro"]
Hide(p) == [at |-> p, mode |-> "hidden"]
appendBind(readonly, p) == IF beneathAny(readonly, p) THEN RoBind(p) ELSE Bind(p)

\* A sequence of the mounts of a set of directories, ancestors first.
InOrder(s) == CHOOSE q \in [1 .. Cardinality(s) -> s] :
                 \A i, j \in 1 .. Cardinality(s) : i < j => (q[i] # q[j] /\ Len(q[i].at) <= Len(q[j].at))

NoRule == [mode |-> "none", names |-> {}]
Rules == {NoRule} \cup {[mode |-> "others", names |-> n] : n \in SUBSET KeepNames}
                   \cup {[mode |-> "matched", names |-> n] : n \in SUBSET KeepNames \ {{}}}

\* What a run asks for. runDirs and extra (mount_dirs.readwrite) each name a
\* directory with its mask rule; readonly are the read-only roots; a request
\* without a configuration comes from a workflow's command.
Requests ==
    {r \in [kind : {"agent", "command"}, configured : BOOLEAN, readOnly : BOOLEAN, cross : BOOLEAN,
            entry : RunDirs, rule : Rules, extra : RunDirs, runDir : RunDirs, readonly : SUBSET Roots] :
        /\ r.kind = "agent" => r.configured /\ ~r.cross
        /\ r.readOnly => r.configured /\ r.rule = NoRule
        /\ ~r.configured => r.rule = NoRule /\ r.entry = r.runDir
        /\ r.readOnly \/ ~r.configured => r.extra = r.entry
        /\ Cardinality(r.readonly) <= 1}

\* Directories the sandbox empties after everything else: a read-only root
\* inside one is refused.
Masked(r) == {Ssh, Config} \cup (IF r.kind = "command" THEN {Cli} ELSE {})
validateReadonlyRoots(r) == \A d \in r.readonly : ~beneathAny(Masked(r), d)

Entries(r) == <<r.entry>> \o (IF r.extra = r.entry THEN <<>> ELSE <<r.extra>>)
EntryMounts(r, skipped) ==
    LET kept == SelectSeq(Entries(r), LAMBDA d : ~beneathAny(skipped, d))
    IN  [i \in DOMAIN kept |-> appendBind(r.readonly, kept[i])]

\* The directories from a rule's base down to the run directory: each one is
\* scanned, and the child that leads on is not masked.
Spine(base, run) ==
    IF run = base \/ ~Beneath(base, run) THEN {[scan |-> base, active |-> <<>>]}
    ELSE {[scan |-> SubSeq(run, 1, n), active |-> SubSeq(run, 1, n + 1)] : n \in Len(base) .. Len(run) - 1}

Matches(rule, p) == p[Len(p)] \in rule.names
ShouldMask(rule, p) == IF rule.mode = "others" THEN ~Matches(rule, p) ELSE Matches(rule, p)
MaskedItems(base, rule, run) ==
    {p \in Tree : \E s \in Spine(base, run) :
        p \in Children(s.scan) /\ p # run /\ p # s.active /\ ShouldMask(rule, p)}
applySubdirMaskRule(r) ==
    IF r.rule = NoRule THEN <<>> ELSE InOrder({RoBind(p) : p \in MaskedItems(r.entry, r.rule, r.runDir)})

\* Mutant: read-only roots that lie beneath a mounted directory count as
\* mounted with it.
ReadonlySkipsNested(r) == InOrder({RoBind(d) : d \in {e \in r.readonly : ~Beneath(r.entry, e)}})

appendReadonlyBinds(r) == InOrder({RoBind(d) : d \in r.readonly})

appendSSHSandboxArgs == <<Hide(Ssh), RoBind(Ssh \o <<"pub">>)>>
appendProxySensitiveMaskArgs == <<Hide(Config)>>

Own == {Session}
RunDirMount(r, mounted) == IF beneathAny(mounted, r.runDir) THEN <<>> ELSE <<appendBind(r.readonly, r.runDir)>>
Writable(r, dirs) == {d \in dirs : ~beneathAny(r.readonly, d)}

\* The sandbox of an agent's tool: HOME is not mounted as a whole, only the
\* tool's own directories and the logs.
AgentDirs(r) ==
    IF r.readOnly
    THEN <<RoBind(r.entry)>> \o (IF beneathAny(Own \cup {r.entry}, r.runDir) THEN <<>> ELSE <<RoBind(r.runDir)>>)
    ELSE EntryMounts(r, {}) \o RunDirMount(r, Writable(r, {r.entry, r.extra})) \o applySubdirMaskRule(r)

AgentMounts(r) ==
    AgentDirs(r) \o <<Bind(Logs), appendBind(r.readonly, Cli)>> \o appendReadonlyBinds(r)
        \o appendSSHSandboxArgs \o appendProxySensitiveMaskArgs

\* The sandbox of a command: HOME is mounted as a whole, after the
\* directories outside it.
CommandDirs(r) ==
    CASE r.readOnly ->
            <<RoBind(Home)>>
                \o (IF beneathAny({Home}, r.entry) THEN <<>> ELSE <<RoBind(r.entry)>>)
                \o (IF beneathAny({Home}, r.runDir) \/ r.runDir = r.entry THEN <<>> ELSE <<RoBind(r.runDir)>>)
      [] r.configured /\ ~r.readOnly ->
            EntryMounts(r, {Home})
                \o RunDirMount(r, {Home} \cup Writable(r, {d \in {r.entry, r.extra} : ~Beneath(Home, d)}))
                \o <<Bind(Home)>>
      [] OTHER ->
            (IF Beneath(Home, r.runDir) /\ r.runDir # Home THEN <<>> ELSE <<appendBind(r.readonly, r.runDir)>>)
                \o <<Bind(Home)>>

CrossSession(r) == IF r.cross /\ ~r.readOnly THEN <<Bind(Data)>> ELSE <<Hide(Data)>>

CommandMounts(r) ==
    CommandDirs(r) \o CrossSession(r) \o (IF r.configured /\ ~r.readOnly THEN applySubdirMaskRule(r) ELSE <<>>)
        \o appendReadonlyBinds(r) \o <<Hide(Cli)>> \o appendSSHSandboxArgs \o appendProxySensitiveMaskArgs

\* Where a command starts: the session's own directory is known as /session,
\* and the data of other sessions is refused unless it can be seen.
SandboxCwd(r) ==
    CASE beneathAny(Own, r.runDir) -> "session"
      [] ~beneathAny(Own, r.runDir) /\ ~r.cross /\ ~beneathAny(r.readonly, r.runDir) /\ Beneath(Data, r.runDir) -> "refused"
      [] OTHER -> "same"

NoRequest == [kind |-> "none"]

Init ==
    /\ request = NoRequest
    /\ built = <<>>

\* A run or a command needs a sandbox.
Ask ==
    /\ request = NoRequest
    /\ request' \in Requests
    /\ UNCHANGED built

Build ==
    /\ request # NoRequest /\ built = <<>>
    /\ validateReadonlyRoots(request)
    /\ built' = IF request.kind = "agent" THEN AgentMounts(request) ELSE CommandMounts(request)
    /\ UNCHANGED request

Next == Ask \/ Build

Spec == Init /\ [][Next]_mountVars

-----------------------------------------------------------------------------

Deciding(p) == {i \in DOMAIN built : Beneath(built[i].at, p)}
Mode(p) == IF Deciding(p) = {} THEN "absent"
           ELSE built[CHOOSE i \in Deciding(p) : \A j \in Deciding(p) : j <= i].mode

TypeOK ==
    /\ request \in Requests \cup {NoRequest}
    /\ \A i \in DOMAIN built : built[i] \in [at : Tree, mode : {"rw", "ro", "hidden"}]

\* Nothing at or beneath a read-only root can be written, whatever run
\* directory, read-write mount, tool directory or log directory lies above or
\* below it ("Readonly mounts last among the directory binds, so they win").
ReadonlyWins == built # <<>> => \A p \in Tree : beneathAny(request.readonly, p) => Mode(p) # "rw"

\* Keys and the server's configuration can be seen in no sandbox, whichever
\* directory of HOME is mounted, and a tool's credentials in no command's.
SecretsHidden ==
    built # <<>> => /\ Mode(Ssh \o <<"key">>) \in {"hidden", "absent"}
                    /\ Mode(Config) \in {"hidden", "absent"}
                    /\ request.kind = "command" => Mode(Cli) = "hidden"

\* An agent that may write can write in the directory it runs in, however a
\* mask rule of a directory above it reads, unless the directory is read-only
\* or emptied.
RunDirWritable ==
    built # <<>> /\ ~request.readOnly /\ ~beneathAny(request.readonly \cup Masked(request) \cup {Data}, request.runDir)
        => Mode(request.runDir) = "rw"

\* What a mask rule says is read-only cannot be written, although the
\* directory above it is mounted read-write for other reasons too; a tool's
\* own directory and the logs are the exceptions in an agent's sandbox.
MaskedStaysReadOnly ==
    built # <<>> /\ request.rule # NoRule =>
        \A p \in MaskedItems(request.entry, request.rule, request.runDir) :
            Mode(p) = "rw" => request.kind = "agent" /\ p \in {Cli, Logs}

\* The commands of a read-only agent can write none of the host's
\* directories.
ReadOnlyWritesNothing ==
    built # <<>> /\ request.kind = "command" /\ request.readOnly => \A p \in Tree : Mode(p) # "rw"

\* A workflow's command that is started in a directory finds it: where SandboxCwd does
\* not refuse, the directory is there, unless it is one the sandbox empties.
CwdVisible ==
    built # <<>> /\ request.kind = "command" /\ ~request.configured /\ SandboxCwd(request) = "same"
        /\ ~beneathAny(Masked(request), request.runDir) => Mode(request.runDir) \in {"rw", "ro"}
=============================================================================
