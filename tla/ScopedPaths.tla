---------------------------- MODULE ScopedPaths ----------------------------
(***************************************************************************)
(* The paths of a chat's files.  A chat has a tmp and a session directory  *)
(* below the data directory of its host; paths name them as "/tmp/x",      *)
(* "tmp/x", "session/<chat>/x" and so on, and the backend and the runner   *)
(* keep them at different places.  A path is authorised in the backend,    *)
(* sent to the runner, and resolved there.                                 *)
(*                                                                         *)
(* A path is clean: a sequence of names, absolute or not, with ".." only   *)
(* in front.  Links are left out (the runner opens a file beneath a        *)
(* directory it holds open).                                               *)
(***************************************************************************)
EXTENDS Integers, Sequences, FiniteSets

CONSTANTS Chat,        \* the id of the chat
          Placeholder, \* "session-id" and "${session_id}"
          Others,      \* the ids of other chats
          Files,       \* names of files and directories that are no chat's id
          Shared,      \* the directory that the agents may work in
          MaxSub       \* the longest path below a directory

VARIABLES job, opened
pathVars == <<job, opened>>

Namespaces == {"tmp", "session"}
Dotted == [tmp |-> ".tmp", session |-> ".session"]
Scopes == {"", "workspace", "tmp", "session"}
Own == {Chat, Placeholder}
Abs(segs) == [abs |-> TRUE, segs |-> segs]
Rel(segs) == [abs |-> FALSE, segs |-> segs]
NoDir == Rel(<<"">>)

Beneath(dir, p) == Len(dir) <= Len(p) /\ SubSeq(p, 1, Len(dir)) = dir
Below(dir, p) == SubSeq(p, Len(dir) + 1, Len(p))
Starts(p, name) == p.segs # <<>> /\ p.segs[1] = name

\* filepath.Join of a directory and a clean path.
Join(dir, segs) ==
    LET ups == Cardinality({i \in DOMAIN segs : segs[i] = ".."})
        up == IF ups > Len(dir) THEN Len(dir) ELSE ups
    IN  SubSeq(dir, 1, Len(dir) - up) \o SubSeq(segs, ups + 1, Len(segs))

\* GetSessionScopedBaseDir
Base(host, ns, chat) == <<host, ns, chat>>

\* stripSessionIDPrefix
Strip(sub) == IF sub # <<>> /\ sub[1] \in Own THEN Tail(sub) ELSE sub

\* isExplicitScopedPath, isRelativeScopedNarrowRunDir: the forms a run directory has.
Names(p, ns) == Starts(p, IF p.abs THEN ns ELSE Dotted[ns])
IsExplicitScoped(p, ns) ==
    /\ Names(p, ns)
    /\ p.abs => Len(p.segs) = 1 \/ p.segs[2] \in Own
IsNarrow(p, ns) == ~p.abs /\ Starts(p, ns) /\ (Len(p.segs) = 1 \/ p.segs[2] \in Own)

\* ResolveSessionScopedPath and RelativeScopedPrefixedPath: the forms a file has.
\* What both name is the rest.
IsScoped(p, ns) == Names(p, ns)
IsPrefixed(p, ns) == ~p.abs /\ Starts(p, ns)
Rest(p) == Strip(Tail(p.segs))

\* reanchorScopedHostPath: a host directory of any chat becomes that of this one.
Reanchored(host, p, ns, chat) == Abs(Base(host, ns, chat) \o SubSeq(p.segs, 4, Len(p.segs)))
IsHostDir(host, p, ns) ==
    p.abs /\ Len(p.segs) >= 3 /\ p.segs[1] = host /\ p.segs[2] = ns
          /\ p.segs[3] \in Own \cup Others \cup Files

NormalizeSessionRunDir(host, p) ==
    LET scoped(ns) == IsExplicitScoped(p, ns) \/ IsNarrow(p, ns)
    IN  IF p = NoDir \/ p = Rel(<<>>) \/ scoped("tmp")
        THEN Abs(Base(host, "tmp", Chat) \o IF p = NoDir \/ p = Rel(<<>>) THEN <<>> ELSE Rest(p))
        ELSE IF scoped("session") THEN Abs(Base(host, "session", Chat) \o Rest(p))
        ELSE IF \E ns \in Namespaces : IsHostDir(host, p, ns)
        THEN Reanchored(host, p, p.segs[2], Chat)
        ELSE p

\* AuthCandidates: what the file may be found as.
AuthCandidates(p, scope) ==
    IF \E ns \in Namespaces : IsScoped(p, ns)
    THEN LET ns == CHOOSE ns \in Namespaces : IsScoped(p, ns)
         IN  {[ns |-> ns, path |-> Abs(<<ns>> \o Rest(p))]}
    ELSE IF \E ns \in Namespaces : IsPrefixed(p, ns)
    THEN LET named == [ns |-> p.segs[1], path |-> Abs(<<p.segs[1]>> \o Rest(p))]
             plain == [ns |-> "", path |-> p]
         IN  CASE scope = p.segs[1] -> {named}
               [] scope = "workspace" -> {plain}
               [] OTHER -> {named, plain}
    ELSE {[ns |-> "", path |-> p]}

\* DirRefFor and runDirString: the chat's own directories are sent by name, and the
\* runner puts them at its place.
DirRefFor(host, dir) ==
    IF \E ns \in Namespaces : Beneath(Base(host, ns, Chat), dir.segs) /\ dir.abs
    THEN [scope |-> dir.segs[2], rel |-> SubSeq(dir.segs, 4, Len(dir.segs))]
    ELSE [scope |-> "absolute", rel |-> dir.segs]
SentDir(host, runner, dir) ==
    LET ref == DirRefFor(host, dir)
    IN  IF dir = NoDir THEN NoDir
        ELSE IF ref.scope = "absolute" THEN dir
        ELSE Abs(Base(runner, ref.scope, Chat) \o ref.rel)

Denied == [ok |-> FALSE, ns |-> "", at |-> <<>>, display |-> NoDir]
Found(ns, at, display) == [ok |-> TRUE, ns |-> ns, at |-> at, display |-> display]

Roots(runner) == {Base(runner, ns, Chat) : ns \in Namespaces} \cup {Shared}

\* ResolveAndValidatePath in a run directory: ambiguous paths are what exists.
ResolveInDir(runner, ws, p, scope, there) ==
    LET inWs == LET at == IF p.abs THEN p.segs ELSE Join(ws, p.segs)
                IN  IF Beneath(ws, at) THEN Found("", at, p) ELSE Denied
        ns == p.segs[1]
        inNs == Found(ns, Base(runner, ns, Chat) \o Rest(p), Abs(<<ns>> \o Rest(p)))
    IN  IF \E n \in Namespaces : IsPrefixed(p, n)
        THEN CASE scope = ns -> inNs
               [] scope = "workspace" -> inWs
               [] OTHER -> IF ws = Base(runner, ns, Chat) THEN inNs
                           ELSE IF "ws" \in there THEN inWs
                           ELSE IF "ns" \in there THEN inNs
                           ELSE inWs
        ELSE inWs

\* openWorkspace: the run directory must lie beneath an allowed one.
OpenWorkspace(runner, dir) ==
    LET ws == NormalizeSessionRunDir(runner, dir)
    IN  IF dir # NoDir /\ ws.abs /\ \E r \in Roots(runner) : Beneath(r, ws.segs) THEN ws ELSE Rel(<<>>)

\* resolvePath: a named directory, an absolute path beneath an allowed one, or a path
\* in the run directory.
ResolvePath(runner, dir, p, scope, there) ==
    LET cands == AuthCandidates(p, scope)
        ws == OpenWorkspace(runner, dir)
    IN  IF Cardinality(cands) = 1 /\ \A c \in cands : c.ns # ""
        THEN LET c == CHOOSE c \in cands : TRUE
             IN  Found(c.ns, Base(runner, c.ns, Chat) \o Rest(p), c.path)
        ELSE IF p.abs /\ scope \notin Namespaces
        THEN IF \E r \in Roots(runner) : Beneath(r, p.segs) THEN Found("", p.segs, p) ELSE Denied
        ELSE IF ~ws.abs THEN Denied
        ELSE ResolveInDir(runner, ws.segs, p, scope, there)

\* fileOps.ref: how the workflow engine names a file to the runner.
Ref(host, dir, p) ==
    LET own == {ns \in Namespaces : Beneath(Base(host, ns, Chat), p)}
    IN  IF own # {}
        THEN LET ns == CHOOSE ns \in own : TRUE
             IN  [dir |-> dir, path |-> Abs(<<ns>> \o SubSeq(p, 4, Len(p))), scope |-> ""]
        ELSE IF dir.abs /\ Beneath(dir.segs, p) /\ p # dir.segs
        THEN [dir |-> dir, path |-> Rel(Below(dir.segs, p)), scope |-> "workspace"]
        ELSE [dir |-> dir, path |-> Abs(p), scope |-> "workspace"]

---------------------------------------------------------------------------
Host == "backend"
Runner == "runner"
SegmentSeqs(n) == UNION {[1 .. k -> Own \cup Files \cup Others \cup Namespaces] : k \in 0 .. n}
SubPaths == UNION {[1 .. k -> Own \cup Files] : k \in 1 .. MaxSub}
RunDirs ==
    {NoDir, Rel(<<"tmp">>), Rel(<<"other">>), Abs(Shared), Abs(<<"elsewhere">>)}
    \cup {Abs(Base(Host, ns, c) \o s) : ns \in Namespaces, c \in {Chat} \cup Others, s \in {<<>>} \cup {<<f>> : f \in Files}}
Requests ==
    {[abs |-> a, segs |-> s] : a \in BOOLEAN, s \in SegmentSeqs(3)}
    \cup {Rel(<<"..">> \o s) : s \in SubPaths}
    \cup {Rel(<<Dotted[ns]>> \o s) : ns \in Namespaces, s \in SubPaths \cup {<<>>}}
    \cup {Abs(Base(h, ns, c) \o s) : h \in {Host, Runner}, ns \in Namespaces, c \in {Chat} \cup Others, s \in SubPaths}
    \cup {Abs(Shared \o s) : s \in SubPaths}
EngineFiles(dir) ==
    {Base(Host, ns, Chat) \o s : ns \in Namespaces, s \in SubPaths}
    \cup {dir.segs \o s : s \in SubPaths}

Idle == [stage |-> "idle"]
Init ==
    /\ job = Idle
    /\ opened = Denied

\* A request of the browser: what it may be is authorised first (AuthCandidates).
AskFile ==
    /\ job = Idle
    /\ \E p \in Requests, scope \in Scopes, dir \in RunDirs :
        job' = [stage |-> "ask", path |-> p, scope |-> scope,
                dir |-> SentDir(Host, Runner, NormalizeSessionRunDir(Host, dir)), from |-> dir,
                file |-> <<>>, candidates |-> AuthCandidates(p, scope)]
    /\ UNCHANGED opened

\* A file of the workflow engine, in a run directory that the runner has allowed.
EngineFile ==
    /\ job = Idle
    /\ \E dir \in RunDirs \ {NoDir} :
        LET sent == NormalizeSessionRunDir(Host, dir)
        IN  /\ (OpenWorkspace(Runner, SentDir(Host, Runner, sent))).abs
            /\ \E f \in EngineFiles(sent) :
                LET ref == Ref(Host, sent, f)
                IN  job' = [stage |-> "engine", path |-> ref.path, scope |-> ref.scope,
                            dir |-> SentDir(Host, Runner, ref.dir), from |-> dir, file |-> f, candidates |-> {}]
    /\ UNCHANGED opened

\* The runner resolves the path with what is there now.
Open ==
    /\ job.stage \in {"ask", "engine"}
    /\ job' = [job EXCEPT !.stage = IF job.stage = "ask" THEN "opened" ELSE "engine opened"]
    /\ \E there \in SUBSET {"ws", "ns"} :
        opened' = ResolvePath(Runner, job.dir, job.path, job.scope, there)

Next == AskFile \/ EngineFile \/ Open

---------------------------------------------------------------------------
\* The file a request is resolved to is one of those it was authorised for, whatever
\* the runner finds there (AuthCandidates: "the outcomes ResolveAndValidatePath can
\* produce").
OpensWhatIsAuthorized ==
    job.stage = "opened" /\ opened.ok
        => [ns |-> opened.ns, path |-> opened.display] \in job.candidates

\* Whatever its spelling, a path reaches this chat's directories or those the agents
\* may work in, and never the directory of another chat (NormalizeSessionRunDir,
\* openWorkspace, ResolveAndValidatePath).
StaysInside == opened.ok => \E r \in Roots(Runner) : Beneath(r, opened.at)

\* Where the runner has a file of the chat's directories or of a shared one.
OnRunner(f) == IF f[1] = Host THEN <<Runner>> \o Tail(f) ELSE f

\* The file that the workflow engine means is the one the runner opens: the chat's
\* directories at the runner's place, others as they are (fileOps.ref, DirRefFor).
\* Left out: directories below them that have the name of the chat or a placeholder,
\* which the runner takes for the chat's own directory (stripSessionIDPrefix).
MeansSameFile ==
    job.stage = "engine opened" /\ (\A i \in 4 .. Len(job.file) : job.file[i] \notin Own)
        => opened.ok /\ opened.at = OnRunner(job.file)

\* Normalising a run directory a second time changes nothing, and it never yields a
\* directory of another chat (a stored directory is normalised again on every use).
NormalizedOnce ==
    job # Idle => LET n == NormalizeSessionRunDir(Host, job.from)
                  IN  /\ NormalizeSessionRunDir(Host, n) = n
                      /\ \A ns \in Namespaces, c \in Others : ~Beneath(Base(Host, ns, c), n.segs)
=============================================================================
