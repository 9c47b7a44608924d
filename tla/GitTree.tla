------------------------------ MODULE GitTree ------------------------------
(***************************************************************************)
(* The git operations of the runner on a work tree: push and pull, and the *)
(* diff view.                                                              *)
(***************************************************************************)
EXTENDS Naturals, Sequences, FiniteSets, SequencesExt

-----------------------------------------------------------------------------
(***************************************************************************)
(* Push and pull of a work tree (runnerfs/git.go).  git runs with the      *)
(* repository mounted read-only for a push, so the runner works out which  *)
(* remote-tracking ref the push updates before it runs, and writes that    *)
(* ref itself when git ends with 0.  The agent works in the same tree all  *)
(* the while.                                                              *)
(*                                                                         *)
(* A commit is its history, a sequence of identifiers.  What git itself    *)
(* does with a configuration (Destinations, AtPush) is external.           *)
(***************************************************************************)

CONSTANTS Branches, Remotes, Central, MaxAgentSteps, MaxOps

NoRemote == "none"
Refs == Remotes \X Branches

VARIABLES
    gitDir,     \* what .git is: a directory, a file that names another, or one with links out
    config, branch, heads, tracking, server, steps, op, ops
gitVars == <<gitDir, config, branch, heads, tracking, server, steps, op, ops>>

NoRef == <<NoRemote, "none">>
Idle == [at |-> "idle", kind |-> "push", ref |-> NoRef, hash |-> <<>>, sent |-> {}, wrote |-> FALSE, touched |-> FALSE]

Plain == [pushRemote |-> NoRemote, pushDefault |-> NoRemote, upstream |-> Central, mode |-> "simple",
          merge |-> "same", specs |-> FALSE, fetch |-> TRUE, safe |-> TRUE, url |-> TRUE]

PushInit ==
    /\ gitDir = "dir" /\ config = Plain /\ branch \in {CHOOSE b \in Branches : TRUE}
    /\ heads = [b \in Branches |-> <<0>>] /\ tracking = [r \in Refs |-> <<>>]
    /\ server = [r \in Refs |-> IF r = <<Central, branch>> THEN <<0>> ELSE <<>>]
    /\ steps = 0 /\ op = Idle /\ ops = 0

Other(b) == CHOOSE c \in Branches : c # b
MergeOf(b) == IF config.merge = "same" THEN b ELSE Other(b)

-----------------------------------------------------------------------------
\* External: the remote git pushes to, the branches of it that a push sets, and from which.
PushRemote ==
    CASE config.pushRemote # NoRemote -> config.pushRemote
      [] config.pushRemote = NoRemote /\ config.pushDefault # NoRemote -> config.pushDefault
      [] config.pushRemote = NoRemote /\ config.pushDefault = NoRemote /\ config.upstream # NoRemote -> config.upstream
      [] OTHER -> Central
Destinations ==
    LET r == PushRemote
        triangular == config.upstream # r IN
    CASE config.specs -> {<<branch, <<r, Other(branch)>>>>}
      [] ~config.specs /\ config.mode = "current" -> {<<branch, <<r, branch>>>>}
      [] ~config.specs /\ config.mode = "simple" -> IF triangular \/ MergeOf(branch) = branch THEN {<<branch, <<r, branch>>>>} ELSE {}
      [] ~config.specs /\ config.mode = "upstream" -> IF triangular THEN {} ELSE {<<branch, <<r, MergeOf(branch)>>>>}
      [] OTHER -> {<<b, <<r, b>>>> : b \in {c \in Branches : server[<<r, c>>] # <<>>}}

\* External: @{push}, which is known only when its tracking ref is there.
AtPush ==
    LET d == {e \in Destinations : e[1] = branch} IN
    IF config.fetch /\ Cardinality(d) = 1 /\ \E e \in d : tracking[e[2]] # <<>> THEN (CHOOSE e \in d : TRUE)[2] ELSE NoRef

\* The agent, at any time: commits, amends, another branch, another configuration, a fetch.
Touch == op' = [op EXCEPT !.touched = op.at \in {"vetted", "checked", "named", "resolved"} \/ op.touched]
Commit ==
    /\ steps < MaxAgentSteps /\ steps' = steps + 1 /\ Touch
    /\ \/ heads' = [heads EXCEPT ![branch] = Append(@, steps + 1)]
       \/ heads' = [heads EXCEPT ![branch] = Append(Front(@), steps + 1)]
    /\ UNCHANGED <<gitDir, config, branch, tracking, server, ops>>
Checkout ==
    /\ steps < MaxAgentSteps /\ steps' = steps + 1 /\ Touch
    /\ branch' = Other(branch)
    /\ UNCHANGED <<gitDir, config, heads, tracking, server, ops>>
Configure ==
    /\ config = Plain /\ op.at = "idle"
    /\ \E p, d, u \in Remotes \cup {NoRemote}, m \in {"simple", "current", "upstream", "matching"}, g \in {"same", "other"}, s, f, safe, url \in BOOLEAN :
        config' = [pushRemote |-> p, pushDefault |-> d, upstream |-> u, mode |-> m, merge |-> g, specs |-> s, fetch |-> f, safe |-> safe, url |-> url]
    /\ gitDir' \in {"dir", "file", "linked"}
    /\ (config'.safe /\ config'.url) \/ config' = [Plain EXCEPT !.safe = config'.safe, !.url = config'.url]
    /\ gitDir' = "dir" \/ config' = Plain
    /\ UNCHANGED <<branch, heads, tracking, server, steps, op, ops>>
Fetch ==
    /\ steps < MaxAgentSteps /\ steps' = steps + 1 /\ Touch
    /\ config.fetch
    /\ \E r \in Remotes : tracking' = [e \in Refs |-> IF e[1] = r /\ server[e] # <<>> THEN server[e] ELSE tracking[e]]
    /\ tracking' # tracking
    /\ UNCHANGED <<gitDir, config, branch, heads, server, ops>>

-----------------------------------------------------------------------------
Begin(k) ==
    /\ op.at \in {"idle", "done"} /\ ops < MaxOps /\ ops' = ops + 1
    /\ op' = [Idle EXCEPT !.at = "open", !.kind = k]
    /\ UNCHANGED <<gitDir, config, branch, heads, tracking, server, steps>>

\* vetGitDir: a directory of its own, without links out of it.
VetGitDir == gitDir = "dir"

\* openRepo and vetConfig.  (The read-only veto of a pull is that of SandboxMounts.)
OpenRepo ==
    /\ op.at = "open"
    /\ op' = [op EXCEPT !.at = IF VetGitDir /\ config.safe THEN "vetted" ELSE "done"]
    /\ UNCHANGED <<gitDir, config, branch, heads, tracking, server, steps, ops>>

\* checkRemote: every URL git could use is a network URL.
CheckRemote ==
    /\ op.at = "vetted"
    /\ op' = [op EXCEPT !.at = CASE ~config.url -> "done" [] config.url /\ op.kind = "pull" -> "resolved" [] OTHER -> "checked"]
    /\ UNCHANGED <<gitDir, config, branch, heads, tracking, server, steps, ops>>

\* What a push updates can be told: no push refspec of the remote, its fetch refspec the standard one.
Derivable(r) == r # NoRemote /\ ~config.specs /\ config.fetch

ConfiguredRemote ==
    IF config.pushRemote # NoRemote THEN config.pushRemote ELSE IF config.pushDefault # NoRemote THEN config.pushDefault ELSE config.upstream

\* configuredPushRef.
ConfiguredPushRef ==
    LET r == ConfiguredRemote IN
    IF ~Derivable(r) THEN NoRef
    ELSE CASE config.mode \in {"simple", "current"} -> <<r, branch>>
           [] config.mode = "upstream" -> <<r, MergeOf(branch)>>
           [] OTHER -> NoRef

\* pushTracking: the ref first, then, with another command, the commit.
NameRef ==
    /\ op.at = "checked"
    /\ op' = [op EXCEPT !.at = "named", !.ref = IF AtPush # NoRef THEN AtPush ELSE ConfiguredPushRef]
    /\ UNCHANGED <<gitDir, config, branch, heads, tracking, server, steps, ops>>
NameCommit ==
    /\ op.at = "named"
    /\ op' = [op EXCEPT !.at = "resolved", !.hash = heads[branch]]
    /\ UNCHANGED <<gitDir, config, branch, heads, tracking, server, steps, ops>>

\* External: git push.  It ends with 0 only when every branch it sends could be set.  sent: the
\* tracking refs that the fetch refspec has for what was sent.
Accepted(e) == IsPrefix(server[e[2]], heads[e[1]])
Pushes ==
    /\ op.at = "resolved" /\ op.kind = "push"
    /\ LET sent == {e \in Destinations : Accepted(e)} IN
        /\ server' = [r \in Refs |-> IF \E e \in sent : e[2] = r THEN heads[(CHOOSE e \in sent : e[2] = r)[1]] ELSE server[r]]
        /\ op' = [op EXCEPT !.at = IF sent = Destinations /\ sent # {} THEN "pushed" ELSE "failed",
                            !.sent = {<<e[2], heads[e[1]]>> : e \in {d \in sent : config.fetch}}]
    /\ UNCHANGED <<gitDir, config, branch, heads, tracking, steps, ops>>

\* Only after a push that ended with 0, and only a ref that was worked out before it.
MayWrite == op.at = "pushed" /\ op.ref # NoRef

\* gitNetwork, after the push; writeTracking.
WriteTracking ==
    /\ op.at \in {"pushed", "failed"}
    /\ IF MayWrite
       THEN tracking' = [tracking EXCEPT ![op.ref] = op.hash] /\ op' = [op EXCEPT !.at = "done", !.wrote = TRUE]
       ELSE UNCHANGED tracking /\ op' = [op EXCEPT !.at = "done"]
    /\ UNCHANGED <<gitDir, config, branch, heads, server, steps, ops>>

\* gitNetwork: git pull, which has the repository writable and keeps the refs itself.
Pulls ==
    /\ op.at = "resolved" /\ op.kind = "pull"
    /\ LET r == <<config.upstream, MergeOf(branch)>>
           found == config.upstream # NoRemote /\ server[r] # <<>> IN
        /\ tracking' = IF found /\ config.fetch THEN [tracking EXCEPT ![r] = server[r]] ELSE tracking
        /\ heads' = IF found /\ IsPrefix(heads[branch], server[r]) THEN [heads EXCEPT ![branch] = server[r]] ELSE heads
    /\ op' = [op EXCEPT !.at = "done"]
    /\ UNCHANGED <<gitDir, config, branch, server, steps, ops>>

PushNext ==
    \/ Commit \/ Checkout \/ Configure \/ Fetch
    \/ Begin("push") \/ Begin("pull") \/ OpenRepo \/ CheckRemote \/ NameRef \/ NameCommit \/ Pushes \/ WriteTracking \/ Pulls

PushSpec == PushInit /\ [][PushNext]_gitVars

-----------------------------------------------------------------------------
\* Whatever the configuration, the ref that a push records is one that the push set, at the
\* commit it set it to, unless the agent worked in the repository meanwhile
\* (pushTracking, configuredPushRef, writeTracking).
RecordsThePush == op.wrote /\ ~op.touched => <<op.ref, op.hash>> \in op.sent

\* "writes the loose ref file of @{push} (...) with the commit that was pushed" (git.go:51-53),
\* said without regard to what the agent does meanwhile.
RecordsWhatWasPushed == op.wrote => <<op.ref, op.hash>> \in op.sent

-----------------------------------------------------------------------------
(***************************************************************************)
(* The diff view of a work tree (runnerfs/git.go, GitDiff): three listings *)
(* of git are merged into one, and each entry is cut to what fits into one *)
(* frame to the backend.                                                   *)
(*                                                                         *)
(* HEAD, index and work tree are functions from paths to contents, 0 for   *)
(* no file.  What git lists (NameStatus) is external.  The agent may       *)
(* change the work tree between the listings and the entries.              *)
(***************************************************************************)

CONSTANTS Paths, Contents, MaxDiffFrame, Sizes

VARIABLES head, index, work, born, view, frame
diffVars == <<head, index, work, born, view, frame>>

Trees == [Paths -> Contents \cup {0}]
NoFile == [p \in Paths |-> 0]
Listing == [at |-> "idle", tracked |-> {}, untracked |-> {}, shown |-> {}, moved |-> FALSE]
NoFrame == [at |-> "idle", was |-> <<0, 0, 0>>, old |-> 0, new |-> 0, hunks |-> 0, cutHunks |-> FALSE, cutContent |-> FALSE]

DiffInit == head = NoFile /\ index = NoFile /\ work = NoFile /\ born = TRUE /\ view = Listing /\ frame = NoFrame

-----------------------------------------------------------------------------
\* External: the agent's commits, staging and edits, once before a request and once during it.
Prepare ==
    /\ view = Listing /\ frame.at = "idle" /\ head = NoFile /\ index = NoFile /\ work = NoFile
    /\ born' \in BOOLEAN /\ head' \in (IF born' THEN Trees ELSE {NoFile}) /\ index' \in Trees /\ work' \in Trees
    /\ UNCHANGED <<view, frame>>
Edit ==
    /\ view.at = "listed" /\ ~view.moved /\ \E p \in Paths, c \in Contents \cup {0} : work' = [work EXCEPT ![p] = c]
    /\ view' = [view EXCEPT !.moved = TRUE]
    /\ UNCHANGED <<head, index, born, frame>>

\* External: the entries of git diff --name-status between two trees, renames found.
NameStatus(a, b) ==
    LET gone == {p \in Paths : a[p] # 0 /\ b[p] = 0}
        come == {p \in Paths : a[p] = 0 /\ b[p] # 0}
        pairs == {<<p, q>> \in gone \X come : a[p] = b[q]}
        renames == {e \in pairs : \A f \in pairs : f[1] = e[1] \/ f[2] = e[2] => f = e} IN
    {[status |-> "R", old |-> e[1], new |-> e[2]] : e \in renames}
    \cup {[status |-> "D", old |-> p, new |-> p] : p \in {q \in gone : \A e \in renames : e[1] # q}}
    \cup {[status |-> "A", old |-> p, new |-> p] : p \in {q \in come : \A e \in renames : e[2] # q}}
    \cup {[status |-> "M", old |-> p, new |-> p] : p \in {q \in Paths : a[q] # 0 /\ b[q] # 0 /\ a[q] # b[q]}}

\* External: what git takes the work tree to be: of the paths that are in the index only.
Worked == [p \in Paths |-> IF index[p] = 0 THEN 0 ELSE work[p]]
Untracked == {p \in Paths : index[p] = 0 /\ work[p] # 0}

\* Mutant: the two listings are those of the work tree and of HEAD: what is staged is not asked for.
MergeWorktree(a, b) == a
\* mergeNameStatusEntries: by new path, the work tree's entry before the staged one.
Merge(a, b) == a \cup {e \in b : \A f \in a : f.new # e.new}

\* GitDiff, the listings: against HEAD, or against the index when there is no HEAD yet; staged; untracked.
List ==
    /\ view.at = "idle" /\ (head # NoFile \/ index # NoFile \/ work # NoFile)
    /\ view' = [view EXCEPT !.at = "listed",
                            !.tracked = Merge(NameStatus(IF born THEN head ELSE index, Worked), NameStatus(head, index)),
                            !.untracked = Untracked]
    /\ UNCHANGED <<head, index, work, born, frame>>

\* hunkOf, for one path: of the work tree, and when there is none of what is staged.
Hunks(p) == (born /\ head[p] # Worked[p]) \/ head[p] # index[p]

\* trackedEntry and untrackedEntry.
Tracked(e) == [status |-> e.status, old |-> e.old, new |-> e.new, hunks |-> Hunks(e.new)]
Added(p) == [status |-> "A", old |-> "/dev/null", new |-> p, hunks |-> TRUE]

\* GitDiff, the entries; an untracked file that is gone meanwhile is left out.
Show ==
    /\ view.at = "listed"
    /\ view' = [view EXCEPT !.at = "shown",
                            !.shown = {Tracked(e) : e \in view.tracked} \cup {Added(p) : p \in {q \in view.untracked : work[q] # 0}}]
    /\ UNCHANGED <<head, index, work, born, frame>>

-----------------------------------------------------------------------------
Lower(a, b) == IF a < b THEN a ELSE b
Left(size, over) == size - Lower(over, size)
Rest(over, size) == over - Lower(over, size)

\* finish: the hunks give way first, then the new content, then the old.
Cut(o, n, h, over) ==
    LET n1 == Rest(over, h)
        o1 == Rest(n1, n) IN
    [hunks |-> Left(h, over), new |-> Left(n, n1), old |-> Left(o, o1)]

Finish ==
    /\ frame.at = "idle" /\ view.at = "idle" /\ head = NoFile /\ index = NoFile /\ work = NoFile
    /\ \E o, n, h \in Sizes :
        LET over == o + n + h - MaxDiffFrame
            cut == IF o + n + h > MaxDiffFrame THEN Cut(o, n, h, over) ELSE [old |-> o, new |-> n, hunks |-> h] IN
        frame' = [at |-> "sent", was |-> <<o, n, h>>, old |-> cut.old, new |-> cut.new, hunks |-> cut.hunks,
                  cutHunks |-> o + n + h > MaxDiffFrame, cutContent |-> o + n + h > MaxDiffFrame /\ over > h]
    /\ UNCHANGED <<head, index, work, born, view>>

DiffNext == Prepare \/ Edit \/ List \/ Show \/ Finish

DiffSpec == DiffInit /\ [][DiffNext]_diffVars

-----------------------------------------------------------------------------
\* Every path of which HEAD, the index and the work tree do not agree is among the entries,
\* under its old or its new name: a change that is only staged, or only in the work tree, or
\* staged and taken back, is not hidden (GitDiff, mergeNameStatusEntries).
NoChangeHidden ==
    view.at = "shown" /\ ~view.moved =>
        \A p \in Paths : (head[p] # index[p] \/ index[p] # work[p]) => \E e \in view.shown : p \in {e.old, e.new}

\* No two tracked entries are about one new name, and every entry has a hunk to show as long as
\* the work tree stays as it was listed (trackedEntry, hunkOf).
EntriesTell ==
    /\ \A e, f \in view.tracked : e.new = f.new => e = f
    /\ view.at = "shown" /\ ~view.moved => \A e \in view.shown : e.hunks

\* What is sent fits into a frame, loses nothing when it fitted before, and says what was cut
\* (finish).
FrameFits ==
    frame.at = "sent" =>
        /\ frame.old + frame.new + frame.hunks = Lower(MaxDiffFrame, frame.was[1] + frame.was[2] + frame.was[3])
        /\ frame.cutHunks \/ frame.hunks = frame.was[3]
        /\ frame.cutContent <=> <<frame.old, frame.new>> # <<frame.was[1], frame.was[2]>>
=============================================================================
