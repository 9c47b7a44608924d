------------------------------ MODULE Notebook ------------------------------
(***************************************************************************)
(* The notebook plugin: its pipelines, and the lock file they hold during  *)
(* a scan.                                                                 *)
(***************************************************************************)
EXTENDS Integers, FiniteSets

-----------------------------------------------------------------------------
(***************************************************************************)
(* The notebook pipelines (plugins/notebook): a run scans the vault for    *)
(* files that are new or changed since they were recorded, an agent works  *)
(* on them in groups, and what came of it is recorded under the base name  *)
(* of each file.  The user edits the vault all the while, and two runs may *)
(* overlap: the lock (below) is held during a scan only.                   *)
(*                                                                         *)
(* A file's content is a number, 0 for no file, and is its own checksum.   *)
(***************************************************************************)

CONSTANTS
    Files,          \* numbers, in the order of their paths
    BaseOf(_),      \* the base name of each
    Journal, JournalBatch,
    Runs, MaxContent, MaxFailCount, MaxEdits, MaxRuns

Bases == {BaseOf(f) : f \in Files}

VARIABLES content, entry, run, edits, runs,
    processed,      \* the contents the agent has worked on with success
    raced,          \* files edited after the agent's success and before it was recorded
    failures,       \* of each base name, since the last success
    overlapped
noteVars == <<content, entry, run, edits, runs, processed, raced, failures, overlapped>>

NoEntry == [known |-> FALSE, sha |-> 0, fails |-> 0]
Idle == [at |-> "idle", groups |-> {}, result |-> [f \in Files |-> "none"], loaded |-> [b \in Bases |-> NoEntry]]

NotesInit ==
    /\ content = [f \in Files |-> 1] /\ entry = [b \in Bases |-> NoEntry] /\ run = [r \in Runs |-> Idle]
    /\ edits = 0 /\ runs = 0 /\ processed = {} /\ raced = {} /\ failures = [b \in Bases |-> 0] /\ overlapped = FALSE

-----------------------------------------------------------------------------
\* External: the user writes or deletes a file.
Edit(f, c) ==
    /\ edits < MaxEdits /\ edits' = edits + 1 /\ content[f] # c
    /\ content' = [content EXCEPT ![f] = c]
    /\ raced' = IF \E r \in Runs : run[r].result[f] = "ok" THEN raced \cup {f} ELSE raced
    /\ UNCHANGED <<entry, run, runs, processed, failures, overlapped>>

\* Mutant: a file that failed is left alone.
NeedsProcessingOnce(f) == ~entry[BaseOf(f)].known \/ (entry[BaseOf(f)].fails = 0 /\ entry[BaseOf(f)].sha # content[f])

NeedsProcessing(f) ==
    LET e == entry[BaseOf(f)] IN ~e.known \/ (e.fails < MaxFailCount /\ e.sha # content[f])

\* PlanGroups: journal notes in batches, every other file alone.
Rank(f, S) == Cardinality({g \in S : g < f})
PlanGroups(pending) ==
    LET notes == pending \cap Journal IN
    {{g \in notes : Rank(g, notes) \div JournalBatch = Rank(f, notes) \div JournalBatch} : f \in notes}
    \cup {{f} : f \in pending \ Journal}

\* ScanAbsorbPending (ScanIngestPending has no groups).
Scan(r) ==
    /\ run[r].at = "idle" /\ runs < MaxRuns /\ runs' = runs + 1
    /\ overlapped' = (overlapped \/ \E o \in Runs : run[o].at # "idle")
    /\ run' = [run EXCEPT ![r] = [Idle EXCEPT !.at = "running", !.groups = PlanGroups({f \in Files : content[f] # 0 /\ NeedsProcessing(f)})]]
    /\ UNCHANGED <<content, entry, edits, processed, raced, failures>>

\* External: the agent works on a group, with success or not.
Work(r) ==
    /\ run[r].at = "running"
    /\ \E g \in run[r].groups, ok \in BOOLEAN :
        /\ run' = [run EXCEPT ![r].groups = @ \ {g}, ![r].result = [f \in Files |-> IF f \in g THEN (IF ok THEN "ok" ELSE "failed") ELSE @[f]]]
        /\ processed' = IF ok THEN processed \cup {content[f] : f \in g} ELSE processed
    /\ UNCHANGED <<content, entry, edits, runs, raced, failures, overlapped>>

\* A run is cancelled, or its process ends, before it is recorded.
Interrupted(r) ==
    /\ run[r].at # "idle" /\ run' = [run EXCEPT ![r] = Idle]
    /\ UNCHANGED <<content, entry, edits, runs, processed, raced, failures, overlapped>>

\* RecordAbsorbSuccess, its two ends: the state is loaded, and saved as a whole.
Load(r) ==
    /\ run[r].at = "running"
    /\ run' = [run EXCEPT ![r].at = "recording", ![r].loaded = entry]
    /\ UNCHANGED <<content, entry, edits, runs, processed, raced, failures, overlapped>>

\* RecordSuccess: the checksum of the file as it is now.
Success(e, sum) == [known |-> TRUE, sha |-> sum, fails |-> 0]

\* RecordFailure: without a checksum, so that it is tried again.
Failure(e, n) == [known |-> TRUE, sha |-> 0, fails |-> e.fails + n]

\* What was settled of the files of one base name, in the order of the items; a file that is gone
\* has failed.  After: the failures that no success follows.
Position(f) == IF f \in Journal THEN f ELSE f + Cardinality(Files)
Settled(r, b) == {f \in Files : BaseOf(f) = b /\ run[r].result[f] # "none"}
Good(r, b) == {f \in Settled(r, b) : run[r].result[f] = "ok" /\ content[f] # 0}
After(r, b) == {f \in Settled(r, b) : \A g \in Good(r, b) : Position(g) < Position(f)}
Recorded(r, b) ==
    LET e == run[r].loaded[b]
        last == CHOOSE f \in Good(r, b) : \A g \in Good(r, b) : Position(g) <= Position(f)
        settled == IF Good(r, b) = {} THEN e ELSE Success(e, content[last]) IN
    IF After(r, b) = {} THEN settled ELSE Failure(settled, Cardinality(After(r, b)))

Save(r) ==
    /\ run[r].at = "recording"
    /\ entry' = [b \in Bases |-> Recorded(r, b)]
    /\ failures' = [b \in Bases |-> (IF Good(r, b) = {} THEN failures[b] ELSE 0) + Cardinality(After(r, b))]
    /\ run' = [run EXCEPT ![r] = Idle]
    /\ UNCHANGED <<content, edits, runs, processed, raced, overlapped>>

NotesNext ==
    \/ \E f \in Files, c \in 0..MaxContent : Edit(f, c)
    \/ \E r \in Runs : Scan(r) \/ Work(r) \/ Interrupted(r) \/ Load(r) \/ Save(r)

NotesSpec == NotesInit /\ [][NotesNext]_noteVars

-----------------------------------------------------------------------------
\* Between runs a file with a content that no agent has worked on is taken up by the next scan,
\* or has failed too often: whatever was interrupted, overwritten by an overlapping run, or
\* recorded under a shared base name, nothing is forgotten, save a file that was edited between
\* the work on it and its record (NeedsProcessing, RecordSuccess, RecordFailure).
NotForgotten ==
    (\A r \in Runs : run[r].at = "idle") =>
        \A f \in Files \ raced : content[f] # 0 /\ content[f] \notin processed =>
            NeedsProcessing(f) \/ entry[BaseOf(f)].fails >= MaxFailCount

\* A file is given up only after that many failures without a success, as long as runs do not
\* overlap (RecordFailure, RecordSuccess).
GivenUpAfterFailures == ~overlapped => \A b \in Bases : entry[b].fails >= MaxFailCount => failures[b] >= MaxFailCount

-----------------------------------------------------------------------------
(***************************************************************************)
(* The lock file of the notebook functions (plugins/notebook/state.go,     *)
(* FileLock): created exclusively, then filled with the process id, and    *)
(* taken over when the process it names is gone.                           *)
(***************************************************************************)

CONSTANTS Holders, MaxRounds, MaxDeaths,
    Numbers         \* the process ids the system gives out, again and again

VARIABLES file, holder, rounds, deaths,
    processes,      \* the ids of the live processes
    again           \* the ids that went to another process after a death
lockVars == <<file, holder, rounds, deaths, processes, again>>

NoFile == [there |-> FALSE, pid |-> 0, by |-> "none"]
Out == [at |-> "out", attempt |-> 0, saw |-> 0, pid |-> 0, met |-> FALSE]

PidInit ==
    /\ file = NoFile /\ holder = [h \in Holders |-> Out] /\ rounds = 0 /\ deaths = 0
    /\ processes \in SUBSET Numbers /\ again = {}

Busy(h) == h \in Holders /\ holder[h].at \in {"write", "held"}
\* h meets another that is at it or has it.
Met(h) == \E o \in Holders \ {h} : Busy(o)

Goto(h, at) == holder' = [holder EXCEPT ![h].at = at, ![h].met = holder[h].met \/ Met(h)]

-----------------------------------------------------------------------------
\* A run of a live process, of which it may have several.
Acquire(h) ==
    /\ holder[h].at = "out" /\ rounds < MaxRounds
    /\ rounds' = rounds + 1
    /\ \E p \in processes : holder' = [holder EXCEPT ![h] = [Out EXCEPT !.at = "create", !.pid = p]]
    /\ UNCHANGED <<file, deaths, processes, again>>

\* O_CREATE|O_EXCL, at most twice.
Create(h) ==
    /\ holder[h].at = "create"
    /\ CASE holder[h].attempt = 2 -> Goto(h, "refused") /\ UNCHANGED file
         [] holder[h].attempt < 2 /\ ~file.there ->
                /\ holder' = [g \in Holders |-> IF g = h THEN [holder[h] EXCEPT !.at = "write"]
                                               ELSE [holder[g] EXCEPT !.met = TRUE]]
                /\ file' = [there |-> TRUE, pid |-> 0, by |-> h]
         [] OTHER -> Goto(h, "read") /\ UNCHANGED file
    /\ UNCHANGED <<rounds, deaths, processes, again>>
WritePid(h) ==
    /\ holder[h].at = "write"
    /\ file' = IF file.by = h THEN [file EXCEPT !.pid = holder[h].pid] ELSE file
    /\ Goto(h, "held")
    /\ UNCHANGED <<rounds, deaths, processes, again>>
ReadPid(h) ==
    /\ holder[h].at = "read"
    /\ holder' = [holder EXCEPT ![h].at = IF file.there THEN "judge" ELSE "create",
                                ![h].attempt = IF file.there THEN @ ELSE @ + 1,
                                ![h].saw = file.pid, ![h].met = holder[h].met \/ Met(h)]
    /\ UNCHANGED <<file, rounds, deaths, processes, again>>

\* isPIDRunning: whether any live process has the number, the one that asks included.
Running(pid) == pid \in processes

\* The one it names is alive, or the file is stale or has nothing in it.
Judge(h) ==
    /\ holder[h].at = "judge"
    /\ IF Running(holder[h].saw) THEN Goto(h, "refused") /\ UNCHANGED file
       ELSE /\ file' = NoFile
            /\ holder' = [holder EXCEPT ![h].at = "create", ![h].attempt = @ + 1, ![h].met = @ \/ Met(h)]
    /\ UNCHANGED <<rounds, deaths, processes, again>>

Release(h) ==
    /\ holder[h].at = "held" /\ file' = NoFile /\ holder' = [holder EXCEPT ![h] = Out]
    /\ UNCHANGED <<rounds, deaths, processes, again>>
GiveUp(h) ==
    /\ holder[h].at = "refused" /\ holder' = [holder EXCEPT ![h] = Out]
    /\ UNCHANGED <<file, rounds, deaths, processes, again>>

\* A process ends where its runs are.  The next one has a number no live process has: in a
\* container, where the server is always the first, the same one.
Dies(p) ==
    /\ p \in processes /\ deaths < MaxDeaths /\ deaths' = deaths + 1
    /\ processes' = processes \ {p}
    /\ holder' = [h \in Holders |-> IF holder[h].pid = p THEN Out ELSE holder[h]]
    /\ UNCHANGED <<file, rounds, again>>
Starts(p) ==
    /\ p \notin processes /\ deaths > 0
    /\ processes' = processes \union {p} /\ again' = again \union {p}
    /\ UNCHANGED <<file, holder, rounds, deaths>>

PidNext ==
    \/ \E h \in Holders : Acquire(h) \/ Create(h) \/ WritePid(h) \/ ReadPid(h) \/ Judge(h) \/ Release(h) \/ GiveUp(h)
    \/ \E p \in Numbers : Dies(p) \/ Starts(p)

PidSpec == PidInit /\ [][PidNext]_lockVars

-----------------------------------------------------------------------------
\* Nobody is refused the lock for one that is dead, or that nobody wants: who is refused has met
\* another that had it or was taking it, or the number in the file has gone to another process
\* since (Acquire, isPIDRunning).
RefusedForALiveOne ==
    \A h \in Holders : holder[h].at = "refused" => holder[h].met \/ holder[h].saw \in again

\* "Locks held by dead processes are detected and taken over" (state.go:262): not when the number
\* is in use again.  The server, process 1 of its image, that crashed in a scan refuses every
\* later scan for itself.
DeadAreTakenOver == \A h \in Holders : holder[h].at = "refused" => holder[h].met

\* "It uses O_CREATE|O_EXCL to ensure atomic, race-free acquisition" (state.go:276): two do not
\* hold the lock at once.
LockExcludes == \A g, h \in Holders : holder[g].at = "held" /\ holder[h].at = "held" => g = h
=============================================================================
