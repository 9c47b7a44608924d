------------------------------- MODULE Cleanup -------------------------------
(***************************************************************************)
(* The daily cleanup: the backend decides from its records which sessions  *)
(* have expired, the runners remove the directories, and a record goes     *)
(* only after its runner has confirmed.  Then every online runner sweeps   *)
(* the directories of which no record knows.                               *)
(*                                                                         *)
(* A time is kept as its side of the cutoff, so time passes only between   *)
(* two passes.  The chat ids are valid ones, and no two sessions share one *)
(* during a pass.                                                          *)
(***************************************************************************)
EXTENDS FiniteSets, Naturals

CONSTANTS Sessions, Nodes, Roots, Local, MaxPasses
\* The id of a runner is not empty, which is what the two marks stand for.
ASSUME CleanupConstants == {"none", "unbound"} \cap Nodes = {}

VARIABLES
    record,    \* the row of each chat: its runner, the age of its last update, its run
    dirs,      \* the directories: where, of which chat, below which root, how old
    node,      \* "online", "offline" or "unknown" to the hub
    pass,      \* the pass that is running
    passes,    \* how many have begun
    touched    \* the chats that became active after the pass had read the records
cleanupVars == <<record, dirs, node, pass, passes, touched>>

Unbound == "unbound"
None == "none"
NoRecord == [runner |-> None, age |-> "fresh", running |-> FALSE]
\* Updated within the month, before it, or longer ago than the grace for a lost runner.
Older(age) == IF age = "fresh" THEN "expired" ELSE "graced"
Rest == [at |-> "rest", todo |-> {}, confirmed |-> {}, keep |-> {}, nodes |-> {}]

Known(c) == record[c].runner # None
Dirs(h, c) == {d \in dirs : d.at = h /\ d.chat = c}
Online(h) == IF h = Local THEN TRUE ELSE node[h] = "online"
Dir(h, c, root, age) == [at |-> h, chat |-> c, root |-> root, age |-> age]

CleanupInit ==
    /\ record = [c \in Sessions |-> NoRecord] /\ dirs = {}
    /\ node = [n \in Nodes |-> "online"]
    /\ pass = Rest /\ passes = 0 /\ touched = {}

-----------------------------------------------------------------------------
(* The chats and the runners, meanwhile. *)

\* A message makes the chat active: its row is updated and its run writes below the
\* runner's directories.  An unbound chat has none there.
Activate(c) ==
    /\ Known(c) /\ ~record[c].running
    /\ record' = [record EXCEPT ![c].age = "fresh", ![c].running = (record[c].runner # Unbound)]
    /\ \/ /\ record[c].runner # Unbound /\ Online(record[c].runner)
          /\ \E roots \in SUBSET Roots \ {{}} :
                dirs' = {d \in dirs : ~(d.at = record[c].runner /\ d.chat = c /\ d.root \in roots)}
                            \cup {Dir(record[c].runner, c, r, "fresh") : r \in roots}
       \/ record[c].runner = Unbound /\ UNCHANGED dirs
    /\ touched' = touched \cup {c}
    /\ UNCHANGED <<node, pass, passes>>

\* A chat is created, bound to a runner or not; a chat of before the runners has its
\* directories on the host of the backend.
Create(c) ==
    /\ ~Known(c) /\ Dirs(Local, c) = {} /\ \A n \in Nodes : Dirs(n, c) = {}
    /\ \E r \in {m \in Nodes : node[m] = "online"} \cup {Unbound} :
          /\ record' = [record EXCEPT ![c] = [runner |-> r, age |-> "fresh", running |-> FALSE]]
          /\ dirs' = dirs \cup IF r = Unbound THEN {Dir(Local, c, root, "fresh") : root \in Roots}
                                              ELSE {Dir(r, c, root, "fresh") : root \in Roots}
    /\ touched' = touched \cup {c}
    /\ UNCHANGED <<node, pass, passes>>

RunEnds(c) ==
    /\ record[c].running
    /\ record' = [record EXCEPT ![c].running = FALSE]
    /\ UNCHANGED <<dirs, node, pass, passes, touched>>

\* A month goes by; a run that is still going keeps neither its row nor its files fresh.
Month ==
    /\ pass = Rest
    /\ record' = [c \in Sessions |-> IF Known(c) THEN [record[c] EXCEPT !.age = Older(@)] ELSE NoRecord]
    /\ dirs' = {[d EXCEPT !.age = "expired"] : d \in dirs}
    /\ UNCHANGED <<node, pass, passes, touched>>

\* A runner goes offline, comes back, or is taken out of the configuration.
NodeChanges(n) ==
    /\ node[n] # "unknown"
    /\ \E to \in {"online", "offline", "unknown"} \ {node[n]} : node' = [node EXCEPT ![n] = to]
    /\ UNCHANGED <<record, dirs, pass, passes, touched>>

-----------------------------------------------------------------------------
(* The pass. *)

\* ExpiredIdleSessions.
ExpiredIdleSessions == {c \in Sessions : Known(c) /\ record[c].age # "fresh" /\ ~record[c].running}

\* cleanRunners begins: the expired sessions are read, by runner.
CleanExpiredSessions ==
    /\ pass = Rest /\ passes < MaxPasses
    /\ passes' = passes + 1 /\ touched' = {}
    /\ pass' = [Rest EXCEPT !.at = "removing", !.todo = {<<c, record[c].runner, record[c].age>> : c \in ExpiredIdleSessions}]
    /\ UNCHANGED <<record, dirs, node>>

\* DeleteSessionRecord and reclaimLocal; or the database fails and the record stays.
Deleted(c) ==
    \/ /\ record' = [record EXCEPT ![c] = NoRecord]
       /\ dirs' = dirs \ Dirs(Local, c)
    \/ UNCHANGED <<record, dirs>>

\* No runner is left to ask: there was none, or it has been gone for the grace.
NobodyToAsk(t) == IF t[2] = Unbound THEN TRUE ELSE node[t[2]] = "unknown" /\ t[3] = "graced"

\* A session bound to no runner, or to one that is long gone, goes without a confirmation.
DropRecord(c) ==
    /\ pass.at = "removing"
    /\ \E t \in pass.todo :
          /\ t[1] = c /\ NobodyToAsk(t)
          /\ pass' = [pass EXCEPT !.todo = @ \ {t}]
    /\ Deleted(c)
    /\ UNCHANGED <<node, passes, touched>>

\* The batch of a runner that has no client is left to the next pass.
SkipNode(n) ==
    /\ pass.at = "removing" /\ node[n] # "online"
    /\ \E t \in pass.todo : t[2] = n /\ ~NobodyToAsk(t)
    /\ pass' = [pass EXCEPT !.todo = {t \in @ : t[2] = n => NobodyToAsk(t)}]
    /\ UNCHANGED <<record, dirs, node, passes, touched>>

\* Mutant: a chat of which one root has been removed counts as removed.
ConfirmedSome(batch, left) == {c \in batch : ~\A r \in Roots : <<c, r>> \in left}

\* The chats of the batch for which the runner reports no failure.
Confirmed(batch, left) == {c \in batch : ~\E r \in Roots : <<c, r>> \in left}

\* The Cleanup of the batch: the runner removes what it can of each chat, every root on
\* its own; its answer may be lost.
RemoteCleanup(n) ==
    LET batch == {t[1] : t \in {u \in pass.todo : u[2] = n}} IN
    /\ pass.at = "removing" /\ node[n] = "online" /\ batch # {}
    /\ \E left \in SUBSET (batch \X Roots), answered \in BOOLEAN :
          /\ dirs' = {d \in dirs : ~(d.at = n /\ d.chat \in batch /\ <<d.chat, d.root>> \notin left)}
          /\ pass' = [pass EXCEPT !.todo = {t \in @ : t[2] # n},
                                  !.confirmed = @ \cup IF answered THEN Confirmed(batch, left) ELSE {}]
    /\ UNCHANGED <<record, node, passes, touched>>

\* The record of a confirmed chat goes, one after the other.
DeleteConfirmed(c) ==
    /\ pass.at = "removing" /\ c \in pass.confirmed
    /\ pass' = [pass EXCEPT !.confirmed = @ \ {c}]
    /\ Deleted(c)
    /\ UNCHANGED <<node, passes, touched>>

\* AllChatIDs.
Keep == {c \in Sessions : Known(c)}

\* sweepOrphans: a directory of no known chat, nothing in it newer than the cutoff.
Orphan(d) == d.chat \notin pass.keep /\ d.age # "fresh"

\* The batches are done: the chats to keep are read and the host of the backend is swept.
BeginSweep ==
    /\ pass.at = "removing" /\ pass.todo = {} /\ pass.confirmed = {}
    /\ pass' = [pass EXCEPT !.at = "sweeping", !.keep = Keep, !.nodes = Nodes \cup {Local}]
    /\ UNCHANGED <<record, dirs, node, passes, touched>>

\* The sweep of a host; a directory may resist.  A runner without a client is passed over.
SweepHost(h) ==
    /\ pass.at = "sweeping" /\ h \in pass.nodes
    /\ pass' = [pass EXCEPT !.nodes = @ \ {h}]
    /\ \/ /\ Online(h)
          /\ \E failed \in SUBSET {d \in dirs : d.at = h} :
                dirs' = {d \in dirs : d.at # h \/ ~Orphan(d) \/ d \in failed}
       \/ ~Online(h) /\ UNCHANGED dirs
    /\ UNCHANGED <<record, node, passes, touched>>

EndPass ==
    /\ pass.at = "sweeping" /\ pass.nodes = {}
    /\ pass' = Rest /\ touched' = {}
    /\ UNCHANGED <<record, dirs, node, passes>>

CleanupNext ==
    \/ Month \/ CleanExpiredSessions \/ BeginSweep \/ EndPass
    \/ \E c \in Sessions : Activate(c) \/ Create(c) \/ RunEnds(c) \/ DropRecord(c) \/ DeleteConfirmed(c)
    \/ \E n \in Nodes : NodeChanges(n) \/ SkipNode(n) \/ RemoteCleanup(n)
    \/ \E h \in Nodes \cup {Local} : SweepHost(h)

CleanupSpec == CleanupInit /\ [][CleanupNext]_cleanupVars

-----------------------------------------------------------------------------
\* The directories that are there before a step and not after it.
Removed == {d \in dirs : ~\E f \in dirs' : f.at = d.at /\ f.chat = d.chat /\ f.root = d.root}

\* A record goes only when nothing of its chat is left that the next pass would have to
\* find by it: the directories on its runner are gone, unless the runner itself is, or
\* the chat became active during the pass (cleanRunners).
RecordOutlivesDirectories ==
    [][\A c \in Sessions :
          Known(c) /\ record'[c] = NoRecord /\ c \notin touched =>
             \/ record[c].runner = Unbound \/ record[c].age = "graced"
             \/ Dirs(record[c].runner, c) = {}]_cleanupVars

\* The files of a session that the pass has not found idle and expired are never removed,
\* neither by the batches nor by the sweep, and nothing fresh is swept (sweepOrphans).
FilesOfKeptStay ==
    [][\A d \in Removed : d.chat \notin touched =>
          /\ d.age # "fresh"
          /\ Known(d.chat) /\ Known(d.chat)' => record[d.chat].age # "fresh" /\ ~record[d.chat].running]_cleanupVars

\* A running session is never cleaned up: neither its record nor a file of it goes
\* (ExpiredIdleSessions).
RunningNeverCleaned ==
    [][\A c \in Sessions : record[c].running =>
          Known(c)' /\ \A d \in Removed : d.chat # c]_cleanupVars

\* A record goes only after the directories it leads to, and only idle,
\* expired sessions lose files (cleanRunners, sweepOrphans).
CleanupKeeps == RecordOutlivesDirectories /\ FilesOfKeptStay
=============================================================================
