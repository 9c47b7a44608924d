---------------------------- MODULE ChatSession ----------------------------
(***************************************************************************)
(* The record of a chat: its row, which several writers change, and the    *)
(* questions to the user that are part of it.                              *)
(***************************************************************************)
EXTENDS Integers, FiniteSets

-----------------------------------------------------------------------------
(***************************************************************************)
(* The row of a chat and the writers that change it, on a database that    *)
(* runs transactions side by side.  Most writers read the row under its    *)
(* lock, change a field and save the whole row; some update columns alone; *)
(* two create the row when it is missing, and the saving ones create it    *)
(* too.  The transcript is appended to under a lock of the process.        *)
(*                                                                         *)
(* Every writer writes once, and its name is the value.  A lock on a row   *)
(* that is not there locks nothing.                                        *)
(***************************************************************************)

CONSTANTS Writers, ChatAgents, StartsThere

VARIABLES
    sessionRow,   \* the committed row
    rowLock,      \* the transaction that has the row
    tx,           \* what each writer does, and the row it has read
    mutex,        \* who has the session's lock in the process
    lines,        \* the messages of the transcript
    last,         \* for each field, who wrote it last
    bindings,     \* what each binder was told
    deleted
rowVars == <<sessionRow, rowLock, tx, mutex, lines, last, bindings, deleted>>

None == "none"
Missing == [there |-> FALSE]
Blank == [there |-> TRUE, title |-> None, runner |-> None, archived |-> None, artifacts |-> {}, count |-> 0,
          status |-> [a \in ChatAgents |-> None], session |-> [a \in ChatAgents |-> None], model |-> [a \in ChatAgents |-> None]]
Ops == {"status", "session", "model", "title", "artifact", "upsert", "bind", "append", "archive", "delete"}
NoTx == [op |-> None, agent |-> None, at |-> "idle", read |-> Missing]
NoLast == [title |-> None, runner |-> None, archived |-> None,
           status |-> [a \in ChatAgents |-> None], session |-> [a \in ChatAgents |-> None], model |-> [a \in ChatAgents |-> None]]

RowInit ==
    /\ sessionRow = (IF StartsThere THEN Blank ELSE Missing)
    /\ rowLock = None /\ mutex = None /\ lines = {}
    /\ tx = [w \in Writers |-> NoTx] /\ last = NoLast
    /\ bindings = [w \in Writers |-> None] /\ deleted = FALSE

Found == sessionRow.there
RowFree == ~Found \/ rowLock = None
AgentOps == {"status", "session", "model"}
SaveOps == AgentOps \cup {"title", "artifact"}
Locking == SaveOps \cup {"upsert", "bind"}

-----------------------------------------------------------------------------
Begin(w) ==
    /\ tx[w].at = "idle"
    /\ \E op \in Ops, a \in ChatAgents :
          /\ op \in AgentOps \/ a = CHOOSE b \in ChatAgents : TRUE
          /\ tx' = [tx EXCEPT ![w] = [op |-> op, agent |-> a, at |-> "begun", read |-> Missing]]
    /\ UNCHANGED <<sessionRow, rowLock, mutex, lines, last, bindings, deleted>>

\* SELECT ... FOR UPDATE.
Locked(w) == IF Found THEN w ELSE rowLock

Read(w) ==
    /\ tx[w].at = "begun" /\ tx[w].op \in Locking /\ RowFree
    /\ rowLock' = Locked(w)
    /\ tx' = [tx EXCEPT ![w].at = "read", ![w].read = sessionRow]
    /\ UNCHANGED <<sessionRow, mutex, lines, last, bindings, deleted>>

\* A transaction that had no row to lock waits for the one that locked it since.
MayWrite(w) == rowLock \in {None, w} \/ ~Found
Commit(w) ==
    /\ tx' = [tx EXCEPT ![w] = [NoTx EXCEPT !.at = "done"]]
    /\ rowLock' = IF rowLock = w THEN None ELSE rowLock

Changed(w, base) ==
    LET a == tx[w].agent IN
    CASE tx[w].op = "status" -> [base EXCEPT !.status[a] = w]
      [] tx[w].op = "session" -> [base EXCEPT !.session[a] = w]
      [] tx[w].op = "model" -> [base EXCEPT !.model[a] = w]
      [] tx[w].op = "artifact" -> [base EXCEPT !.artifacts = @ \cup {w}]
      [] OTHER -> [base EXCEPT !.title = w]
LastOf(w) ==
    LET a == tx[w].agent IN
    CASE tx[w].op = "status" -> [last EXCEPT !.status[a] = w]
      [] tx[w].op = "session" -> [last EXCEPT !.session[a] = w]
      [] tx[w].op = "model" -> [last EXCEPT !.model[a] = w]
      [] tx[w].op = "artifact" -> last
      [] OTHER -> [last EXCEPT !.title = w]

\* The status and the artifacts of a chat that is not there are dropped.
SkipsMissing(w) == tx[w].op \in {"status", "artifact"} /\ ~tx[w].read.there

\* Save writes every column of what was read, and inserts the row when there is none.
Save(w) ==
    /\ tx[w].at = "read" /\ tx[w].op \in SaveOps /\ MayWrite(w)
    /\ IF SkipsMissing(w) THEN UNCHANGED <<sessionRow, last>>
       ELSE /\ sessionRow' = Changed(w, IF tx[w].read.there THEN tx[w].read ELSE Blank)
            /\ last' = LastOf(w)
    /\ Commit(w)
    /\ UNCHANGED <<mutex, lines, bindings, deleted>>

\* Metadata only; a chat that is bound stays bound.
UpsertSession(w) ==
    /\ tx[w].at = "read" /\ tx[w].op = "upsert" /\ MayWrite(w)
    /\ IF ~tx[w].read.there
       THEN IF Found THEN UNCHANGED <<sessionRow, last>>
            ELSE sessionRow' = [Blank EXCEPT !.title = w, !.runner = w] /\ last' = [last EXCEPT !.title = w, !.runner = w]
       ELSE /\ Found
            /\ sessionRow' = [sessionRow EXCEPT !.title = w, !.runner = IF tx[w].read.runner = None THEN w ELSE @]
            /\ last' = [last EXCEPT !.title = w, !.runner = IF tx[w].read.runner = None THEN w ELSE @]
    /\ Commit(w)
    /\ UNCHANGED <<mutex, lines, bindings, deleted>>

MayBind(read) == read.runner = None

BindRunner(w) ==
    /\ tx[w].at = "read" /\ tx[w].op = "bind" /\ MayWrite(w)
    /\ IF ~tx[w].read.there
       THEN IF Found THEN UNCHANGED <<sessionRow, last, bindings>>
            ELSE /\ sessionRow' = [Blank EXCEPT !.runner = w] /\ last' = [last EXCEPT !.runner = w]
                 /\ bindings' = [bindings EXCEPT ![w] = w]
       ELSE IF MayBind(tx[w].read)
       THEN /\ Found
            /\ sessionRow' = [sessionRow EXCEPT !.runner = w] /\ last' = [last EXCEPT !.runner = w]
            /\ bindings' = [bindings EXCEPT ![w] = w]
       ELSE bindings' = [bindings EXCEPT ![w] = tx[w].read.runner] /\ UNCHANGED <<sessionRow, last>>
    /\ Commit(w)
    /\ UNCHANGED <<mutex, lines, deleted>>

ArchiveSession(w) ==
    /\ tx[w].at = "begun" /\ tx[w].op = "archive" /\ RowFree
    /\ IF Found THEN sessionRow' = [sessionRow EXCEPT !.archived = w] /\ last' = [last EXCEPT !.archived = w]
                ELSE UNCHANGED <<sessionRow, last>>
    /\ Commit(w)
    /\ UNCHANGED <<mutex, lines, bindings, deleted>>

-----------------------------------------------------------------------------
(* The transcript: its file, then the columns that count it. *)

AppendToTranscript(w) ==
    /\ tx[w].at = "begun" /\ tx[w].op = "append" /\ mutex = None
    /\ IF Found THEN /\ mutex' = w /\ lines' = lines \cup {w}
                     /\ tx' = [tx EXCEPT ![w].at = "appended", ![w].read = sessionRow]
                ELSE tx' = [tx EXCEPT ![w] = [NoTx EXCEPT !.at = "done"]] /\ UNCHANGED <<mutex, lines>>
    /\ UNCHANGED <<sessionRow, rowLock, last, bindings, deleted>>

\* The database adds one to what it has.
Counted(w) == sessionRow.count + 1

CountMessage(w) ==
    /\ tx[w].at = "appended" /\ RowFree
    /\ sessionRow' = IF Found THEN [sessionRow EXCEPT !.count = Counted(w)] ELSE sessionRow
    /\ mutex' = None /\ Commit(w)
    /\ UNCHANGED <<lines, last, bindings, deleted>>

DeleteSession(w) ==
    /\ tx[w].at = "begun" /\ tx[w].op = "delete" /\ mutex = None /\ RowFree
    /\ sessionRow' = Missing /\ lines' = {} /\ deleted' = TRUE
    /\ Commit(w)
    /\ UNCHANGED <<mutex, last, bindings>>

RowNext == \E w \in Writers :
    \/ Begin(w) \/ Read(w) \/ Save(w) \/ UpsertSession(w) \/ BindRunner(w)
    \/ ArchiveSession(w) \/ AppendToTranscript(w) \/ CountMessage(w) \/ DeleteSession(w)
RowSpec == RowInit /\ [][RowNext]_rowVars

RowTypeOK ==
    /\ rowLock \in Writers \cup {None} /\ mutex \in Writers \cup {None} /\ lines \subseteq Writers
    /\ \A w \in Writers : tx[w].at \in {"idle", "begun", "read", "appended", "done"}

-----------------------------------------------------------------------------
\* No writer undoes what another has committed: every field of the row is what was written to it
\* last, although most writers write the whole row.
NoLostUpdate == (Found /\ ~deleted) =>
    /\ sessionRow.title = last.title /\ sessionRow.runner = last.runner /\ sessionRow.archived = last.archived
    /\ sessionRow.status = last.status /\ sessionRow.session = last.session /\ sessionRow.model = last.model

\* The row counts the messages of the transcript once every append is done.
CountsTranscript == (Found /\ ~deleted /\ mutex = None) => sessionRow.count = Cardinality(lines)

\* All that asked for a binding are told the same runner, the one the chat is bound to.
BindersAgree == (Found /\ ~deleted) => \A w \in Writers : bindings[w] \in {None, sessionRow.runner}

-----------------------------------------------------------------------------
(***************************************************************************)
(* The questions a chat puts to its user: a line of the transcript, which  *)
(* is on the runner; a flag and the states of the agents in the row of the *)
(* session, which is in the database; and a waiter in the memory of the    *)
(* backend.  After a restart the quota questions nobody waits for any more *)
(* are retired, in steps that a crash may separate.                        *)
(*                                                                         *)
(* One chat, in which a workflow may be suspended.  An agent asks for a    *)
(* quota decision under the same id in every run, and once in a run here;  *)
(* any other question has an id of its own and is asked once.  A clock     *)
(* that every question moves on stands for the time in milliseconds.       *)
(***************************************************************************)

CONSTANTS Agents, Others, NameOf, MaxClock, MaxFaults

VARIABLES
    line,      \* the line of each id in the transcript
    row,       \* the row of the session: flag, journal and the state of each agent
    asker,     \* where the asker of each id is
    replying,  \* the replies that are marked and not delivered
    reset,     \* the retirement that is running
    pending,   \* the cutoff of one that is to be done again, in memory
    lock,      \* who has the lock of the session
    runner,    \* whether the runner answers
    clock, boot, faults,
    said,      \* the questions the user has answered
    stale,     \* a row that a fault has left behind its transcript
    since,     \* the start whose questions the journal is about
    retired    \* the agents whose question is retired on the transcript and not yet in the row
askVars == <<line, row, asker, replying, reset, pending, lock, runner, clock, boot, faults, said, stale, since, retired>>

Ids == (Agents \X {"quota"}) \cup (Others \X {"other"})
NoLine == [ts |-> -1, replied |-> TRUE]
NoJournal == {}
NoCutoff == -1
Free == "free"
NoReset == [at |-> "none", items |-> {}, cutoff |-> NoCutoff, starting |-> FALSE]
Exists(id) == line[id] # NoLine

AskInit ==
    /\ line = [id \in Ids |-> NoLine]
    /\ \E w \in BOOLEAN :
          row = [flag |-> FALSE, journal |-> NoJournal, status |-> [a \in Agents |-> "completed"], suspended |-> w]
    /\ asker = [id \in Ids |-> "idle"] /\ replying = {}
    /\ reset = NoReset /\ pending = NoCutoff /\ lock = Free /\ runner = TRUE
    /\ clock = 0 /\ boot = 0 /\ faults = 0 /\ said = {} /\ stale = FALSE /\ since = 0 /\ retired = {}

Up == ~reset.starting
hasUnrepliedAskUser(ls) == \E id \in Ids : ~ls[id].replied
Fault == faults < MaxFaults /\ faults' = faults + 1

-----------------------------------------------------------------------------
(* Asking. *)

\* A new run has no quota: the agent is marked as waiting, outside the lock of the session.
SetAgentWaitingHuman(a) ==
    LET id == <<a, "quota">> IN
    /\ Up /\ asker[id] = "idle" /\ row.status[a] # "running" /\ id \notin replying /\ clock < MaxClock
    /\ asker' = [asker EXCEPT ![id] = "asking"]
    /\ row' = [row EXCEPT !.status[a] = "waiting"]
    /\ said' = said \ {id} /\ retired' = retired \ {a}
    /\ UNCHANGED <<line, replying, reset, pending, lock, runner, clock, boot, faults, stale, since>>

\* askUser: a question of the agent itself.
AskUser(a) ==
    LET id == <<a, "other">> IN
    /\ Up /\ asker[id] = "idle" /\ ~Exists(id) /\ id \notin replying /\ clock < MaxClock
    /\ asker' = [asker EXCEPT ![id] = "asking"]
    /\ said' = said \ {id}
    /\ UNCHANGED <<line, row, replying, reset, pending, lock, runner, clock, boot, faults, stale, retired, since>>

\* appendMessage: the line of the id is replaced, and inherits that it was replied to.
Inherited(old, ts) == [ts |-> ts, replied |-> old # NoLine /\ old.replied]

\* AppendMessage up to the transcript; an error is only logged and the question goes on.
AppendMessage(id) ==
    /\ asker[id] = "asking" /\ lock = Free
    /\ clock' = clock + 1
    /\ \/ /\ runner /\ lock' = id
          /\ line' = [line EXCEPT ![id] = Inherited(@, clock)]
          /\ asker' = [asker EXCEPT ![id] = "recorded"]
       \/ /\ ~runner
          /\ asker' = [asker EXCEPT ![id] = "published"]
          /\ UNCHANGED <<line, lock>>
    /\ UNCHANGED <<row, replying, reset, pending, runner, boot, faults, said, stale, retired, since>>

\* Its row; or the database fails.
UpdateRow(id) ==
    /\ asker[id] = "recorded"
    /\ \/ row' = [row EXCEPT !.flag = hasUnrepliedAskUser(line)] /\ stale' = FALSE /\ UNCHANGED faults
       \/ Fault /\ stale' = TRUE /\ UNCHANGED row
    /\ lock' = Free /\ asker' = [asker EXCEPT ![id] = "published"]
    /\ UNCHANGED <<line, replying, reset, pending, runner, clock, boot, said, retired, since>>

\* The question is published before the waiter is registered.
RegisterAskWaiter(id) ==
    /\ asker[id] = "published"
    /\ asker' = [asker EXCEPT ![id] = "waiting"]
    /\ UNCHANGED <<line, row, replying, reset, pending, lock, runner, clock, boot, faults, said, stale, retired, since>>

-----------------------------------------------------------------------------
(* Replying. *)

\* The flag after a reply, from what is left in the transcript.
FlagAfter(ls) == hasUnrepliedAskUser(ls)

\* markAskUserReplied: the line of the id, and for want of it the last open question.
Target(id) ==
    LET open == {i \in Ids : ~line[i].replied} IN
    IF Exists(id) THEN {id} ELSE {i \in open : \A j \in open : line[j].ts <= line[i].ts}

\* handleAskUserReply: the line is marked and the row brought up to date; a question is
\* answered while it is published, or when the transcript shows it open.
MarkAskUserReplied(id) ==
    /\ Up /\ id \notin replying /\ id \notin said /\ lock = Free
    /\ asker[id] \in {"published", "waiting"} \/ ~line[id].replied
    /\ \/ /\ runner
          /\ line' = [i \in Ids |-> IF i \in Target(id) THEN [line[i] EXCEPT !.replied = TRUE] ELSE line[i]]
          /\ \/ row' = [row EXCEPT !.flag = FlagAfter(line')] /\ stale' = FALSE /\ UNCHANGED faults
             \/ Fault /\ stale' = TRUE /\ UNCHANGED row
       \/ ~runner /\ UNCHANGED <<line, row, faults, stale>>
    /\ replying' = replying \cup {id} /\ said' = said \cup {id} \cup (IF runner THEN Target(id) ELSE {})
    /\ UNCHANGED <<asker, reset, pending, lock, runner, clock, boot, retired, since>>

\* The reply goes to the waiter of the id, if there is one.  The agent runs on.
DeliverReply(id) ==
    /\ id \in replying
    /\ replying' = replying \ {id}
    /\ IF asker[id] = "waiting"
       THEN /\ asker' = [asker EXCEPT ![id] = "idle"]
            /\ row' = IF id[2] = "quota" THEN [row EXCEPT !.status[id[1]] = "running"] ELSE row
       ELSE UNCHANGED <<asker, row>>
    /\ UNCHANGED <<line, reset, pending, lock, runner, clock, boot, faults, said, stale, retired, since>>

\* The run of the agent ends, by itself or because it is stopped while it waits.
EndRun(a) ==
    LET id == <<a, "quota">> IN
    /\ Up /\ asker[id] \in {"idle", "waiting"} /\ row.status[a] \in {"running", "waiting"}
    /\ asker[id] = "idle" => row.status[a] = "running"
    /\ asker' = [asker EXCEPT ![id] = "idle"]
    /\ row' = [row EXCEPT !.status[a] = "completed"]
    /\ UNCHANGED <<line, replying, reset, pending, lock, runner, clock, boot, faults, said, stale, retired, since>>

-----------------------------------------------------------------------------
(* A restart, and the retirement of the quota questions. *)

\* Everything in memory is gone; agents that ran are completed.
Crash ==
    /\ Fault
    /\ asker' = [id \in Ids |-> "idle"] /\ replying' = {} /\ lock' = Free /\ pending' = NoCutoff
    /\ stale' = (stale \/ \E id \in Ids : asker[id] = "recorded" \/ reset.at = "marked")
    /\ row' = [row EXCEPT !.status = [a \in Agents |-> IF @[a] = "running" THEN "completed" ELSE @[a]]]
    /\ boot' = clock /\ reset' = [NoReset EXCEPT !.at = "read", !.cutoff = clock, !.starting = TRUE]
    /\ UNCHANGED <<line, runner, clock, said, retired, since>>

\* The retry: the runner came online, a message started, or the ticker fired.
RetryPendingQuotaReset ==
    /\ pending # NoCutoff /\ reset = NoReset
    /\ reset' = [NoReset EXCEPT !.at = "read", !.cutoff = pending]
    /\ UNCHANGED <<line, row, asker, replying, pending, lock, runner, clock, boot, faults, said, stale, retired, since>>

\* Mutant: a retirement that could not be done is forgotten.
EndsForgets(again) == reset' = NoReset /\ lock' = Free /\ pending' = NoCutoff

\* The retirement ends, to be done again or not.
Ends(again) == reset' = NoReset /\ lock' = Free /\ pending' = IF again THEN reset.cutoff ELSE NoCutoff

Old(id, cutoff) == id[2] = "quota" /\ ~line[id].replied /\ line[id].ts < cutoff
Items(cutoff) == IF row.journal # NoJournal THEN row.journal ELSE {<<id, line[id].ts>> : id \in {i \in Ids : Old(i, cutoff)}}

\* (a) What is to be retired is read and written to the journal.
ResetJournal ==
    LET items == Items(reset.cutoff) IN
    /\ reset.at = "read" /\ lock = Free
    /\ \/ ~runner /\ Ends(TRUE) /\ UNCHANGED <<row, faults>>
       \/ runner /\ items = {} /\ Ends(FALSE) /\ UNCHANGED <<row, faults>>
       \/ runner /\ items # {} /\ row.journal = NoJournal /\ Fault /\ Ends(TRUE) /\ UNCHANGED row
       \/ /\ runner /\ items # {}
          /\ row' = [row EXCEPT !.journal = items] /\ lock' = "reset"
          /\ reset' = [reset EXCEPT !.at = "journaled", !.items = items]
          /\ UNCHANGED <<pending, faults>>
    /\ since' = IF runner /\ row.journal = NoJournal THEN reset.cutoff ELSE since
    /\ UNCHANGED <<line, asker, replying, runner, clock, boot, said, stale, retired>>

\* The line is still the question that was journaled.
Retained(it, cutoff) == line[it[1]].ts = it[2] /\ line[it[1]].ts < cutoff

\* (b) Exactly those lines are marked.
ResetMark ==
    /\ reset.at = "journaled"
    /\ \/ LET kept == {it \in reset.items : Retained(it, reset.cutoff)} IN
          /\ runner
          /\ line' = [id \in Ids |-> IF \E it \in kept : it[1] = id THEN [line[id] EXCEPT !.replied = TRUE] ELSE line[id]]
          /\ reset' = [reset EXCEPT !.at = "marked", !.items = kept]
          /\ retired' = retired \cup {a \in Agents : line'[<<a, "quota">>] # line[<<a, "quota">>]}
          /\ UNCHANGED <<lock, pending>>
       \/ ~runner /\ Ends(TRUE) /\ UNCHANGED <<line, retired>>
    /\ UNCHANGED <<row, asker, replying, runner, clock, boot, faults, said, stale, since>>

\* The agents of the retired questions that have no other one open.  The question holds
\* the name of its agent, the row its id.
Owners(items) ==
    {a \in Agents : /\ \E it \in items : NameOf[it[1][1]] = a
                    /\ ~\E id \in Ids : ~line[id].replied /\ NameOf[id[1]] = a}

\* (c) The row, in one transaction; a workflow that is suspended owns the waiting agents.
ResetReconcile ==
    /\ reset.at = "marked"
    /\ \/ /\ runner
          /\ row' = [row EXCEPT !.flag = hasUnrepliedAskUser(line), !.journal = NoJournal,
                                !.status = [a \in Agents |-> IF a \in Owners(reset.items) /\ @[a] = "waiting" /\ ~row.suspended
                                                             THEN "completed" ELSE @[a]]]
          /\ stale' = FALSE /\ retired' = {} /\ Ends(FALSE) /\ UNCHANGED faults
       \/ runner /\ Fault /\ Ends(TRUE) /\ stale' = TRUE /\ UNCHANGED <<row, retired>>
       \/ ~runner /\ Ends(TRUE) /\ stale' = TRUE /\ UNCHANGED <<row, faults, retired>>
    /\ UNCHANGED <<line, asker, replying, runner, clock, boot, said, since>>

RunnerChanges ==
    /\ (runner /\ Fault) \/ (~runner /\ UNCHANGED faults)
    /\ runner' = ~runner
    /\ UNCHANGED <<line, row, asker, replying, reset, pending, lock, clock, boot, said, stale, retired, since>>

AskNext ==
    \/ \E a \in Agents : SetAgentWaitingHuman(a) \/ EndRun(a)
    \/ \E a \in Others : AskUser(a)
    \/ \E id \in Ids : AppendMessage(id) \/ UpdateRow(id) \/ RegisterAskWaiter(id)
                          \/ MarkAskUserReplied(id) \/ DeliverReply(id)
    \/ Crash \/ RetryPendingQuotaReset \/ ResetJournal \/ ResetMark \/ ResetReconcile
    \/ RunnerChanges

AskSpec == AskInit /\ [][AskNext]_askVars

-----------------------------------------------------------------------------
Open(id) == asker[id] \in {"published", "waiting"} /\ id \notin said
Settled == Up /\ reset = NoReset /\ pending = NoCutoff

\* The retirement never touches a question that somebody waits for, however often it is
\* tried again (resetQuotaSuspension).
LiveUntouched ==
    [][reset.at = "journaled" => \A id \in Ids : Open(id) /\ line[id].ts >= boot => line'[id] = line[id]]_askVars

\* Once the retirement is through, none of the quota questions it was about is open, whatever
\* crash or failure has come between its steps (resetQuotaSuspension).
Converges == Settled => \A id \in Ids : ~Old(id, since)

\* And none of any other quota question of before the start of the backend
\* (ResetOrphanedQuotaSuspensions).
OrphansRetired == Settled => \A id \in Ids : ~Old(id, boot)

\* The flag of the session says whether a question is open, unless a fault came between the
\* transcript and the row (AppendMessage, MarkAskUserReplied, resetQuotaSuspension).
FlagAgrees == lock = Free /\ ~stale => row.flag = hasUnrepliedAskUser(line)

\* When the retirement is through, no agent whose question it has retired is left waiting,
\* also when a crash came after the mark; another open question keeps it waiting
\* (resetQuotaSuspension).
AgentsReleased ==
    [][reset.at = "marked" /\ row'.journal = NoJournal /\ ~row.suspended =>
          \A a \in retired : asker[<<a, "quota">>] = "idle" /\ row'.status[a] = "waiting" => \E id \in Ids : id[1] = a /\ ~line[id].replied]_askVars

\* A question that somebody waits for, and that nobody has answered, is open in the
\* transcript (appendMessage).
OpenIsShown == \A id \in Ids : Open(id) /\ Exists(id) => ~line[id].replied
=============================================================================
