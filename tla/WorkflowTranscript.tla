------------------------- MODULE WorkflowTranscript -------------------------
(***************************************************************************)
(* What is kept of a workflow run: its transcript in the chat, and its row *)
(* and files.  The two state machines share no state; each has its own     *)
(* Init and Next.                                                          *)
(***************************************************************************)
EXTENDS Integers, Sequences, FiniteSets

-----------------------------------------------------------------------------
(***************************************************************************)
(* What the events of a workflow do to the chat it runs in: the questions  *)
(* of its nodes become bubbles of the transcript, the agent of the chat is *)
(* running or waiting, the guard of the chat is held, and an answer to a   *)
(* bubble finds its way back to the node that asked.                       *)
(*                                                                         *)
(* The engine is reduced to what it tells the chat: nodes that run side by *)
(* side and wait for the user.  Ids are sequences of words: a dash joins   *)
(* the words of the real ones.  A time in an id is a number nobody used.   *)
(***************************************************************************)

CONSTANTS
    Name,         \* the words of each node's id
    AgentNodes,   \* the nodes that ask when their quota is exhausted; the others are human nodes
    Fanout, Items,\* a node that runs a sub-workflow per item, and the items
    Slots,        \* the answers that may be on their way at once
    MaxAsks, MaxReplies, MaxRedrives, MaxCrashes

Nodes == DOMAIN Name
Number(k) == <<"0", "1", "2", "3", "4", "5">>[k + 1]
Numbers == {Number(k) : k \in 0..5}
NoId == <<>>

VARIABLES
    transcript,  \* the messages of the chat: id, role, the node it is about, replied
    node,        \* what each node does, the id it asks under, how often it has asked
    row,         \* the row of the run: its status and the nodes it waits for
    engine,      \* "on": the run executes; "left": all but its last event; "off"
    guard, status,
    replay,      \* the ids a run that is driven again has not yet asked under
    reply,       \* the answers on their way
    given,       \* the nodes whose bubble was answered since they asked
    reached,     \* of the last answer that arrived: who had asked, whether he still did, who got it
    reported,    \* the updates the items have reported
    replies, redrives, crashes
chatVars == <<transcript, node, row, engine, guard, status, replay, reply, given, reached, reported, replies, redrives, crashes>>

NoReply == [at |-> "none", id |-> NoId, to |-> NoId, asks |-> FALSE]
Idle == [at |-> "idle", id |-> NoId, asks |-> 0]
NoRow == [status |-> "running", suspended |-> [n \in Nodes |-> NoId]]
Live == {n \in Nodes : node[n].at \in {"registered", "delivered", "waiting"}}

TranscriptInit ==
    /\ transcript = {} /\ node = [n \in Nodes |-> Idle] /\ row = NoRow
    /\ engine = "on" /\ guard = TRUE /\ status = "running"
    /\ replay = {} /\ reply = [s \in Slots |-> NoReply] /\ given = {} /\ reached = {} /\ reported = {}
    /\ replies = 0 /\ redrives = 0 /\ crashes = 0

-----------------------------------------------------------------------------
(* The transcript. *)

Messages(id) == {m \in transcript : m.id = id}
Replied(id) == \E m \in Messages(id) : m.replied

\* A message replaces the one with its id, and stays replied when that was.
AppendMessage(id, role, about) ==
    (transcript \ Messages(id)) \cup {[id |-> id, role |-> role, about |-> about, replied |-> Replied(id)]}

Marked(ms) == (transcript \ ms) \cup {[m EXCEPT !.replied = TRUE] : m \in ms}

\* HumanMessageID and QuotaMessageID.
MessageID(n, ask) ==
    <<"wf">> \o Name[n] \o (IF n \in AgentNodes THEN <<"quota">> ELSE <<>>)
             \o (IF ask > 1 THEN <<Number(ask)>> ELSE <<>>)

\* The target stands at i and only numbers follow it.
EndsAt(id, target, i) ==
    /\ SubSeq(id, i, i + Len(target) - 1) = target
    /\ \A j \in (i + Len(target))..Len(id) : id[j] \in Numbers

\* Only the last place where the target stands is looked at.
matchesQuotaMessageID(id, target) ==
    LET places == {i \in 2..(Len(id) - Len(target) + 1) : SubSeq(id, i, i + Len(target) - 1) = target} IN
    \E i \in places : (\A j \in places : j <= i) /\ EndsAt(id, target, i)

resolvePendingQuotaMessages(n) ==
    Marked({m \in transcript : /\ m.role = "ask_user" /\ ~m.replied
                               /\ matchesQuotaMessageID(m.id, Name[n] \o <<"quota">>)})

-----------------------------------------------------------------------------
(* A node asks. *)

\* The row is written before the bubble; an id the run had before it was driven again is used again.
Register(n) ==
    /\ engine = "on" /\ node[n].at = "idle" /\ node[n].asks < MaxAsks
    /\ LET asks == node[n].asks + 1
           id == IF node[n].id # NoId THEN node[n].id ELSE MessageID(n, asks) IN
          /\ node' = [node EXCEPT ![n] = [at |-> "registered", id |-> id, asks |-> asks]]
          /\ row' = [status |-> "waiting",
                     suspended |-> [k \in Nodes |-> IF k = n THEN id ELSE IF k \in Live THEN node[k].id ELSE NoId]]
    /\ given' = given \ {n} /\ replay' = {}
    /\ UNCHANGED <<transcript, engine, guard, status, reply, reached, reported, replies, redrives, crashes>>

suspendWorkflowHuman(n) ==
    /\ engine = "on" /\ node[n].at = "registered"
    /\ transcript' = AppendMessage(node[n].id, "ask_user", n)
    /\ node' = [node EXCEPT ![n].at = "delivered"]
    /\ UNCHANGED <<row, engine, guard, status, replay, reply, given, reached, reported, replies, redrives, crashes>>

Reask(id) ==
    LET again(k) == id \o <<"reask", Number(k)>> IN
    again(CHOOSE k \in 1..5 : Messages(again(k)) = {} /\ \A j \in 1..(k - 1) : Messages(again(j)) # {})

\* A bubble that was answered is not asked again under its id.
BubbleID(id) == IF Replied(id) THEN Reask(id) ELSE id

Suspended(n) ==
    /\ engine = "on" /\ node[n].at = "delivered"
    /\ guard' = FALSE /\ status' = "waiting"
    /\ transcript' = AppendMessage(BubbleID(node[n].id), "ask_user", n)
    /\ node' = [node EXCEPT ![n].at = "waiting"]
    /\ UNCHANGED <<row, engine, replay, reply, given, reached, reported, replies, redrives, crashes>>

\* The node takes its answer: a human node is done, an agent goes on.
Resumed(n) ==
    /\ engine = "on" /\ node[n].at = "answered"
    /\ guard' = TRUE /\ status' = "running"
    /\ row' = IF Cardinality(Live) = 0 THEN [row EXCEPT !.status = "running"] ELSE row
    /\ node' = [node EXCEPT ![n] = [@ EXCEPT !.at = IF n \in AgentNodes THEN "idle" ELSE "done", !.id = NoId]]
    /\ transcript' = IF n \in AgentNodes THEN transcript ELSE AppendMessage(<<"wf", "node", n>>, "assistant", n)
    /\ UNCHANGED <<engine, replay, reply, given, reached, reported, replies, redrives, crashes>>

-----------------------------------------------------------------------------
(* A node reports and ends; the run ends. *)

StepID(n, item) == <<"wf", "step", n>> \o (IF item = "none" THEN <<>> ELSE <<item>>)

StatusUpdate(item) ==
    /\ engine = "on" /\ node[Fanout].at = "idle" /\ item \notin reported
    /\ transcript' = AppendMessage(StepID(Fanout, item), "activity", item)
    /\ reported' = reported \cup {item}
    /\ UNCHANGED <<node, row, engine, guard, status, replay, reply, given, reached, replies, redrives, crashes>>

NodeSucceeds(n) ==
    /\ engine = "on" /\ n \in AgentNodes /\ node[n].at = "idle"
    /\ node' = [node EXCEPT ![n].at = "done"]
    /\ transcript' = resolvePendingQuotaMessages(n) \cup {[id |-> <<"wf", "node", n>>, role |-> "assistant", about |-> n, replied |-> FALSE]}
    /\ UNCHANGED <<row, engine, guard, status, replay, reply, given, reached, reported, replies, redrives, crashes>>

\* After a stop the failures of the nodes are not shown.
NodeFails(n) ==
    /\ engine = "on" /\ n \in AgentNodes /\ node[n].at = "idle"
    /\ node' = [node EXCEPT ![n].at = "failed"]
    /\ \E stopped \in BOOLEAN :
          transcript' = IF stopped THEN transcript ELSE AppendMessage(<<"wf", "error", n>>, "error", n)
    /\ UNCHANGED <<row, engine, guard, status, replay, reply, given, reached, reported, replies, redrives, crashes>>

Failed == \E n \in Nodes : node[n].at = "failed"

Settle ==
    /\ engine = "on" /\ \A n \in Nodes : node[n].at \in {"done", "failed"}
    /\ engine' = "left" /\ replay' = {}
    /\ row' = [row EXCEPT !.status = IF Failed THEN "failed" ELSE "completed"]
    /\ UNCHANGED <<transcript, node, guard, status, reply, given, reached, reported, replies, redrives, crashes>>

WorkflowFinished ==
    /\ engine = "left" /\ engine' = "off"
    /\ guard' = FALSE /\ status' = "completed"
    /\ transcript' = IF row.status = "completed" THEN AppendMessage(<<"wf", "summary">>, "assistant", "run") ELSE transcript
    /\ UNCHANGED <<node, row, replay, reply, given, reached, reported, replies, redrives, crashes>>

-----------------------------------------------------------------------------
(* The user answers. *)

\* The bubble is marked before anyone knows whether the answer has somewhere to go.  Two pages
\* may show the same bubble.
Reply(s, m) ==
    /\ reply[s] = NoReply /\ m.role = "ask_user" /\ replies < MaxReplies /\ replies' = replies + 1
    /\ ~m.replied \/ \E r \in Slots : reply[r].id = m.id
    /\ transcript' = Marked({m})
    /\ reply' = [reply EXCEPT ![s] = [NoReply EXCEPT !.at = "marked", !.id = m.id]]
    /\ given' = given \cup {m.about}
    /\ UNCHANGED <<node, row, engine, guard, status, replay, reached, reported, redrives, crashes>>

FindWaitingRuns == {n \in Nodes : row.status = "waiting" /\ row.suspended[n] # NoId}
Waits(id) == \E n \in FindWaitingRuns : row.suspended[n] = id
HasActiveOrReplayMessage(id) == id \in replay \/ \E n \in Live : node[n].id = id

\* Mutant: with several questions open, any of them.
TheOnlyAny == IF FindWaitingRuns # {} THEN row.suspended[CHOOSE n \in FindWaitingRuns : TRUE] ELSE NoId

TheOnly == IF Cardinality(FindWaitingRuns) = 1 THEN row.suspended[CHOOSE n \in FindWaitingRuns : TRUE] ELSE NoId

Target(id) == IF Waits(id) \/ HasActiveOrReplayMessage(id) THEN id ELSE TheOnly

About(id) == (CHOOSE m \in transcript : m.id = id).about
Asks(n) == n \in FindWaitingRuns \/ (n \in Live /\ row.status = "waiting")

TryResumeWorkflow(s) ==
    /\ reply[s].at = "marked"
    /\ reply' = [reply EXCEPT ![s] = IF Target(@.id) = NoId THEN NoReply
                                     ELSE [at |-> "resuming", id |-> @.id, to |-> Target(@.id), asks |-> Asks(About(@.id))]]
    /\ UNCHANGED <<transcript, node, row, engine, guard, status, replay, given, reached, reported, replies, redrives, crashes>>

Occupy(s) ==
    /\ reply[s].at = "resuming"
    /\ guard' = TRUE /\ status' = "running"
    /\ reply' = [reply EXCEPT ![s].at = "delivering"]
    /\ UNCHANGED <<transcript, node, row, engine, replay, given, reached, reported, replies, redrives, crashes>>

Arrives(s, n) == reached' = {[asked |-> About(reply[s].id), asks |-> reply[s].asks, got |-> n]}

DeliverResume(s, n) ==
    /\ reply[s].at = "delivering" /\ n \in Live /\ node[n].id = reply[s].to
    /\ node[n].at = "waiting"
    /\ node' = [node EXCEPT ![n].at = "answered"]
    /\ Arrives(s, n)
    /\ reply' = [reply EXCEPT ![s] = NoReply]
    /\ UNCHANGED <<transcript, row, engine, guard, status, replay, given, reported, replies, redrives, crashes>>

\* No engine runs: the run is driven again, the answered node has its answer and the others ask again.
Drive(s, n) ==
    /\ reply[s].at = "delivering" /\ engine = "off" /\ n \in FindWaitingRuns /\ row.suspended[n] = reply[s].to
    /\ engine' = "on" /\ row' = [row EXCEPT !.status = "running"]
    /\ node' = [k \in Nodes |->
                  IF k = n THEN [Idle EXCEPT !.at = IF n \in AgentNodes THEN "idle" ELSE "done"]
                  ELSE IF k \in FindWaitingRuns THEN [Idle EXCEPT !.id = row.suspended[k]] ELSE node[k]]
    /\ replay' = {row.suspended[k] : k \in FindWaitingRuns \ {n}}
    /\ Arrives(s, n) /\ guard' = TRUE /\ status' = "running"
    /\ reply' = [reply EXCEPT ![s] = NoReply]
    /\ UNCHANGED <<transcript, given, reported, replies, redrives, crashes>>

Ignored(s) ==
    /\ ~HasActiveOrReplayMessage(reply[s].to)
    /\ engine # "off" \/ ~Waits(reply[s].to)

IsSessionExecuting == engine = "on" /\ Live = {}

\* While the run executes the events of the run decide, else what was claimed is given back.
Ignore(s) ==
    /\ reply[s].at = "delivering" /\ Ignored(s)
    /\ reply' = [reply EXCEPT ![s] = IF IsSessionExecuting THEN NoReply ELSE [@ EXCEPT !.at = "rollback"]]
    /\ UNCHANGED <<transcript, node, row, engine, guard, status, replay, given, reached, reported, replies, redrives, crashes>>

Rollback(s) ==
    /\ reply[s].at = "rollback"
    /\ guard' = FALSE /\ status' = IF row.status = "waiting" THEN "waiting" ELSE "completed"
    /\ reply' = [reply EXCEPT ![s] = NoReply]
    /\ UNCHANGED <<transcript, node, row, engine, replay, given, reached, reported, replies, redrives, crashes>>

-----------------------------------------------------------------------------
(* A failed run is driven again; the backend is started again. *)

\* The nodes the row once waited for are dropped from what is kept, answered or not.
Redrive ==
    /\ engine = "off" /\ row.status = "failed" /\ redrives < MaxRedrives
    /\ redrives' = redrives + 1 /\ engine' = "on"
    /\ row' = [row EXCEPT !.status = "running"]
    /\ node' = [n \in Nodes |-> IF node[n].at = "done" /\ row.suspended[n] = NoId THEN node[n]
                                ELSE [Idle EXCEPT !.id = row.suspended[n]]]
    /\ guard' = TRUE /\ status' = "running"
    /\ UNCHANGED <<transcript, replay, reply, given, reached, reported, replies, crashes>>

Crash ==
    /\ crashes < MaxCrashes /\ crashes' = crashes + 1
    /\ engine' = "off" /\ guard' = FALSE
    /\ status' = IF status = "running" THEN "completed" ELSE status
    /\ row' = [row EXCEPT !.status = IF @ = "running" THEN "failed" ELSE @]
    /\ node' = [n \in Nodes |-> IF node[n].at = "done" THEN node[n] ELSE Idle]
    /\ replay' = {} /\ reply' = [s \in Slots |-> NoReply]
    /\ UNCHANGED <<transcript, given, reached, reported, replies, redrives>>

TranscriptNext ==
    \/ \E n \in Nodes : \/ Register(n) \/ suspendWorkflowHuman(n) \/ Suspended(n) \/ Resumed(n)
                        \/ NodeSucceeds(n) \/ NodeFails(n)
    \/ \E item \in Items \cup {"none"} : StatusUpdate(item)
    \/ Settle \/ WorkflowFinished \/ Redrive \/ Crash
    \/ \E s \in Slots : \/ \E m \in transcript : Reply(s, m)
                        \/ TryResumeWorkflow(s) \/ Occupy(s) \/ Ignore(s) \/ Rollback(s)
                        \/ \E n \in Nodes : DeliverResume(s, n) \/ Drive(s, n)
TranscriptSpec == TranscriptInit /\ [][TranscriptNext]_chatVars

TranscriptTypeOK ==
    /\ engine \in {"on", "left", "off"} /\ guard \in BOOLEAN
    /\ status \in {"running", "waiting", "completed"}
    /\ row.status \in {"running", "waiting", "failed", "completed"}
    /\ \A n \in Nodes : node[n].at \in {"idle", "registered", "delivered", "waiting", "answered", "done", "failed"}

-----------------------------------------------------------------------------
\* A node that waits for the user has a bubble he can still answer, unless he has answered one
\* since the node asked: an id that is used again does not hide the question, and no other
\* node's end takes it away.
AskShown == \A n \in Nodes : (node[n].at = "waiting" /\ n \notin given) =>
                \E m \in transcript : m.role = "ask_user" /\ m.about = n /\ ~m.replied

\* An answer to the bubble of a node that asks never reaches another node.
AnswerReachesAsker == \A r \in reached : r.asks => r.got = r.asked

\* The updates of the items of a fan-out, and the one of the node, do not replace each other.
UpdatesKept == \A item \in reported : \E m \in transcript : m.role = "activity" /\ m.about = item

\* When the run does not execute and no answer is on its way, the chat is neither guarded nor
\* shown as running: whatever claimed it has given it back.
ChatIsGivenBack == (engine = "off" /\ \A s \in Slots : reply[s] = NoReply) => (~guard /\ status # "running")

\* Violated: the code says that an answer to a stale bubble is not dropped silently
\* (tryResumeWorkflow); with two questions open one asked again has no id the run knows.
AnswersArrive == \A n \in given : node[n].at = "waiting" => \E s \in Slots : reply[s] # NoReply

\* Violated: an agent that finished has no unanswered quota prompt left
\* (handleWorkflowEvent); one asked again does not match.
NoStalePrompt == \A n \in AgentNodes : node[n].at = "done" =>
                    ~\E m \in transcript : m.role = "ask_user" /\ m.about = n /\ ~m.replied

-----------------------------------------------------------------------------
(***************************************************************************)
(* The state of a workflow run, kept in two places: the row of the         *)
(* database, and files of the session for what is large: the definition,   *)
(* the input and the output of every node.  A save writes the files one by *)
(* one and then the row; a file that cannot be written ends it, and the    *)
(* backend may stop between any two steps.                                 *)
(*                                                                         *)
(* An output is the number of the execution that made it, 0 when it is     *)
(* empty; a node that has not settled has none.  Definition and input are  *)
(* one file here, which never changes.                                     *)
(***************************************************************************)

CONSTANTS RunNodes, MaxExecutions, MaxSaveFaults, MaxStops

VARIABLES
    memory,   \* the nodes that settled, as the engine knows them
    filesRow,      \* the row: whether it names the definition, and the state of each node
    logs,     \* the output in the file of each node
    spec,     \* whether the definition's file is there
    temps,    \* the temporary files left behind
    save,     \* the save that is running
    saved,    \* what the last complete save was given
    torn,     \* a save has ended after its first file and before its row
    dirty,    \* no save was complete since the last stop
    saveFaults, stops
runVars == <<memory, filesRow, logs, spec, temps, save, saved, torn, dirty, saveFaults, stops>>

Unsettled == -1
NoPath == [output |-> Unsettled, path |-> FALSE]
NoFilesRow == [there |-> FALSE, spec |-> FALSE, states |-> [n \in RunNodes |-> NoPath]]
NoSave == [at |-> "none", kind |-> "none", states |-> [n \in RunNodes |-> Unsettled], todo |-> {}]
SpecFile == "spec"

FilesInit ==
    /\ memory = [n \in RunNodes |-> Unsettled] /\ filesRow = NoFilesRow
    /\ logs = [n \in RunNodes |-> Unsettled] /\ spec = FALSE /\ temps = {}
    /\ save = NoSave /\ saved = [n \in RunNodes |-> Unsettled]
    /\ torn = FALSE /\ dirty = FALSE /\ saveFaults = 0 /\ stops = 0

-----------------------------------------------------------------------------
\* A node settles, for the first time or again in a loop, with an output or without one.
Execute(n) ==
    /\ save = NoSave /\ filesRow.there /\ memory[n] < MaxExecutions
    /\ \E output \in {0, IF memory[n] < 1 THEN 1 ELSE memory[n] + 1} : memory' = [memory EXCEPT ![n] = output]
    /\ UNCHANGED <<filesRow, logs, spec, temps, save, saved, torn, dirty, saveFaults, stops>>

HasOutput(states) == {n \in RunNodes : states[n] > 0}

\* StartRun and MarkWaitingHuman have the definition at hand; RefreshSuspension and SettleRun do not.
Files(kind, states) == HasOutput(states) \cup (IF kind \in {"start", "suspend"} THEN {SpecFile} ELSE {})

CleanOrphanTmp == {}

Save(kind) ==
    /\ save = NoSave
    /\ CASE kind = "start" -> ~filesRow.there
         [] OTHER -> filesRow.there
    /\ save' = [at |-> "writing", kind |-> kind, states |-> memory, todo |-> Files(kind, memory)]
    /\ temps' = CleanOrphanTmp
    /\ UNCHANGED <<memory, filesRow, logs, spec, saved, torn, dirty, saveFaults, stops>>

\* The identical file is left alone.
Unchanged(f) == IF f = SpecFile THEN spec ELSE logs[f] = save.states[f]

Skip(f) ==
    /\ save.at = "writing" /\ f \in save.todo /\ Unchanged(f)
    /\ save' = [save EXCEPT !.todo = @ \ {f}]
    /\ UNCHANGED <<memory, filesRow, logs, spec, temps, saved, torn, dirty, saveFaults, stops>>

Create(f) ==
    /\ save.at = "writing" /\ f \in save.todo /\ ~Unchanged(f)
    /\ save' = [save EXCEPT !.at = f] /\ temps' = temps \cup {f}
    /\ UNCHANGED <<memory, filesRow, logs, spec, saved, torn, dirty, saveFaults, stops>>

Rename(f) ==
    /\ save.at = f /\ f \in save.todo
    /\ save' = [save EXCEPT !.at = "writing", !.todo = @ \ {f}] /\ temps' = temps \ {f}
    /\ IF f = SpecFile THEN spec' = TRUE /\ UNCHANGED logs
                       ELSE logs' = [logs EXCEPT ![f] = save.states[f]] /\ UNCHANGED spec
    /\ torn' = TRUE
    /\ UNCHANGED <<memory, filesRow, saved, dirty, saveFaults, stops>>

\* The temporary file is removed; the save ends and its caller goes on.
WriteFails(f) ==
    /\ save.at \in {"writing", f} /\ f \in save.todo /\ saveFaults < MaxSaveFaults
    /\ saveFaults' = saveFaults + 1 /\ save' = NoSave /\ temps' = temps \ {f}
    /\ UNCHANGED <<memory, filesRow, logs, spec, saved, torn, dirty, stops>>

\* The output is cleared in the row, which names its file instead.
Offloaded(states) == [n \in RunNodes |-> [output |-> states[n], path |-> states[n] > 0]]

\* A row read without its files has no definition: the path it had stays.
SpecPath == filesRow.spec \/ save.kind \in {"start", "suspend"}

Written == save.todo = {}

SaveRow ==
    /\ save.at = "writing" /\ Written
    /\ filesRow' = [there |-> TRUE, spec |-> SpecPath, states |-> Offloaded(save.states)]
    /\ saved' = save.states /\ torn' = FALSE /\ dirty' = FALSE
    /\ save' = IF save.todo = {} THEN NoSave ELSE save
    /\ UNCHANGED <<memory, logs, spec, temps, saveFaults, stops>>

SaveRowFails ==
    /\ save.at = "writing" /\ Written /\ saveFaults < MaxSaveFaults
    /\ saveFaults' = saveFaults + 1 /\ save' = NoSave
    /\ UNCHANGED <<memory, filesRow, logs, spec, temps, saved, torn, dirty, stops>>

\* What a reader of the run sees: the outputs come from the files the row names.
Hydrated(n) == IF filesRow.states[n].path THEN logs[n] ELSE IF filesRow.states[n].output = Unsettled THEN Unsettled ELSE 0
FileMissing == (filesRow.spec /\ ~spec) \/ \E n \in RunNodes : filesRow.states[n].path /\ logs[n] = Unsettled

\* The backend stops; the run goes on from what its row says.
StopAndResume ==
    /\ stops < MaxStops /\ stops' = stops + 1 /\ filesRow.there /\ ~FileMissing
    /\ memory' = [n \in RunNodes |-> Hydrated(n)]
    /\ save' = NoSave /\ dirty' = TRUE
    /\ UNCHANGED <<filesRow, logs, spec, temps, saved, torn, saveFaults>>

FilesNext ==
    \/ \E n \in RunNodes : Execute(n)
    \/ \E kind \in {"start", "suspend", "refresh", "settle"} : Save(kind)
    \/ \E f \in RunNodes \cup {SpecFile} : Skip(f) \/ Create(f) \/ Rename(f) \/ WriteFails(f)
    \/ SaveRow \/ SaveRowFails \/ StopAndResume
FilesSpec == FilesInit /\ [][FilesNext]_runVars

FilesTypeOK ==
    /\ \A n \in RunNodes : memory[n] \in Unsettled..MaxExecutions /\ logs[n] \in Unsettled..MaxExecutions
    /\ spec \in BOOLEAN /\ temps \subseteq RunNodes \cup {SpecFile}

-----------------------------------------------------------------------------
\* A row never names a file that is not there, wherever a save ended: a run that was saved can
\* be read.
RowReadable == ~FileMissing

\* A run is read as it was last saved, unless a save was broken off: its outputs, and its
\* definition, which a run that failed needs to be driven again.
ReadAsSaved == (filesRow.there /\ ~torn) => filesRow.spec /\ \A n \in RunNodes : Hydrated(n) = saved[n]

\* Temporary files do not outlive the first save after a stop.
TempsGo == (save = NoSave /\ ~dirty /\ filesRow.there) => temps = {}

\* Violated: the comments call the refresh of a suspended run atomic (RunStore,
\* RefreshSuspension); a save that is broken off leaves new outputs below an old row.
RefreshIsAtomic == filesRow.there => \A n \in RunNodes : Hydrated(n) = saved[n] \/ save # NoSave
=============================================================================
