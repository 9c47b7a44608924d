--------------------------- MODULE SimplestAgent ---------------------------
(***************************************************************************)
(* The built-in agent: the loop of its turns, and the session file that    *)
(* several processes go on with.  The two state machines share no state;   *)
(* each has its own Init and Next.                                         *)
(***************************************************************************)
EXTENDS Integers, Sequences, FiniteSets, SequencesExt

-----------------------------------------------------------------------------
(***************************************************************************)
(* The simplest agent: one prompt after another on one session file.  A    *)
(* prompt appends the user's message, builds the context of the session    *)
(* and runs the loop, in which turns of the model and of its tools follow  *)
(* each other and every new message is appended to the file.  The process  *)
(* may be cancelled at any moment, and killed.                             *)
(*                                                                         *)
(* Token counts are abstracted to what they decide: whether the context is *)
(* over the threshold, and at which user message a compaction cuts it.     *)
(***************************************************************************)

CONSTANTS MaxPrompts, MaxReplies, MaxCalls, MaxSteering, MaxKills

VARIABLES
    disk,     \* the messages of the session file
    loop,     \* the run of the agent
    stream,   \* what the consumer of the events has seen: turns open, agent ends
    request,  \* the messages of the last request to the provider
    budget    \* prompts, replies, steering messages and kills so far
agentVars == <<disk, loop, stream, request, budget>>

User(n) == [role |-> "user", of |-> n, call |-> 0, calls |-> 0, stop |-> ""]
Assistant(n, calls, stop) ==
    [role |-> "assistant", of |-> n, call |-> 0, calls |-> calls, stop |-> stop]
Result(n, i) == [role |-> "toolResult", of |-> n, call |-> i, calls |-> 0, stop |-> ""]

Idle == [pc |-> "idle", messages |-> <<>>, pending |-> <<>>, msg |-> User(0),
         results |-> <<>>, first |-> TRUE, more |-> FALSE, turnOpen |-> FALSE,
         cancelled |-> FALSE, overflowRetried |-> FALSE, clean |-> TRUE, mute |-> FALSE]

AgentInit ==
    /\ disk = <<>> /\ loop = Idle /\ stream = [open |-> 0, ends |-> 0] /\ request = <<>>
    /\ budget = [prompts |-> 0, replies |-> 0, steering |-> 0, queued |-> 0, kills |-> 0]

---------------------------------------------------------------------------
\* The calls of the messages, as the results they are waiting for.
CallsOf(messages) ==
    FlattenSeq([j \in 1 .. Len(messages) |->
                   [i \in 1 .. messages[j].calls |-> Result(messages[j].of, i)]])

\* A call without a result was interrupted: a result is made up for it.
BuildContext(entries) ==
    entries \o SelectSeq(CallsOf(entries), LAMBDA r : r \notin ToSet(entries))

\* Persist: the message goes to the file, unless the write fails.
PersistedMessages(m, ok) == IF ok THEN Append(disk, m) ELSE disk

\* failPersist, failCompact and failAborted: a made-up
\* assistant message closes the turn, opening one if none is open, and the run.
emitTerminalTurn(l) ==
    /\ loop' = [l EXCEPT !.pc = "ended", !.turnOpen = FALSE,
                         !.messages = Append(@, Assistant(0, 0, "failed"))]
    /\ stream' = [open |-> stream.open + (IF l.turnOpen THEN 0 ELSE 1) - 1, ends |-> stream.ends + 1]

end(l) ==
    /\ loop' = [l EXCEPT !.pc = "ended"]
    /\ stream' = [stream EXCEPT !.ends = @ + 1]

\* An event is dropped only when the run has been cancelled.
Emitted == IF loop.cancelled THEN BOOLEAN ELSE {TRUE}

\* The steering messages that are waiting, one at a time.
Poll == IF budget.queued > 0 THEN <<User(-1)>> ELSE <<>>
Polled == IF budget.queued > 0 THEN [budget EXCEPT !.queued = @ - 1] ELSE budget

---------------------------------------------------------------------------
\* Prompt: the user's message is appended first, then the context is built.
Prompt ==
    /\ loop.pc = "idle" /\ budget.prompts < MaxPrompts
    /\ \/ UNCHANGED <<loop, stream, disk>>   \* the message cannot be written
       \/ /\ disk' = Append(disk, User(budget.prompts + 1))
          /\ loop' = [Idle EXCEPT !.pc = "start", !.messages = BuildContext(disk'),
                                  !.clean = BuildContext(disk) = disk]
          /\ stream' = [open |-> 0, ends |-> 0]
    /\ budget' = [budget EXCEPT !.prompts = @ + 1]
    /\ UNCHANGED request

Start ==
    /\ loop.pc = "start"
    /\ \E emitted \in Emitted :
        /\ loop' = [loop EXCEPT !.pc = "top", !.pending = Poll, !.turnOpen = emitted]
        /\ stream' = [stream EXCEPT !.open = IF emitted THEN 1 ELSE 0]
    /\ budget' = Polled
    /\ UNCHANGED <<disk, request>>

Top ==
    /\ loop.pc = "top"
    /\ IF loop.cancelled THEN emitTerminalTurn(loop)
       ELSE loop' = [loop EXCEPT !.pc = IF loop.first THEN "compact" ELSE "open", !.first = FALSE]
            /\ UNCHANGED stream
    /\ UNCHANGED <<disk, request, budget>>

Open ==
    /\ loop.pc = "open"
    /\ \E emitted \in Emitted :
        IF emitted
        THEN /\ loop' = [loop EXCEPT !.pc = "compact", !.turnOpen = TRUE]
             /\ stream' = [stream EXCEPT !.open = @ + 1]
        ELSE emitTerminalTurn(loop)
    /\ UNCHANGED <<disk, request, budget>>

\* Where the recent messages to keep may begin: at a message of the user.
Cuts(messages) == {i \in 2 .. Len(messages) : messages[i].role = "user"}

\* compactWithRetention: the summary takes the place of what is before the cut.
Compacted(l, cut) ==
    [l EXCEPT !.messages = <<User(0)>> \o SubSeq(@, cut, Len(@))]

\* The estimate of the tokens of the context is over the threshold or not.
OverThreshold == BOOLEAN

\* maybeCompact: a summary that cannot be made is left for the next turn.
MaybeCompact ==
    /\ loop.pc = "compact"
    /\ \/ /\ IF loop.cancelled THEN emitTerminalTurn(loop)
             ELSE loop' = [loop EXCEPT !.pc = "pending"] /\ UNCHANGED stream
          /\ UNCHANGED disk
       \/ \E cut \in Cuts(loop.messages), ok \in BOOLEAN, over \in OverThreshold :
            /\ over
            /\ disk' = PersistedMessages(User(0), ok)
            /\ IF ok /\ ~loop.cancelled
               THEN loop' = [Compacted(loop, cut) EXCEPT !.pc = "pending"] /\ UNCHANGED stream
               ELSE emitTerminalTurn(Compacted(loop, cut))
    /\ UNCHANGED <<request, budget>>

\* The waiting messages join the transcript, then the model is asked.
EmitPending ==
    /\ loop.pc = "pending"
    /\ IF loop.pending = <<>>
       THEN loop' = [loop EXCEPT !.pc = "stream"] /\ UNCHANGED <<disk, stream>>
       ELSE \E ok \in BOOLEAN :
                LET m == Head(loop.pending)
                    l == [loop EXCEPT !.messages = Append(@, m), !.pending = Tail(@)]
                IN  /\ disk' = PersistedMessages(m, ok)
                    /\ IF ok THEN loop' = l /\ UNCHANGED stream ELSE emitTerminalTurn(l)
    /\ UNCHANGED <<request, budget>>

\* streamAssistant: what the provider answers; the stream may break after tool
\* calls have arrived, and a cancelled one is aborted.
Replies(n) ==
    {Assistant(n, calls, stop) : calls \in 0 .. MaxCalls,
                                 stop \in {"stop", "length"} \cup
                                          (IF loop.cancelled THEN {"aborted"} ELSE {"error"})}
    \cup {Assistant(n, 0, "overflow")}

StreamAssistant ==
    /\ loop.pc = "stream" /\ budget.replies < MaxReplies
    /\ budget' = [budget EXCEPT !.replies = @ + 1]
    /\ request' = loop.messages
    /\ \E m \in Replies(budget.replies + 1) :
        loop' = [loop EXCEPT !.msg = m, !.messages = Append(@, m),
                             !.pc = IF m.stop = "overflow" /\ ~loop.overflowRetried
                                    THEN "recover" ELSE "persist"]
    /\ UNCHANGED <<disk, stream>>

\* A provider that closes its stream without an event: the run ends, and only a cancelled one closes
\* its turn.
StreamClosed ==
    /\ loop.pc = "stream" /\ budget.replies < MaxReplies
    /\ budget' = [budget EXCEPT !.replies = @ + 1]
    /\ request' = loop.messages
    /\ IF loop.cancelled THEN emitTerminalTurn(loop) ELSE end([loop EXCEPT !.mute = TRUE])
    /\ UNCHANGED disk

\* The overflow is dropped from the transcript before it is compacted, once.
Recover ==
    /\ loop.pc = "recover"
    /\ LET l == [loop EXCEPT !.overflowRetried = TRUE, !.messages = Front(@)]
       IN  \/ emitTerminalTurn(l) /\ UNCHANGED disk   \* cancelled, nothing to compact, no summary
           \/ \E cut \in Cuts(l.messages), ok \in BOOLEAN :
                /\ disk' = PersistedMessages(User(0), ok)
                /\ IF ok /\ ~loop.cancelled
                   THEN loop' = [Compacted(l, cut) EXCEPT !.pc = "stream"] /\ UNCHANGED stream
                   ELSE emitTerminalTurn(Compacted(l, cut))
    /\ UNCHANGED <<request, budget>>

\* The reply is persisted; an error ends the run, calls of a truncated reply fail.
PersistReply ==
    /\ loop.pc = "persist"
    /\ \E ok \in BOOLEAN :
        LET l == [loop EXCEPT !.more = FALSE, !.results = <<>>]
        IN  /\ disk' = PersistedMessages(loop.msg, ok)
            /\ IF ~ok THEN emitTerminalTurn(l)
               ELSE IF loop.msg.stop \in {"error", "aborted", "overflow"}
               THEN /\ loop' = [l EXCEPT !.pc = "ended", !.turnOpen = FALSE]
                    /\ stream' = [open |-> stream.open - 1, ends |-> stream.ends + 1]
               ELSE /\ loop' = [l EXCEPT !.pc = IF loop.msg.calls = 0 THEN "finish" ELSE "tools"]
                    /\ UNCHANGED stream
    /\ UNCHANGED <<request, budget>>

\* How many results a batch of tools has: the sequential one stops at a
\* cancellation, the others make a result for every call.
executeSequential(m) == IF loop.cancelled THEN 1 .. m.calls ELSE {m.calls}
executeParallel(m) == {m.calls}
failTruncatedToolCalls(m) == {m.calls}

\* A batch of which every result terminates asks for no further turn.
ExecuteToolCalls ==
    /\ loop.pc = "tools"
    /\ \E terminate \in BOOLEAN,
          n \in IF loop.msg.stop = "length" THEN failTruncatedToolCalls(loop.msg)
                ELSE executeSequential(loop.msg) \cup executeParallel(loop.msg) :
        /\ loop.msg.stop = "length" => ~terminate
        /\ loop' = [loop EXCEPT !.pc = "results", !.more = ~terminate,
                                !.results = [i \in 1 .. n |-> Result(loop.msg.of, i)]]
    /\ UNCHANGED <<disk, stream, request, budget>>

PersistResult ==
    /\ loop.pc = "results"
    /\ IF loop.results = <<>>
       THEN loop' = [loop EXCEPT !.pc = "finish"] /\ UNCHANGED <<disk, stream>>
       ELSE \E ok \in BOOLEAN :
                LET m == Head(loop.results)
                    l == [loop EXCEPT !.messages = Append(@, m), !.results = Tail(@)]
                IN  /\ disk' = PersistedMessages(m, ok)
                    /\ IF ok THEN loop' = l /\ UNCHANGED stream ELSE emitTerminalTurn(l)
    /\ UNCHANGED <<request, budget>>

\* FinishTurn may end the run or ask for another turn; the steering and follow-up
\* queue is polled, and the next turn prepared, which may fail.
FinishTurn ==
    /\ loop.pc = "finish"
    /\ LET l == [loop EXCEPT !.turnOpen = FALSE, !.pending = Poll]
           closed == [stream EXCEPT !.open = @ - 1]
           failed == Assistant(0, 0, "failed")
       IN  \/ loop.cancelled /\ emitTerminalTurn(loop) /\ UNCHANGED <<disk, budget>>
           \/ /\ ~loop.cancelled
              /\ \E decision \in {"none", "end", "continue"} :
                   LET more == loop.more \/ decision = "continue" \/ Poll # <<>>
                   IN  \/ /\ decision = "end" \/ ~more
                          /\ loop' = [loop EXCEPT !.pc = "ended", !.turnOpen = FALSE]
                          /\ stream' = [closed EXCEPT !.ends = @ + 1]
                          /\ UNCHANGED <<disk, budget>>
                       \/ /\ decision # "end" /\ more
                          /\ loop' = [l EXCEPT !.pc = "top"]
                          /\ stream' = closed /\ budget' = Polled /\ UNCHANGED disk
                       \/ /\ decision # "end" /\ more
                          /\ loop' = [l EXCEPT !.pc = "ended", !.messages = Append(@, failed)]
                          /\ stream' = [closed EXCEPT !.ends = @ + 1] /\ budget' = Polled
                          /\ \E ok \in BOOLEAN : disk' = PersistedMessages(failed, ok)
    /\ UNCHANGED request

---------------------------------------------------------------------------
\* The caller has read the events to the end.
Return ==
    /\ loop.pc = "ended"
    /\ loop' = Idle
    /\ UNCHANGED <<disk, stream, request, budget>>

Cancel ==
    /\ loop.pc \notin {"idle", "ended"} /\ ~loop.cancelled
    /\ loop' = [loop EXCEPT !.cancelled = TRUE]
    /\ UNCHANGED <<disk, stream, request, budget>>

Push ==
    /\ budget.steering < MaxSteering
    /\ budget' = [budget EXCEPT !.steering = @ + 1, !.queued = @ + 1]
    /\ UNCHANGED <<disk, loop, stream, request>>

Kill ==
    /\ loop.pc \notin {"idle", "ended"} /\ budget.kills < MaxKills
    /\ loop' = Idle /\ stream' = [open |-> 0, ends |-> 1]
    /\ budget' = [budget EXCEPT !.kills = @ + 1]
    /\ UNCHANGED <<disk, request>>

AgentNext ==
    \/ Prompt \/ Start \/ Top \/ Open \/ MaybeCompact \/ EmitPending \/ StreamAssistant \/ StreamClosed \/ Recover
    \/ PersistReply \/ ExecuteToolCalls \/ PersistResult \/ FinishTurn
    \/ Return \/ Cancel \/ Push \/ Kill

---------------------------------------------------------------------------
\* The events of a run are balanced however it ends, by an answer, a failed
\* write or a cancellation at any moment: a turn is opened only when the one
\* before is closed, at the end none is open, and the agent has ended once
\* (emitTurnStart, emitTerminalTurn, end).  Only the turn of a provider that closed its stream
\* without an event stays open, and then as the last one.
StreamBalanced ==
    /\ stream.open \in {0, 1}
    /\ loop.pc = "ended" => stream.ends = 1 /\ stream.open = IF loop.mute THEN 1 ELSE 0

\* "so consumers can always close the turn" (agent.go:398), whatever the provider does.
TurnsClosed == loop.pc = "ended" => stream.open = 0

Directly(messages) ==
    \A j \in 1 .. Len(messages) :
        /\ \A i \in 1 .. messages[j].calls :
              j + i <= Len(messages) /\ messages[j + i] = Result(messages[j].of, i)
        /\ messages[j].role = "toolResult" =>
              \E k \in 1 .. j - 1 : messages[k].of = messages[j].of /\ messages[k].calls >= j - k

\* The results of a reply follow it directly in every request, through
\* truncated replies, cancelled tools, steering and compaction, whenever the
\* session holds no interrupted call when it is prompted (executeToolCalls,
\* compactionCut).
ResultsFollowCalls == loop.pc # "idle" /\ loop.clean => Directly(request)

\* Every call of a request has one result, also when the process was killed
\* or the stream broke between the call and its result (buildContextFromEntries).
EveryCallAnswered ==
    \A j \in 1 .. Len(request) : \A i \in 1 .. request[j].calls :
        \E k \in j + 1 .. Len(request) :
            /\ request[k] = Result(request[j].of, i)
            /\ \A n \in 1 .. Len(request) : request[n] = request[k] => n = k

\* "OpenAI requires every tool message to directly follow the assistant
\* tool_calls" (openai.go): of every request, whatever the session has been through.
ToolMessagesFollow == Directly(request)

-----------------------------------------------------------------------------
(***************************************************************************)
(* The session file of simplest: a tree of entries, appended line by line. *)
(* A process loads the file, takes the lock, appends under the leaf it     *)
(* stands on, and may branch.  A write may fail or be cut short, the       *)
(* process may be killed in it, and another process goes on with the file. *)
(*                                                                         *)
(* An entry is [id, parent, message]; parent 0 is the root.  A line of the *)
(* file that is cut short is torn, and the loader skips it; when only its  *)
(* newline is missing the next write completes it.                         *)
(***************************************************************************)

CONSTANTS Processes, MaxEntries,
          MaxWriteFaults,  \* writes that fail, and processes that are killed
          MaxOpens

VARIABLES
    exists,     \* the file is there, with its header
    lines,      \* the lines of the file after its header
    terminated, \* the file ends with a newline
    lockedBy,   \* the process that holds the lock of the file, or "none"
    session,    \* the SessionFile of each process
    entryIds,   \* how many entries have been made
    faults,
    acked       \* the entries that were reported as persisted
fileVars == <<exists, lines, terminated, lockedBy, session, entryIds, faults, acked>>

Closed == [pc |-> "closed", entries |-> <<>>, leaf |-> 0, flushed |-> FALSE, settled |-> FALSE,
           seen |-> <<>>, stale |-> FALSE, blind |-> FALSE, bare |-> FALSE, opens |-> 0]
Entry(id, parent, message) == [id |-> id, parent |-> parent, message |-> message]
Line(e, torn) == [entry |-> e, torn |-> torn]

SessionInit ==
    /\ exists = FALSE /\ lines = <<>> /\ terminated = TRUE /\ lockedBy = "none"
    /\ session = [p \in Processes |-> Closed]
    /\ entryIds = 0 /\ faults = 0 /\ acked = {}

\* LoadFile: the lines that can be read.
LoadFile == LET whole == SelectSeq(lines, LAMBDA l : ~l.torn) IN [i \in DOMAIN whole |-> whole[i].entry]

\* buildPath: from the leaf up to the root.
buildPath(entries, leaf) ==
    LET Of(id) == {i \in DOMAIN entries : entries[i].id = id}
        up[id \in 0 .. MaxEntries] ==
            IF id = 0 \/ Of(id) = {} THEN <<>>
            ELSE Append(up[entries[CHOOSE i \in Of(id) : TRUE].parent], id)
    IN  up[leaf]

LeafOf(entries) == IF entries = <<>> THEN 0 ELSE Last(entries).id
HasMessage(entries) == \E i \in DOMAIN entries : entries[i].message

\* Open reads the file first ...
Load(p) ==
    /\ session[p].pc = "closed" /\ session[p].opens < MaxOpens
    /\ session' = [session EXCEPT ![p] =
            [Closed EXCEPT !.pc = "loaded", !.entries = LoadFile, !.leaf = LeafOf(LoadFile),
                           !.flushed = exists, !.seen = lines, !.opens = session[p].opens + 1,
                           !.stale = session[p].stale, !.blind = session[p].blind,
                           !.bare = session[p].bare \/ (exists /\ ~HasMessage(LoadFile))]]
    /\ UNCHANGED <<exists, lines, terminated, lockedBy, entryIds, faults, acked>>

\* Mutant: the lock of another process is no obstacle.
AcquireLockShared(p) ==
    /\ session[p].pc = "loaded" /\ lockedBy' = p
    /\ session' = [session EXCEPT ![p].pc = "open"]
    /\ UNCHANGED <<exists, lines, terminated, entryIds, faults, acked>>

\* ... and takes the lock then, or fails with ErrSessionLocked.
AcquireLock(p) ==
    /\ session[p].pc = "loaded"
    /\ IF lockedBy = "none"
       THEN /\ lockedBy' = p
            /\ session' = [session EXCEPT ![p].pc = "open", ![p].stale = @ \/ session[p].seen # lines
                                                                      \/ session[p].flushed # exists,
                                             ![p].blind = @ \/ (exists /\ ~session[p].flushed)]
       ELSE lockedBy' = lockedBy /\ session' = [session EXCEPT ![p].pc = "closed"]
    /\ UNCHANGED <<exists, lines, terminated, entryIds, faults, acked>>

\* The line goes after the last one; repairTruncatedTail has ended one that was cut
\* short, which completes it when only the newline was missing.
Appended(l) == Append(lines, l)

\* The new entry under the leaf; an explicit parent of 0 starts a new root.
NewEntry(p, message) == Entry(entryIds + 1, session[p].leaf, message)

\* persistLocked: nothing is written before the first message; the first write is a
\* rewrite through a temporary file, which is whole or not there; a later one appends.
Persisted(p, e) ==
    LET entries == Append(session[p].entries, e)
    IN  IF ~HasMessage(entries) THEN lines
        ELSE IF session[p].flushed THEN Appended(Line(e, FALSE))
        ELSE [i \in DOMAIN entries |-> Line(entries[i], FALSE)]

AppendEntry(p, message) ==
    LET e == NewEntry(p, message)
        written == HasMessage(Append(session[p].entries, e))
    IN  /\ session[p].pc = "open" /\ entryIds < MaxEntries
        /\ lines' = Persisted(p, e)
        /\ terminated' = (terminated \/ written) /\ exists' = (exists \/ written)
        /\ session' = [session EXCEPT ![p] = [@ EXCEPT
                !.entries = Append(@, e), !.leaf = e.id, !.flushed = @ \/ written, !.settled = written]]
        /\ entryIds' = entryIds + 1
        /\ acked' = IF ~written THEN acked
                    ELSE IF session[p].flushed THEN acked \cup {e.id}
                    ELSE acked \cup {e.id} \cup {session[p].entries[i].id : i \in DOMAIN session[p].entries}
        /\ UNCHANGED <<lockedBy, faults>>

\* What a failed append leaves in memory: everything as it was.
RolledBack(s, e) == [s EXCEPT !.settled = FALSE]

\* The write fails: nothing of the line, a torn line, or all but its newline is on
\* disk.  A rewrite that fails leaves the file alone.
AppendFails(p, message) ==
    LET e == NewEntry(p, message)
    IN  /\ session[p].pc = "open" /\ entryIds < MaxEntries /\ faults < MaxWriteFaults
        /\ HasMessage(Append(session[p].entries, e))
        /\ \/ UNCHANGED <<exists, lines, terminated>>
           \/ /\ session[p].flushed
              /\ \E torn \in BOOLEAN : lines' = Appended(Line(e, torn))
              /\ terminated' = FALSE /\ UNCHANGED exists
        /\ session' = [session EXCEPT ![p] = RolledBack(@, e)]
        /\ entryIds' = entryIds + 1 /\ faults' = faults + 1
        /\ UNCHANGED <<lockedBy, acked>>

\* The process is killed, perhaps in a write; the system frees its lock.
KillProcess(p) ==
    /\ session[p].pc = "open" /\ faults < MaxWriteFaults
    /\ \/ UNCHANGED <<exists, lines, terminated, entryIds>>
       \/ /\ session[p].flushed /\ entryIds < MaxEntries
          /\ lines' = Appended(Line(NewEntry(p, TRUE), TRUE))
          /\ terminated' = FALSE /\ entryIds' = entryIds + 1 /\ UNCHANGED exists
    /\ session' = [session EXCEPT ![p] = [Closed EXCEPT !.opens = session[p].opens, !.stale = session[p].stale,
                                                    !.blind = session[p].blind, !.bare = session[p].bare]]
    /\ lockedBy' = "none" /\ faults' = faults + 1
    /\ UNCHANGED acked

\* Branch moves the leaf in memory only.
Branch(p) ==
    /\ session[p].pc = "open"
    /\ \E i \in DOMAIN session[p].entries :
        session' = [session EXCEPT ![p].leaf = session[p].entries[i].id, ![p].settled = FALSE]
    /\ UNCHANGED <<exists, lines, terminated, lockedBy, entryIds, faults, acked>>
ResetLeaf(p) ==
    /\ session[p].pc = "open"
    /\ session' = [session EXCEPT ![p].leaf = 0, ![p].settled = FALSE]
    /\ UNCHANGED <<exists, lines, terminated, lockedBy, entryIds, faults, acked>>

\* Close writes what was never flushed, and frees the lock.
Close(p) ==
    /\ session[p].pc = "open"
    /\ lines' = IF session[p].flushed THEN lines
                ELSE [i \in DOMAIN session[p].entries |-> Line(session[p].entries[i], FALSE)]
    /\ terminated' = (terminated \/ ~session[p].flushed) /\ exists' = TRUE
    /\ session' = [session EXCEPT ![p] = [Closed EXCEPT !.opens = session[p].opens, !.stale = session[p].stale,
                                                    !.blind = session[p].blind, !.bare = session[p].bare]]
    /\ lockedBy' = "none"
    /\ UNCHANGED <<entryIds, faults, acked>>

SessionNext ==
    \E p \in Processes :
        \/ Load(p) \/ AcquireLock(p) \/ Branch(p) \/ ResetLeaf(p) \/ Close(p) \/ KillProcess(p)
        \/ \E message \in BOOLEAN : AppendEntry(p, message) \/ AppendFails(p, message)

---------------------------------------------------------------------------
\* History: nobody has locked the file after it changed from what was loaded, nobody after it was
\* made that found none, and nobody has opened a file that holds no message yet.
NeverStale == \A p \in Processes : ~session[p].stale
NeverBlind == \A p \in Processes : ~session[p].blind
NeverBare == \A p \in Processes : ~session[p].bare

Survives(p) == buildPath(LoadFile, LeafOf(LoadFile)) = buildPath(session[p].entries, session[p].leaf)

\* The conversation survives the process: once an append has been reported as
\* done, a process that loads the file stands on the same path, entry by entry,
\* as the one that wrote it, whatever writes failed, were cut short or were
\* killed before (appendLocked's roll-back, repairTruncatedTail, rewriteLocked).
\* A process that loaded the file before another's last write and locked it after,
\* and one that opened a file without a message, may break this (see DeferredLand),
\* so that the property is about the behaviours without them.
PathSurvives ==
    NeverStale /\ NeverBare => \A p \in Processes : session[p].settled => Survives(p)

\* An entry that was reported as persisted stays in the file: a process that loaded the file before
\* another's last write and locked it after goes on beside that, from an older leaf, and takes nothing
\* away.  Only one that found no file, and locked it after another had made it, takes it for new and
\* writes over it (persistLocked, rewriteLocked, Open).
AckedStays ==
    [][NeverBlind' => acked \subseteq {LoadFile'[i].id : i \in DOMAIN LoadFile'}]_fileVars

\* "an append-only entry tree" (manager.go:90): what was reported as persisted stays, whoever opens it,
\* and a process that goes on with it goes on from its end.
AppendOnly ==
    /\ [][acked \subseteq {LoadFile'[i].id : i \in DOMAIN LoadFile'}]_fileVars
    /\ [](NeverBare => \A p \in Processes : session[p].settled => Survives(p))

\* What persistLocked says of the entries it defers: they are buffered in memory
\* "until the first user/assistant message lands".  The code loses those of a
\* session whose file was written before it had a message.
DeferredLand == NeverStale /\ faults = 0 => \A p \in Processes : session[p].settled => Survives(p)
=============================================================================
