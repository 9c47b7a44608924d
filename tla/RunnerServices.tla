--------------------------- MODULE RunnerServices ---------------------------
(***************************************************************************)
(* What a runner does for the backend over its connection, other than      *)
(* agents: requests, commands and terminals.                               *)
(***************************************************************************)
EXTENDS Integers, Sequences, FiniteSets

-----------------------------------------------------------------------------
(***************************************************************************)
(* The requests to a runner that must not be carried out twice: the call   *)
(* of a function of a workflow is sent again when the connection breaks,   *)
(* and the runner keeps the result of each request id for a while, so that *)
(* the second attempt joins the first or is given its result.              *)
(*                                                                         *)
(* An attempt is named by its request and its number.  The context of an   *)
(* attempt ends when its connection breaks; the function may notice.       *)
(***************************************************************************)

CONSTANTS RequestIds, MaxAttempts, MaxKept, MaxConcurrent
ASSUME RequestConstants == {MaxAttempts, MaxKept, MaxConcurrent} \subseteq Nat

VARIABLES
    caller,     \* the attempt each caller is at, and what it has got
    handler,    \* where the handler of each attempt is
    cache,      \* the entries of the cache: the attempts that made them
    older,      \* of each entry, those that were made before it
    result,     \* the result of an attempt that has executed
    connected,  \* the attempts whose context is alive
    dropped     \* the requests whose result the cache no longer holds
requestVars == <<caller, handler, cache, older, result, connected, dropped>>

Attempts == RequestIds \X (1..MaxAttempts)
NoResult == "none"

RequestsInit ==
    /\ caller = [r \in RequestIds |-> [attempt |-> 0, got |-> NoResult]]
    /\ handler = [t \in Attempts |-> [at |-> "none", entry |-> 0]]
    /\ cache = {} /\ older = [t \in Attempts |-> {}]
    /\ result = [t \in Attempts |-> NoResult] /\ connected = {} /\ dropped = {}

At(t, where) == handler[t].at = where
Holding == {t \in Attempts : handler[t].at \in {"admitted", "executing", "attached"}}
Entry(r) == {t \in cache : t[1] = r}
Completed(t) == result[t] # NoResult

\* Remote.RunFunction: the first attempt, and another one when the connection broke.
Call(r) ==
    LET n == caller[r].attempt + 1 IN
    /\ caller[r].got = NoResult /\ n <= MaxAttempts
    /\ n > 1 => <<r, n - 1>> \notin connected
    /\ caller' = [caller EXCEPT ![r].attempt = n]
    /\ handler' = [handler EXCEPT ![<<r, n>>].at = "waiting"]
    /\ connected' = connected \cup {<<r, n>>}
    /\ UNCHANGED <<cache, older, result, dropped>>

\* The connection breaks: the caller sees it at once, the handler sooner or later.
Break(t) ==
    /\ t \in connected /\ caller[t[1]].got = NoResult
    /\ connected' = connected \ {t}
    /\ UNCHANGED <<caller, handler, cache, older, result, dropped>>

\* The last attempt has failed.
GiveUp(r) ==
    /\ caller[r].attempt = MaxAttempts /\ caller[r].got = NoResult /\ <<r, MaxAttempts>> \notin connected
    /\ caller' = [caller EXCEPT ![r].got = "unavailable"]
    /\ UNCHANGED <<handler, cache, older, result, connected, dropped>>

\* The semaphore of the functions.
Admit(t) ==
    /\ At(t, "waiting")
    /\ \/ Cardinality(Holding) < MaxConcurrent /\ handler' = [handler EXCEPT ![t].at = "admitted"]
       \/ t \notin connected /\ handler' = [handler EXCEPT ![t].at = "gone"]
    /\ UNCHANGED <<caller, cache, older, result, connected, dropped>>

\* evictLocked: while there are too many entries, the oldest completed one goes.
Evicted(c, old, res) ==
    LET done == {t \in c : res[t] # NoResult}
    IN  {t \in done : Cardinality(old[t] \cap done) < Cardinality(c) - MaxKept}

\* The cache with these entries, without those that go.
Keeps(c, old, gone) ==
    /\ cache' = c \ gone
    /\ older' = [t \in Attempts |-> IF t \in gone THEN {} ELSE old[t] \ gone]
    /\ dropped' = dropped \cup {t[1] : t \in gone}

\* The entry of the request, running or completed.
Joins(t) == Entry(t[1])

\* do, up to the function: the attempt joins the entry of its request or makes one.
Do(t) ==
    /\ At(t, "admitted")
    /\ \/ /\ \E u \in Joins(t) : handler' = [handler EXCEPT ![t] = [at |-> "attached", entry |-> u[2]]]
          /\ UNCHANGED <<cache, older, dropped>>
       \/ /\ Joins(t) = {}
          /\ handler' = [handler EXCEPT ![t] = [at |-> "executing", entry |-> t[2]]]
          /\ LET made == [older EXCEPT ![t] = cache]
             IN  Keeps(cache \cup {t}, made, Evicted(cache \cup {t}, made, result))
    /\ UNCHANGED <<caller, result, connected>>

\* do, after the function: its result is kept.  A function whose context has ended may
\* fail for it.
Complete(t) ==
    /\ At(t, "executing")
    /\ \E v \in {"done"} \cup (IF t \in connected THEN {} ELSE {"interrupted"}) :
          result' = [result EXCEPT ![t] = v]
    /\ Keeps(cache, older, Evicted(cache, older, result'))
    /\ handler' = [handler EXCEPT ![t].at = "answering"]
    /\ UNCHANGED <<caller, connected>>

\* The entry is completed: those that have joined it answer as well.
Detach(t) ==
    /\ At(t, "attached") /\ Completed(<<t[1], handler[t].entry>>)
    /\ handler' = [handler EXCEPT ![t].at = "answering"]
    /\ UNCHANGED <<caller, cache, older, result, connected, dropped>>

\* The answer reaches the caller over the connection of its attempt, if that still is.
Answer(t) ==
    /\ At(t, "answering")
    /\ handler' = [handler EXCEPT ![t].at = "gone"]
    /\ caller' = IF t \in connected /\ caller[t[1]].got = NoResult
                 THEN [caller EXCEPT ![t[1]].got = result[<<t[1], handler[t].entry>>]] ELSE caller
    /\ UNCHANGED <<cache, older, result, connected, dropped>>

\* expireLocked: a completed entry is too old.
Expire(t) ==
    /\ t \in cache /\ Completed(t)
    /\ Keeps(cache, older, {t})
    /\ UNCHANGED <<caller, handler, result, connected>>

RequestsNext ==
    \/ \E r \in RequestIds : Call(r) \/ GiveUp(r)
    \/ \E t \in Attempts : Break(t) \/ Admit(t) \/ Do(t) \/ Complete(t) \/ Detach(t) \/ Answer(t) \/ Expire(t)

RequestsSpec == RequestsInit /\ [][RequestsNext]_requestVars

-----------------------------------------------------------------------------
Executed(r) == {t \in Attempts : t[1] = r /\ (At(t, "executing") \/ Completed(t))}

\* However often a request is sent, its function is never carried out twice at a time, and a
\* second time only if the result of the first has been dropped (idemCache.do).
ExecutedOnce ==
    \A r \in RequestIds :
        /\ Cardinality({t \in Executed(r) : At(t, "executing")}) <= 1
        /\ r \notin dropped => Cardinality(Executed(r)) <= 1

\* A request that is being carried out can always be joined, also when the cache is full
\* of others (evictLocked).
RunningIsKept == \A t \in Attempts : At(t, "executing") => t \in cache

\* A retry is given the result of a function that was left to finish
\* (Remote.RunFunction).
RetryGetsResult == \A r \in RequestIds : caller[r].got # "interrupted"

-----------------------------------------------------------------------------
(***************************************************************************)
(* A shell command that the backend runs on a runner: the output is kept   *)
(* in a ring on the runner and streamed to the backend, which comes back   *)
(* with the offset it has when the stream breaks.  A command nobody        *)
(* listens to is killed after a while, and a writer waits while too much   *)
(* of its output has not been sent.                                        *)
(*                                                                         *)
(* One of the two outputs is modelled; they are alike.  A frame carries    *)
(* one unit of output.                                                     *)
(***************************************************************************)

CONSTANTS MaxStreams,   \* commandMaxAttempts
          Backlog,      \* cmdBacklog
          Keep,         \* cmdKeep
          MaxOutput     \* what the command writes at most
ASSUME CommandConstants == {MaxStreams, Backlog, Keep, MaxOutput} \subseteq Nat

VARIABLES
    command,    \* the run of the command in the registry of the runner
    started,    \* how often the command has been executed
    commandHandler,    \* the handler of each attempt on the runner
    frames,     \* the frames on their way in each attempt
    commandClient      \* the backend's side
commandVars == <<command, started, commandHandler, frames, commandClient>>

Streams == 1 .. MaxStreams
\* The run and its timer: grace is the timer, late counts those that have fired and not
\* looked yet whether anybody is there, kills says that one has found nobody.
NoRun == [state |-> "none", known |-> FALSE, start |-> 0, end |-> 0, sent |-> 0,
          killed |-> FALSE, outcome |-> 0, gen |-> 0, attached |-> 0,
          grace |-> "off", late |-> 0, kills |-> FALSE]
NoHandler == [pc |-> "none", gen |-> 0, off |-> 0, resumed |-> FALSE, up |-> FALSE]
Exit == -1      \* the exit frame
Failed == -2    \* an error status that is not retried
Again == -3     \* an error status that is

CommandInit ==
    /\ command = NoRun /\ started = 0
    /\ commandHandler = [s \in Streams |-> NoHandler] /\ frames = [s \in Streams |-> <<>>]
    /\ commandClient = [pc |-> "retry", attempts |-> 0, off |-> 0]

\* commandOnce: an attempt carries the offset the backend has, and says whether it
\* is the first.
CommandOnce ==
    LET s == commandClient.attempts + 1
    IN  /\ commandClient.pc = "retry" /\ s <= MaxStreams
        /\ commandHandler' = [commandHandler EXCEPT ![s] = [NoHandler EXCEPT !.pc = "request", !.up = TRUE,
                                                 !.off = commandClient.off, !.resumed = commandClient.attempts > 0]]
        /\ commandClient' = [commandClient EXCEPT !.pc = "stream", !.attempts = s]
        /\ UNCHANGED <<command, started, frames>>

\* What the ring holds after a step: what was sent stays up to Keep units.
Trimmed(c) ==
    IF c.sent <= c.start + Keep THEN c
    ELSE [c EXCEPT !.start = IF c.sent - Keep < c.end THEN c.sent - Keep ELSE c.end]

\* attach: a newer stream takes the place of the others, stops the timer and starts
\* at the offset of the backend.
Attached(c, off) ==
    [c EXCEPT !.gen = c.gen + 1, !.attached = c.attached + 1, !.grace = "off", !.sent = off]

\* What is sent on a stream that is gone is lost.
Sends(s, frame) ==
    frames' = [frames EXCEPT ![s] = IF commandHandler[s].up THEN Append(frames[s], frame) ELSE frames[s]]

Reply(s, frame) ==
    /\ Sends(s, frame)
    /\ commandHandler' = [commandHandler EXCEPT ![s].pc = "over"]

Attach(s, c) ==
    IF commandHandler[s].off < c.start \/ commandHandler[s].off > c.end
    THEN command' = c /\ Reply(s, Failed)
    ELSE /\ command' = Attached(c, commandHandler[s].off)
         /\ commandHandler' = [commandHandler EXCEPT ![s].pc = "attached", ![s].gen = c.gen + 1]
         /\ UNCHANGED frames

\* Mutant: an attempt that finds nothing starts the command, whichever it is.
MayStartAgain(s) == TRUE

\* A resumed attempt that finds nothing must not run the command again.
MayStart(s) == ~commandHandler[s].resumed

\* RunCommand: attach to the run of the request, or start it.  A run that is gone must
\* not be resumed, and a command may be refused (prepareCommand, add).
RunCommand(s) ==
    /\ commandHandler[s].pc = "request" /\ UNCHANGED commandClient
    /\ \/ command.known /\ Attach(s, command) /\ UNCHANGED started
       \/ /\ ~command.known /\ MayStart(s)
          /\ command' = [NoRun EXCEPT !.state = "running", !.known = TRUE]
          /\ commandHandler' = [commandHandler EXCEPT ![s].pc = "created"]
          /\ started' = started + 1 /\ UNCHANGED frames
       \/ ~command.known /\ Reply(s, Failed) /\ UNCHANGED <<command, started>>

\* The one that has started the run attaches to it, perhaps after another one.
AttachCreated(s) ==
    /\ commandHandler[s].pc = "created" /\ Attach(s, command)
    /\ UNCHANGED <<started, commandClient>>

\* cmdWriter: the command writes while less than Backlog is unsent.
Write ==
    /\ command.state = "running" /\ ~command.killed
    /\ command.end < MaxOutput /\ command.end - command.sent < Backlog
    /\ command' = Trimmed([command EXCEPT !.end = command.end + 1])
    /\ UNCHANGED <<started, commandHandler, frames, commandClient>>

\* execute: the command ends by itself or because it was killed; it may still be killed
\* between the look at that and the outcome.
Execute ==
    /\ command.state = "running"
    /\ \E outcome \in {Exit, Failed} \cup (IF command.killed THEN {Again} ELSE {}) :
          command' = [command EXCEPT !.state = "done", !.outcome = outcome]
    /\ UNCHANGED <<started, commandHandler, frames, commandClient>>

\* detach: the last stream that leaves starts the timer.
Detached(c) ==
    [c EXCEPT !.attached = c.attached - 1,
              !.grace = IF c.attached > 1 \/ c.state = "done" \/ c.grace # "off"
                        THEN c.grace ELSE "armed"]

Leave(s) ==
    /\ command' = Detached(command)
    /\ commandHandler' = [commandHandler EXCEPT ![s].pc = "over"]

\* A turn of attach's loop.
Serving(s) == commandHandler[s].pc = "attached"
Newest(s) == commandHandler[s].gen = command.gen

Superseded(s) == Serving(s) /\ ~Newest(s) /\ Sends(s, Again) /\ Leave(s)

\* What the ring has is sent; a stream that is gone may refuse it.
SendOutput(s) ==
    LET c == Trimmed([command EXCEPT !.sent = command.sent + 1])
    IN  /\ Serving(s) /\ Newest(s) /\ command.sent < command.end
        /\ Sends(s, command.sent + 1)
        /\ \/ command' = c /\ UNCHANGED commandHandler
           \/ /\ ~commandHandler[s].up /\ command' = Detached(c)
              /\ commandHandler' = [commandHandler EXCEPT ![s].pc = "over"]

SendOutcome(s) ==
    /\ Serving(s) /\ Newest(s) /\ command.sent >= command.end /\ command.state = "done"
    /\ Sends(s, command.outcome) /\ Leave(s)

StreamGone(s) ==
    /\ Serving(s) /\ Newest(s) /\ command.sent >= command.end /\ ~commandHandler[s].up
    /\ Leave(s) /\ UNCHANGED frames

Serve(s) ==
    /\ Superseded(s) \/ SendOutput(s) \/ SendOutcome(s) \/ StreamGone(s)
    /\ UNCHANGED <<started, commandClient>>

\* The timer fires, looks whether anybody is there, and kills after it has let go of the
\* lock; a stream that comes in between stops nothing.
GraceFires ==
    /\ command.grace = "armed"
    /\ command' = [command EXCEPT !.grace = "over", !.late = command.late + 1]
    /\ UNCHANGED <<started, commandHandler, frames, commandClient>>
GraceLooks ==
    /\ command.late > 0
    /\ command' = [command EXCEPT !.late = command.late - 1,
                       !.kills = command.kills \/ ~(command.attached > 0 \/ command.state = "done")]
    /\ UNCHANGED <<started, commandHandler, frames, commandClient>>
GraceKills ==
    /\ command.kills
    /\ command' = [command EXCEPT !.kills = FALSE, !.killed = TRUE]
    /\ UNCHANGED <<started, commandHandler, frames, commandClient>>

\* The connection breaks; what is on its way is lost, or its handler is still to come to
\* it.  The backend tries again.
StreamBreaks(s) ==
    /\ commandClient.pc = "stream" /\ commandClient.attempts = s
    /\ frames' = [frames EXCEPT ![s] = <<>>]
    /\ commandHandler' = [commandHandler EXCEPT ![s].up = FALSE]
    /\ commandClient' = [commandClient EXCEPT !.pc = IF s < MaxStreams THEN "retry" ELSE "failed"]
    /\ UNCHANGED <<command, started>>

\* The backend takes a frame: output at its offset, the exit, or an error.
Receive(s) ==
    LET f == Head(frames[s])
    IN  /\ commandClient.pc = "stream" /\ commandClient.attempts = s /\ frames[s] # <<>>
        /\ frames' = [frames EXCEPT ![s] = Tail(frames[s])]
        /\ commandClient' = CASE f = Exit -> [commandClient EXCEPT !.pc = "exited"]
                       [] f = Failed -> [commandClient EXCEPT !.pc = "failed"]
                       [] f = Again -> [commandClient EXCEPT !.pc = IF s < MaxStreams THEN "retry" ELSE "failed"]
                       [] f > 0 /\ f - 1 > commandClient.off -> [commandClient EXCEPT !.pc = "gap"]
                       [] f > 0 /\ f - 1 < commandClient.off -> commandClient
                       [] OTHER -> [commandClient EXCEPT !.off = f]
        /\ UNCHANGED <<command, started, commandHandler>>

\* The caller gives up: the stream is broken and the runner told to cancel the command.
CancelCommand ==
    /\ commandClient.pc \in {"stream", "retry"}
    /\ commandClient' = [commandClient EXCEPT !.pc = "cancelled"]
    /\ commandHandler' = [s \in Streams |-> [commandHandler[s] EXCEPT !.up = FALSE]]
    /\ frames' = [s \in Streams |-> <<>>]
    /\ UNCHANGED <<command, started>>
CancelArrives ==
    /\ commandClient.pc = "cancelled" /\ command.known /\ ~command.killed
    /\ command' = [command EXCEPT !.killed = TRUE]
    /\ UNCHANGED <<started, commandHandler, frames, commandClient>>

\* The run of a command that has ended is forgotten, by age or for another's sake; the
\* streams that it has go on.
ForgetCommand ==
    /\ command.state = "done" /\ command.known
    /\ command' = [command EXCEPT !.known = FALSE]
    /\ UNCHANGED <<started, commandHandler, frames, commandClient>>

CommandNext ==
    \/ CommandOnce \/ Write \/ Execute \/ GraceFires \/ GraceLooks \/ GraceKills
    \/ CancelCommand \/ CancelArrives \/ ForgetCommand
    \/ \E s \in Streams : RunCommand(s) \/ AttachCreated(s) \/ Serve(s) \/ StreamBreaks(s) \/ Receive(s)

CommandSpec == CommandInit /\ [][CommandNext]_commandVars

---------------------------------------------------------------------------
\* A command is executed at most once, however often its stream breaks, its
\* request is repeated or its run has been forgotten (RunCommand, Resumed).
RunsOnce == started <= 1

\* The output the backend puts together has no hole: a stream that is taken up
\* again goes on at the offset the backend has, and a command that is reported as
\* exited has been received to its end (attach, trim, apply).
OutputWhole ==
    /\ commandClient.pc # "gap"
    /\ commandClient.pc = "exited" => commandClient.off = command.end

\* No command is left running that nobody listens to: while it runs and no stream is
\* attached, the timer that kills it is on its way, or the stream that has started it is
\* (RunCommand, detach, attach).
NoOrphan ==
    command.state = "running" /\ command.attached = 0 /\ ~command.killed
        => \/ command.grace = "armed" \/ command.late > 0 \/ command.kills
           \/ \E s \in Streams : commandHandler[s].pc = "created"

-----------------------------------------------------------------------------
(***************************************************************************)
(* The terminals of a runner: a shell on a pty for each stream, one at a   *)
(* time for a key.  A newer stream replaces the shell of the key, and what *)
(* a shell has started is swept away with it, by its session or by a mark  *)
(* in its environment.                                                     *)
(*                                                                         *)
(* The streams are of one key.  A sweep is one step: a process that is     *)
(* forked while the table of processes is read may escape it.              *)
(***************************************************************************)

CONSTANTS TerminalStreams, MaxJobs
ASSUME TerminalConstants == "none" \notin TerminalStreams

VARIABLES
    shell,     \* "none", "running", "exited" (not waited for yet), "done"
    jobs,      \* the processes a shell has started and left
    terminalHandler,   \* where the handler of the stream is
    browser,    \* whether the browser and its connection are there
    sweeps,    \* the sweeps of each session, with their stage
    live       \* the stream the key belongs to
terminalVars == <<shell, jobs, terminalHandler, browser, sweeps, live>>

NoStream == "none"
\* A job is in the session of the shell or has one of its own, has the mark or has
\* scrubbed its environment, and may ignore SIGHUP.
Job == [own : BOOLEAN, marked : BOOLEAN, stubborn : BOOLEAN]

TerminalInit ==
    /\ shell = [s \in TerminalStreams |-> "none"] /\ jobs = [s \in TerminalStreams |-> {}]
    /\ terminalHandler = [s \in TerminalStreams |-> "none"] /\ browser = [s \in TerminalStreams |-> TRUE]
    /\ sweeps = [s \in TerminalStreams |-> {}] /\ live = NoStream

alive(s) == shell[s] \in {"running", "exited"}

\* kill: a sweep begins beside the handler; it keeps whether the shell was alive.
Killed(s, sw, by) == [sw EXCEPT ![s] = @ \cup {[stage |-> "hup", alive |-> alive(s), by |-> by]}]

\* replace: the older session of the key is killed.
Replace(old, sw) == IF old = NoStream THEN sw ELSE Killed(old, sw, "newer")

\* Ttyd up to its select: the shell is started and takes the key.
Ttyd(s) ==
    /\ terminalHandler[s] = "none" /\ browser[s]
    /\ terminalHandler' = [terminalHandler EXCEPT ![s] = "serving"]
    /\ shell' = [shell EXCEPT ![s] = "running"]
    /\ live' = s /\ sweeps' = Replace(live, sweeps)
    /\ UNCHANGED <<jobs, browser>>

StartJob(s) ==
    /\ shell[s] = "running" /\ Cardinality(jobs[s]) < MaxJobs
    /\ \E j \in Job : jobs' = [jobs EXCEPT ![s] = @ \cup {j}]
    /\ UNCHANGED <<shell, terminalHandler, browser, sweeps, live>>
ShellExits(s) ==
    /\ shell[s] = "running"
    /\ shell' = [shell EXCEPT ![s] = "exited"]
    /\ UNCHANGED <<jobs, terminalHandler, browser, sweeps, live>>
Wait(s) ==
    /\ shell[s] = "exited"
    /\ shell' = [shell EXCEPT ![s] = "done"]
    /\ UNCHANGED <<jobs, terminalHandler, browser, sweeps, live>>
Disconnect(s) ==
    /\ browser[s] /\ terminalHandler[s] # "none"
    /\ browser' = [browser EXCEPT ![s] = FALSE]
    /\ UNCHANGED <<shell, jobs, terminalHandler, sweeps, live>>

\* The select: the stream is gone and the handler waits for the shell it kills.
StreamEnds(s) ==
    /\ terminalHandler[s] = "serving" /\ ~browser[s]
    /\ terminalHandler' = [terminalHandler EXCEPT ![s] = "waiting"]
    /\ sweeps' = Killed(s, sweeps, "stream")
    /\ UNCHANGED <<shell, jobs, browser, live>>

\* remove: the key is given up if it is still this session's.
Removed(s) == IF live = s THEN NoStream ELSE live

\* Whatever the shell left running dies with the session (the deferred kill).
LastSweep(s) == Killed(s, sweeps, "return")

\* The shell is done: the handler returns.
Return(s) ==
    /\ terminalHandler[s] \in {"serving", "waiting"} /\ shell[s] = "done"
    /\ terminalHandler' = [terminalHandler EXCEPT ![s] = "over"]
    /\ live' = Removed(s) /\ sweeps' = LastSweep(s)
    /\ UNCHANGED <<shell, jobs, browser>>

\* signalSession: the members are the processes of the shell's session, while the
\* shell was alive, and those with the mark, which jobs inherit.
Members(s, wasAlive) == {j \in jobs[s] : (wasAlive /\ ~j.own) \/ j.marked}
Hup(s, w) ==
    /\ w \in sweeps[s] /\ w.stage = "hup"
    /\ jobs' = [jobs EXCEPT ![s] = {j \in @ : j \notin Members(s, w.alive) \/ j.stubborn}]
    /\ \E ends \in BOOLEAN :
        shell' = [shell EXCEPT ![s] = IF w.alive /\ @ = "running" /\ ends THEN "exited" ELSE @]
    /\ sweeps' = [sweeps EXCEPT ![s] = (@ \ {w}) \cup {[w EXCEPT !.stage = "kill"]}]
    /\ UNCHANGED <<terminalHandler, browser, live>>

\* After a while, SIGKILL.
Kill(s, w) ==
    /\ w \in sweeps[s] /\ w.stage = "kill"
    /\ jobs' = [jobs EXCEPT ![s] = {j \in @ : j \notin Members(s, alive(s))}]
    /\ shell' = [shell EXCEPT ![s] = IF @ = "running" THEN "exited" ELSE @]
    /\ sweeps' = [sweeps EXCEPT ![s] = @ \ {w}]
    /\ UNCHANGED <<terminalHandler, browser, live>>

TerminalNext == \E s \in TerminalStreams :
    \/ Ttyd(s) \/ StartJob(s) \/ ShellExits(s) \/ Wait(s) \/ Disconnect(s) \/ StreamEnds(s) \/ Return(s)
    \/ \E w \in sweeps[s] : Hup(s, w) \/ Kill(s, w)

TerminalSpec == TerminalInit /\ [][TerminalNext]_terminalVars

---------------------------------------------------------------------------
Settled(s) == sweeps[s] = {}

\* A key has one terminal: when nothing is being swept, a shell that runs is the one
\* that the key belongs to (replace, remove).
OneTerminal == \A s \in TerminalStreams : shell[s] = "running" /\ Settled(s) => live = s

\* A session that is over and swept leaves no marked process behind, the jobs in
\* sessions of their own and those that ignore SIGHUP included (kill, "Whatever the
\* shell left running dies with the session").
NothingLeft ==
    \A s \in TerminalStreams : terminalHandler[s] = "over" /\ Settled(s) => \A j \in jobs[s] : ~j.marked

-----------------------------------------------------------------------------
(***************************************************************************)
(* The three services side by side: they share no state.                   *)
(***************************************************************************)

ServicesSpec == RequestsSpec /\ CommandSpec /\ TerminalSpec

RequestsServed == ExecutedOnce /\ RunningIsKept
CommandServed == RunsOnce /\ OutputWhole /\ NoOrphan
TerminalsSwept == OneTerminal /\ NothingLeft

\* A repeated request or a command whose stream breaks is carried out once, its output put
\* together without a hole, and neither a command nobody listens to nor a replaced terminal
\* leaves a process behind (idemCache.do, RunCommand, attach, kill).
ServedOnce == RequestsServed /\ CommandServed /\ TerminalsSwept
=============================================================================
