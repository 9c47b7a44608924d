------------------------------ MODULE CliRuns ------------------------------
(***************************************************************************)
(* The runs of the command line agents: the files a run takes over in its  *)
(* home, and the stream of events its command prints.                      *)
(***************************************************************************)
EXTENDS Naturals, Sequences, FiniteSets

-----------------------------------------------------------------------------
(***************************************************************************)
(* The takeover of a command line agent's instruction file.  A run of agy  *)
(* (InstallContract) or of opencode (PrepareAgent) replaces a file in the  *)
(* user's home, which every sandbox has bound writable, by the contract of *)
(* its agent, and puts the old file back when it ends (BeginFileTakeover   *)
(* and Restore).  Several runs may do so at the same time, nothing locks   *)
(* the file, and what was there is held in the memory of the run only.     *)
(***************************************************************************)

CONSTANTS
    Runs,           \* runs of the wrapper, each started at most once
    OpencodeRuns,   \* those that also write an agent file, of the same agent
    MaxKills,       \* bound on runs killed before they restored the file
    MaxFaults       \* bound on writes that fail for another reason

VARIABLES
    file,       \* the instruction file: [there, by, whole, readonly]
    agentFile,  \* opencode's generated agent file exists
    run,        \* run -> [phase, existed, previous, prevMode, fd, began]
    kills, faults,
    alone,      \* no run has begun or ended while another was doing so
    owned       \* the owner's file, if he has one; he may have made it read-only

takeoverVars == <<file, agentFile, run, kills, faults, alone, owned>>

\* "by" is who wrote what the file begins with, "whole" is false when it was
\* written over a longer text whose tail is still there.
Absent == [there |-> FALSE, by |-> "none", whole |-> TRUE, readonly |-> FALSE]
Owned == {Absent} \cup [there: {TRUE}, by: {"user"}, whole: {TRUE}, readonly: BOOLEAN]

Entered == {"read", "stat", "chmod", "open", "fill", "running", "check",
            "remove", "reopen", "refill", "remode"}

\* No other run is between two accesses to the file.
Alone(r) == \A q \in Runs \ {r} : run[q].phase \notin Entered \ {"running"}

Fresh == [phase |-> "idle", existed |-> FALSE, previous |-> Absent,
          prevMode |-> FALSE, fd |-> FALSE, began |-> 0]

TakeoverInit ==
    /\ owned \in Owned /\ file = owned
    /\ agentFile = FALSE
    /\ run = [r \in Runs |-> Fresh]
    /\ kills = 0 /\ faults = 0
    /\ alone = TRUE

\* A managed file starts with ManagedMarker.
Managed(f) == f.by = "managed"

\* A truncated file keeps its mode; a created one is writable.
Truncated(f) == [there |-> TRUE, by |-> "none", whole |-> TRUE,
                 readonly |-> f.there /\ f.readonly]

\* Bytes written at the start of what is open: they may be shorter than
\* what another writer has put there since.
Filled(by) ==
    IF file.by = "none" THEN {[file EXCEPT !.by = by]}
                        ELSE {[file EXCEPT !.by = by, !.whole = w] : w \in BOOLEAN}

\* Where Restore begins: with the file to write back or the check before removal.
RestoreFrom(existed) == IF existed THEN "reopen" ELSE "check"

------------------------------------------------------------------------------

(* The contract is mounted; opencode writes the agent file first. *)
Start(r) ==
    /\ run[r].phase = "idle"
    /\ run' = [run EXCEPT ![r].phase = "read", ![r].began = kills]
    /\ agentFile' = (agentFile \/ r \in OpencodeRuns)
    /\ alone' = (alone /\ Alone(r))
    /\ UNCHANGED <<file, kills, faults>>

Recorded(f) == f.there /\ ~Managed(f)

(* BeginFileTakeover reads the file. *)
ReadFile(r) ==
    /\ run[r].phase = "read"
    /\ run' = [run EXCEPT ![r].phase = "stat", ![r].existed = Recorded(file),
                          ![r].previous = IF Recorded(file) THEN file ELSE Absent]
    /\ UNCHANGED <<file, agentFile, kills, faults, alone>>

PrevMode(r) == file.there /\ file.readonly

(* It then reads the mode; a missing file is left to WriteFile. *)
Stat(r) ==
    /\ run[r].phase = "stat"
    /\ run' = [run EXCEPT ![r].prevMode = PrevMode(r),
                          ![r].phase = IF file.there /\ file.readonly THEN "chmod" ELSE "open"]
    /\ UNCHANGED <<file, agentFile, kills, faults, alone>>

(* A read-only file is made writable; if it is gone the run fails and      *)
(* opencode's agent file is removed.                                       *)
Chmod(r) ==
    /\ run[r].phase = "chmod"
    /\ IF file.there
       THEN /\ file' = [file EXCEPT !.readonly = FALSE]
            /\ run' = [run EXCEPT ![r].phase = "open"]
            /\ UNCHANGED agentFile
       ELSE /\ run' = [run EXCEPT ![r].phase = "done"]
            /\ agentFile' = (agentFile /\ r \notin OpencodeRuns)
            /\ UNCHANGED file
    /\ UNCHANGED <<kills, faults, alone>>

(* WriteFile of the contract: the file is opened and truncated.  A failure *)
(* restores at once.                                                       *)
Open(r) ==
    /\ run[r].phase = "open"
    /\ IF file.there /\ file.readonly
       THEN /\ run' = [run EXCEPT ![r].phase = RestoreFrom(run[r].existed)]
            /\ agentFile' = (agentFile /\ r \notin OpencodeRuns)
            /\ UNCHANGED file
       ELSE /\ file' = Truncated(file)
            /\ run' = [run EXCEPT ![r].phase = "fill", ![r].fd = TRUE]
            /\ UNCHANGED agentFile
    /\ UNCHANGED <<kills, faults, alone>>

(* The bytes are written, to a file another run may have removed by now.   *)
Fill(r) ==
    /\ run[r].phase = "fill"
    /\ file' \in IF run[r].fd THEN Filled("managed") ELSE {file}
    /\ run' = [run EXCEPT ![r].phase = "running", ![r].fd = FALSE]
    /\ UNCHANGED <<agentFile, kills, faults, alone>>

(* A write may fail before or after the marker.                            *)
FillFails(r) ==
    /\ run[r].phase = "fill" /\ faults < MaxFaults
    /\ file' \in {file} \cup (IF run[r].fd THEN {[f EXCEPT !.whole = FALSE] : f \in Filled("managed")} ELSE {})
    /\ faults' = faults + 1
    /\ run' = [run EXCEPT ![r].phase = RestoreFrom(run[r].existed), ![r].fd = FALSE]
    /\ agentFile' = (agentFile /\ r \notin OpencodeRuns)
    /\ UNCHANGED <<kills, alone>>

(* The agent has answered: the deferred cleanup begins.                    *)
Answered(r) ==
    /\ run[r].phase = "running"
    /\ run' = [run EXCEPT ![r].phase = RestoreFrom(run[r].existed)]
    /\ agentFile' = (agentFile /\ r \notin OpencodeRuns)
    /\ alone' = (alone /\ Alone(r))
    /\ UNCHANGED <<file, kills, faults>>

\* Mutant: a file that was not there before is removed whatever it holds.
MayRemoveAny == file.there

MayRemove == file.there /\ Managed(file)

(* Restore without a recorded file removes what still is a takeover.       *)
Check(r) ==
    /\ run[r].phase = "check"
    /\ run' = [run EXCEPT ![r].phase = IF MayRemove THEN "remove" ELSE "done"]
    /\ UNCHANGED <<file, agentFile, kills, faults, alone>>

Remove(r) ==
    /\ run[r].phase = "remove"
    /\ file' = Absent
    /\ run' = [q \in Runs |-> IF q = r THEN [run[q] EXCEPT !.phase = "done"]
                                       ELSE [run[q] EXCEPT !.fd = FALSE]]
    /\ UNCHANGED <<agentFile, kills, faults, alone>>

(* Restore with a recorded file writes it back; if that fails it ends.     *)
Reopen(r) ==
    /\ run[r].phase = "reopen"
    /\ IF file.there /\ file.readonly
       THEN /\ run' = [run EXCEPT ![r].phase = "done"]
            /\ UNCHANGED file
       ELSE /\ file' = Truncated(file)
            /\ run' = [run EXCEPT ![r].phase = "refill", ![r].fd = TRUE]
    /\ UNCHANGED <<agentFile, kills, faults, alone>>

Refill(r) ==
    /\ run[r].phase = "refill"
    /\ file' \in IF run[r].fd /\ run[r].previous.by # "none"
                 THEN Filled(run[r].previous.by) ELSE {file}
    /\ run' = [run EXCEPT ![r].phase = "remode", ![r].fd = FALSE]
    /\ UNCHANGED <<agentFile, kills, faults, alone>>

Remode(r) ==
    /\ run[r].phase = "remode"
    /\ file' = IF file.there THEN [file EXCEPT !.readonly = run[r].prevMode] ELSE file
    /\ run' = [run EXCEPT ![r].phase = "done"]
    /\ UNCHANGED <<agentFile, kills, faults, alone>>

(* The run is killed with its sandbox; what it recorded is gone.           *)
Kill(r) ==
    /\ run[r].phase \in Entered /\ kills < MaxKills
    /\ kills' = kills + 1
    /\ run' = [run EXCEPT ![r].phase = "killed", ![r].fd = FALSE]
    /\ UNCHANGED <<file, agentFile, faults, alone>>

TakeoverNext == \E r \in Runs : UNCHANGED owned /\
   (\/ Start(r) \/ ReadFile(r) \/ Stat(r) \/ Chmod(r) \/ Open(r) \/ Fill(r) \/ FillFails(r)
    \/ Answered(r) \/ Check(r) \/ Remove(r) \/ Reopen(r) \/ Refill(r) \/ Remode(r) \/ Kill(r))

TakeoverSpec == TakeoverInit /\ [][TakeoverNext]_takeoverVars

------------------------------------------------------------------------------

TakeoverTypeOK ==
    /\ file \in [there: BOOLEAN, by: {"none", "user", "managed"}, whole: BOOLEAN, readonly: BOOLEAN]
    /\ agentFile \in BOOLEAN /\ alone \in BOOLEAN
    /\ \A r \in Runs : run[r].phase \in Entered \cup {"idle", "done", "killed"}
    /\ kills \in 0 .. MaxKills /\ faults \in 0 .. MaxFaults

Quiet == \A r \in Runs : run[r].phase \notin Entered

(* Runs may overlap as long as no two take over or give back the file at  *)
(* the same time: if none was killed, then once all runs are over the file *)
(* has the owner's text and mode again, and no generated agent file is     *)
(* left (BeginFileTakeover, Restore, cleanup).  Where he had none, a write *)
(* that failed before the marker leaves an empty file.                     *)
Emptied == ~owned.there /\ faults > 0 /\ file = Truncated(Absent)
OwnerGetsFileBack == (Quiet /\ kills = 0 /\ alone) => ((file = owned \/ Emptied) /\ ~agentFile)

(* "Recorded as absent; Restore removes the file again" (takeover.go:46):   *)
(* not one whose first write failed, which holds no marker.                *)
CreatedIsRemoved == (Quiet /\ kills = 0 /\ alone) => file = owned

(* What a killed run left in the file is not kept as if it were the        *)
(* user's: when a run that began after the last kill has ended and none is *)
(* active, the file holds no contract.                                     *)
LeftoverCleared ==
    (Quiet /\ alone /\ \E r \in Runs : run[r].phase = "done" /\ run[r].began = kills)
        => ~Managed(file)

(* Pre-existing user content is never silently destroyed (ManagedMarker):  *)
(* once all runs are over, the owner's text is in the file.                *)
ContentNeverDestroyed == (Quiet /\ owned.there) => file.by = "user"

(* The contract is in place for the duration of the run (agy's Prompt).    *)
ContractInForce == \A r \in Runs : run[r].phase = "running" => Managed(file)

-----------------------------------------------------------------------------
(***************************************************************************)
(* One prompt run through a command line agent: Prompt of the claude, agy  *)
(* and opencode wrappers.  The child writes JSON lines to a pipe, the      *)
(* wrapper reads them into what it reports and answers, and the answer is  *)
(* made up from them, from the child's exit status and from whether the    *)
(* caller has cancelled.  Each wrapper does so by rules of its own.  A     *)
(* line is a kind, a message (agy: a step) and, as its text, its number;   *)
(* a line is big when it exceeds the reader's buffer.                      *)
(***************************************************************************)

CONSTANTS
    Messages,   \* message or step identifiers
    MaxLines,   \* bound on the lines the child writes
    MaxBig,     \* bound on the big ones among them
    Capacity    \* lines the pipe holds

VARIABLES
    cli,        \* which wrapper runs
    emitted,    \* every line the child has written
    pipe,       \* those not yet read
    child,      \* "running", or how it ended: "ok", "error", "killed"
    cancelled,  \* the caller's context
    reader,     \* "reading" or "stopped"
    acc,        \* what the reader has gathered
    reports,    \* agent_response reports made: [message, text]
    answer      \* what Prompt returned: [kind, text]

cliVars == <<cli, emitted, pipe, child, cancelled, reader, acc, reports, answer>>

Kinds(c) == CASE c = "claude"   -> {"text", "result", "empty", "failed", "bad"}
              [] c = "agy"      -> {"init", "text", "done", "result", "failed"}
              [] c = "opencode" -> {"text", "stop", "tool", "error"}

Pending == [kind |-> "pending", text |-> <<>>]

CliInit ==
    /\ cli \in {"claude", "agy", "opencode"}
    /\ emitted = <<>> /\ pipe = <<>> /\ child = "running" /\ cancelled = FALSE
    /\ reader = "reading" /\ reports = <<>> /\ answer = Pending
    /\ acc = [session |-> FALSE, content |-> <<>>, lastText |-> <<>>, err |-> FALSE,
              saw |-> FALSE, skipped |-> 0, texts |-> [m \in Messages |-> <<>>],
              target |-> {}, tool |-> <<>>]

------------------------------------------------------------------------------
(* The child *)

Bigs == Cardinality({i \in 1 .. Len(emitted) : emitted[i].big})

Emit ==
    /\ child = "running" /\ Len(emitted) < MaxLines /\ Len(pipe) < Capacity
    /\ \E k \in Kinds(cli), m \in Messages, big \in BOOLEAN :
        LET line == [kind |-> k, message |-> m, big |-> big, n |-> Len(emitted) + 1] IN
        /\ big => Bigs < MaxBig
        /\ k \notin {"text", "done", "stop"} => m = CHOOSE any \in Messages : TRUE
        /\ emitted' = Append(emitted, line)
        /\ pipe' = Append(pipe, line)
    /\ UNCHANGED <<cli, child, cancelled, reader, acc, reports, answer>>

Exit ==
    /\ child = "running"
    /\ child' \in {"ok", "error"}
    /\ UNCHANGED <<cli, emitted, pipe, cancelled, reader, acc, reports, answer>>

(* The caller cancels: cmd.Cancel kills a child that still runs. *)
Cancel ==
    /\ ~cancelled /\ answer = Pending
    /\ cancelled' = TRUE
    /\ child' = IF child = "running" THEN "killed" ELSE child
    /\ UNCHANGED <<cli, emitted, pipe, reader, acc, reports, answer>>

------------------------------------------------------------------------------
(* The reader *)

(* consumeStream on a result line: an empty success says nothing. *)
ResultLine(l) ==
    CASE l.kind = "failed" -> [acc EXCEPT !.saw = TRUE, !.err = TRUE]
      [] l.kind = "result" -> [acc EXCEPT !.saw = TRUE, !.err = FALSE, !.content = <<l.n>>]
      [] l.kind = "empty"  -> [acc EXCEPT !.saw = TRUE]

(* consumeStream: text is reported as it comes, a bad line is passed over. *)
ConsumeStream(l) ==
    /\ acc' = CASE l.kind = "text" -> [acc EXCEPT !.lastText = <<l.n>>]
                [] l.kind = "bad"  -> acc
                [] OTHER           -> ResultLine(l)
    /\ reports' = IF l.kind = "text"
                  THEN Append(reports, [message |-> l.message, text |-> <<l.n>>])
                  ELSE reports

Reported(l) == <<>>

(* parseStream of agy: the deltas of a step are reported when it is DONE. *)
ParseStream(l) ==
    LET text == acc.texts[l.message] IN
    /\ acc' = CASE l.kind = "init"   -> [acc EXCEPT !.session = TRUE]
                [] l.kind = "text"   -> [acc EXCEPT !.texts[l.message] = Append(@, l.n)]
                [] l.kind = "done"   -> [acc EXCEPT !.texts[l.message] = Reported(l)]
                [] l.kind = "result" -> [acc EXCEPT !.session = TRUE, !.content = <<l.n>>]
                [] l.kind = "failed" -> [acc EXCEPT !.session = TRUE, !.content = <<>>, !.err = TRUE]
    /\ reports' = IF l.kind = "done" /\ text # <<>>
                  THEN Append(reports, [message |-> l.message, text |-> text])
                  ELSE reports

Target(l) == {l.message}

(* opencode's loop: text is gathered by message and reported as it comes.  *)
PromptLine(l) ==
    /\ acc' = CASE l.kind = "text"  -> [acc EXCEPT !.texts[l.message] = Append(@, l.n)]
                [] l.kind = "stop"  -> [acc EXCEPT !.target = Target(l)]
                [] l.kind = "tool"  -> [acc EXCEPT !.tool = <<l.n>>]
                [] l.kind = "error" -> [acc EXCEPT !.err = TRUE]
    /\ reports' = IF l.kind = "text"
                  THEN Append(reports, [message |-> l.message, text |-> <<l.n>>])
                  ELSE reports

(* claude's lineReader discards a big line; the Scanner of the others ends *)
(* the scan and leaves the rest of the pipe unread.                        *)
ReadBig ==
    IF cli = "claude"
    THEN acc' = [acc EXCEPT !.skipped = @ + 1] /\ UNCHANGED <<reader, reports>>
    ELSE reader' = "stopped" /\ UNCHANGED <<acc, reports>>

ReadLine ==
    /\ reader = "reading" /\ pipe # <<>>
    /\ pipe' = Tail(pipe)
    /\ LET l == Head(pipe) IN
        IF l.big THEN ReadBig
        ELSE /\ reader' = reader
             /\ CASE cli = "claude"   -> ConsumeStream(l)
                  [] cli = "agy"      -> ParseStream(l)
                  [] cli = "opencode" -> PromptLine(l)
    /\ UNCHANGED <<cli, emitted, child, cancelled, answer>>

(* End of file; claude takes a lost line for the result it has not seen.   *)
EndOfStream ==
    /\ reader = "reading" /\ pipe = <<>> /\ child # "running"
    /\ reader' = "stopped"
    /\ acc' = IF cli = "claude" /\ acc.skipped > 0 /\ ~acc.saw
              THEN [acc EXCEPT !.err = TRUE] ELSE acc
    /\ UNCHANGED <<cli, emitted, pipe, child, cancelled, reports, answer>>

------------------------------------------------------------------------------
(* The answer *)

Success(text) == [kind |-> "success", text |-> text]
\* cmd.Wait prefers the child's own failure; for a good exit it may return the error of a context
\* that ended before it returned.
WaitErr == IF child # "ok" THEN {TRUE} ELSE {FALSE, cancelled}
Failure == [kind |-> IF cancelled THEN "cancelled" ELSE "error", text |-> <<>>]

(* The end of claude's Prompt. *)
ClaudeFails(waitErr) == waitErr \/ acc.err
ClaudeAnswer(waitErr) ==
    {IF ClaudeFails(waitErr) THEN Failure
     ELSE Success(IF acc.content = <<>> THEN acc.lastText ELSE acc.content)}

(* The end of agy's Prompt: a bad exit counts if nothing at all was read.  *)
AgyAnswer(waitErr) ==
    {IF acc.err \/ (waitErr /\ acc.content = <<>> /\ ~acc.session)
     THEN [kind |-> "error", text |-> <<>>] ELSE Success(acc.content)}

(* The end of opencode's Prompt: the stopped message, else any with text   *)
(* (the iteration order of a map), else what a tool returned.              *)
OpencodeTexts ==
    LET stopped == {m \in acc.target : acc.texts[m] # <<>>}
        written == {m \in Messages : acc.texts[m] # <<>>}
    IN  CASE stopped # {} -> {acc.texts[m] : m \in stopped}
          [] stopped = {} /\ written # {} -> {acc.texts[m] : m \in written}
          [] OTHER -> {acc.tool}
OpencodeAnswer(waitErr) == IF waitErr THEN {Failure} ELSE {Success(t) : t \in OpencodeTexts}

(* cmd.Wait has returned. *)
Finish ==
    /\ reader = "stopped" /\ child # "running" /\ answer = Pending
    /\ \E waitErr \in WaitErr :
        answer' \in CASE cli = "claude"   -> ClaudeAnswer(waitErr)
                      [] cli = "agy"      -> AgyAnswer(waitErr)
                      [] cli = "opencode" -> OpencodeAnswer(waitErr)
    /\ UNCHANGED <<cli, emitted, pipe, child, cancelled, reader, acc, reports>>

CliNext == Emit \/ Exit \/ Cancel \/ ReadLine \/ EndOfStream \/ Finish

CliSpec == CliInit /\ [][CliNext]_cliVars

------------------------------------------------------------------------------

CliTypeOK ==
    /\ cli \in {"claude", "agy", "opencode"}
    /\ child \in {"running", "ok", "error", "killed"} /\ reader \in {"reading", "stopped"}
    /\ answer.kind \in {"pending", "success", "error", "cancelled"}
    /\ Len(pipe) <= Capacity /\ Len(emitted) <= MaxLines

Lines(K) == {i \in 1 .. Len(emitted) : emitted[i].kind \in K /\ ~emitted[i].big}
Latest(I) == CHOOSE i \in I : \A j \in I : j <= i

(* claude: of all the result lines of a run the last one that says         *)
(* anything decides: a success has its text, and a run whose child exited  *)
(* well fails only for a failure there or for a lost result.  A run that   *)
(* was cancelled after the exit may be answered as cancelled instead.      *)
LastResultDecides ==
    LET told == Lines({"result", "failed"}) IN
    (cli = "claude" /\ answer # Pending /\ child = "ok" /\ ~(cancelled /\ answer = Failure)) =>
        IF told # {}
        THEN IF emitted[Latest(told)].kind = "result"
             THEN answer = Success(<<Latest(told)>>) ELSE answer.kind # "success"
        ELSE answer.kind # "success" <=> (Bigs > 0 /\ Lines({"empty"}) = {})

(* agy: a report of a step has all its deltas since the step's last DONE,  *)
(* in order and none of another step's, however steps are interleaved.     *)
StepsWhole ==
    cli = "agy" => \A k \in 1 .. Len(reports) :
        LET rep == reports[k]
            dones == {i \in Lines({"done"}) : emitted[i].message = rep.message}
            ofStep == {i \in Lines({"text"}) : emitted[i].message = rep.message}
        IN  \E d \in dones :
                /\ {rep.text[i] : i \in 1 .. Len(rep.text)} =
                       {i \in ofStep : i < d /\ \A e \in dones : e < d => e < i}
                /\ \A i, j \in 1 .. Len(rep.text) : i < j => rep.text[i] < rep.text[j]

(* opencode: the answer is the whole text of one message, and of the last  *)
(* one that stopped if that has any; it is a tool's output only if no      *)
(* message has text.                                                       *)
OneMessage ==
    (cli = "opencode" /\ answer.kind = "success" /\ Bigs = 0) =>
        LET TextOf(m) == {i \in Lines({"text"}) : emitted[i].message = m}
            got == {answer.text[i] : i \in 1 .. Len(answer.text)}
            stops == Lines({"stop"})
        IN  IF Lines({"text"}) = {} THEN got \subseteq Lines({"tool"})
            ELSE \E m \in Messages :
                    /\ got = TextOf(m) /\ got # {}
                    /\ (stops # {} /\ TextOf(emitted[Latest(stops)].message) # {})
                            => m = emitted[Latest(stops)].message

(* claude and opencode: a run whose child was killed or failed is never    *)
(* answered as a success, whatever it had written before, and a killed one *)
(* is answered as cancelled.                                               *)
BadExitIsNoSuccess ==
    (cli # "agy" /\ answer # Pending) =>
        /\ child # "ok" => answer.kind # "success"
        /\ child = "killed" => answer.kind = "cancelled"

(* agy: a bad exit without output, when the child died before it wrote a   *)
(* result, is no empty success (the comment on cmd.Wait).                  *)
NoEmptySuccess ==
    (cli = "agy" /\ answer.kind = "success" /\ child # "ok") => Lines({"result"}) # {}
=============================================================================
