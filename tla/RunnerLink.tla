----------------------------- MODULE RunnerLink -----------------------------
(***************************************************************************)
(* The control stream between the backend and one runner node: the hub     *)
(* (backend/lib/runnerhub), the runner's connection client                 *)
(* (runner/lib/conn), its table of active runs (runner/lib/runs) and the   *)
(* executor that reports a run (runner/lib/exec).                          *)
(*                                                                         *)
(* Either process may crash, sessions break at any moment and each end     *)
(* notices on its own, so messages are lost and replayed.  Sequence        *)
(* numbers, acknowledgements, boot ids and the Register handshake have to  *)
(* deliver every message of a run once and in order, and settle what       *)
(* became of the runs one of the sides has forgotten.                      *)
(*                                                                         *)
(* A queue or a stream is the set of its messages: a message has a unique  *)
(* seq and the writers send in seq order.  Acks are cumulative, so a       *)
(* stream carries at most the latest one.                                  *)
(***************************************************************************)
EXTENDS Naturals, FiniteSets

CONSTANTS
    Runs,             \* run ids the backend dispatches, each at most once
    NoRun,            \* the run id of a heartbeat
    Cancellable,      \* bound: the runs a caller may cancel
    Sessions,         \* 1..n: connections in the order the runner dials them
    Chunks,           \* bound: output chunks of a run
    MaxQueued,        \* the runner's limit on unacked messages
    MaxHeartbeatSeq,  \* bound: no heartbeat is queued from this seq on
    MaxRunnerBoots,   \* bound: starts of the runner process
    MaxBackendBoots,  \* bound: starts of the backend process
    StoreErrors,      \* may the store of finalized runs fail?
    RegisterRace      \* may a Register be processed after its session is gone
                      \* or after a later session has registered?

ASSUME RunnerLinkConstants ==
    /\ IsFiniteSet(Runs) /\ NoRun \notin Runs /\ Cancellable \subseteq Runs
    /\ Sessions \subseteq Nat \ {0}
    /\ Chunks \in Nat /\ MaxQueued \in Nat \ {0} /\ MaxHeartbeatSeq \in Nat
    /\ MaxRunnerBoots \in Nat \ {0} /\ MaxBackendBoots \in Nat \ {0}
    /\ StoreErrors \in BOOLEAN /\ RegisterRace \in BOOLEAN

VARIABLES
    \* The hub's memory: the node's registry entry and the tracked runs.
    bboot, bnext, bqueue, highest, knownBoot, conn, tracked, got,
    \* The store of finalized runs, which survives a restart.
    finalized,
    \* What the dispatcher of each run has done and was told.
    outcome, cancelAsked,
    \* The connections, both ends.
    sess,
    \* The runner process.
    rboot, rnext, rqueue, lastB, seenBoot, rsess, attached, rackDirty,
    run, emitted, cancelled

hubVars == <<bboot, bnext, bqueue, highest, knownBoot, conn, tracked, got>>
callerVars == <<outcome, cancelAsked>>
linkVars == <<rnext, rqueue, lastB, seenBoot, rsess, attached, rackDirty>>
execVars == <<run, emitted, cancelled>>
vars == <<hubVars, finalized, callerVars, sess, rboot, linkVars, execVars>>

NoReg == [boot |-> 0]
NoRes == [boot |-> 0]
Idle == [step |-> "none"]

Unused ==
    [st |-> "unused",    \* handshake: unused, dialled, checked, open, closed
     live |-> FALSE,     \* the backend has not detached its end
     reg |-> NoReg,      \* the Register the runner opened the stream with
     fin |-> {},         \* reported runs the store knows as finalized
     res |-> NoRes,      \* the RegisterResult on its way to the runner
     up |-> {}, upAck |-> 0, rsent |-> 0,
     down |-> {}, downAck |-> 0, bsent |-> 0,
     ackSeq |-> 0, ackDirty |-> FALSE,
     hnd |-> Idle]       \* the runner message the backend is handling

InTable(r) == run[r] \in {"running", "reported"}

-----------------------------------------------------------------------------
(* Queues *)

Trim(q, acked) == {m \in q : m.seq > acked}

IsFirst(m, q) == m \in q /\ \A o \in q : m.seq <= o.seq

\* The message a writer that got as far as sent sends next.
IsNextToSend(m, q, sent) == IsFirst(m, Trim(q, sent))

QueuedRuns(q, kind) == {m.run : m \in {x \in q : x.kind = kind}}

BackendMsg(kind, r) == [seq |-> bnext + 1, kind |-> kind, run |-> r]

enqueueLocked(kind, r) ==
    /\ bnext' = bnext + 1
    /\ bqueue' = bqueue \cup {BackendMsg(kind, r)}

RunnerMsg(kind, r, n) == [seq |-> rnext + 1, kind |-> kind, run |-> r, n |-> n]

\* Mutant: a message that finds the queue full is dropped.
enqueueDropping(kind, r, n) ==
    LET full == rqueue # {} /\ Cardinality(rqueue) >= MaxQueued
    IN  /\ rnext' = IF full THEN rnext ELSE rnext + 1
        /\ rqueue' = IF full THEN rqueue ELSE rqueue \cup {RunnerMsg(kind, r, n)}

\* Client.enqueue: blocks while the queue is full, an empty one takes anything.
enqueue(kind, r, n) ==
    /\ rqueue = {} \/ Cardinality(rqueue) < MaxQueued
    /\ rnext' = rnext + 1
    /\ rqueue' = rqueue \cup {RunnerMsg(kind, r, n)}

-----------------------------------------------------------------------------
(* The dispatcher's calls into the hub *)

Dispatch(r) ==
    /\ outcome[r] = "none"
    /\ conn # 0
    /\ outcome' = [outcome EXCEPT ![r] = "pending"]
    /\ tracked' = tracked \cup {r}
    /\ enqueueLocked("start", r)
    /\ UNCHANGED <<bboot, highest, knownBoot, conn, got, finalized, cancelAsked,
                   sess, rboot, linkVars, execVars>>

\* Mutant: a cancellation is forgotten while the node is offline.
CancelIfOnline(r) ==
    /\ r \in tracked \cap Cancellable /\ r \notin cancelAsked
    /\ cancelAsked' = cancelAsked \cup {r}
    /\ IF conn # 0 THEN enqueueLocked("cancel", r) ELSE UNCHANGED <<bnext, bqueue>>
    /\ UNCHANGED <<bboot, highest, knownBoot, conn, tracked, got, finalized,
                   outcome, sess, rboot, linkVars, execVars>>

\* The dispatcher cancels a run once, when its own context ends; the message
\* is queued whether the node is connected or not.
Cancel(r) ==
    /\ r \in tracked \cap Cancellable /\ r \notin cancelAsked
    /\ cancelAsked' = cancelAsked \cup {r}
    /\ enqueueLocked("cancel", r)
    /\ UNCHANGED <<bboot, highest, knownBoot, conn, tracked, got, finalized,
                   outcome, sess, rboot, linkVars, execVars>>

\* Run.finish: the first outcome stands.
finish(S, what) ==
    [r \in Runs |-> IF r \in S /\ outcome[r] = "pending" THEN what ELSE outcome[r]]

-----------------------------------------------------------------------------
(* The runner opens a session *)

buildRegister ==
    LET completed == QueuedRuns(rqueue, "res")
    IN  [boot |-> rboot, active |-> {r \in Runs : InTable(r)} \ completed,
         completed |-> completed, lastB |-> lastB, seenBoot |-> seenBoot]

Connect(s) ==
    /\ rsess = 0
    /\ sess[s].st = "unused"
    /\ \A t \in Sessions : t < s => sess[t].st # "unused"
    /\ rsess' = s
    /\ attached' = FALSE
    /\ sess' = [sess EXCEPT ![s] = [Unused EXCEPT !.st = "dialled", !.live = TRUE,
                                                 !.reg = buildRegister]]
    /\ UNCHANGED <<hubVars, finalized, callerVars, rboot, rnext, rqueue, lastB,
                   seenBoot, rackDirty, execVars>>

\* Hub.register before it takes the lock: which of the reported active runs
\* are finalized.  A failing store counts as finalized.
CheckFinalized(s) ==
    /\ sess[s].st = "dialled" /\ sess[s].live
    /\ \E failed \in SUBSET sess[s].reg.active :
          /\ failed = {} \/ StoreErrors
          /\ sess' = [sess EXCEPT
                        ![s].st = "checked",
                        ![s].fin = (sess[s].reg.active \cap finalized) \cup failed]
    /\ UNCHANGED <<hubVars, finalized, callerVars, rboot, linkVars, execVars>>

\* Mutant: the queue outlives the runner process it was meant for.
KeptQueueKeepsAll(reg) ==
    IF reg.seenBoot = bboot THEN Trim(bqueue, reg.lastB) ELSE bqueue

\* The unacked messages the hub keeps for the node: a restarted runner gets
\* none of the old ones, a runner that was connected to this backend process
\* says how far it got.
KeptQueue(reg) ==
    IF knownBoot # reg.boot THEN {}
    ELSE IF reg.seenBoot = bboot THEN Trim(bqueue, reg.lastB)
    ELSE bqueue

\* Hub.register under the lock: rebind the node to session s, settle the runs
\* the runner does not know, cancel the ones only the runner knows.
Register(s) ==
    LET reg == sess[s].reg
        kept == KeptQueue(reg)
        known == reg.active \cup reg.completed \cup QueuedRuns(kept, "start")
        lost == tracked \ known
        orphans == ((reg.active \ (tracked \ lost)) \ sess[s].fin) \ QueuedRuns(kept, "cancel")
    IN  /\ sess[s].st = "checked"
        /\ \/ RegisterRace
           \/ sess[s].live /\ \A t \in Sessions : t > s => sess[t].st # "open"
        /\ knownBoot' = reg.boot
        /\ highest' = IF knownBoot # reg.boot THEN 0 ELSE highest
        /\ conn' = s
        /\ outcome' = finish(lost, "lost")
        /\ tracked' = tracked \ lost
        /\ \E order \in [orphans -> (bnext + 1)..(bnext + Cardinality(orphans))] :
              /\ \A q, r \in orphans : q # r => order[q] # order[r]
              /\ bqueue' = kept \cup {[seq |-> order[r], kind |-> "cancel", run |-> r] :
                                         r \in orphans}
        /\ bnext' = bnext + Cardinality(orphans)
        /\ sess' = [sess EXCEPT
                      ![s].st = "open",
                      ![s].reg = NoReg,
                      ![s].fin = {},
                      ![s].res = IF sess[s].live /\ rsess = s
                                 THEN [boot |-> bboot, acked |-> highest'] ELSE NoRes]
        /\ UNCHANGED <<bboot, got, finalized, cancelAsked, rboot, linkVars, execVars>>

\* Mutant: the runner keeps its position when the backend restarted.
AttachKeepsPosition(s) ==
    /\ rsess = s /\ ~attached
    /\ sess[s].res # NoRes
    /\ seenBoot' = sess[s].res.boot
    /\ rackDirty' = (lastB > 0)
    /\ rqueue' = Trim(rqueue, sess[s].res.acked)
    /\ attached' = TRUE
    /\ sess' = [sess EXCEPT ![s].res = NoRes]
    /\ UNCHANGED <<hubVars, finalized, callerVars, rboot, rnext, lastB, rsess, execVars>>

\* Client.attach, on the RegisterResult.
Attach(s) ==
    /\ rsess = s /\ ~attached
    /\ sess[s].res # NoRes
    /\ LET res == sess[s].res
           last == IF res.boot # seenBoot THEN 0 ELSE lastB
       IN  /\ seenBoot' = res.boot
           /\ lastB' = last
           /\ rackDirty' = (last > 0)
           /\ rqueue' = Trim(rqueue, res.acked)
    /\ attached' = TRUE
    /\ sess' = [sess EXCEPT ![s].res = NoRes]
    /\ UNCHANGED <<hubVars, finalized, callerVars, rboot, rnext, rsess, execVars>>

-----------------------------------------------------------------------------
(* Sessions end: each side notices on its own *)

\* Bound: the last session of Sessions only ends when the other side ended it.
MayBreak(s) == s + 1 \in Sessions

\* The runner's end of s is gone, with what was on its way to it.
LeftByRunner(s) ==
    [sess[s] EXCEPT !.down = {}, !.downAck = 0, !.res = NoRes, !.rsent = 0]

\* The runner gives the session up: an error, a timeout, a closed peer.
Abandon(s) ==
    /\ rsess = s
    /\ MayBreak(s) \/ ~sess[s].live
    /\ rsess' = 0
    /\ attached' = FALSE
    /\ sess' = [sess EXCEPT ![s] = LeftByRunner(s)]
    /\ UNCHANGED <<hubVars, finalized, callerVars, rboot, rnext, rqueue, lastB,
                   seenBoot, rackDirty, execVars>>

\* The backend's end of s is closed and nothing more is read from it.  A
\* handler or a registration already under way goes on.
Closed(s) ==
    [sess[s] EXCEPT !.live = FALSE, !.up = {}, !.upAck = 0,
                    !.bsent = 0, !.ackSeq = 0, !.ackDirty = FALSE]

detach(s) == conn' = IF conn = s THEN 0 ELSE conn

Detach(s) ==
    /\ sess[s].live
    /\ MayBreak(s) \/ rsess # s
    /\ detach(s)
    /\ sess' = [sess EXCEPT ![s] = Closed(s)]
    /\ UNCHANGED <<bboot, bnext, bqueue, highest, knownBoot, tracked, got, finalized,
                   callerVars, rboot, linkVars, execVars>>

-----------------------------------------------------------------------------
(* Downstream: backend to runner *)

BackendSend(s) ==
    /\ conn = s /\ sess[s].live
    /\ \E m \in bqueue :
          /\ IsNextToSend(m, bqueue, sess[s].bsent)
          /\ sess' = [sess EXCEPT ![s].bsent = m.seq,
                                  ![s].down = IF rsess = s THEN @ \cup {m} ELSE {}]
    /\ UNCHANGED <<hubVars, finalized, callerVars, rboot, linkVars, execVars>>

BackendSendAck(s) ==
    /\ conn = s /\ sess[s].live /\ sess[s].ackDirty
    /\ sess' = [sess EXCEPT ![s].ackDirty = FALSE,
                            ![s].downAck = IF rsess = s THEN sess[s].ackSeq ELSE 0]
    /\ UNCHANGED <<hubVars, finalized, callerVars, rboot, linkVars, execVars>>

\* Client.handle: a StartRun of a run in the table is ignored, a CancelRun
\* reaches the executor only while it knows the run.
handle(m) ==
    LET begins == m.kind = "start" /\ ~InTable(m.run)
        stops == m.kind = "cancel" /\ run[m.run] = "running"
    IN  /\ run' = IF begins THEN [run EXCEPT ![m.run] = "running"] ELSE run
        /\ emitted' = IF begins THEN [emitted EXCEPT ![m.run] = 0] ELSE emitted
        /\ cancelled' = IF stops THEN cancelled \cup {m.run} ELSE cancelled

RunnerReceive(s) ==
    /\ rsess = s /\ attached
    /\ \E m \in sess[s].down :
          /\ IsFirst(m, sess[s].down)
          /\ IF m.seq <= lastB THEN UNCHANGED <<lastB, execVars>>
             ELSE handle(m) /\ lastB' = m.seq
          /\ sess' = [sess EXCEPT ![s].down = @ \ {m}]
    /\ rackDirty' = TRUE
    /\ UNCHANGED <<hubVars, finalized, callerVars, rboot, rnext, rqueue, seenBoot,
                   rsess, attached>>

RunnerReceiveAck(s) ==
    /\ rsess = s /\ attached /\ sess[s].downAck > 0
    /\ rqueue' = Trim(rqueue, sess[s].downAck)
    /\ sess' = [sess EXCEPT ![s].downAck = 0]
    /\ UNCHANGED <<hubVars, finalized, callerVars, rboot, rnext, lastB, seenBoot,
                   rsess, attached, rackDirty, execVars>>

-----------------------------------------------------------------------------
(* The runner executes and reports *)

Output(r) ==
    /\ run[r] = "running" /\ emitted[r] < Chunks
    /\ enqueue("out", r, emitted[r])
    /\ emitted' = [emitted EXCEPT ![r] = @ + 1]
    /\ UNCHANGED <<hubVars, finalized, callerVars, sess, rboot, lastB, seenBoot, rsess,
                   attached, rackDirty, run, cancelled>>

\* Client.Result: the result is queued first ...
Report(r) ==
    /\ run[r] = "running"
    /\ enqueue("res", r, emitted[r])
    /\ run' = [run EXCEPT ![r] = "reported"]
    /\ UNCHANGED <<hubVars, finalized, callerVars, sess, rboot, lastB, seenBoot, rsess,
                   attached, rackDirty, emitted, cancelled>>

\* ... and then the run leaves the table.
EndRun(r) ==
    /\ run[r] = "reported"
    /\ run' = [run EXCEPT ![r] = "ended"]
    /\ emitted' = [emitted EXCEPT ![r] = 0]
    /\ cancelled' = cancelled \ {r}
    /\ UNCHANGED <<hubVars, finalized, callerVars, sess, rboot, linkVars>>

\* A heartbeat replaces the one still unacked, while a session is up.
sendHeartbeat ==
    LET kept == {m \in rqueue : m.kind # "hb"}
    IN  /\ attached /\ rnext < MaxHeartbeatSeq
        /\ IF Cardinality(kept) >= MaxQueued
           THEN rqueue' = kept /\ UNCHANGED rnext
           ELSE /\ rnext' = rnext + 1
                /\ rqueue' = kept \cup {RunnerMsg("hb", NoRun, 0)}
        /\ UNCHANGED <<hubVars, finalized, callerVars, sess, rboot, lastB, seenBoot,
                       rsess, attached, rackDirty, execVars>>

-----------------------------------------------------------------------------
(* Upstream: runner to backend *)

RunnerSend(s) ==
    /\ rsess = s /\ attached
    /\ \E m \in rqueue :
          /\ IsNextToSend(m, rqueue, sess[s].rsent)
          /\ sess' = [sess EXCEPT ![s].rsent = m.seq,
                                  ![s].up = IF sess[s].live THEN @ \cup {m} ELSE {}]
    /\ UNCHANGED <<hubVars, finalized, callerVars, rboot, linkVars, execVars>>

RunnerSendAck(s) ==
    /\ rsess = s /\ attached /\ rackDirty
    /\ rackDirty' = FALSE
    /\ sess' = [sess EXCEPT ![s].upAck = IF sess[s].live THEN lastB ELSE 0]
    /\ UNCHANGED <<hubVars, finalized, callerVars, rboot, rnext, rqueue, lastB, seenBoot,
                   rsess, attached, execVars>>

BackendReceiveAck(s) ==
    /\ conn = s /\ sess[s].live /\ sess[s].upAck > 0 /\ sess[s].hnd = Idle
    /\ bqueue' = Trim(bqueue, sess[s].upAck)
    /\ sess' = [sess EXCEPT ![s].upAck = 0]
    /\ UNCHANGED <<bboot, bnext, highest, knownBoot, conn, tracked, got, finalized,
                   callerVars, rboot, linkVars, execVars>>

\* handleUpstream up to the first unlock: the connection is still the node's,
\* and the message is or is not a duplicate.
Take(s) ==
    /\ conn = s /\ sess[s].live /\ sess[s].hnd = Idle
    /\ \E m \in sess[s].up :
          /\ IsFirst(m, sess[s].up)
          /\ sess' = [sess EXCEPT
                        ![s].up = @ \ {m},
                        ![s].hnd = [step |-> IF m.seq <= highest THEN "dup" ELSE "taken",
                                    msg |-> m]]
    /\ UNCHANGED <<hubVars, finalized, callerVars, rboot, linkVars, execVars>>

Handling(s, step, kind) ==
    sess[s].hnd.step = step /\ sess[s].hnd.msg.kind = kind

ApplyHeartbeat(s) ==
    /\ Handling(s, "taken", "hb")
    /\ sess' = [sess EXCEPT ![s].hnd.step = "applied"]
    /\ UNCHANGED <<hubVars, finalized, callerVars, rboot, linkVars, execVars>>

\* Run.addChunk: a chunk beyond the end fails the run, an old one is ignored.
ApplyOutput(s) ==
    LET m == sess[s].hnd.msg
        gap == m.run \in tracked /\ m.n > got[m.run]
    IN  /\ Handling(s, "taken", "out")
        /\ tracked' = IF gap THEN tracked \ {m.run} ELSE tracked
        /\ outcome' = IF gap THEN finish({m.run}, "error") ELSE outcome
        /\ got' = IF m.run \in tracked /\ m.n = got[m.run]
                  THEN [got EXCEPT ![m.run] = @ + 1] ELSE got
        /\ sess' = [sess EXCEPT ![s].hnd.step = "applied"]
        /\ UNCHANGED <<bboot, bnext, bqueue, highest, knownBoot, conn, finalized,
                       cancelAsked, rboot, linkVars, execVars>>

\* applyResult: the run is looked up and its id persisted ...
MarkFinalized(s) ==
    /\ Handling(s, "taken", "res")
    /\ LET r == sess[s].hnd.msg.run
       IN  /\ finalized' = finalized \cup {r}
           /\ sess' = [sess EXCEPT
                         ![s].hnd.step = IF r \in tracked THEN "marked" ELSE "applied"]
    /\ UNCHANGED <<hubVars, callerVars, rboot, linkVars, execVars>>

\* ... or the store fails and the connection is dropped ...
MarkFailed(s) ==
    /\ StoreErrors /\ MayBreak(s)
    /\ Handling(s, "taken", "res")
    /\ detach(s)
    /\ sess' = [sess EXCEPT ![s] = [Closed(s) EXCEPT !.hnd = Idle]]
    /\ UNCHANGED <<bboot, bnext, bqueue, highest, knownBoot, tracked, got, finalized,
                   callerVars, rboot, linkVars, execVars>>

\* ... and then the run found before is delivered.
Deliver(s) ==
    /\ Handling(s, "marked", "res")
    /\ LET m == sess[s].hnd.msg
       IN  /\ tracked' = tracked \ {m.run}
           /\ outcome' = finish({m.run}, IF got[m.run] = m.n THEN "result" ELSE "error")
    /\ sess' = [sess EXCEPT ![s].hnd.step = "applied"]
    /\ UNCHANGED <<bboot, bnext, bqueue, highest, knownBoot, conn, got, finalized,
                   cancelAsked, rboot, linkVars, execVars>>

\* The end of handleUpstream: only the node's connection advances the mark.
Commit(s) ==
    /\ sess[s].hnd.step \in {"applied", "dup"}
    /\ highest' = IF sess[s].hnd.step = "applied" /\ conn = s
                  THEN sess[s].hnd.msg.seq ELSE highest
    /\ sess' = [sess EXCEPT ![s].hnd = Idle,
                            ![s].ackSeq = IF sess[s].live THEN highest' ELSE 0,
                            ![s].ackDirty = sess[s].live]
    /\ UNCHANGED <<bboot, bnext, bqueue, knownBoot, conn, tracked, got, finalized,
                   callerVars, rboot, linkVars, execVars>>

-----------------------------------------------------------------------------
(* Crashes *)

\* Bound: there is a session left to reconnect with.
SessionLeft == \E s \in Sessions : sess[s].st = "unused"

\* The runner process restarts: its queue, its table and its runs are gone.
RunnerCrash ==
    /\ rboot < MaxRunnerBoots /\ SessionLeft
    /\ rboot' = rboot + 1
    /\ rnext' = 0 /\ rqueue' = {} /\ lastB' = 0 /\ seenBoot' = 0
    /\ rsess' = 0 /\ attached' = FALSE /\ rackDirty' = FALSE
    /\ run' = [r \in Runs |-> CASE run[r] = "running" -> "dead"
                               [] run[r] \in {"reported", "ended"} -> "gone"
                               [] OTHER -> run[r]]
    /\ cancelled' = {}
    /\ sess' = [s \in Sessions |->
                  IF s = rsess THEN LeftByRunner(s) ELSE sess[s]]
    /\ emitted' = [r \in Runs |-> 0]
    /\ UNCHANGED <<hubVars, finalized, callerVars>>

\* The backend stops or crashes and starts again: the dispatchers of pending
\* runs are told the hub is closed, or die with it.
BackendCrash ==
    /\ bboot < MaxBackendBoots /\ SessionLeft
    /\ bboot' = bboot + 1
    /\ bnext' = 0 /\ bqueue' = {} /\ highest' = 0 /\ knownBoot' = 0 /\ conn' = 0
    /\ tracked' = {} /\ got' = [r \in Runs |-> 0]
    /\ outcome' = finish(tracked, "closed")
    /\ sess' = [s \in Sessions |->
                  IF sess[s].st = "unused" THEN sess[s]
                  ELSE [Closed(s) EXCEPT !.hnd = Idle, !.st = "closed", !.fin = {}]]
    /\ UNCHANGED <<finalized, cancelAsked, rboot, linkVars, execVars>>

-----------------------------------------------------------------------------

Init ==
    /\ bboot = 1 /\ bnext = 0 /\ bqueue = {} /\ highest = 0 /\ knownBoot = 0
    /\ conn = 0 /\ tracked = {} /\ got = [r \in Runs |-> 0]
    /\ finalized = {}
    /\ outcome = [r \in Runs |-> "none"] /\ cancelAsked = {}
    /\ sess = [s \in Sessions |-> Unused]
    /\ rboot = 1 /\ rnext = 0 /\ rqueue = {} /\ lastB = 0 /\ seenBoot = 0
    /\ rsess = 0 /\ attached = FALSE /\ rackDirty = FALSE
    /\ run = [r \in Runs |-> "none"] /\ emitted = [r \in Runs |-> 0]
    /\ cancelled = {}

Caller == \E r \in Runs : Dispatch(r) \/ Cancel(r)

Executor == \E r \in Runs : Output(r) \/ Report(r) \/ EndRun(r)

Runner(s) ==
    \/ Connect(s) \/ Attach(s) \/ Abandon(s)
    \/ RunnerReceive(s) \/ RunnerReceiveAck(s) \/ RunnerSend(s) \/ RunnerSendAck(s)

Hub(s) ==
    \/ CheckFinalized(s) \/ Register(s) \/ Detach(s)
    \/ BackendSend(s) \/ BackendSendAck(s) \/ BackendReceiveAck(s) \/ Take(s)
    \/ ApplyHeartbeat(s) \/ ApplyOutput(s) \/ MarkFinalized(s) \/ MarkFailed(s)
    \/ Deliver(s) \/ Commit(s)

Next ==
    \/ Caller \/ Executor \/ sendHeartbeat
    \/ \E s \in Sessions : Runner(s) \/ Hub(s)
    \/ RunnerCrash \/ BackendCrash

Spec == Init /\ [][Next]_vars

\* The steps both processes keep taking while they are up: goroutines blocked
\* on a channel or a stream, the reconnect loop, a cancelled run that ends.
Progress ==
    \/ \E s \in Sessions :
          \/ Connect(s) \/ Attach(s) \/ (~sess[s].live /\ Abandon(s))
          \/ RunnerReceive(s) \/ RunnerReceiveAck(s) \/ RunnerSend(s) \/ RunnerSendAck(s)
          \/ CheckFinalized(s) \/ Register(s) \/ (rsess # s /\ Detach(s))
          \/ BackendSend(s) \/ BackendSendAck(s) \/ BackendReceiveAck(s) \/ Take(s)
          \/ ApplyHeartbeat(s) \/ ApplyOutput(s) \/ MarkFinalized(s) \/ Deliver(s)
          \/ Commit(s)
    \/ \E r \in Runs : EndRun(r) \/ (r \in cancelled /\ Report(r))

FairSpec == Spec /\ WF_vars(Progress)

-----------------------------------------------------------------------------
(* What the link promises *)

DownMsg == [seq : Nat \ {0}, kind : {"start", "cancel"}, run : Runs]
RunMsg == [seq : Nat \ {0}, kind : {"out", "res"}, run : Runs, n : Nat]
Heartbeat == [seq : Nat \ {0}, kind : {"hb"}, run : {NoRun}, n : {0}]
UpMsg == RunMsg \cup Heartbeat
RegisterMsg == [boot : Nat \ {0}, active : SUBSET Runs, completed : SUBSET Runs,
                lastB : Nat, seenBoot : Nat]
Session ==
    [st : {"unused", "dialled", "checked", "open", "closed"}, live : BOOLEAN,
     reg : {NoReg} \cup RegisterMsg, fin : SUBSET Runs,
     res : {NoRes} \cup [boot : Nat \ {0}, acked : Nat],
     up : SUBSET UpMsg, upAck : Nat, rsent : Nat,
     down : SUBSET DownMsg, downAck : Nat, bsent : Nat,
     ackSeq : Nat, ackDirty : BOOLEAN,
     hnd : {Idle} \cup [step : {"dup", "taken", "marked", "applied"}, msg : UpMsg]]

TypeOK ==
    /\ bboot \in Nat \ {0} /\ bnext \in Nat /\ bqueue \in SUBSET DownMsg
    /\ highest \in Nat /\ knownBoot \in Nat /\ conn \in {0} \cup Sessions
    /\ tracked \in SUBSET Runs /\ got \in [Runs -> Nat]
    /\ finalized \in SUBSET Runs
    /\ outcome \in [Runs -> {"none", "pending", "result", "lost", "error", "closed"}]
    /\ cancelAsked \in SUBSET Runs
    /\ sess \in [Sessions -> Session]
    /\ rboot \in Nat \ {0} /\ rnext \in Nat /\ rqueue \in SUBSET UpMsg
    /\ lastB \in Nat /\ seenBoot \in Nat /\ rsess \in {0} \cup Sessions
    /\ attached \in BOOLEAN /\ rackDirty \in BOOLEAN
    /\ run \in [Runs -> {"none", "running", "reported", "ended", "dead", "gone"}]
    /\ emitted \in [Runs -> Nat] /\ cancelled \in SUBSET Runs

\* Replay neither loses nor reorders what a run reports: no run fails with an
\* output gap or with a size that differs from what the runner sent
\* (addChunk, applyResult), under any mix of old and new sessions.
NoDeliveryFault == \A r \in Runs : outcome[r] # "error"

\* ErrRunLost is final news: the runner is not executing a run reported lost,
\* nor still holding it in its table.
LostIsGone == \A r \in Runs : outcome[r] = "lost" => ~InTable(r)

\* No run is stranded: the hub waits only for a run whose StartRun it will still
\* deliver, that the runner has in its table, whose result the runner will
\* still send, or that the next registration settles because the runner
\* restarted.
NoneStranded ==
    \A r \in tracked :
        \/ \E m \in bqueue : m.kind = "start" /\ m.run = r
        \/ InTable(r)
        \/ \E m \in rqueue : m.kind = "res" /\ m.run = r
        \/ rboot # knownBoot

\* A run is lost only with its runner: while the runner process lives, neither
\* lost sessions nor a restart of the backend make the hub report a run lost.
LostNeedsRestart == \A r \in Runs : outcome[r] = "lost" => rboot > 1

\* A node shown online has a connection that is still served: Dispatch fails
\* fast when the node is not connected.
OnlineIsConnected == conn # 0 => sess[conn].live

\* No caller waits for a run that can end no more, over replays and over
\* restarts of either process; a run is reported lost only with its runner, and
\* a node shown online has a session (buildRegister, MarkFinalized, detach).
NoCallerStranded ==
    TypeOK /\ NoneStranded /\ LostNeedsRestart /\ OnlineIsConnected

\* The link keeps the contract of RunContract: over any sequence of replays,
\* overlapping sessions and restarts an agent is started at most once, a result
\* comes from an agent that finished, and a run reported lost neither runs nor
\* will.
agentState ==
    [r \in Runs |-> IF run[r] \in {"reported", "ended"} THEN "done" ELSE run[r]]
Contract == INSTANCE RunContract WITH caller <- outcome, agent <- agentState
KeepsContract == Contract!Spec

\* A cancelled run settles: whatever breaks or restarts in between, the caller
\* that cancelled a run gets an outcome, provided cancelled runs stop.
CancelSettles == \A r \in Runs : r \in cancelAsked /\ r \in tracked ~> r \notin tracked

\* A run nobody waits for any more after a backend restart is stopped.
OrphansStopped ==
    \A r \in Runs : outcome[r] = "closed" /\ run[r] = "running" ~> run[r] # "running"
=============================================================================
