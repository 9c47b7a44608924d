-------------------------- MODULE RunnerContractProofs --------------------------
(***************************************************************************)
(* RunnerLink implements RunContract and delivers each message once, in    *)
(* order: the invariant relates what the runner has sent, what the backend *)
(* has applied and what each caller still waits for.  Nobody waits for a   *)
(* run in vain, and only a restart of the runner loses one: the invariant  *)
(* of the last part follows each request to start an agent, which stays in *)
(* the hub's queue, ahead of every position the two sides exchange, until  *)
(* the runner has handled it.                                              *)
(***************************************************************************)
EXTENDS RunnerLinkProofs

-----------------------------------------------------------------------------
(* The callers' side of the contract *)

\* Nothing more is expected of a message: its run is settled, or it is a chunk
\* the hub has appended.
Applied(m) == m.run \in tracked => m.kind = "out" /\ m.n < got[m.run]

\* A message that has to wait for another chunk of its run, and that chunk.
Late(m) == m.run \in tracked /\ m.n > got[m.run]
Before(o, m) == o.kind = "out" /\ o.run = m.run /\ o.n + 1 = m.n /\ o.seq < m.seq

\* The sizes of the reports: a chunk is one the agent has written, and a result
\* counts them all.
DataInv ==
    /\ \A m : OnWay(m) /\ m.kind = "res" => /\ run[m.run] \in {"reported", "ended", "gone"}
                                            /\ got[m.run] <= m.n
    /\ \A m : OnWay(m) /\ m.kind = "out" /\ run[m.run] = "running" => m.n < emitted[m.run]
    /\ \A m, o : OnWay(m) /\ OnWay(o) /\ m.kind = "out" /\ o.kind = "res" /\ m.run = o.run =>
          m.n < o.n
    /\ \A r \in Runs : run[r] = "none" => got[r] = 0
    /\ \A r \in Runs : run[r] = "running" => got[r] <= emitted[r]

\* A session carries no reports before it is open, and is served while the hub
\* has it.
FreshSession(x) ==
    /\ x.st \in {"unused", "dialled", "checked"} =>
          x.up = {} /\ x.hnd = Idle /\ x.ackSeq = 0 /\ x.rsent = 0 /\ x.downAck = 0
    /\ x.st \in {"unused", "closed"} => ~x.live
FreshInv ==
    /\ \A s \in Sessions : FreshSession(sess[s])
    /\ rsess # 0 /\ sess[rsess].st = "open" =>
          knownBoot = rboot /\ (sess[rsess].live => conn = rsess)

\* Sequence numbers grow, on both sides.
NumberInv ==
    /\ \A m \in rqueue : m.seq <= rnext
    /\ \A m, o \in rqueue : m.seq = o.seq => m = o
    /\ knownBoot = rboot => highest <= rnext
    /\ rsess # 0 => sess[rsess].rsent <= rnext
    /\ conn # 0 /\ knownBoot = rboot => \A m : Holds(conn, m) => m.seq <= rnext

\* The connection: what it holds is in order and without holes, what the hub has
\* counted is applied, and what the runner has sent is held or applied.
StreamInv == conn # 0 =>
    /\ sess[conn].hnd # Idle => \A m \in sess[conn].up : sess[conn].hnd.msg.seq < m.seq
    /\ \A m, o \in sess[conn].up : m.seq = o.seq => m = o
    /\ sess[conn].hnd.step \in {"taken", "marked", "applied"} => sess[conn].hnd.msg.seq > highest
    /\ sess[conn].ackSeq <= highest
    /\ rsess = conn => \A m : Holds(conn, m) => m.seq <= sess[conn].rsent
    /\ \A m : Holds(conn, m) /\ Late(m) => \E o : Holds(conn, o) /\ Before(o, m)
    /\ \A m : Holds(conn, m) /\ m.seq <= highest => Applied(m)
    /\ knownBoot = rboot =>
          \A x, m : Holds(conn, x) /\ m \in rqueue /\ m.seq <= x.seq => Holds(conn, m) \/ Applied(m)
    /\ rsess = conn =>
          \A m \in rqueue : m.seq <= sess[conn].rsent => Holds(conn, m) \/ Applied(m)

\* The runner's queue: what is counted or acknowledged is applied, and a late
\* message is queued behind the one it waits for.
QueueInv ==
    /\ knownBoot = rboot => \A m \in rqueue : m.seq <= highest => Applied(m)
    /\ \A m \in rqueue : Late(m) => \E o \in rqueue : Before(o, m)
    /\ rsess # 0 => /\ sess[rsess].downAck <= rnext
                    /\ \A m \in rqueue : m.seq <= sess[rsess].downAck => Applied(m)
    /\ rsess # 0 /\ sess[rsess].res # NoRes =>
          /\ sess[rsess].res.acked <= rnext
          /\ \A m \in rqueue : m.seq <= sess[rsess].res.acked => Applied(m)

\* A handler never holds a message that is early.
HandlerInv ==
    \A s \in Sessions : sess[s].hnd # Idle =>
        /\ sess[s].hnd.step \in {"dup", "applied"} => Applied(sess[s].hnd.msg)
        /\ sess[s].hnd.step \in {"taken", "marked"} => ~Late(sess[s].hnd.msg)

\* What the caller of a run is still owed is in the runner's queue.
OwedInv ==
    \A r \in tracked :
        /\ run[r] = "running" /\ emitted[r] > got[r] =>
              \E m \in rqueue : m.kind = "out" /\ m.run = r /\ m.n + 1 = emitted[r]
        /\ run[r] \in {"reported", "ended"} => \E m \in rqueue : m.kind = "res" /\ m.run = r

\* A Register that can still take effect names the runs that are under way.
SnapshotInv ==
    \A s \in Sessions :
        sess[s].st \in {"dialled", "checked"} /\ (\A t \in Sessions : t > s => sess[t].st # "open") =>
            \A r \in tracked : run[r] \in {"running", "reported", "ended"} =>
                r \in sess[s].reg.active \cup sess[s].reg.completed

FlowInv == NumberInv /\ StreamInv /\ QueueInv
CallInv == LinkInv /\ DataInv /\ FreshInv /\ FlowInv /\ HandlerInv /\ OwedInv /\ SnapshotInv

\* A run is only taken up before its agent starts, and what is appended stays.
Settles ==
    \A r \in Runs : r \in tracked' => run[r] = "none" \/ (r \in tracked /\ got'[r] >= got[r])

\* So what is applied stays applied, and no message becomes late.
LEMMA AppliedStays ==
    ASSUME LinkInv, TypeOK', Settles, NEW m, OnWay(m)
    PROVE  (Applied(m) => Applied(m)') /\ (Late(m)' => Late(m))
  <1>1. m \in UpMsg /\ m.n \in Nat
      BY WaysAreMessages DEF LinkInv
  <1>2. m.kind # "hb" => m.run \in Runs /\ run[m.run] # "none"
      BY WaysAreMessages DEF LinkInv, ReportInv
  <1>3. CASE m.kind = "hb"
      <2>1. m.run \notin tracked /\ m.run \notin tracked'
          <3>1. m \in Heartbeat
              BY <1>1, <1>3 DEF UpMsg, RunMsg
          <3> QED BY <3>1, RunnerLinkConstants DEF Heartbeat, TypeOK, LinkInv
      <2> QED BY <2>1 DEF Applied, Late
  <1>4. CASE m.kind # "hb"
      <2>1. got[m.run] \in Nat /\ got'[m.run] \in Nat
          BY <1>2, <1>4 DEF LinkInv, TypeOK
      <2> QED BY <1>1, <1>2, <1>4, <2>1 DEF Settles, Applied, Late
  <1> QED BY <1>3, <1>4

\* A late message and the one it waits for are both still expected.
LEMMA BothExpected ==
    ASSUME LinkInv, NEW m, NEW o, OnWay(m), OnWay(o), Late(m), Before(o, m)
    PROVE  ~Applied(o) /\ ~Applied(m)
  <1>1. m.n \in Nat /\ o.n \in Nat
      BY WaysAreMessages DEF LinkInv
  <1>2. m.run \in tracked /\ got[m.run] \in Nat
      BY DEF Late, LinkInv, TypeOK
  <1> QED BY <1>1, <1>2 DEF Late, Before, Applied

\* The sizes hold as long as messages only move and nothing else changes ...
LEMMA DataKept ==
    ASSUME LinkInv, DataInv, UNCHANGED <<run, emitted, got>>, \A m : OnWay(m)' => OnWay(m) \/ m.kind = "hb"
    PROVE  DataInv'
  BY DEF DataInv

\* ... when the executor reports ...
LEMMA DataExecutor ==
    ASSUME LinkInv, DataInv, Executor \/ sendHeartbeat PROVE DataInv'
  <1> USE DEF hubVars, callerVars, linkVars
  <1>0. TypeOK /\ got \in [Runs -> Nat] /\ emitted \in [Runs -> Nat]
        /\ run \in [Runs -> {"none", "running", "reported", "ended", "dead", "gone"}]
      BY DEF LinkInv, TypeOK
  <1>a. \A m : OnWay(m) /\ m.kind # "hb" => m.run \in Runs /\ m.n \in Nat
      BY <1>0, WaysAreMessages
  <1>1. CASE sendHeartbeat
      <2>1. \A m : OnWay(m)' => OnWay(m) \/ m.kind = "hb"
          BY <1>1 DEF sendHeartbeat, OnWay, Holds, RunnerMsg
      <2> QED BY <1>1, <2>1, DataKept DEF sendHeartbeat, execVars
  <1>2. ASSUME NEW r \in Runs, Output(r) PROVE DataInv'
      <2> DEFINE d == RunnerMsg("out", r, emitted[r])
      <2>1. /\ run[r] = "running" /\ emitted' = [emitted EXCEPT ![r] = @ + 1]
            /\ UNCHANGED <<run, got, sess>> /\ rqueue' = rqueue \cup {d}
          BY <1>2 DEF Output, enqueue
      <2>2. d.kind = "out" /\ d.run = r /\ d.n = emitted[r]
          BY DEF RunnerMsg
      <2> HIDE DEF d
      <2>3. \A m : OnWay(m)' => OnWay(m) \/ m = d
          BY <2>1 DEF OnWay, Holds
      <2>4. emitted'[r] = emitted[r] + 1 /\ \A q \in Runs : q # r => emitted'[q] = emitted[q]
          BY <1>0, <2>1
      <2>5. \A m : OnWay(m)' /\ m.kind = "res" =>
               run'[m.run] \in {"reported", "ended", "gone"} /\ got'[m.run] <= m.n
          BY <2>1, <2>2, <2>3 DEF DataInv
      <2>6. \A m : OnWay(m)' /\ m.kind = "out" /\ run'[m.run] = "running" => m.n < emitted'[m.run]
          <3> SUFFICES ASSUME NEW m, OnWay(m)', m.kind = "out", run'[m.run] = "running"
                       PROVE  m.n < emitted'[m.run]
              OBVIOUS
          <3>1. CASE m = d
              BY <1>0, <2>2, <2>4, <3>1
          <3>2. CASE OnWay(m)
              <4>1. m.run \in Runs /\ m.n \in Nat /\ m.n < emitted[m.run]
                  BY <1>a, <2>1, <3>2 DEF DataInv
              <4> QED BY <1>0, <2>4, <4>1
          <3> QED BY <2>3, <3>1, <3>2
      <2>7. \A m, o : OnWay(m)' /\ OnWay(o)' /\ m.kind = "out" /\ o.kind = "res" /\ m.run = o.run =>
               m.n < o.n
          BY <2>1, <2>2, <2>3 DEF DataInv
      <2>8. \A q \in Runs : run'[q] = "running" => got'[q] <= emitted'[q]
          BY <1>0, <2>1, <2>4 DEF DataInv
      <2> QED BY <2>1, <2>5, <2>6, <2>7, <2>8 DEF DataInv
  <1>3. ASSUME NEW r \in Runs, Report(r) PROVE DataInv'
      <2> DEFINE d == RunnerMsg("res", r, emitted[r])
      <2>1. /\ run[r] = "running" /\ run' = [run EXCEPT ![r] = "reported"]
            /\ UNCHANGED <<emitted, got, sess>> /\ rqueue' = rqueue \cup {d}
          BY <1>3 DEF Report, enqueue
      <2>2. d.kind = "res" /\ d.run = r /\ d.n = emitted[r]
          BY DEF RunnerMsg
      <2> HIDE DEF d
      <2>3. \A m : OnWay(m)' => OnWay(m) \/ m = d
          BY <2>1 DEF OnWay, Holds
      <2>4. run'[r] = "reported" /\ \A q \in Runs : q # r => run'[q] = run[q]
          BY <1>0, <2>1
      <2>5. \A m : OnWay(m)' /\ m.kind = "res" =>
               run'[m.run] \in {"reported", "ended", "gone"} /\ got'[m.run] <= m.n
          BY <1>a, <2>1, <2>2, <2>3, <2>4 DEF DataInv
      <2>6. \A m : OnWay(m)' /\ m.kind = "out" /\ run'[m.run] = "running" => m.n < emitted'[m.run]
          BY <1>a, <2>1, <2>2, <2>3, <2>4 DEF DataInv
      <2>7. \A m, o : OnWay(m)' /\ OnWay(o)' /\ m.kind = "out" /\ o.kind = "res" /\ m.run = o.run =>
               m.n < o.n
          BY <2>1, <2>2, <2>3 DEF DataInv
      <2>8. \A q \in Runs : (run'[q] = "running" => got'[q] <= emitted'[q])
                            /\ (run'[q] = "none" => got'[q] = 0)
          BY <1>0, <2>1, <2>4 DEF DataInv
      <2> QED BY <2>5, <2>6, <2>7, <2>8 DEF DataInv
  <1>4. ASSUME NEW r \in Runs, EndRun(r) PROVE DataInv'
      <2>1. /\ run[r] = "reported" /\ run' = [run EXCEPT ![r] = "ended"]
            /\ emitted' = [emitted EXCEPT ![r] = 0] /\ UNCHANGED <<got, sess, rqueue>>
          BY <1>4 DEF EndRun
      <2>2. \A m : OnWay(m)' => OnWay(m)
          BY <2>1 DEF OnWay, Holds
      <2>3. run'[r] = "ended" /\ \A q \in Runs : q # r => run'[q] = run[q] /\ emitted'[q] = emitted[q]
          BY <1>0, <2>1
      <2> QED BY <1>a, <2>1, <2>2, <2>3 DEF DataInv
  <1> QED BY <1>1, <1>2, <1>3, <1>4 DEF Executor

\* ... when an agent starts ...
LEMMA DataReceive ==
    ASSUME LinkInv, DataInv, NEW s \in Sessions, RunnerReceive(s) PROVE DataInv'
  <1>0. TypeOK /\ got \in [Runs -> Nat] /\ emitted \in [Runs -> Nat]
        /\ run \in [Runs -> {"none", "running", "reported", "ended", "dead", "gone"}]
      BY DEF LinkInv, TypeOK
  <1>1. PICK m \in sess[s].down :
              /\ m \in DownMsg
              /\ \/ run' = run /\ emitted' = emitted
                 \/ /\ run[m.run] = "none" /\ run' = [run EXCEPT ![m.run] = "running"]
                    /\ emitted' = [emitted EXCEPT ![m.run] = 0]
      BY ReceiveStep
  <1>2. got' = got /\ \A x : OnWay(x)' => OnWay(x)
      BY <1>0, RunnerWays DEF RunnerReceive, hubVars, Runner
  <1>3. CASE run' = run /\ emitted' = emitted
      BY <1>2, <1>3, DataKept
  <1>4. CASE /\ run[m.run] = "none" /\ run' = [run EXCEPT ![m.run] = "running"]
             /\ emitted' = [emitted EXCEPT ![m.run] = 0]
      <2> DEFINE r == m.run
      <2>1. r \in Runs
          BY <1>1 DEF DownMsg
      <2> HIDE DEF r
      <2>2. /\ run[r] = "none" /\ run'[r] = "running" /\ emitted'[r] = 0
            /\ \A q \in Runs : q # r => run'[q] = run[q] /\ emitted'[q] = emitted[q]
          BY <1>0, <1>4, <2>1 DEF r
      <2>3. \A x : OnWay(x)' /\ x.kind # "hb" => x.run \in Runs /\ x.run # r
          BY <1>0, <1>2, <2>2, WaysAreMessages DEF LinkInv, ReportInv
      <2>4. \A x : OnWay(x)' /\ x.kind \in {"res", "out"} => run'[x.run] = run[x.run] /\ emitted'[x.run] = emitted[x.run]
          BY <2>2, <2>3
      <2>5. \A q \in Runs : /\ run'[q] = "none" => got[q] = 0
                            /\ run'[q] = "running" => got[q] <= emitted'[q]
          BY <1>0, <2>1, <2>2 DEF DataInv
      <2> QED BY <1>2, <2>4, <2>5 DEF DataInv
  <1> QED BY <1>1, <1>3, <1>4

\* ... when the hub appends a chunk ...
LEMMA DataOutput ==
    ASSUME LinkInv, DataInv, NEW s \in Sessions, ApplyOutput(s) PROVE DataInv'
  <1>0. TypeOK /\ got \in [Runs -> Nat] /\ emitted \in [Runs -> Nat] /\ sess[s] \in Session
      BY DEF LinkInv, TypeOK
  <1> DEFINE m == sess[s].hnd.msg
             r == m.run
  <1>1. /\ m.kind = "out" /\ sess[s].hnd.step = "taken"
        /\ got' = IF r \in tracked /\ m.n = got[r] THEN [got EXCEPT ![r] = @ + 1] ELSE got
        /\ run' = run /\ emitted' = emitted
      BY DEF ApplyOutput, Handling, execVars
  <1>2. OnWay(m) /\ m.n \in Nat /\ r \in Runs
      BY <1>0, <1>1, HandlingType DEF OnWay, Holds
  <1>3. \A x : OnWay(x)' => OnWay(x)
      BY <1>0, HubWays DEF Hub
  <1> HIDE DEF m
  <1>4. CASE got' = got
      BY <1>1, <1>3, <1>4, DataKept
  <1>5. CASE m.n = got[r] /\ got' = [got EXCEPT ![r] = @ + 1]
      <2> HIDE DEF r
      <2>1. got'[r] = got[r] + 1 /\ \A q \in Runs : q # r => got'[q] = got[q]
          BY <1>0, <1>2, <1>5
      <2>2. \A x : OnWay(x)' /\ x.kind = "res" => got'[x.run] <= x.n
          <3> SUFFICES ASSUME NEW x, OnWay(x), x.kind = "res" PROVE got'[x.run] <= x.n
              BY <1>3
          <3>1. x.run \in Runs /\ x.n \in Nat
              BY <1>0, WaysAreMessages
          <3>2. CASE x.run = r
              <4>1. m.n < x.n
                  BY <1>1, <1>2, <3>2 DEF DataInv, r
              <4> QED BY <1>0, <1>2, <1>5, <2>1, <3>1, <3>2, <4>1
          <3>3. CASE x.run # r
              BY <2>1, <3>1, <3>3 DEF DataInv
          <3> QED BY <3>2, <3>3
      <2>3. \A q \in Runs : run'[q] = "none" => got'[q] = 0
          <3>1. run[r] # "none"
              BY <1>1, <1>2 DEF LinkInv, ReportInv, r
          <3> QED BY <1>1, <2>1, <3>1 DEF DataInv
      <2>4. \A q \in Runs : run'[q] = "running" => got'[q] <= emitted'[q]
          <3>1. run[r] = "running" => m.n < emitted[r]
              BY <1>1, <1>2 DEF DataInv, r
          <3> QED BY <1>0, <1>1, <1>2, <1>5, <2>1, <3>1 DEF DataInv
      <2> QED BY <1>1, <1>3, <2>2, <2>3, <2>4 DEF DataInv
  <1> QED BY <1>1, <1>4, <1>5

\* ... and when a process crashes.
LEMMA DataCrash ==
    ASSUME LinkInv, DataInv, RunnerCrash \/ BackendCrash PROVE DataInv'
  <1>0. TypeOK /\ got \in [Runs -> Nat] /\ emitted \in [Runs -> Nat]
        /\ run \in [Runs -> {"none", "running", "reported", "ended", "dead", "gone"}]
      BY DEF LinkInv, TypeOK
  <1>1. \A m : OnWay(m)' => OnWay(m)
      BY <1>0, OtherWays
  <1>2. \A m : OnWay(m) => m.n \in Nat /\ (m.kind # "hb" => m.run \in Runs)
      BY <1>0, WaysAreMessages
  <1>3. CASE RunnerCrash
      <2>1. /\ run' = [r \in Runs |-> CASE run[r] = "running" -> "dead"
                               [] run[r] \in {"reported", "ended"} -> "gone"
                               [] OTHER -> run[r]]
            /\ got' = got
          BY <1>3 DEF RunnerCrash, hubVars
      <2>2. \A r \in Runs : /\ run'[r] # "running" /\ (run'[r] = "none" <=> run[r] = "none")
                            /\ run[r] \in {"reported", "ended", "gone"} => run'[r] = "gone"
          BY <1>0, <2>1
      <2> QED BY <1>1, <1>2, <2>1, <2>2 DEF DataInv
  <1>4. CASE BackendCrash
      <2>1. got' = [r \in Runs |-> 0] /\ run' = run /\ emitted' = emitted
          BY <1>4 DEF BackendCrash, execVars
      <2>2. \A r \in Runs : got'[r] = 0
          BY <2>1
      <2> QED BY <1>0, <1>1, <1>2, <2>1, <2>2 DEF DataInv
  <1> QED BY <1>3, <1>4

LEMMA DataStep ==
    ASSUME LinkInv, DataInv, [Next]_vars PROVE DataInv'
  <1>0. TypeOK
      BY DEF LinkInv
  <1>1. CASE Caller \/ UNCHANGED vars
      <2>1. UNCHANGED <<run, emitted, got>>
          BY <1>1 DEF Caller, Dispatch, Cancel, vars, execVars, hubVars
      <2> QED BY <1>0, <1>1, <2>1, OtherWays, DataKept
  <1>2. ASSUME NEW s \in Sessions, Runner(s), ~RunnerReceive(s) PROVE DataInv'
      <2>1. UNCHANGED <<run, emitted, got>>
          BY <1>2 DEF Runner, Connect, Attach, Abandon, RunnerReceiveAck, RunnerSend, RunnerSendAck,
                      execVars, hubVars
      <2> QED BY <1>0, <1>2, <2>1, RunnerWays, DataKept
  <1>3. ASSUME NEW s \in Sessions, Hub(s), ~ApplyOutput(s) PROVE DataInv'
      <2>1. UNCHANGED <<run, emitted, got>>
          BY <1>3 DEF Hub, CheckFinalized, Register, Detach, BackendSend, BackendSendAck,
                  BackendReceiveAck, Take, ApplyHeartbeat, MarkFinalized, MarkFailed,
                  Deliver, Commit, execVars, hubVars
      <2> QED BY <1>0, <1>3, <2>1, HubWays, DataKept
  <1> QED BY <1>1, <1>2, <1>3, DataExecutor, DataReceive, DataOutput, DataCrash DEF Next

\* One session changes.
Others(s) == \A t \in Sessions : t # s => sess'[t] = sess[t]

\* The part of a session that reports and acknowledgements pass through.
SameBack(x, y) ==
    /\ x.up = y.up /\ x.hnd = y.hnd /\ x.rsent = y.rsent /\ x.downAck = y.downAck
    /\ x.ackSeq = y.ackSeq
SameEnd(x, y) == x.st = y.st /\ x.live = y.live /\ x.reg = y.reg
BackKept == \A s \in Sessions :
    SameBack(sess'[s], sess[s]) /\ SameEnd(sess'[s], sess[s]) /\ sess'[s].res = sess[s].res

\* Requests that go down, and the acknowledgements of them, leave it alone.
LEMMA DownSteps ==
    ASSUME TypeOK, NEW s \in Sessions,
           BackendSend(s) \/ RunnerReceive(s) \/ RunnerSendAck(s) \/ BackendReceiveAck(s)
    PROVE  BackKept
  <1>0. sess \in [Sessions -> Session] /\ sess[s] \in Session
      BY DEF TypeOK
  <1>a. ASSUME NEW x, Sets(s, x), SameBack(x, sess[s]), SameEnd(x, sess[s]), x.res = sess[s].res
        PROVE  BackKept
      <2>1. sess'[s] = x /\ \A t \in Sessions : t # s => sess'[t] = sess[t]
          BY <1>0, <1>a, SetsEffect
      <2> QED BY <1>a, <2>1 DEF BackKept, SameBack, SameEnd
  <1>1. CASE BackendSend(s)
      <2>1. PICK a, b : Sets(s, [sess[s] EXCEPT !.bsent = a, !.down = b])
          BY <1>1 DEF BackendSend, Sets
      <2> QED BY <1>0, <1>a, <2>1 DEF Session, SameBack, SameEnd
  <1>2. CASE RunnerReceive(s)
      <2>1. PICK a : Sets(s, [sess[s] EXCEPT !.down = a])
          BY <1>2 DEF RunnerReceive, Sets
      <2> QED BY <1>0, <1>a, <2>1 DEF Session, SameBack, SameEnd
  <1>3. CASE RunnerSendAck(s)
      <2>1. PICK a : Sets(s, [sess[s] EXCEPT !.upAck = a])
          BY <1>3 DEF RunnerSendAck, Sets
      <2> QED BY <1>0, <1>a, <2>1 DEF Session, SameBack, SameEnd
  <1>4. CASE BackendReceiveAck(s)
      <2>1. Sets(s, [sess[s] EXCEPT !.upAck = 0])
          BY <1>4 DEF BackendReceiveAck, Sets
      <2> QED BY <1>0, <1>a, <2>1 DEF Session, SameBack, SameEnd
  <1> QED BY <1>1, <1>2, <1>3, <1>4

\* What the other steps do to it.
LEMMA ConnectEffect ==
    ASSUME TypeOK, NEW s \in Sessions, Connect(s)
    PROVE  /\ Others(s) /\ sess'[s].st = "dialled" /\ sess'[s].live /\ sess'[s].reg = buildRegister
           /\ sess'[s].res = NoRes /\ sess'[s].up = {} /\ sess'[s].hnd = Idle /\ sess'[s].rsent = 0
           /\ sess'[s].downAck = 0 /\ sess'[s].ackSeq = 0
  <1> DEFINE x == [Unused EXCEPT !.st = "dialled", !.live = TRUE, !.reg = buildRegister]
  <1>1. /\ x.st = "dialled" /\ x.live /\ x.reg = buildRegister
        /\ x.res = NoRes /\ x.up = {} /\ x.hnd = Idle /\ x.rsent = 0
        /\ x.downAck = 0 /\ x.ackSeq = 0
      BY DEF Unused
  <1>2. Sets(s, x) /\ sess \in [Sessions -> Session]
      BY DEF Connect, Sets, TypeOK
  <1> HIDE DEF x
  <1> QED BY <1>1, <1>2, SetsEffect DEF Others

LEMMA AttachEffect ==
    ASSUME TypeOK, NEW s \in Sessions, Attach(s)
    PROVE  /\ Others(s) /\ SameBack(sess'[s], sess[s]) /\ SameEnd(sess'[s], sess[s])
           /\ sess'[s].res = NoRes
  <1> DEFINE x == [sess[s] EXCEPT !.res = NoRes]
  <1>0. sess \in [Sessions -> Session] /\ sess[s] \in Session
      BY DEF TypeOK
  <1>1. SameBack(x, sess[s]) /\ SameEnd(x, sess[s]) /\ x.res = NoRes
      BY <1>0 DEF Session, SameBack, SameEnd
  <1>2. Sets(s, x)
      BY DEF Attach, Sets
  <1> HIDE DEF x
  <1> QED BY <1>0, <1>1, <1>2, SetsEffect DEF Others

LEMMA AbandonEffect ==
    ASSUME TypeOK, NEW s \in Sessions, Abandon(s)
    PROVE  /\ Others(s) /\ SameEnd(sess'[s], sess[s])
           /\ sess'[s].res = NoRes /\ sess'[s].up = sess[s].up /\ sess'[s].hnd = sess[s].hnd
           /\ sess'[s].rsent = 0 /\ sess'[s].downAck = 0 /\ sess'[s].ackSeq = sess[s].ackSeq
  <1> DEFINE x == LeftByRunner(s)
  <1>0. sess \in [Sessions -> Session] /\ sess[s] \in Session
      BY DEF TypeOK
  <1>1. /\ SameEnd(x, sess[s]) /\ x.res = NoRes /\ x.up = sess[s].up /\ x.hnd = sess[s].hnd
        /\ x.rsent = 0 /\ x.downAck = 0 /\ x.ackSeq = sess[s].ackSeq
      BY <1>0 DEF Session, SameEnd, LeftByRunner
  <1>2. Sets(s, x)
      BY DEF Abandon, Sets
  <1> HIDE DEF x
  <1> QED BY <1>0, <1>1, <1>2, SetsEffect DEF Others

LEMMA DetachEffect ==
    ASSUME TypeOK, NEW s \in Sessions, Detach(s) \/ MarkFailed(s)
    PROVE  /\ Others(s) /\ sess'[s].st = sess[s].st /\ ~sess'[s].live /\ sess'[s].reg = sess[s].reg
           /\ sess'[s].res = sess[s].res /\ sess'[s].up = {} /\ sess'[s].ackSeq = 0
           /\ sess'[s].hnd = IF Detach(s) THEN sess[s].hnd ELSE Idle
           /\ sess'[s].rsent = sess[s].rsent /\ sess'[s].downAck = sess[s].downAck
           /\ conn' = IF conn = s THEN 0 ELSE conn
  <1> DEFINE x == Closed(s)
             y == [Closed(s) EXCEPT !.hnd = Idle]
  <1>0. sess \in [Sessions -> Session] /\ sess[s] \in Session
      BY DEF TypeOK
  <1>1. /\ x.st = sess[s].st /\ ~x.live /\ x.reg = sess[s].reg /\ x.res = sess[s].res /\ x.up = {}
        /\ x.ackSeq = 0 /\ x.hnd = sess[s].hnd /\ x.rsent = sess[s].rsent /\ x.downAck = sess[s].downAck
      BY <1>0 DEF Session, Closed
  <1>2. x \in Session
      BY <1>0, EndsAreSessions
  <1>3. /\ y.st = x.st /\ y.live = x.live /\ y.reg = x.reg /\ y.res = x.res /\ y.up = x.up
        /\ y.ackSeq = x.ackSeq /\ y.hnd = Idle /\ y.rsent = x.rsent /\ y.downAck = x.downAck
      <2> HIDE DEF x
      <2> QED BY <1>2 DEF Session, x
  <1>4. CASE Detach(s)
      <2>1. Sets(s, x) /\ conn' = IF conn = s THEN 0 ELSE conn
          BY <1>4 DEF Detach, Sets, detach
      <2> HIDE DEF x
      <2> QED BY <1>0, <1>1, <1>4, <2>1, SetsEffect DEF Others
  <1>5. CASE MarkFailed(s) /\ ~Detach(s)
      <2>1. Sets(s, y) /\ conn' = IF conn = s THEN 0 ELSE conn
          BY <1>5 DEF MarkFailed, Sets, detach
      <2> HIDE DEF x, y
      <2> QED BY <1>0, <1>1, <1>3, <1>5, <2>1, SetsEffect DEF Others
  <1> QED BY <1>4, <1>5

LEMMA CheckEffect ==
    ASSUME TypeOK, NEW s \in Sessions, CheckFinalized(s)
    PROVE  /\ Others(s) /\ SameBack(sess'[s], sess[s]) /\ sess'[s].live = sess[s].live
           /\ sess'[s].reg = sess[s].reg /\ sess'[s].res = sess[s].res
           /\ sess[s].st = "dialled" /\ sess'[s].st = "checked"
  <1>0. sess \in [Sessions -> Session] /\ sess[s] \in Session
      BY DEF TypeOK
  <1>1. PICK a : Sets(s, [sess[s] EXCEPT !.st = "checked", !.fin = a])
      BY DEF CheckFinalized, Sets
  <1> DEFINE x == [sess[s] EXCEPT !.st = "checked", !.fin = a]
  <1>2. /\ SameBack(x, sess[s]) /\ x.live = sess[s].live /\ x.reg = sess[s].reg
        /\ x.res = sess[s].res /\ x.st = "checked"
      BY <1>0 DEF Session, SameBack
  <1>3. Sets(s, x) /\ sess[s].st = "dialled"
      BY <1>1 DEF CheckFinalized
  <1> HIDE DEF x
  <1> QED BY <1>0, <1>2, <1>3, SetsEffect DEF Others

LEMMA RegisterEffect ==
    ASSUME TypeOK, NEW s \in Sessions, Register(s)
    PROVE  /\ Others(s) /\ SameBack(sess'[s], sess[s]) /\ sess'[s].live = sess[s].live
           /\ sess'[s].reg = NoReg /\ sess'[s].st = "open"
           /\ sess'[s].res # NoRes => rsess = s /\ sess'[s].res.acked = highest'
  <1>0. sess \in [Sessions -> Session] /\ sess[s] \in Session
      BY DEF TypeOK
  <1> DEFINE a == IF sess[s].live /\ rsess = s THEN [boot |-> bboot, acked |-> highest'] ELSE NoRes
             x == [sess[s] EXCEPT !.st = "open", !.reg = NoReg, !.fin = {}, !.res = a]
  <1>1. Sets(s, x)
      BY DEF Register, Sets
  <1>2. a # NoRes => rsess = s /\ a.acked = highest'
      OBVIOUS
  <1> HIDE DEF a
  <1>3. /\ SameBack(x, sess[s]) /\ x.live = sess[s].live /\ x.reg = NoReg
        /\ x.res = a /\ x.st = "open"
      BY <1>0 DEF Session, SameBack
  <1> HIDE DEF x
  <1> QED BY <1>0, <1>1, <1>2, <1>3, SetsEffect DEF Others

LEMMA ReceiveAckEffect ==
    ASSUME TypeOK, NEW s \in Sessions, RunnerReceiveAck(s)
    PROVE  /\ Others(s) /\ SameEnd(sess'[s], sess[s]) /\ sess'[s].res = sess[s].res
           /\ sess'[s].up = sess[s].up /\ sess'[s].hnd = sess[s].hnd
           /\ sess'[s].rsent = sess[s].rsent /\ sess'[s].ackSeq = sess[s].ackSeq
           /\ sess'[s].downAck = 0
  <1> DEFINE x == [sess[s] EXCEPT !.downAck = 0]
  <1>0. sess \in [Sessions -> Session] /\ sess[s] \in Session
      BY DEF TypeOK
  <1>1. /\ SameEnd(x, sess[s]) /\ x.res = sess[s].res /\ x.up = sess[s].up /\ x.hnd = sess[s].hnd
        /\ x.rsent = sess[s].rsent /\ x.ackSeq = sess[s].ackSeq /\ x.downAck = 0
      BY <1>0 DEF Session, SameEnd
  <1>2. Sets(s, x)
      BY DEF RunnerReceiveAck, Sets
  <1> HIDE DEF x
  <1> QED BY <1>0, <1>1, <1>2, SetsEffect DEF Others

LEMMA SendAckEffect ==
    ASSUME TypeOK, NEW s \in Sessions, BackendSendAck(s)
    PROVE  /\ Others(s) /\ SameEnd(sess'[s], sess[s]) /\ sess'[s].res = sess[s].res
           /\ sess'[s].up = sess[s].up /\ sess'[s].hnd = sess[s].hnd
           /\ sess'[s].rsent = sess[s].rsent /\ sess'[s].ackSeq = sess[s].ackSeq
           /\ sess'[s].downAck = IF rsess = s THEN sess[s].ackSeq ELSE 0
  <1> DEFINE a == IF rsess = s THEN sess[s].ackSeq ELSE 0
             x == [sess[s] EXCEPT !.ackDirty = FALSE, !.downAck = a]
  <1>0. sess \in [Sessions -> Session] /\ sess[s] \in Session
      BY DEF TypeOK
  <1>1. Sets(s, x)
      BY DEF BackendSendAck, Sets
  <1> HIDE DEF a
  <1>2. /\ SameEnd(x, sess[s]) /\ x.res = sess[s].res /\ x.up = sess[s].up /\ x.hnd = sess[s].hnd
        /\ x.rsent = sess[s].rsent /\ x.ackSeq = sess[s].ackSeq /\ x.downAck = a
      BY <1>0 DEF Session, SameEnd
  <1> HIDE DEF x
  <1> QED BY <1>0, <1>1, <1>2, SetsEffect DEF Others, a

LEMMA SendEffect ==
    ASSUME TypeOK, NEW s \in Sessions, RunnerSend(s)
    PROVE  \E m \in rqueue :
              /\ IsNextToSend(m, rqueue, sess[s].rsent)
              /\ sess'[s].rsent = m.seq
              /\ sess'[s].up = IF sess[s].live THEN sess[s].up \cup {m} ELSE {}
              /\ Others(s) /\ SameEnd(sess'[s], sess[s]) /\ sess'[s].res = sess[s].res
              /\ sess'[s].hnd = sess[s].hnd /\ sess'[s].ackSeq = sess[s].ackSeq
              /\ sess'[s].downAck = sess[s].downAck
  <1>0. sess \in [Sessions -> Session] /\ sess[s] \in Session
      BY DEF TypeOK
  <1>1. PICK m \in rqueue :
          /\ IsNextToSend(m, rqueue, sess[s].rsent)
          /\ sess' = [sess EXCEPT ![s].rsent = m.seq,
                                  ![s].up = IF sess[s].live THEN @ \cup {m} ELSE {}]
      BY DEF RunnerSend
  <1> DEFINE a == IF sess[s].live THEN sess[s].up \cup {m} ELSE {}
             x == [sess[s] EXCEPT !.rsent = m.seq, !.up = a]
  <1>2. Sets(s, x)
      BY <1>1 DEF Sets
  <1>a. a = IF sess[s].live THEN sess[s].up \cup {m} ELSE {}
      OBVIOUS
  <1> HIDE DEF a
  <1>3. /\ SameEnd(x, sess[s]) /\ x.res = sess[s].res /\ x.up = a /\ x.hnd = sess[s].hnd
        /\ x.rsent = m.seq /\ x.ackSeq = sess[s].ackSeq /\ x.downAck = sess[s].downAck
      BY <1>0 DEF Session, SameEnd
  <1> HIDE DEF x
  <1>4. sess'[s] = x /\ Others(s)
      BY <1>0, <1>2, SetsEffect DEF Others
  <1> QED BY <1>1, <1>a, <1>3, <1>4

LEMMA TakeEffect ==
    ASSUME TypeOK, NEW s \in Sessions, Take(s)
    PROVE  \E m \in sess[s].up :
              /\ IsFirst(m, sess[s].up)
              /\ sess'[s].up = sess[s].up \ {m}
              /\ sess'[s].hnd # Idle /\ sess'[s].hnd.msg = m
              /\ sess'[s].hnd.step = IF m.seq <= highest THEN "dup" ELSE "taken"
              /\ Others(s) /\ SameEnd(sess'[s], sess[s]) /\ sess'[s].res = sess[s].res
              /\ sess'[s].rsent = sess[s].rsent /\ sess'[s].ackSeq = sess[s].ackSeq
              /\ sess'[s].downAck = sess[s].downAck
  <1>0. sess \in [Sessions -> Session] /\ sess[s] \in Session
      BY DEF TypeOK
  <1>1. PICK m \in sess[s].up :
          /\ IsFirst(m, sess[s].up)
          /\ sess' = [sess EXCEPT
                    ![s].up = @ \ {m},
                    ![s].hnd = [step |-> IF m.seq <= highest THEN "dup" ELSE "taken",
                                msg |-> m]]
      BY DEF Take
  <1> DEFINE step == IF m.seq <= highest THEN "dup" ELSE "taken"
             x == [sess[s] EXCEPT !.up = sess[s].up \ {m}, !.hnd = [step |-> step, msg |-> m]]
  <1>2. Sets(s, x)
      BY <1>1 DEF Sets
  <1>a. step = (IF m.seq <= highest THEN "dup" ELSE "taken") /\ step \in {"dup", "taken"}
      OBVIOUS
  <1> HIDE DEF step
  <1>3. /\ SameEnd(x, sess[s]) /\ x.res = sess[s].res /\ x.up = sess[s].up \ {m}
        /\ x.hnd = [step |-> step, msg |-> m]
        /\ x.rsent = sess[s].rsent /\ x.ackSeq = sess[s].ackSeq /\ x.downAck = sess[s].downAck
      BY <1>0 DEF Session, SameEnd
  <1> HIDE DEF x
  <1>4. sess'[s] = x /\ Others(s)
      BY <1>0, <1>2, SetsEffect DEF Others
  <1>5. x.hnd.msg = m /\ x.hnd.step = step
      BY <1>3
  <1>6. x.hnd # Idle
      BY <1>a, <1>5 DEF Idle
  <1> QED BY <1>1, <1>a, <1>3, <1>4, <1>5, <1>6

LEMMA ApplyEffect ==
    ASSUME TypeOK, NEW s \in Sessions,
           ApplyHeartbeat(s) \/ ApplyOutput(s) \/ MarkFinalized(s) \/ Deliver(s)
    PROVE  /\ sess[s].hnd # Idle /\ sess[s].hnd.step \in {"taken", "marked"}
           /\ sess'[s].hnd # Idle /\ sess'[s].hnd.msg = sess[s].hnd.msg
           /\ sess'[s].hnd.step = "applied"
              \/ (MarkFinalized(s) /\ sess[s].hnd.msg.run \in tracked /\ sess'[s].hnd.step = "marked")
           /\ Others(s) /\ SameEnd(sess'[s], sess[s]) /\ sess'[s].res = sess[s].res
           /\ sess'[s].up = sess[s].up
           /\ sess'[s].rsent = sess[s].rsent /\ sess'[s].ackSeq = sess[s].ackSeq
           /\ sess'[s].downAck = sess[s].downAck
  <1>0. sess \in [Sessions -> Session] /\ sess[s] \in Session
      BY DEF TypeOK
  <1>1. PICK step : /\ sess' = [sess EXCEPT ![s].hnd.step = step]
                    /\ step = "applied" \/ (MarkFinalized(s) /\ sess[s].hnd.msg.run \in tracked /\ step = "marked")
      BY DEF ApplyHeartbeat, ApplyOutput, MarkFinalized, Deliver
  <1> DEFINE h == [sess[s].hnd EXCEPT !.step = step]
             x == [sess[s] EXCEPT !.hnd = h]
  <1>2. Sets(s, x)
      BY <1>1 DEF Sets
  <1>3. sess[s].hnd.step \in {"taken", "marked"}
      BY DEF ApplyHeartbeat, ApplyOutput, MarkFinalized, Deliver, Handling
  <1>4. sess[s].hnd # Idle /\ sess[s].hnd \in [step : Steps, msg : UpMsg]
      BY <1>0, <1>3, HandlingType
  <1>5. h.msg = sess[s].hnd.msg /\ h.step = step
      BY <1>4
  <1> HIDE DEF h
  <1>6. /\ SameEnd(x, sess[s]) /\ x.res = sess[s].res /\ x.up = sess[s].up /\ x.hnd = h
        /\ x.rsent = sess[s].rsent /\ x.ackSeq = sess[s].ackSeq /\ x.downAck = sess[s].downAck
      BY <1>0 DEF Session, SameEnd
  <1> HIDE DEF x
  <1>7. sess'[s] = x /\ Others(s)
      BY <1>0, <1>2, SetsEffect DEF Others
  <1>8. h # Idle
      BY <1>1, <1>5 DEF Idle
  <1> QED BY <1>1, <1>3, <1>4, <1>5, <1>6, <1>7, <1>8

LEMMA CommitEffect ==
    ASSUME TypeOK, NEW s \in Sessions, Commit(s)
    PROVE  /\ Others(s) /\ SameEnd(sess'[s], sess[s]) /\ sess'[s].res = sess[s].res
           /\ sess'[s].up = sess[s].up /\ sess'[s].hnd = Idle
           /\ sess'[s].ackSeq = IF sess[s].live THEN highest' ELSE 0
           /\ sess'[s].rsent = sess[s].rsent /\ sess'[s].downAck = sess[s].downAck
           /\ sess[s].hnd # Idle
  <1>0. sess \in [Sessions -> Session] /\ sess[s] \in Session
      BY DEF TypeOK
  <1> DEFINE a == IF sess[s].live THEN highest' ELSE 0
             b == sess[s].live
             x == [sess[s] EXCEPT !.hnd = Idle, !.ackSeq = a, !.ackDirty = b]
  <1>1. Sets(s, x)
      BY DEF Commit, Sets
  <1> HIDE DEF a, b
  <1>2. /\ SameEnd(x, sess[s]) /\ x.res = sess[s].res /\ x.up = sess[s].up /\ x.hnd = Idle
        /\ x.rsent = sess[s].rsent /\ x.ackSeq = a /\ x.downAck = sess[s].downAck
      BY <1>0 DEF Session, SameEnd
  <1> HIDE DEF x
  <1>3. sess'[s] = x /\ Others(s)
      BY <1>0, <1>1, SetsEffect DEF Others
  <1>4. sess[s].hnd # Idle
      BY <1>0, HandlingType DEF Commit, Idle
  <1> QED BY <1>2, <1>3, <1>4 DEF a

LEMMA RunnerCrashEffect ==
    ASSUME TypeOK, RunnerCrash, NEW t \in Sessions
    PROVE  /\ SameEnd(sess'[t], sess[t]) /\ sess'[t].up = sess[t].up /\ sess'[t].hnd = sess[t].hnd
           /\ sess'[t].ackSeq = sess[t].ackSeq
           /\ sess'[t].rsent \in {0, sess[t].rsent} /\ sess'[t].downAck \in {0, sess[t].downAck}
  <1>1. sess[t] \in Session /\ (sess'[t] = LeftByRunner(t) \/ sess'[t] = sess[t])
      BY DEF RunnerCrash, TypeOK
  <1>2. CASE sess'[t] = sess[t]
      BY <1>2 DEF SameEnd
  <1>3. CASE sess'[t] = LeftByRunner(t)
      <2> DEFINE x == LeftByRunner(t)
      <2>1. /\ SameEnd(x, sess[t]) /\ x.up = sess[t].up /\ x.hnd = sess[t].hnd
            /\ x.ackSeq = sess[t].ackSeq /\ x.rsent = 0 /\ x.downAck = 0
          BY <1>1 DEF Session, SameEnd, LeftByRunner
      <2> QED BY <1>3, <2>1
  <1> QED BY <1>1, <1>2, <1>3

LEMMA BackendCrashEffect ==
    ASSUME TypeOK, BackendCrash, NEW t \in Sessions
    PROVE  \/ sess'[t] = sess[t] /\ sess[t].st = "unused"
           \/ /\ sess[t].st # "unused" /\ sess'[t].st = "closed" /\ ~sess'[t].live
              /\ sess'[t].up = {} /\ sess'[t].hnd = Idle /\ sess'[t].ackSeq = 0
              /\ sess'[t].rsent = sess[t].rsent /\ sess'[t].downAck = sess[t].downAck
              /\ sess'[t].res = sess[t].res
  <1> DEFINE x == Closed(t)
             y == [Closed(t) EXCEPT !.hnd = Idle, !.st = "closed", !.fin = {}]
  <1>0. sess[t] \in Session /\ Closed(t) \in Session
      BY EndsAreSessions DEF TypeOK
  <1>1. sess'[t] = IF sess[t].st = "unused" THEN sess[t] ELSE y
      BY DEF BackendCrash
  <1>2. /\ ~x.live /\ x.up = {} /\ x.ackSeq = 0 /\ x.rsent = sess[t].rsent
        /\ x.downAck = sess[t].downAck /\ x.res = sess[t].res
      BY <1>0 DEF Session, Closed
  <1>3. /\ y.st = "closed" /\ y.live = x.live /\ y.up = x.up /\ y.hnd = Idle /\ y.ackSeq = x.ackSeq
        /\ y.rsent = x.rsent /\ y.downAck = x.downAck /\ y.res = x.res
      <2> HIDE DEF x
      <2> QED BY <1>0 DEF Session, x
  <1> QED BY <1>1, <1>2, <1>3

\* A session that changes without being opened stays fresh.
LEMMA FreshKept ==
    ASSUME TypeOK, FreshInv, NEW s \in Sessions, Others(s), FreshSession(sess'[s]),
           UNCHANGED <<rsess, rboot, knownBoot>>, conn' = conn \/ (conn = s /\ ~sess'[s].live),
           sess'[s].st = "open" /\ rsess = s => sess[s].st = "open" /\ (sess'[s].live => sess[s].live)
    PROVE  FreshInv'
  <1>1. \A t \in Sessions : FreshSession(sess'[t])
      BY DEF FreshInv, Others
  <1>2. rsess # 0 /\ sess'[rsess].st = "open" => knownBoot = rboot /\ (sess'[rsess].live => conn' = rsess)
      BY DEF FreshInv, Others, TypeOK
  <1> QED BY <1>1, <1>2 DEF FreshInv

LEMMA FreshStep ==
    ASSUME LinkInv, ~RegisterRace, FreshInv, [Next]_vars PROVE FreshInv'
  <1> USE DEF hubVars, callerVars, linkVars, execVars
  <1>0. /\ TypeOK /\ SessionInv /\ BootInv /\ \A s \in Sessions : FreshSession(sess[s])
        /\ rsess # 0 => rsess \in Sessions
        /\ \A t \in Sessions : t \in Nat /\ t # 0
      BY RunnerLinkConstants DEF LinkInv, AgentInv, TypeOK, FreshInv
  <1>1. CASE Caller \/ Executor \/ sendHeartbeat \/ UNCHANGED vars
      <2>1. UNCHANGED <<sess, rsess, rboot, knownBoot, conn>>
          BY <1>1 DEF Caller, Dispatch, Cancel, Executor, Output, Report, EndRun, sendHeartbeat, vars
      <2> QED BY <2>1 DEF FreshInv
  <1>2. CASE RunnerCrash
      <2>1. rsess' = 0
          BY <1>2 DEF RunnerCrash
      <2>2. \A t \in Sessions : FreshSession(sess'[t])
          BY <1>0, <1>2, RunnerCrashEffect DEF FreshSession, SameEnd
      <2> QED BY <2>1, <2>2 DEF FreshInv
  <1>3. CASE BackendCrash
      <2>1. \A t \in Sessions : FreshSession(sess'[t]) /\ sess'[t].st # "open"
          BY <1>0, <1>3, BackendCrashEffect DEF FreshSession
      <2>2. rsess' = rsess
          BY <1>3 DEF BackendCrash
      <2> QED BY <1>0, <2>1, <2>2 DEF FreshInv
  <1>4. ASSUME NEW s \in Sessions, Runner(s) PROVE FreshInv'
      <2>1. CASE Connect(s)
          <3>1. rsess' = s /\ sess'[s].st = "dialled" /\ Others(s) /\ FreshSession(sess'[s])
              BY <1>0, <2>1, ConnectEffect DEF Connect, FreshSession
          <3> QED BY <1>0, <3>1 DEF FreshInv, Others
      <2>2. CASE Attach(s)
          <3>1. Others(s) /\ SameBack(sess'[s], sess[s]) /\ SameEnd(sess'[s], sess[s])
                /\ UNCHANGED <<rsess, rboot, knownBoot, conn>>
              BY <1>0, <2>2, AttachEffect DEF Attach
          <3> QED BY <1>0, <3>1, FreshKept DEF SameBack, SameEnd, FreshSession
      <2>3. CASE Abandon(s)
          <3>1. rsess' = 0
              BY <2>3 DEF Abandon
          <3>2. \A t \in Sessions : FreshSession(sess'[t])
              BY <1>0, <2>3, AbandonEffect DEF Others, SameEnd, FreshSession
          <3> QED BY <3>1, <3>2 DEF FreshInv
      <2>4. CASE RunnerReceive(s) \/ RunnerSendAck(s)
          <3>1. BackKept
              BY <1>0, <2>4, DownSteps
          <3>2. UNCHANGED <<rsess, rboot, knownBoot, conn>>
              BY <2>4 DEF RunnerReceive, RunnerSendAck
          <3> QED BY <1>0, <3>1, <3>2 DEF BackKept, SameBack, SameEnd, FreshSession, FreshInv
      <2>5. CASE RunnerReceiveAck(s)
          <3>1. Others(s) /\ SameEnd(sess'[s], sess[s]) /\ UNCHANGED <<rsess, rboot, knownBoot, conn>>
              BY <1>0, <2>5, ReceiveAckEffect DEF RunnerReceiveAck
          <3>2. FreshSession(sess'[s])
              BY <1>0, <2>5, ReceiveAckEffect DEF SameEnd, FreshSession
          <3> QED BY <1>0, <3>1, <3>2, FreshKept DEF SameEnd
      <2>6. CASE RunnerSend(s)
          <3>1. Others(s) /\ SameEnd(sess'[s], sess[s]) /\ UNCHANGED <<rsess, rboot, knownBoot, conn>>
              BY <1>0, <2>6, SendEffect DEF RunnerSend
          <3>2. sess[s].st \in {"open", "closed"}
              BY <1>0, <2>6 DEF RunnerSend, SessionInv
          <3>3. FreshSession(sess'[s])
              BY <1>0, <3>1, <3>2 DEF SameEnd, FreshSession
          <3> QED BY <1>0, <3>1, <3>3, FreshKept DEF SameEnd
      <2> QED BY <1>4, <2>1, <2>2, <2>3, <2>4, <2>5, <2>6 DEF Runner
  <1>5. ASSUME NEW s \in Sessions, Hub(s) PROVE FreshInv'
      <2>1. CASE BackendSend(s) \/ BackendReceiveAck(s)
          <3>1. BackKept
              BY <1>0, <2>1, DownSteps
          <3>2. UNCHANGED <<rsess, rboot, knownBoot, conn>>
              BY <2>1 DEF BackendSend, BackendReceiveAck
          <3> QED BY <1>0, <3>1, <3>2 DEF BackKept, SameBack, SameEnd, FreshSession, FreshInv
      <2>2. CASE BackendSendAck(s) \/ Take(s)
          <3>1. Others(s) /\ SameEnd(sess'[s], sess[s])
              BY <1>0, <2>2, SendAckEffect, TakeEffect
          <3>2. conn = s /\ UNCHANGED <<rsess, rboot, knownBoot, conn>>
              BY <2>2 DEF BackendSendAck, Take
          <3>3. sess[s].st = "open"
              BY <1>0, <3>2 DEF SessionInv
          <3>4. FreshSession(sess'[s])
              BY <3>1, <3>3 DEF SameEnd, FreshSession
          <3> QED BY <1>0, <3>1, <3>2, <3>4, FreshKept DEF SameEnd
      <2>3. CASE CheckFinalized(s)
          <3>1. Others(s) /\ UNCHANGED <<rsess, rboot, knownBoot, conn>>
              BY <1>0, <2>3, CheckEffect DEF CheckFinalized
          <3>2. FreshSession(sess'[s]) /\ sess'[s].st = "checked"
              BY <1>0, <2>3, CheckEffect DEF SameBack, FreshSession
          <3> QED BY <1>0, <3>1, <3>2, FreshKept
      <2>4. CASE Register(s)
          <3>1. /\ Others(s) /\ sess'[s].st = "open" /\ conn' = s /\ knownBoot' = sess[s].reg.boot
                /\ UNCHANGED <<rsess, rboot>>
              BY <1>0, <2>4, RegisterEffect DEF Register
          <3>2. sess[s].st = "checked" /\ \A t \in Sessions : t > s => sess[t].st # "open"
              BY <2>4 DEF Register
          <3>3. \A t \in Sessions : FreshSession(sess'[t])
              BY <1>0, <3>1 DEF Others, FreshSession
          <3>4. ASSUME rsess # 0, sess'[rsess].st = "open" PROVE rsess = s
              <4>1. s <= rsess
                  BY <1>0, <3>2, <3>4 DEF SessionInv
              <4>2. ~(rsess > s)
                  BY <1>0, <3>1, <3>2, <3>4 DEF Others
              <4> QED BY <1>0, <3>4, <4>1, <4>2
          <3>5. rsess = s => sess[s].reg.boot = rboot
              BY <1>0, <3>2 DEF BootInv
          <3> QED BY <3>1, <3>3, <3>4, <3>5 DEF FreshInv
      <2>5. CASE Detach(s) \/ MarkFailed(s)
          <3>1. /\ Others(s) /\ sess'[s].st = sess[s].st /\ ~sess'[s].live
                /\ sess'[s].up = {} /\ sess'[s].ackSeq = 0 /\ sess'[s].hnd \in {sess[s].hnd, Idle}
                /\ sess'[s].rsent = sess[s].rsent /\ sess'[s].downAck = sess[s].downAck
                /\ conn' = IF conn = s THEN 0 ELSE conn
              BY <1>0, <2>5, DetachEffect
          <3>2. UNCHANGED <<rsess, rboot, knownBoot>>
              BY <2>5 DEF Detach, MarkFailed
          <3>3. FreshSession(sess'[s])
              BY <1>0, <3>1 DEF FreshSession
          <3> QED BY <1>0, <3>1, <3>2, <3>3, FreshKept
      <2>6. CASE ApplyHeartbeat(s) \/ ApplyOutput(s) \/ MarkFinalized(s) \/ Deliver(s) \/ Commit(s)
          <3>1. Others(s) /\ SameEnd(sess'[s], sess[s]) /\ sess[s].hnd # Idle
              BY <1>0, <2>6, ApplyEffect, CommitEffect
          <3>2. UNCHANGED <<rsess, rboot, knownBoot, conn>>
              BY <2>6 DEF ApplyHeartbeat, ApplyOutput, MarkFinalized, Deliver, Commit
          <3>3. FreshSession(sess'[s])
              BY <1>0, <3>1 DEF SameEnd, FreshSession
          <3> QED BY <1>0, <3>1, <3>2, <3>3, FreshKept DEF SameEnd
      <2> QED BY <1>5, <2>1, <2>2, <2>3, <2>4, <2>5, <2>6 DEF Hub
  <1> QED BY <1>1, <1>2, <1>3, <1>4, <1>5 DEF Next

-----------------------------------------------------------------------------
(* Steps that send no report on *)

\* The queue loses what is applied, or everything with its process.
RunnerKept ==
    \/ /\ UNCHANGED <<rnext, rboot>> /\ rqueue' \subseteq rqueue
       /\ \A m \in rqueue : m \in rqueue' \/ Applied(m)
    \/ rnext' = 0 /\ rqueue' = {} /\ rboot' > knownBoot' /\ rsess' = 0

\* The hub keeps its connection or loses it, and forgets the runner only with it.
HubKept ==
    \/ UNCHANGED <<highest, knownBoot>> /\ conn' \in {0, conn}
    \/ knownBoot' = 0 /\ conn' = 0

\* The connection holds what it held.
ConnKept == conn' # 0 =>
    /\ sess'[conn].up = sess[conn].up /\ sess'[conn].ackSeq = sess[conn].ackSeq
    /\ sess'[conn].hnd = Idle <=> sess[conn].hnd = Idle
    /\ sess[conn].hnd # Idle =>
          /\ sess'[conn].hnd.msg = sess[conn].hnd.msg
          /\ sess'[conn].hnd.step \in {"taken", "marked", "applied"} =>
                sess[conn].hnd.step \in {"taken", "marked", "applied"}

\* The runner keeps its position, and is acknowledged what the hub has counted;
\* or it starts anew, or has no session.
EndKept == rsess' # 0 =>
    \/ /\ rsess' = rsess /\ sess'[rsess].rsent = sess[rsess].rsent
       /\ \/ sess'[rsess].downAck \in {0, sess[rsess].downAck}
          \/ knownBoot = rboot /\ sess'[rsess].downAck <= highest
       /\ sess'[rsess].res \in {NoRes, sess[rsess].res}
    \/ /\ rsess' # conn' /\ sess'[rsess'].rsent = 0 /\ sess'[rsess'].downAck = 0
       /\ sess'[rsess'].res = NoRes

FlowKept == RunnerKept /\ HubKept /\ ConnKept /\ EndKept

LEMMA HoldsKept ==
    ASSUME HubKept, ConnKept, conn' # 0
    PROVE  conn' = conn /\ highest' = highest /\ \A m : Holds(conn, m)' <=> Holds(conn, m)
  BY DEF HubKept, ConnKept, Holds

LEMMA SameBoots ==
    ASSUME TypeOK', HubKept, RunnerKept, knownBoot' = rboot'
    PROVE  knownBoot = rboot /\ highest' = highest /\ rnext' = rnext
  BY DEF HubKept, RunnerKept, TypeOK

LEMMA NumberKept ==
    ASSUME LinkInv, TypeOK', NumberInv, FlowKept PROVE NumberInv'
  <1>0. TypeOK /\ RunnerKept /\ HubKept /\ ConnKept /\ EndKept
      BY DEF LinkInv, FlowKept
  <1>1. /\ \A m \in rqueue' : m.seq <= rnext'
        /\ \A m, o \in rqueue' : m.seq = o.seq => m = o
      BY <1>0 DEF NumberInv, RunnerKept
  <1>2. knownBoot' = rboot' => highest' <= rnext'
      BY <1>0, SameBoots DEF NumberInv
  <1>3. rsess' # 0 => sess'[rsess'].rsent <= rnext'
      BY <1>0 DEF NumberInv, EndKept, RunnerKept, TypeOK
  <1>4. conn' # 0 /\ knownBoot' = rboot' => \A m : Holds(conn, m)' => m.seq <= rnext'
      BY <1>0, SameBoots, HoldsKept DEF NumberInv
  <1> QED BY <1>1, <1>2, <1>3, <1>4 DEF NumberInv

LEMMA QueueKept ==
    ASSUME LinkInv, TypeOK', Settles, NumberInv, QueueInv, FlowKept PROVE QueueInv'
  <1>0. TypeOK /\ RunnerKept /\ HubKept /\ ConnKept /\ EndKept
      BY DEF LinkInv, FlowKept
  <1>1. \A m \in rqueue' : m \in rqueue /\ OnWay(m) /\ m.seq \in Nat
      BY <1>0, WaysAreMessages DEF RunnerKept, OnWay
  <1>2. \A m \in rqueue' : (Applied(m) => Applied(m)') /\ (Late(m)' => Late(m))
      BY <1>1, AppliedStays
  <1>3. knownBoot' = rboot' => \A m \in rqueue' : m.seq <= highest' => Applied(m)'
      BY <1>0, <1>1, <1>2, SameBoots DEF QueueInv
  <1>4. \A m \in rqueue' : Late(m)' => \E o \in rqueue' : Before(o, m)
      <2> SUFFICES ASSUME NEW m \in rqueue', Late(m) PROVE \E o \in rqueue' : Before(o, m)
          BY <1>2
      <2>1. PICK o \in rqueue : Before(o, m)
          BY <1>1 DEF QueueInv
      <2>2. ~Applied(o)
          BY <1>1, <2>1, BothExpected DEF OnWay
      <2> QED BY <1>0, <2>1, <2>2 DEF RunnerKept
  <1>5. ASSUME rsess' # 0
        PROVE  /\ sess'[rsess'].downAck <= rnext'
               /\ \A m \in rqueue' : m.seq <= sess'[rsess'].downAck => Applied(m)'
               /\ sess'[rsess'].res # NoRes =>
                    /\ sess'[rsess'].res.acked <= rnext'
                    /\ \A m \in rqueue' : m.seq <= sess'[rsess'].res.acked => Applied(m)'
      <2>1. rnext' = rnext /\ rnext \in Nat
          BY <1>0, <1>5 DEF RunnerKept, TypeOK
      <2>2. CASE rsess' = rsess /\ sess'[rsess].downAck \in {0, sess[rsess].downAck}
                 /\ sess'[rsess].res \in {NoRes, sess[rsess].res}
          <3>1. \A m \in rqueue' : m.seq # 0 /\ m.seq \in Nat
              BY <1>0, <1>1, WaysAreMessages
          <3> QED BY <1>1, <1>2, <1>5, <2>1, <2>2, <3>1 DEF QueueInv
      <2>3. CASE rsess' = rsess /\ knownBoot = rboot /\ sess'[rsess].downAck <= highest
                 /\ sess'[rsess].res \in {NoRes, sess[rsess].res}
          <3>1. sess'[rsess].downAck \in Nat /\ highest \in Nat
              BY <1>0, <1>5, <2>3 DEF TypeOK, Session
          <3>2. sess'[rsess'].downAck <= rnext'
              BY <2>1, <2>3, <3>1 DEF NumberInv
          <3>3. \A m \in rqueue' : m.seq <= sess'[rsess'].downAck => Applied(m)'
              BY <1>1, <1>2, <2>3, <3>1 DEF QueueInv
          <3> QED BY <1>1, <1>2, <1>5, <2>1, <2>3, <3>2, <3>3 DEF QueueInv
      <2>4. CASE sess'[rsess'].downAck = 0 /\ sess'[rsess'].res = NoRes
          <3>1. \A m \in rqueue' : m.seq # 0 /\ m.seq \in Nat
              BY <1>0, <1>1, WaysAreMessages
          <3> QED BY <2>1, <2>4, <3>1
      <2> QED BY <1>0, <1>5, <2>2, <2>3, <2>4 DEF EndKept
  <1> QED BY <1>3, <1>4, <1>5 DEF QueueInv

LEMMA StreamKept ==
    ASSUME LinkInv, TypeOK', Settles, StreamInv, FlowKept PROVE StreamInv'
  <1>0. TypeOK /\ RunnerKept /\ HubKept /\ ConnKept /\ EndKept
      BY DEF LinkInv, FlowKept
  <1> SUFFICES ASSUME conn' # 0
      PROVE /\ sess'[conn'].hnd # Idle => \A m \in sess'[conn'].up : sess'[conn'].hnd.msg.seq < m.seq
            /\ \A m, o \in sess'[conn'].up : m.seq = o.seq => m = o
            /\ sess'[conn'].hnd.step \in {"taken", "marked", "applied"} => sess'[conn'].hnd.msg.seq > highest'
            /\ sess'[conn'].ackSeq <= highest'
            /\ rsess' = conn' => \A m : Holds(conn, m)' => m.seq <= sess'[conn'].rsent
            /\ \A m : Holds(conn, m)' /\ Late(m)' => \E o : Holds(conn, o)' /\ Before(o, m)
            /\ \A m : Holds(conn, m)' /\ m.seq <= highest' => Applied(m)'
            /\ knownBoot' = rboot' =>
                  \A x, m : Holds(conn, x)' /\ m \in rqueue' /\ m.seq <= x.seq => Holds(conn, m)' \/ Applied(m)'
            /\ rsess' = conn' =>
                  \A m \in rqueue' : m.seq <= sess'[conn'].rsent => Holds(conn, m)' \/ Applied(m)'
      BY DEF StreamInv, Before
  <1>1. /\ conn' = conn /\ conn # 0 /\ conn \in Sessions /\ highest' = highest
        /\ \A m : Holds(conn, m)' <=> Holds(conn, m)
      BY <1>0, HoldsKept DEF TypeOK
  <1>2. \A m : Holds(conn, m) \/ m \in rqueue' => OnWay(m)
      BY <1>0, <1>1 DEF OnWay, RunnerKept
  <1>3. \A m : OnWay(m) => (Applied(m) => Applied(m)') /\ (Late(m)' => Late(m))
      BY AppliedStays
  <1>4. /\ sess'[conn].hnd # Idle => \A m \in sess'[conn].up : sess'[conn].hnd.msg.seq < m.seq
        /\ \A m, o \in sess'[conn].up : m.seq = o.seq => m = o
        /\ sess'[conn].ackSeq <= highest
      BY <1>0, <1>1 DEF StreamInv, ConnKept
  <1>5. sess'[conn].hnd.step \in {"taken", "marked", "applied"} => sess'[conn].hnd.msg.seq > highest
      <2>1. Idle.step = "none"
          BY DEF Idle
      <2> QED BY <1>0, <1>1, <2>1 DEF StreamInv, ConnKept
  <1>6. \A m : Holds(conn, m) /\ Late(m)' => \E o : Holds(conn, o) /\ Before(o, m)
      BY <1>1, <1>2, <1>3 DEF StreamInv
  <1>7. \A m : Holds(conn, m) /\ m.seq <= highest => Applied(m)'
      BY <1>1, <1>2, <1>3 DEF StreamInv
  <1>8. knownBoot' = rboot' =>
                  \A x, m : Holds(conn, x) /\ m \in rqueue' /\ m.seq <= x.seq => Holds(conn, m) \/ Applied(m)'
      <2> SUFFICES ASSUME knownBoot' = rboot', NEW x, NEW m, Holds(conn, x), m \in rqueue', m.seq <= x.seq
                   PROVE  Holds(conn, m) \/ Applied(m)'
          OBVIOUS
      <2>1. knownBoot = rboot /\ m \in rqueue
          BY <1>0, SameBoots DEF RunnerKept
      <2>2. Holds(conn, m) \/ Applied(m)
          BY <1>1, <2>1 DEF StreamInv
      <2> QED BY <1>2, <1>3, <2>2
  <1>9. rsess' = conn' => /\ rsess = conn /\ sess'[conn].rsent = sess[conn].rsent
      BY <1>0, <1>1 DEF EndKept
  <1>10. rsess' = conn' =>
            /\ \A m : Holds(conn, m) => m.seq <= sess'[conn].rsent
            /\ \A m \in rqueue' : m.seq <= sess'[conn].rsent => Holds(conn, m) \/ Applied(m)'
      <2> SUFFICES ASSUME rsess' = conn'
                   PROVE /\ \A m : Holds(conn, m) => m.seq <= sess[conn].rsent
                         /\ \A m \in rqueue' : m.seq <= sess[conn].rsent => Holds(conn, m) \/ Applied(m)'
          BY <1>9
      <2>1. \A m : Holds(conn, m) => m.seq <= sess[conn].rsent
          BY <1>1, <1>9 DEF StreamInv
      <2>2. \A m \in rqueue' : m \in rqueue
          BY <1>0 DEF RunnerKept
      <2>3. \A m \in rqueue' : m.seq <= sess[conn].rsent => Holds(conn, m) \/ Applied(m)
          BY <1>1, <1>9, <2>2 DEF StreamInv
      <2> QED BY <1>2, <1>3, <2>1, <2>3
  <1> QED BY <1>1, <1>4, <1>5, <1>6, <1>7, <1>8, <1>10

LEMMA SettlesStep == ASSUME LinkInv, [Next]_vars PROVE Settles
  <1> USE DEF hubVars, callerVars, linkVars, execVars
  <1>0. TypeOK /\ got \in [Runs -> Nat] /\ tracked \subseteq Runs
      BY DEF LinkInv, TypeOK
  <1>a. ASSUME tracked' \subseteq tracked, got' = got PROVE Settles
      BY <1>0, <1>a DEF Settles
  <1>1. ASSUME NEW r \in Runs, Dispatch(r) PROVE Settles
      <2>1. run[r] = "none"
          BY <1>1 DEF Dispatch, LinkInv, AgentInv, StartInv
      <2> QED BY <1>0, <1>1, <2>1 DEF Dispatch, Settles
  <1>2. ASSUME NEW s \in Sessions, ApplyOutput(s) PROVE Settles
      <2> DEFINE r == sess[s].hnd.msg.run
      <2>1. tracked' \subseteq tracked /\ (got' = got \/ got' = [got EXCEPT ![r] = @ + 1])
          BY <1>2 DEF ApplyOutput
      <2> HIDE DEF r
      <2>2. \A q \in Runs : got'[q] >= got[q]
          BY <1>0, <2>1
      <2> QED BY <2>1, <2>2 DEF Settles
  <1>3. CASE BackendCrash
      BY <1>3 DEF BackendCrash, Settles
  <1>4. CASE UNCHANGED vars \/ Executor \/ sendHeartbeat \/ RunnerCrash
      BY <1>a, <1>4 DEF vars, Executor, Output, Report, EndRun, sendHeartbeat, RunnerCrash
  <1>5. ASSUME NEW r \in Runs, Cancel(r) PROVE Settles
      BY <1>a, <1>5 DEF Cancel
  <1>6. ASSUME NEW s \in Sessions, Runner(s) PROVE Settles
      BY <1>a, <1>6 DEF Runner, Connect, Attach, Abandon, RunnerReceive, RunnerReceiveAck,
                        RunnerSend, RunnerSendAck
  <1>7. ASSUME NEW s \in Sessions, Hub(s), ~ApplyOutput(s) PROVE Settles
      BY <1>a, <1>7 DEF Hub, CheckFinalized, Register, Detach, BackendSend, BackendSendAck,
                  BackendReceiveAck, Take, ApplyHeartbeat, MarkFinalized, MarkFailed,
                  Deliver, Commit
  <1> QED BY <1>1, <1>2, <1>3, <1>4, <1>5, <1>6, <1>7 DEF Next, Caller

-----------------------------------------------------------------------------
(* Steps that send a report on *)

\* The runner queues a message behind all others; the one it waits for is there.
LEMMA FlowGrows ==
    ASSUME LinkInv, TypeOK', FlowInv, NEW d \in rqueue',
           rqueue' \subseteq rqueue \cup {d}, \A m \in rqueue : m \in rqueue' \/ Applied(m),
           d.seq = rnext + 1, rnext' = rnext + 1,
           UNCHANGED <<highest, knownBoot, conn, sess, rboot, rsess, tracked, got>>,
           Late(d) => \E o \in rqueue : Before(o, d)
    PROVE  FlowInv'
  <1>0. /\ TypeOK /\ NumberInv /\ StreamInv /\ QueueInv /\ rnext \in Nat
        /\ highest \in Nat
      BY DEF LinkInv, FlowInv, TypeOK
  <1>1. /\ \A m : Holds(conn, m)' <=> Holds(conn, m)
        /\ \A m : Applied(m)' <=> Applied(m)
        /\ \A m : Late(m)' <=> Late(m)
      BY DEF Holds, Applied, Late
  <1>2. /\ \A m \in rqueue : OnWay(m) /\ m.seq \in Nat /\ m.seq <= rnext
        /\ conn # 0 => \A m : Holds(conn, m) => OnWay(m) /\ m.seq \in Nat
      BY <1>0, WaysAreMessages DEF OnWay, NumberInv, TypeOK
  <1>3. NumberInv'
      <2>1. /\ \A m \in rqueue' : m.seq <= rnext'
            /\ \A m, o \in rqueue' : m.seq = o.seq => m = o
          BY <1>0, <1>2 DEF NumberInv
      <2>2. rsess' # 0 => sess'[rsess'].rsent <= rnext'
          BY <1>0 DEF NumberInv, TypeOK, Session
      <2>3. conn' # 0 /\ knownBoot' = rboot' => \A m : Holds(conn, m)' => m.seq <= rnext'
          BY <1>0, <1>1, <1>2 DEF NumberInv
      <2>4. knownBoot' = rboot' => highest' <= rnext'
          BY <1>0 DEF NumberInv
      <2> QED BY <2>1, <2>2, <2>3, <2>4 DEF NumberInv
  <1>4. StreamInv'
      <2> SUFFICES ASSUME conn # 0 PROVE StreamInv'
          BY DEF StreamInv
      <2>1. knownBoot = rboot =>
                \A x, m : Holds(conn, x) /\ m \in rqueue' /\ m.seq <= x.seq => Holds(conn, m) \/ Applied(m)
          <3> SUFFICES ASSUME knownBoot = rboot, NEW x, NEW m, Holds(conn, x), m \in rqueue', m.seq <= x.seq
                       PROVE  Holds(conn, m) \/ Applied(m)
              OBVIOUS
          <3>1. x.seq \in Nat /\ x.seq <= rnext
              BY <1>0, <1>2 DEF NumberInv
          <3>2. m \in rqueue
              BY <1>0, <3>1
          <3> QED BY <1>0, <3>2 DEF StreamInv
      <2>2. rsess = conn =>
                \A m \in rqueue' : m.seq <= sess[conn].rsent => Holds(conn, m) \/ Applied(m)
          <3> SUFFICES ASSUME rsess = conn, NEW m \in rqueue', m.seq <= sess[conn].rsent
                       PROVE  Holds(conn, m) \/ Applied(m)
              OBVIOUS
          <3>1. sess[conn].rsent \in Nat /\ sess[conn].rsent <= rnext
              BY <1>0 DEF NumberInv, TypeOK, Session
          <3>2. m \in rqueue
              BY <1>0, <3>1
          <3> QED BY <1>0, <3>2 DEF StreamInv
      <2> QED BY <1>0, <1>1, <2>1, <2>2 DEF StreamInv
  <1>5. QueueInv'
      <2>1. knownBoot' = rboot' => \A m \in rqueue' : m.seq <= highest' => Applied(m)'
          BY <1>0, <1>1 DEF QueueInv, NumberInv
      <2>2. \A m \in rqueue' : Late(m)' => \E o \in rqueue' : Before(o, m)
          <3> SUFFICES ASSUME NEW m \in rqueue', Late(m) PROVE \E o \in rqueue' : Before(o, m)
              BY <1>1
          <3>1. PICK o \in rqueue : Before(o, m)
              BY <1>0 DEF QueueInv
          <3>2. m.run \in tracked /\ got[m.run] \in Nat /\ m.n \in Nat /\ o.n \in Nat
              <4>1. m \in UpMsg
                  BY DEF TypeOK
              <4>2. m.n \in Nat
                  BY <4>1 DEF UpMsg, RunMsg, Heartbeat
              <4>3. m.run \in tracked /\ got[m.run] \in Nat
                  BY <1>0 DEF Late, TypeOK
              <4> QED BY <1>0, <1>2, <4>2, <4>3, WaysAreMessages
          <3>3. ~Applied(o)
              BY <3>1, <3>2 DEF Late, Before, Applied
          <3> QED BY <3>1, <3>3
      <2>3. ASSUME rsess # 0
            PROVE  /\ sess[rsess].downAck <= rnext'
                   /\ \A m \in rqueue' : m.seq <= sess[rsess].downAck => Applied(m)
          <3>1. sess[rsess].downAck \in Nat /\ sess[rsess].downAck <= rnext
              BY <1>0, <2>3 DEF QueueInv, TypeOK, Session
          <3> QED BY <1>0, <2>3, <3>1 DEF QueueInv
      <2>4. ASSUME rsess # 0, sess[rsess].res # NoRes
            PROVE  /\ sess[rsess].res.acked <= rnext'
                   /\ \A m \in rqueue' : m.seq <= sess[rsess].res.acked => Applied(m)
          <3>0. sess[rsess] \in Session
              BY <1>0, <2>4 DEF TypeOK
          <3>1. sess[rsess].res.acked \in Nat /\ sess[rsess].res.acked <= rnext
              BY <1>0, <2>4, <3>0 DEF QueueInv, Session
          <3> QED BY <1>0, <2>4, <3>1 DEF QueueInv
      <2> QED BY <1>1, <2>1, <2>2, <2>3, <2>4 DEF QueueInv
  <1> QED BY <1>3, <1>4, <1>5 DEF FlowInv

\* The runner sends the message after those it has sent.
LEMMA SendFlow ==
    ASSUME LinkInv, FreshInv, FlowInv, NEW s \in Sessions, RunnerSend(s) PROVE FlowInv'
  <1>0. /\ TypeOK /\ SessionInv /\ NumberInv /\ StreamInv /\ QueueInv
        /\ conn \in {0} \cup Sessions /\ s # 0
      BY RunnerLinkConstants DEF LinkInv, AgentInv, FlowInv, TypeOK
  <1>1. /\ rsess = s
        /\ UNCHANGED <<rnext, rqueue, highest, knownBoot, conn, rboot, rsess, tracked, got>>
      BY DEF RunnerSend, linkVars, hubVars
  <1>2. PICK d \in rqueue :
              /\ IsNextToSend(d, rqueue, sess[s].rsent)
              /\ sess'[s].rsent = d.seq
              /\ sess'[s].up = IF sess[s].live THEN sess[s].up \cup {d} ELSE {}
              /\ Others(s) /\ SameEnd(sess'[s], sess[s]) /\ sess'[s].res = sess[s].res
              /\ sess'[s].hnd = sess[s].hnd /\ sess'[s].ackSeq = sess[s].ackSeq
              /\ sess'[s].downAck = sess[s].downAck
      BY <1>0, SendEffect
  <1>3. \A m : (Applied(m)' <=> Applied(m)) /\ (Late(m)' <=> Late(m))
      BY <1>1 DEF Applied, Late
  <1>4. QueueInv'
      BY <1>0, <1>1, <1>2, <1>3 DEF QueueInv
  <1>5. CASE conn # s
      <2>1. conn # 0 => sess'[conn] = sess[conn] /\ \A m : Holds(conn, m)' <=> Holds(conn, m)
          BY <1>0, <1>1, <1>2, <1>5 DEF Others, Holds
      <2>2. NumberInv'
          BY <1>0, <1>1, <1>2, <2>1 DEF NumberInv
      <2>3. StreamInv'
          BY <1>0, <1>1, <1>3, <1>5, <2>1 DEF StreamInv
      <2> QED BY <1>4, <2>2, <2>3 DEF FlowInv
  <1>6. CASE conn = s
      <2>1. sess[s].live /\ sess[s].st = "open" /\ knownBoot = rboot
          BY <1>0, <1>1, <1>6 DEF SessionInv, FreshInv
      <2>2. \A m : Holds(conn, m)' <=> Holds(conn, m) \/ m = d
          BY <1>1, <1>2, <1>6, <2>1 DEF Holds
      <2>3. sess[s].rsent \in Nat /\ d.seq \in Nat /\ d.seq > sess[s].rsent
            /\ \A m \in rqueue : m.seq > sess[s].rsent => d.seq <= m.seq
          <3>1. sess[s].rsent \in Nat
              BY <1>0 DEF TypeOK, Session
          <3>2. d.seq \in Nat
              BY <1>0, WaysAreMessages DEF OnWay
          <3> QED BY <1>2, <3>1, <3>2 DEF IsNextToSend, IsFirst, Trim
      <2>4. \A m : Holds(conn, m) \/ m \in rqueue => OnWay(m) /\ m.seq \in Nat
          BY <1>0, <1>6, WaysAreMessages DEF OnWay
      <2>5. \A m : Holds(conn, m) => m.seq <= sess[s].rsent
          BY <1>0, <1>1, <1>6 DEF StreamInv
      <2>6. NumberInv'
          <3>1. \A m : Holds(conn, m)' => m.seq <= rnext'
              BY <1>0, <1>1, <1>6, <2>1, <2>2 DEF NumberInv
          <3>2. sess'[s].rsent <= rnext'
              BY <1>0, <1>1, <1>2 DEF NumberInv
          <3> QED BY <1>0, <1>1, <3>1, <3>2 DEF NumberInv
      <2>7. \A m \in rqueue : m.seq <= d.seq => m.seq <= sess[s].rsent \/ m = d
          BY <1>0, <2>3, <2>4 DEF NumberInv
      <2>8. \A m \in rqueue : m.seq <= d.seq => Holds(conn, m)' \/ Applied(m)'
          BY <1>0, <1>1, <1>3, <1>6, <2>2, <2>7 DEF StreamInv
      <2>9. /\ sess'[s].hnd # Idle => \A m \in sess'[s].up : sess'[s].hnd.msg.seq < m.seq
            /\ \A m, o \in sess'[s].up : m.seq = o.seq => m = o
          <3>1. \A m \in sess[s].up : Holds(conn, m)
              BY <1>6 DEF Holds
          <3>2. sess[s].hnd # Idle => Holds(conn, sess[s].hnd.msg)
              BY <1>6 DEF Holds
          <3>3. \A m \in sess[s].up : m.seq < d.seq
              BY <2>3, <2>4, <2>5, <3>1
          <3>4. sess[s].hnd # Idle => sess[s].hnd.msg.seq < d.seq
              BY <2>3, <2>4, <2>5, <3>2
          <3>5. sess'[s].up = sess[s].up \cup {d}
              BY <1>2, <2>1
          <3>6. sess[s].hnd # Idle => \A m \in sess'[s].up : sess[s].hnd.msg.seq < m.seq
              BY <1>0, <1>6, <3>4, <3>5 DEF StreamInv
          <3>7. \A m, o \in sess'[s].up : m.seq = o.seq => m = o
              BY <1>0, <1>6, <2>3, <2>4, <3>1, <3>3, <3>5 DEF StreamInv
          <3> QED BY <1>2, <3>6, <3>7
      <2>10. \A m : Holds(conn, m)' => m.seq <= sess'[s].rsent
          BY <1>2, <2>2, <2>3, <2>4, <2>5
      <2>11. \A m : Holds(conn, m)' /\ Late(m)' => \E o : Holds(conn, o)' /\ Before(o, m)
          <3> SUFFICES ASSUME NEW m, Holds(conn, m) \/ m = d, Late(m) PROVE \E o : Holds(conn, o)' /\ Before(o, m)
              BY <1>3, <2>2
          <3>1. CASE Holds(conn, m)
              BY <1>0, <1>6, <2>2, <3>1 DEF StreamInv
          <3>2. CASE m = d
              <4>1. PICK o \in rqueue : Before(o, d)
                  BY <1>0, <3>2 DEF QueueInv
              <4>2. ~Applied(o)
                  BY <1>2, <3>2, <4>1, BothExpected DEF OnWay
              <4>3. o.seq <= d.seq
                  BY <2>3, <2>4, <4>1 DEF Before
              <4> QED BY <1>3, <2>8, <3>2, <4>1, <4>2, <4>3
          <3> QED BY <3>1, <3>2
      <2>12. \A m : Holds(conn, m)' /\ m.seq <= highest' => Applied(m)'
          BY <1>0, <1>1, <1>3, <1>6, <2>1, <2>2 DEF StreamInv, QueueInv
      <2>13. \A x, m : Holds(conn, x)' /\ m \in rqueue /\ m.seq <= x.seq => Holds(conn, m)' \/ Applied(m)'
          BY <1>0, <1>3, <1>6, <2>1, <2>2, <2>8 DEF StreamInv
      <2>14. \A m \in rqueue : m.seq <= sess'[s].rsent => Holds(conn, m)' \/ Applied(m)'
          BY <1>2, <2>8
      <2>15. /\ sess'[s].hnd.step \in {"taken", "marked", "applied"} => sess'[s].hnd.msg.seq > highest'
             /\ sess'[s].ackSeq <= highest'
          BY <1>0, <1>1, <1>2, <1>6 DEF StreamInv
      <2>16. StreamInv'
          BY <1>1, <1>6, <2>9, <2>10, <2>11, <2>12, <2>13, <2>14, <2>15 DEF StreamInv
      <2> QED BY <1>4, <2>6, <2>16 DEF FlowInv
  <1> QED BY <1>5, <1>6

\* The hub takes the first message.
LEMMA TakeFlow ==
    ASSUME LinkInv, FlowInv, NEW s \in Sessions, Take(s) PROVE FlowInv'
  <1>0. /\ TypeOK /\ NumberInv /\ StreamInv /\ QueueInv
        /\ conn = s /\ s # 0 /\ sess[s].hnd = Idle /\ rsess \in {0} \cup Sessions /\ highest \in Nat
      BY RunnerLinkConstants DEF LinkInv, FlowInv, TypeOK, Take
  <1>1. UNCHANGED <<rnext, rqueue, highest, knownBoot, conn, rboot, rsess, tracked, got>>
      BY DEF Take, linkVars, hubVars
  <1>2. PICK d \in sess[s].up :
              /\ IsFirst(d, sess[s].up)
              /\ sess'[s].up = sess[s].up \ {d}
              /\ sess'[s].hnd # Idle /\ sess'[s].hnd.msg = d
              /\ sess'[s].hnd.step = IF d.seq <= highest THEN "dup" ELSE "taken"
              /\ Others(s) /\ SameEnd(sess'[s], sess[s]) /\ sess'[s].res = sess[s].res
              /\ sess'[s].rsent = sess[s].rsent /\ sess'[s].ackSeq = sess[s].ackSeq
              /\ sess'[s].downAck = sess[s].downAck
      BY <1>0, TakeEffect
  <1>3. \A m : (Applied(m)' <=> Applied(m)) /\ (Late(m)' <=> Late(m))
      BY <1>1 DEF Applied, Late
  <1>4. \A m : Holds(conn, m)' <=> Holds(conn, m)
      BY <1>0, <1>1, <1>2 DEF Holds
  <1>5. /\ \A t \in Sessions : /\ sess'[t].rsent = sess[t].rsent /\ sess'[t].res = sess[t].res
                               /\ sess'[t].downAck = sess[t].downAck /\ sess'[t].ackSeq = sess[t].ackSeq
      BY <1>2 DEF Others
  <1>6. NumberInv' /\ QueueInv'
      <2>1. NumberInv'
          BY <1>0, <1>1, <1>4, <1>5 DEF NumberInv
      <2>2. QueueInv'
          BY <1>0, <1>1, <1>3, <1>5 DEF QueueInv
      <2> QED BY <2>1, <2>2
  <1>7. \A m \in sess[s].up : m.seq \in Nat
      BY <1>0, WaysAreMessages DEF OnWay, Holds
  <1>8. /\ \A m \in sess'[s].up : sess'[s].hnd.msg.seq < m.seq
        /\ \A m, o \in sess'[s].up : m.seq = o.seq => m = o
      BY <1>0, <1>2, <1>7 DEF StreamInv, IsFirst
  <1>9. /\ sess'[s].hnd.step \in {"taken", "marked", "applied"} => sess'[s].hnd.msg.seq > highest
      BY <1>0, <1>2, <1>7
  <1>10. StreamInv'
      BY <1>0, <1>1, <1>3, <1>4, <1>5, <1>8, <1>9 DEF StreamInv
  <1> QED BY <1>6, <1>10 DEF FlowInv

\* The hub counts a message that is applied.
LEMMA CommitFlow ==
    ASSUME LinkInv, TypeOK', FlowInv, HandlerInv, NEW s \in Sessions, conn = s, Commit(s) PROVE FlowInv'
  <1>0. /\ TypeOK /\ NumberInv /\ StreamInv /\ QueueInv /\ s # 0
        /\ rsess \in {0} \cup Sessions /\ highest \in Nat /\ highest' \in Nat
        /\ sess[s] \in Session /\ sess[s].live
      BY RunnerLinkConstants DEF LinkInv, AgentInv, SessionInv, FlowInv, TypeOK
  <1>1. /\ UNCHANGED <<rnext, rqueue, knownBoot, conn, rboot, rsess, tracked, got>>
        /\ sess[s].hnd.step \in {"applied", "dup"}
        /\ highest' = IF sess[s].hnd.step = "applied" THEN sess[s].hnd.msg.seq ELSE highest
      BY DEF Commit, linkVars, hubVars
  <1>2. /\ Others(s) /\ SameEnd(sess'[s], sess[s]) /\ sess'[s].res = sess[s].res
        /\ sess'[s].up = sess[s].up /\ sess'[s].hnd = Idle
        /\ sess'[s].ackSeq = highest'
        /\ sess'[s].rsent = sess[s].rsent /\ sess'[s].downAck = sess[s].downAck
        /\ sess[s].hnd # Idle
      BY <1>0, CommitEffect
  <1> DEFINE d == sess[s].hnd.msg
  <1>3. \A m : (Applied(m)' <=> Applied(m)) /\ (Late(m)' <=> Late(m))
      BY <1>1 DEF Applied, Late
  <1>4. Holds(conn, d) /\ Applied(d) /\ OnWay(d) /\ d.seq \in Nat /\ d.seq \in Nat \ {0}
      <2>1. Holds(conn, d) /\ OnWay(d)
          BY <1>2 DEF Holds, OnWay
      <2>2. Applied(d)
          BY <1>1, <1>2 DEF HandlerInv
      <2> QED BY <1>0, <2>1, <2>2, WaysAreMessages
  <1>5. highest' >= highest /\ (highest' = highest \/ (sess[s].hnd.step = "applied" /\ highest' = d.seq))
      <2>1. sess[s].hnd.step = "applied" => d.seq > highest
          BY <1>0 DEF StreamInv
      <2> QED BY <1>0, <1>1, <1>4, <2>1
  <1>6. \A m \in sess[s].up : d.seq < m.seq /\ Holds(conn, m) /\ OnWay(m) /\ m.seq \in Nat
      <2>1. \A m \in sess[s].up : d.seq < m.seq
          BY <1>0, <1>2 DEF StreamInv
      <2>2. \A m \in sess[s].up : Holds(conn, m) /\ OnWay(m)
          BY DEF Holds, OnWay
      <2> QED BY <1>0, <2>1, <2>2, WaysAreMessages
  <1>7. \A m : Holds(conn, m)' <=> m \in sess[s].up
      BY <1>1, <1>2 DEF Holds
  <1>8. \A m : Holds(conn, m) => m = d \/ m \in sess[s].up
      BY DEF Holds
  <1>9. \A t \in Sessions : /\ sess'[t].rsent = sess[t].rsent /\ sess'[t].res = sess[t].res
                            /\ sess'[t].downAck = sess[t].downAck
      BY <1>2 DEF Others
  <1> HIDE DEF d
  <1>10. NumberInv'
      <2>1. knownBoot = rboot => d.seq <= rnext
          BY <1>0, <1>4 DEF NumberInv
      <2>2. knownBoot' = rboot' => highest' <= rnext'
          BY <1>0, <1>1, <1>5, <2>1 DEF NumberInv
      <2>3. \A m : Holds(conn, m)' => Holds(conn, m)
          BY <1>6, <1>7
      <2> QED BY <1>0, <1>1, <1>9, <2>2, <2>3 DEF NumberInv
  <1>11. QueueInv'
      <2>1. knownBoot = rboot => \A m \in rqueue : m.seq <= highest' => Applied(m)
          <3> SUFFICES ASSUME knownBoot = rboot, NEW m \in rqueue, m.seq <= highest' PROVE Applied(m)
              OBVIOUS
          <3>0. m.seq \in Nat
              BY <1>0, WaysAreMessages DEF OnWay
          <3>1. CASE highest' = highest
              BY <1>0, <3>1 DEF QueueInv
          <3>2. CASE highest' = d.seq
              <4>1. Holds(conn, m) \/ Applied(m)
                  BY <1>0, <1>4, <3>2 DEF StreamInv
              <4>2. m \notin sess[s].up
                  BY <1>4, <1>6, <3>0, <3>2
              <4> QED BY <1>4, <1>8, <4>1, <4>2
          <3> QED BY <1>5, <3>1, <3>2
      <2> QED BY <1>0, <1>1, <1>3, <1>9, <2>1 DEF QueueInv
  <1>12. StreamInv'
      <2>1. \A m : Holds(conn, m)' /\ Late(m)' => \E o : Holds(conn, o)' /\ Before(o, m)
          <3> SUFFICES ASSUME NEW m \in sess[s].up, Late(m) PROVE \E o \in sess[s].up : Before(o, m)
              BY <1>3, <1>7
          <3>1. PICK o : Holds(conn, o) /\ Before(o, m)
              BY <1>0, <1>6 DEF StreamInv
          <3>2. ~Applied(o)
              BY <1>0, <1>6, <3>1, BothExpected DEF OnWay
          <3> QED BY <1>4, <1>8, <3>1, <3>2
      <2>2. \A m : Holds(conn, m)' /\ m.seq <= highest' => Applied(m)'
          <3> SUFFICES ASSUME NEW m \in sess[s].up, m.seq <= highest' PROVE Applied(m)
              BY <1>3, <1>7
          <3>1. m.seq <= highest
              BY <1>0, <1>4, <1>5, <1>6
          <3> QED BY <1>0, <1>6, <3>1 DEF StreamInv
      <2>3. knownBoot = rboot =>
                \A x, m : Holds(conn, x)' /\ m \in rqueue /\ m.seq <= x.seq => Holds(conn, m)' \/ Applied(m)
          <3> SUFFICES ASSUME knownBoot = rboot, NEW x \in sess[s].up, NEW m \in rqueue, m.seq <= x.seq
                       PROVE  m \in sess[s].up \/ Applied(m)
              BY <1>7
          <3>1. Holds(conn, m) \/ Applied(m)
              BY <1>0, <1>6 DEF StreamInv
          <3> QED BY <1>4, <1>8, <3>1
      <2>4. rsess = conn =>
              /\ \A m : Holds(conn, m)' => m.seq <= sess[s].rsent
              /\ \A m \in rqueue : m.seq <= sess[s].rsent => Holds(conn, m)' \/ Applied(m)
          <3> SUFFICES ASSUME rsess = conn
              PROVE /\ \A m \in sess[s].up : m.seq <= sess[s].rsent
                    /\ \A m \in rqueue : m.seq <= sess[s].rsent => m \in sess[s].up \/ Applied(m)
              BY <1>7
          <3>1. \A m \in sess[s].up : m.seq <= sess[s].rsent
              BY <1>0, <1>6 DEF StreamInv
          <3>2. \A m \in rqueue : m.seq <= sess[s].rsent => Holds(conn, m) \/ Applied(m)
              BY <1>0 DEF StreamInv
          <3> QED BY <1>4, <1>8, <3>1, <3>2
      <2>5. /\ \A m, o \in sess'[s].up : m.seq = o.seq => m = o
            /\ sess'[s].hnd = Idle /\ sess'[s].hnd.step \notin {"taken", "marked", "applied"}
            /\ sess'[s].ackSeq <= highest'
          BY <1>0, <1>2 DEF StreamInv, Idle
      <2> QED BY <1>0, <1>1, <1>2, <1>3, <1>9, <2>1, <2>2, <2>3, <2>4, <2>5 DEF StreamInv
  <1> QED BY <1>10, <1>11, <1>12 DEF FlowInv

\* A new connection starts empty; what the hub has counted of this runner stays.
LEMMA RegisterFlow ==
    ASSUME LinkInv, TypeOK', FreshInv, FlowInv, ~RegisterRace, NEW s \in Sessions, Register(s)
    PROVE  FlowInv'
  <1>0. /\ TypeOK /\ NumberInv /\ StreamInv /\ QueueInv /\ s # 0 /\ BootInv
        /\ rsess \in {0} \cup Sessions /\ highest \in Nat /\ rnext \in Nat
        /\ sess[s] \in Session /\ FreshSession(sess[s])
      BY RunnerLinkConstants DEF LinkInv, AgentInv, FlowInv, TypeOK, FreshInv
  <1>1. /\ UNCHANGED <<rnext, rqueue, rboot, rsess, got>> /\ tracked' \subseteq tracked
        /\ conn' = s /\ knownBoot' = sess[s].reg.boot
        /\ highest' = IF knownBoot # knownBoot' THEN 0 ELSE highest
        /\ sess[s].st = "checked"
      BY DEF Register, linkVars, hubVars
  <1>2. /\ Others(s) /\ SameBack(sess'[s], sess[s])
        /\ sess'[s].res # NoRes => rsess = s /\ sess'[s].res.acked = highest'
      BY <1>0, RegisterEffect
  <1>3. \A m : (Applied(m) => Applied(m)') /\ (Late(m)' => Late(m))
      BY <1>1 DEF Applied, Late
  <1>4. /\ sess'[s].up = {} /\ sess'[s].hnd = Idle /\ sess'[s].ackSeq = 0 /\ sess'[s].rsent = 0
        /\ sess'[s].hnd.step = "none"
      BY <1>0, <1>1, <1>2 DEF SameBack, FreshSession, Idle
  <1>5. \A m : ~Holds(conn, m)'
      BY <1>1, <1>4 DEF Holds
  <1>6. \A m \in rqueue : m.seq \in Nat \ {0}
      BY <1>0, WaysAreMessages DEF OnWay
  <1>7. knownBoot' = rboot => highest' = 0 \/ (highest' = highest /\ knownBoot = rboot)
      BY <1>1
  <1>8. \A t \in Sessions : sess'[t].rsent = sess[t].rsent /\ sess'[t].downAck = sess[t].downAck
      BY <1>2 DEF Others, SameBack
  <1>9. knownBoot' = rboot => highest' <= rnext /\ \A m \in rqueue : m.seq <= highest' => Applied(m)'
      <2> SUFFICES ASSUME knownBoot' = rboot PROVE highest' <= rnext /\ \A m \in rqueue : m.seq <= highest' => Applied(m)'
          OBVIOUS
      <2>1. CASE highest' = 0
          BY <1>0, <1>6, <2>1
      <2>2. CASE highest' = highest /\ knownBoot = rboot
          BY <1>0, <1>3, <2>2 DEF NumberInv, QueueInv
      <2> QED BY <1>7, <2>1, <2>2
  <1>10. NumberInv'
      BY <1>0, <1>1, <1>5, <1>8, <1>9 DEF NumberInv
  <1>11. StreamInv'
      <2>1. \A m \in rqueue : ~(m.seq <= 0)
          BY <1>6
      <2>2. 0 <= highest'
          BY DEF TypeOK
      <2> QED BY <1>1, <1>4, <1>5, <2>1, <2>2 DEF StreamInv
  <1>12. QueueInv'
      <2>1. \A m \in rqueue : Late(m)' => \E o \in rqueue : Before(o, m)
          BY <1>0, <1>3 DEF QueueInv
      <2>2. ASSUME rsess # 0
            PROVE  /\ sess'[rsess].downAck <= rnext
                   /\ \A m \in rqueue : m.seq <= sess'[rsess].downAck => Applied(m)'
          BY <1>0, <1>3, <1>8, <2>2 DEF QueueInv
      <2>3. ASSUME rsess # 0, sess'[rsess].res # NoRes
            PROVE  /\ sess'[rsess].res.acked <= rnext
                   /\ \A m \in rqueue : m.seq <= sess'[rsess].res.acked => Applied(m)'
          <3>1. CASE rsess = s
              <4>1. knownBoot' = rboot
                  BY <1>0, <1>1, <2>3, <3>1 DEF BootInv
              <4> QED BY <1>2, <1>9, <2>3, <3>1, <4>1
          <3>2. CASE rsess # s
              <4>1. sess'[rsess] = sess[rsess]
                  BY <1>0, <1>2, <2>3, <3>2 DEF Others
              <4> QED BY <1>0, <1>3, <2>3, <4>1 DEF QueueInv
          <3> QED BY <3>1, <3>2
      <2> QED BY <1>1, <1>9, <2>1, <2>2, <2>3 DEF QueueInv
  <1> QED BY <1>10, <1>11, <1>12 DEF FlowInv

LEMMA FlowStays ==
    ASSUME LinkInv, TypeOK', Settles, FlowInv, FlowKept PROVE FlowInv'
  BY NumberKept, QueueKept, StreamKept DEF FlowInv

\* Steps that move no report.
LEMMA FlowRunner ==
    ASSUME LinkInv, TypeOK', Settles, FreshInv, FlowInv, NEW s \in Sessions, Runner(s), ~RunnerSend(s)
    PROVE  FlowInv'
  <1> USE DEF hubVars, linkVars
  <1>0. /\ TypeOK /\ SessionInv /\ s # 0 /\ rsess \in {0} \cup Sessions /\ conn \in {0} \cup Sessions
        /\ NumberInv /\ QueueInv
      BY RunnerLinkConstants DEF LinkInv, AgentInv, TypeOK, FlowInv
  <1>a. ASSUME rqueue' \subseteq rqueue, \A m \in rqueue : m \in rqueue' \/ Applied(m),
               UNCHANGED <<rnext, rboot, highest, knownBoot, conn>>,
               conn # 0 => sess'[conn].up = sess[conn].up /\ sess'[conn].ackSeq = sess[conn].ackSeq
                           /\ sess'[conn].hnd = sess[conn].hnd,
               EndKept
        PROVE  FlowInv'
      <2>1. FlowKept
          BY <1>a DEF FlowKept, RunnerKept, HubKept, ConnKept
      <2> QED BY <2>1, FlowStays
  <1>1. CASE Connect(s)
      <2>1. UNCHANGED <<rqueue, rnext, rboot, highest, knownBoot, conn>> /\ rsess' = s /\ sess[s].st = "unused"
          BY <1>1 DEF Connect
      <2>2. conn # s
          BY <1>0, <2>1 DEF SessionInv
      <2>3. conn # 0 => sess'[conn] = sess[conn]
          BY <1>0, <1>1, <2>2, ConnectEffect DEF Others
      <2>4. sess'[s].rsent = 0 /\ sess'[s].downAck = 0 /\ sess'[s].res = NoRes
          BY <1>0, <1>1, ConnectEffect
      <2>5. EndKept
          BY <2>1, <2>2, <2>4 DEF EndKept
      <2> QED BY <1>a, <2>1, <2>3, <2>5
  <1>2. CASE Attach(s)
      <2>1. /\ UNCHANGED <<rnext, rboot, highest, knownBoot, conn, rsess>> /\ rsess = s
            /\ rqueue' = Trim(rqueue, sess[s].res.acked) /\ sess[s].res # NoRes
          BY <1>2 DEF Attach
      <2>2. /\ Others(s) /\ SameBack(sess'[s], sess[s]) /\ sess'[s].res = NoRes
          BY <1>0, <1>2, AttachEffect
      <2>3. rqueue' \subseteq rqueue /\ \A m \in rqueue : m \in rqueue' \/ Applied(m)
          <3>1. \A m \in rqueue : m.seq \in Nat
              BY <1>0, WaysAreMessages DEF OnWay
          <3>2. sess[s].res.acked \in Nat
              <4>1. sess[s] \in Session
                  BY <1>0 DEF TypeOK
              <4> QED BY <2>1, <4>1 DEF Session
          <3> QED BY <1>0, <2>1, <3>1, <3>2 DEF Trim, QueueInv
      <2>4. EndKept
          BY <2>1, <2>2 DEF EndKept, SameBack
      <2>5. conn # 0 => sess'[conn].up = sess[conn].up /\ sess'[conn].ackSeq = sess[conn].ackSeq
                        /\ sess'[conn].hnd = sess[conn].hnd
          BY <1>0, <2>2 DEF Others, SameBack
      <2> QED BY <1>a, <2>1, <2>3, <2>4, <2>5
  <1>3. CASE Abandon(s)
      <2>1. UNCHANGED <<rqueue, rnext, rboot, highest, knownBoot, conn>> /\ rsess' = 0
          BY <1>3 DEF Abandon
      <2>2. EndKept
          BY <2>1 DEF EndKept
      <2>3. conn # 0 => sess'[conn].up = sess[conn].up /\ sess'[conn].ackSeq = sess[conn].ackSeq
                        /\ sess'[conn].hnd = sess[conn].hnd
          BY <1>0, <1>3, AbandonEffect DEF Others
      <2> QED BY <1>a, <2>1, <2>2, <2>3
  <1>4. CASE RunnerReceive(s) \/ RunnerSendAck(s)
      <2>1. UNCHANGED <<rqueue, rnext, rboot, highest, knownBoot, conn, rsess>>
          BY <1>4 DEF RunnerReceive, RunnerSendAck
      <2>2. BackKept
          BY <1>0, <1>4, DownSteps
      <2>3. EndKept
          BY <1>0, <2>1, <2>2 DEF EndKept, BackKept, SameBack
      <2>4. conn # 0 => sess'[conn].up = sess[conn].up /\ sess'[conn].ackSeq = sess[conn].ackSeq
                        /\ sess'[conn].hnd = sess[conn].hnd
          BY <1>0, <2>2 DEF BackKept, SameBack
      <2> QED BY <1>a, <2>1, <2>3, <2>4
  <1>5. CASE RunnerReceiveAck(s)
      <2>1. /\ UNCHANGED <<rnext, rboot, highest, knownBoot, conn, rsess>> /\ rsess = s
            /\ rqueue' = Trim(rqueue, sess[s].downAck)
          BY <1>5 DEF RunnerReceiveAck
      <2>2. /\ Others(s) /\ sess'[s].res = sess[s].res
            /\ sess'[s].up = sess[s].up /\ sess'[s].hnd = sess[s].hnd
            /\ sess'[s].rsent = sess[s].rsent /\ sess'[s].ackSeq = sess[s].ackSeq
            /\ sess'[s].downAck = 0
          BY <1>0, <1>5, ReceiveAckEffect
      <2>3. rqueue' \subseteq rqueue /\ \A m \in rqueue : m \in rqueue' \/ Applied(m)
          <3>1. \A m \in rqueue : m.seq \in Nat
              BY <1>0, WaysAreMessages DEF OnWay
          <3>2. sess[s].downAck \in Nat
              BY <1>0 DEF TypeOK, Session
          <3> QED BY <1>0, <2>1, <3>1, <3>2 DEF Trim, QueueInv
      <2>4. EndKept
          BY <2>1, <2>2 DEF EndKept
      <2>5. conn # 0 => sess'[conn].up = sess[conn].up /\ sess'[conn].ackSeq = sess[conn].ackSeq
                        /\ sess'[conn].hnd = sess[conn].hnd
          BY <1>0, <2>2 DEF Others
      <2> QED BY <1>a, <2>1, <2>3, <2>4, <2>5
  <1> QED BY <1>1, <1>2, <1>3, <1>4, <1>5 DEF Runner

LEMMA FlowHub ==
    ASSUME LinkInv, TypeOK', Settles, FreshInv, FlowInv, HandlerInv, ~RegisterRace,
           NEW s \in Sessions, Hub(s)
    PROVE  FlowInv'
  <1> USE DEF hubVars, linkVars
  <1>0. /\ TypeOK /\ SessionInv /\ s # 0 /\ rsess \in {0} \cup Sessions /\ conn \in {0} \cup Sessions
        /\ NumberInv /\ StreamInv /\ QueueInv
      BY RunnerLinkConstants DEF LinkInv, AgentInv, TypeOK, FlowInv
  <1>a. ASSUME UNCHANGED <<rqueue, rnext, rboot, highest, knownBoot, rsess>>,
               conn' \in {0, conn},
               \A t \in Sessions :
                  /\ sess'[t].rsent = sess[t].rsent /\ sess'[t].res = sess[t].res
                  /\ sess'[t].downAck \in {0, sess[t].downAck}
                     \/ (t = rsess /\ knownBoot = rboot /\ sess'[t].downAck <= highest),
               ConnKept
        PROVE  FlowInv'
      <2>1. EndKept
          BY <1>0, <1>a DEF EndKept
      <2>2. FlowKept
          BY <1>a, <2>1 DEF FlowKept, RunnerKept, HubKept
      <2> QED BY <2>2, FlowStays
  <1>1. CASE BackendSend(s) \/ BackendReceiveAck(s)
      <2>1. UNCHANGED <<rqueue, rnext, rboot, highest, knownBoot, conn, rsess>>
          BY <1>1 DEF BackendSend, BackendReceiveAck
      <2>2. BackKept
          BY <1>0, <1>1, DownSteps
      <2>3. ConnKept
          BY <1>0, <2>1, <2>2 DEF ConnKept, BackKept, SameBack
      <2> QED BY <1>a, <2>1, <2>2, <2>3 DEF BackKept, SameBack
  <1>2. CASE BackendSendAck(s)
      <2>1. UNCHANGED <<rqueue, rnext, rboot, highest, knownBoot, conn, rsess>> /\ conn = s
          BY <1>2 DEF BackendSendAck
      <2>2. /\ Others(s) /\ sess'[s].res = sess[s].res
            /\ sess'[s].up = sess[s].up /\ sess'[s].hnd = sess[s].hnd
            /\ sess'[s].rsent = sess[s].rsent /\ sess'[s].ackSeq = sess[s].ackSeq
            /\ sess'[s].downAck = IF rsess = s THEN sess[s].ackSeq ELSE 0
          BY <1>0, <1>2, SendAckEffect
      <2>3. rsess = s => knownBoot = rboot /\ sess[s].ackSeq <= highest
          BY <1>0, <2>1 DEF SessionInv, FreshInv, StreamInv
      <2>4. ConnKept
          BY <2>1, <2>2 DEF ConnKept
      <2> QED BY <1>a, <2>1, <2>2, <2>3, <2>4 DEF Others
  <1>3. CASE CheckFinalized(s)
      <2>1. UNCHANGED <<rqueue, rnext, rboot, highest, knownBoot, conn, rsess>>
          BY <1>3 DEF CheckFinalized
      <2>2. Others(s) /\ SameBack(sess'[s], sess[s]) /\ sess'[s].res = sess[s].res
          BY <1>0, <1>3, CheckEffect
      <2>3. ConnKept
          BY <1>0, <2>1, <2>2 DEF ConnKept, Others, SameBack
      <2> QED BY <1>a, <2>1, <2>2, <2>3 DEF Others, SameBack
  <1>4. CASE Detach(s) \/ MarkFailed(s)
      <2>1. UNCHANGED <<rqueue, rnext, rboot, highest, knownBoot, rsess>>
          BY <1>4 DEF Detach, MarkFailed
      <2>2. /\ Others(s) /\ sess'[s].res = sess[s].res
            /\ sess'[s].rsent = sess[s].rsent /\ sess'[s].downAck = sess[s].downAck
            /\ conn' = IF conn = s THEN 0 ELSE conn
          BY <1>0, <1>4, DetachEffect
      <2>3. ConnKept
          BY <1>0, <2>2 DEF ConnKept, Others
      <2> QED BY <1>a, <2>1, <2>2, <2>3 DEF Others
  <1>5. CASE ApplyHeartbeat(s) \/ ApplyOutput(s) \/ MarkFinalized(s) \/ Deliver(s)
      <2>1. UNCHANGED <<rqueue, rnext, rboot, highest, knownBoot, conn, rsess>>
          BY <1>5 DEF ApplyHeartbeat, ApplyOutput, MarkFinalized, Deliver
      <2>2. /\ sess[s].hnd # Idle /\ sess[s].hnd.step \in {"taken", "marked"}
            /\ sess'[s].hnd # Idle /\ sess'[s].hnd.msg = sess[s].hnd.msg
            /\ Others(s) /\ sess'[s].res = sess[s].res
            /\ sess'[s].up = sess[s].up
            /\ sess'[s].rsent = sess[s].rsent /\ sess'[s].ackSeq = sess[s].ackSeq
            /\ sess'[s].downAck = sess[s].downAck
          BY <1>0, <1>5, ApplyEffect
      <2>3. ConnKept
          BY <1>0, <2>1, <2>2 DEF ConnKept, Others
      <2> QED BY <1>a, <2>1, <2>2, <2>3 DEF Others
  <1>6. CASE Commit(s) /\ conn # s
      <2>1. UNCHANGED <<rqueue, rnext, rboot, highest, knownBoot, conn, rsess>>
          BY <1>6 DEF Commit
      <2>2. /\ Others(s) /\ sess'[s].res = sess[s].res
            /\ sess'[s].rsent = sess[s].rsent /\ sess'[s].downAck = sess[s].downAck
          BY <1>0, <1>6, CommitEffect
      <2>3. ConnKept
          BY <1>0, <1>6, <2>1, <2>2 DEF ConnKept, Others
      <2> QED BY <1>a, <2>1, <2>2, <2>3 DEF Others
  <1> QED BY <1>1, <1>2, <1>3, <1>4, <1>5, <1>6, CommitFlow, TakeFlow, RegisterFlow DEF Hub

LEMMA FlowStep ==
    ASSUME LinkInv, TypeOK', DataInv, FreshInv, FlowInv, HandlerInv, OwedInv, ~RegisterRace, [Next]_vars
    PROVE  FlowInv'
  <1> USE DEF hubVars, linkVars, callerVars
  <1>0. /\ TypeOK /\ BootInv /\ Settles /\ rqueue \subseteq UpMsg
        /\ got \in [Runs -> Nat] /\ emitted \in [Runs -> Nat]
      BY SettlesStep DEF LinkInv, AgentInv, TypeOK
  <1>1. CASE Caller \/ UNCHANGED vars \/ (\E r \in Runs : EndRun(r))
      <2>1. UNCHANGED <<sess, rsess, rboot, knownBoot, conn, highest, rnext, rqueue>>
          BY <1>1 DEF Caller, Dispatch, Cancel, EndRun, vars
      <2>2. FlowKept
          BY <2>1 DEF FlowKept, RunnerKept, HubKept, ConnKept, EndKept
      <2> QED BY <1>0, <2>2, FlowStays
  <1>2. CASE RunnerCrash
      <2>1. /\ rsess' = 0 /\ rboot' = rboot + 1 /\ rnext' = 0 /\ rqueue' = {}
            /\ UNCHANGED <<knownBoot, highest, conn>>
          BY <1>2 DEF RunnerCrash
      <2>2. rboot' > knownBoot'
          BY <1>0, <2>1 DEF BootInv, TypeOK
      <2>3. ConnKept
          BY <1>0, <1>2, <2>1, RunnerCrashEffect DEF ConnKept, TypeOK
      <2>4. FlowKept
          BY <2>1, <2>2, <2>3 DEF FlowKept, RunnerKept, HubKept, EndKept
      <2> QED BY <1>0, <2>4, FlowStays
  <1>3. CASE BackendCrash
      <2>1. knownBoot' = 0 /\ conn' = 0 /\ UNCHANGED <<rnext, rqueue, rboot, rsess>>
          BY <1>3 DEF BackendCrash
      <2>2. rsess # 0 => /\ sess'[rsess].rsent = sess[rsess].rsent
                         /\ sess'[rsess].downAck = sess[rsess].downAck
                         /\ sess'[rsess].res = sess[rsess].res
          BY <1>0, <1>3, BackendCrashEffect DEF TypeOK
      <2>3. FlowKept
          BY <2>1, <2>2 DEF FlowKept, RunnerKept, HubKept, ConnKept, EndKept
      <2> QED BY <1>0, <2>3, FlowStays
  <1>a. ASSUME NEW kind \in {"out", "res"}, NEW r \in Runs, run[r] = "running",
               enqueue(kind, r, emitted[r]),
               UNCHANGED <<highest, knownBoot, conn, sess, rboot, rsess, tracked, got>>
        PROVE  FlowInv'
      <2> DEFINE d == RunnerMsg(kind, r, emitted[r])
      <2>1. d.seq = rnext + 1 /\ d.kind = kind /\ d.run = r /\ d.n = emitted[r]
          BY DEF RunnerMsg
      <2>2. rnext' = rnext + 1 /\ rqueue' = rqueue \cup {d}
          BY <1>a DEF enqueue
      <2> HIDE DEF d
      <2>3. Late(d) => \E o \in rqueue : Before(o, d)
          <3> SUFFICES ASSUME Late(d) PROVE \E o \in rqueue : Before(o, d)
              OBVIOUS
          <3>1. r \in tracked /\ emitted[r] > got[r]
              BY <2>1 DEF Late
          <3>2. PICK o \in rqueue : o.kind = "out" /\ o.run = r /\ o.n + 1 = emitted[r]
              BY <1>a, <3>1 DEF OwedInv
          <3>3. o.seq < d.seq
              <4>1. o.seq <= rnext
                  BY DEF FlowInv, NumberInv
              <4>2. o.seq \in Nat
                  BY <1>0, WaysAreMessages DEF OnWay
              <4>3. rnext \in Nat
                  BY <1>0 DEF TypeOK
              <4> QED BY <2>1, <4>1, <4>2, <4>3
          <3> QED BY <2>1, <3>2, <3>3 DEF Before
      <2> QED BY <1>a, <2>1, <2>2, <2>3, FlowGrows
  <1>4. ASSUME NEW r \in Runs, Output(r) \/ Report(r) PROVE FlowInv'
      BY <1>a, <1>4 DEF Output, Report
  <1>5. CASE sendHeartbeat
      <2> DEFINE kept == {m \in rqueue : m.kind # "hb"}
                 d == RunnerMsg("hb", NoRun, 0)
      <2>1. \A m \in rqueue : m \in kept \/ Applied(m)
          <3> SUFFICES ASSUME NEW m \in rqueue, m.kind = "hb" PROVE Applied(m)
              OBVIOUS
          <3>1. m.run = NoRun
              BY <1>0 DEF UpMsg, RunMsg, Heartbeat
          <3> QED BY <1>0, <3>1, RunnerLinkConstants DEF Applied, TypeOK
      <2>2. UNCHANGED <<highest, knownBoot, conn, sess, rboot, rsess, tracked, got>>
          BY <1>5 DEF sendHeartbeat
      <2>3. CASE rqueue' = kept /\ rnext' = rnext
          <3>1. FlowKept
              BY <2>1, <2>2, <2>3 DEF FlowKept, RunnerKept, HubKept, ConnKept, EndKept
          <3> QED BY <1>0, <3>1, FlowStays
      <2>4. CASE rqueue' = kept \cup {d} /\ rnext' = rnext + 1
          <3>1. d.seq = rnext + 1 /\ d.run = NoRun
              BY DEF RunnerMsg
          <3> HIDE DEF d
          <3>2. ~Late(d)
              BY <1>0, <3>1, RunnerLinkConstants DEF Late, TypeOK
          <3>3. kept \subseteq rqueue
              OBVIOUS
          <3> HIDE DEF kept
          <3> QED BY <2>1, <2>2, <2>4, <3>1, <3>2, <3>3, FlowGrows
      <2> QED BY <1>5, <2>3, <2>4 DEF sendHeartbeat
  <1> QED BY <1>0, <1>1, <1>2, <1>3, <1>4, <1>5, FlowRunner, FlowHub, SendFlow DEF Next, Executor, Runner

-----------------------------------------------------------------------------
(* Handlers, what is owed, and what a Register tells *)

\* After a step, a handler with message m is right about it.
Right(t, m) ==
    m = sess'[t].hnd.msg /\ sess'[t].hnd # Idle =>
        /\ sess'[t].hnd.step \in {"dup", "applied"} => Applied(m)'
        /\ sess'[t].hnd.step \in {"taken", "marked"} => ~Late(m)'

LEMMA AllRight == ASSUME \A t \in Sessions : \A m : Right(t, m) PROVE HandlerInv'
  BY DEF Right, HandlerInv, Applied, Late

LEMMA HandlerStays ==
    ASSUME LinkInv, TypeOK', Settles, HandlerInv, NEW t \in Sessions, NEW m,
           sess'[t].hnd \in {Idle, sess[t].hnd}
    PROVE  Right(t, m)
  <1> SUFFICES ASSUME m = sess[t].hnd.msg, sess'[t].hnd = sess[t].hnd, sess[t].hnd # Idle
               PROVE  Right(t, m)
      BY DEF Right
  <1>1. OnWay(m)
      BY DEF OnWay, Holds
  <1>2. (Applied(m) => Applied(m)') /\ (Late(m)' => Late(m))
      BY <1>1, AppliedStays
  <1> QED BY <1>2 DEF HandlerInv, Right

LEMMA HandlerStep ==
    ASSUME LinkInv, TypeOK', FlowInv, HandlerInv, [Next]_vars PROVE HandlerInv'
  <1> USE DEF hubVars, linkVars, callerVars, execVars
  <1>0. TypeOK /\ StreamInv /\ Settles /\ got \in [Runs -> Nat] /\ tracked \subseteq Runs
      BY SettlesStep DEF LinkInv, FlowInv, TypeOK
  <1>a. ASSUME \A t \in Sessions : sess'[t].hnd \in {Idle, sess[t].hnd} PROVE HandlerInv'
      BY <1>0, <1>a, HandlerStays, AllRight
  <1>b. ASSUME NEW s \in Sessions, Others(s), \A m : Right(s, m) PROVE HandlerInv'
      <2>1. \A t \in Sessions : \A m : Right(t, m)
          BY <1>0, <1>b, HandlerStays DEF Others
      <2> QED BY <2>1, AllRight
  <1>1. CASE Caller \/ Executor \/ sendHeartbeat \/ UNCHANGED vars
      BY <1>a, <1>1 DEF Caller, Dispatch, Cancel, Executor, Output, Report, EndRun, sendHeartbeat, vars
  <1>2. CASE RunnerCrash
      BY <1>0, <1>a, <1>2, RunnerCrashEffect
  <1>3. CASE BackendCrash
      BY <1>0, <1>a, <1>3, BackendCrashEffect
  <1>4. ASSUME NEW s \in Sessions, Runner(s) PROVE HandlerInv'
      <2>1. CASE Connect(s)
          BY <1>0, <1>a, <2>1, ConnectEffect DEF Others
      <2>2. CASE Attach(s)
          BY <1>0, <1>a, <2>2, AttachEffect DEF Others, SameBack
      <2>3. CASE Abandon(s)
          BY <1>0, <1>a, <2>3, AbandonEffect DEF Others
      <2>4. CASE RunnerReceive(s) \/ RunnerSendAck(s)
          BY <1>0, <1>a, <2>4, DownSteps DEF BackKept, SameBack
      <2>5. CASE RunnerReceiveAck(s)
          BY <1>0, <1>a, <2>5, ReceiveAckEffect DEF Others
      <2>6. CASE RunnerSend(s)
          BY <1>0, <1>a, <2>6, SendEffect DEF Others
      <2> QED BY <1>4, <2>1, <2>2, <2>3, <2>4, <2>5, <2>6 DEF Runner
  <1>5. ASSUME NEW s \in Sessions, Hub(s) PROVE HandlerInv'
      <2>0. sess[s] \in Session
          BY <1>0 DEF TypeOK
      <2>1. CASE BackendSend(s) \/ BackendReceiveAck(s)
          BY <1>0, <1>a, <2>1, DownSteps DEF BackKept, SameBack
      <2>2. CASE BackendSendAck(s)
          BY <1>0, <1>a, <2>2, SendAckEffect DEF Others
      <2>3. CASE CheckFinalized(s)
          BY <1>0, <1>a, <2>3, CheckEffect DEF Others, SameBack
      <2>4. CASE Register(s)
          BY <1>0, <1>a, <2>4, RegisterEffect DEF Others, SameBack
      <2>5. CASE Detach(s) \/ MarkFailed(s)
          <3>1. Others(s) /\ sess'[s].hnd \in {Idle, sess[s].hnd}
              BY <1>0, <2>5, DetachEffect
          <3> QED BY <1>a, <3>1 DEF Others
      <2>6. CASE Commit(s)
          BY <1>0, <1>a, <2>6, CommitEffect DEF Others
      <2>7. CASE Take(s)
          <3>0. conn = s /\ sess[s].hnd = Idle /\ s # 0 /\ UNCHANGED <<tracked, got>>
              BY <2>7, RunnerLinkConstants DEF Take
          <3>1. PICK d \in sess[s].up :
              /\ IsFirst(d, sess[s].up)
              /\ sess'[s].hnd # Idle /\ sess'[s].hnd.msg = d
              /\ sess'[s].hnd.step = IF d.seq <= highest THEN "dup" ELSE "taken"
              /\ Others(s)
              BY <1>0, <2>7, TakeEffect
          <3>2. Holds(conn, d)
              BY <3>0 DEF Holds
          <3>3. d.seq <= highest => Applied(d)
              BY <1>0, <3>0, <3>2 DEF StreamInv
          <3>4. ~Late(d)
              <4> SUFFICES ASSUME Late(d) PROVE FALSE
                  OBVIOUS
              <4>1. PICK o : Holds(conn, o) /\ Before(o, d)
                  BY <1>0, <3>0, <3>2 DEF StreamInv
              <4>2. o \in sess[s].up /\ o.seq < d.seq
                  BY <3>0, <4>1 DEF Holds, Before
              <4>3. d.seq \in Nat /\ o.seq \in Nat
                  BY <1>0, <4>2, WaysAreMessages DEF OnWay, Holds
              <4> QED BY <3>1, <4>2, <4>3 DEF IsFirst
          <3>5. (Applied(d)' <=> Applied(d)) /\ (Late(d)' <=> Late(d))
              BY <3>0 DEF Applied, Late
          <3>6. \A m : Right(s, m)
              BY <3>1, <3>3, <3>4, <3>5 DEF Right
          <3> QED BY <1>b, <3>1, <3>6
      <2>8. CASE ApplyHeartbeat(s) \/ ApplyOutput(s) \/ MarkFinalized(s) \/ Deliver(s)
          <3> DEFINE d == sess[s].hnd.msg
          <3>1. /\ sess[s].hnd # Idle /\ sess[s].hnd.step \in {"taken", "marked"}
                /\ sess'[s].hnd.msg = d /\ Others(s)
                /\ sess'[s].hnd.step = "applied"
                   \/ (MarkFinalized(s) /\ d.run \in tracked /\ sess'[s].hnd.step = "marked")
              BY <1>0, <2>8, ApplyEffect
          <3>2. ~Late(d) /\ d \in UpMsg /\ d.n \in Nat /\ (d.kind # "hb" => d.run \in Runs)
              BY <2>0, <3>1, HandlingType DEF HandlerInv
          <3>h. MarkFinalized(s) => d.kind = "res" /\ UNCHANGED <<tracked, got>>
              BY DEF MarkFinalized, Handling
          <3>f. MarkFinalized(s) =>
                   sess'[s].hnd.step = IF d.run \in tracked THEN "marked" ELSE "applied"
              <4> SUFFICES ASSUME MarkFinalized(s)
                           PROVE sess'[s].hnd.step = IF d.run \in tracked THEN "marked" ELSE "applied"
                  OBVIOUS
              <4> DEFINE e == IF d.run \in tracked THEN "marked" ELSE "applied"
                         h == [sess[s].hnd EXCEPT !.step = e]
                         x == [sess[s] EXCEPT !.hnd = h]
              <4>1. Sets(s, x)
                  BY DEF MarkFinalized, Sets
              <4>2. sess[s].hnd \in [step : Steps, msg : UpMsg]
                  BY <2>0, <3>1, HandlingType
              <4> HIDE DEF e
              <4>3. h.step = e
                  BY <4>2
              <4> HIDE DEF h
              <4>4. x.hnd = h
                  BY <2>0 DEF Session
              <4> HIDE DEF x
              <4>5. sess'[s] = x
                  BY <1>0, <4>1, SetsEffect DEF TypeOK
              <4> QED BY <4>3, <4>4, <4>5 DEF e
          <3>3. ~Late(d)'
              BY <1>0, <2>8, <3>1, <3>2, AppliedStays DEF OnWay, Holds, Late
          <3>4. sess'[s].hnd.step = "applied" => Applied(d)'
              <4> SUFFICES ASSUME sess'[s].hnd.step = "applied" PROVE Applied(d)'
                  OBVIOUS
              <4>1. CASE ApplyHeartbeat(s)
                  <5>1. d.kind = "hb" /\ tracked' = tracked
                      BY <4>1 DEF ApplyHeartbeat, Handling
                  <5>2. d.run = NoRun
                      BY <3>2, <5>1 DEF UpMsg, RunMsg, Heartbeat
                  <5>3. d.run \notin tracked'
                      BY <1>0, <5>1, <5>2, RunnerLinkConstants
                  <5> QED BY <3>1, <5>3 DEF Applied
              <4>2. CASE ApplyOutput(s)
                  <5>1. /\ d.kind = "out"
                        /\ tracked' \subseteq tracked
                        /\ got' = IF d.run \in tracked /\ d.n = got[d.run]
                                  THEN [got EXCEPT ![d.run] = @ + 1] ELSE got
                      BY <4>2 DEF ApplyOutput, Handling
                  <5>2. CASE d.run \in tracked
                      <6>1. d.n <= got[d.run] /\ got[d.run] \in Nat
                          BY <1>0, <3>2, <5>2 DEF Late
                      <6>2. d.n < got'[d.run]
                          BY <1>0, <3>2, <5>1, <5>2, <6>1
                      <6> QED BY <3>1, <5>1, <6>2 DEF Applied
                  <5>3. CASE d.run \notin tracked
                      BY <3>1, <5>1, <5>3 DEF Applied
                  <5> QED BY <5>2, <5>3
              <4>3. CASE MarkFinalized(s)
                  <5>1. d.run \notin tracked'
                      BY <3>f, <3>h, <4>3
                  <5> QED BY <3>1, <5>1 DEF Applied
              <4>4. CASE Deliver(s)
                  <5>1. d.run \notin tracked'
                      BY <4>4 DEF Deliver
                  <5> QED BY <3>1, <5>1 DEF Applied
              <4> QED BY <2>8, <4>1, <4>2, <4>3, <4>4
          <3>5. \A m : Right(s, m)
              BY <3>1, <3>3, <3>4 DEF Right, Applied, Late
          <3> QED BY <1>b, <3>1, <3>5
      <2> QED BY <1>5, <2>1, <2>2, <2>3, <2>4, <2>5, <2>6, <2>7, <2>8 DEF Hub
  <1> QED BY <1>1, <1>2, <1>3, <1>4, <1>5 DEF Next

\* What is owed stays queued as long as the queue only loses what is applied.
LEMMA OwedKept ==
    ASSUME LinkInv, TypeOK', Settles, OwedInv, UNCHANGED <<run, emitted>>,
           \A m \in rqueue : m \in rqueue' \/ Applied(m)
    PROVE  OwedInv'
  <1>0. /\ TypeOK /\ got \in [Runs -> Nat] /\ emitted \in [Runs -> Nat] /\ tracked' \subseteq Runs
        /\ got' \in [Runs -> Nat]
      BY DEF LinkInv, TypeOK
  <1> SUFFICES ASSUME NEW r \in tracked', r \in Runs
      PROVE /\ run[r] = "running" /\ emitted[r] > got'[r] =>
                  \E m \in rqueue' : m.kind = "out" /\ m.run = r /\ m.n + 1 = emitted[r]
            /\ run[r] \in {"reported", "ended"} => \E m \in rqueue' : m.kind = "res" /\ m.run = r
      BY <1>0 DEF OwedInv
  <1>1. run[r] # "none" => r \in tracked /\ got'[r] >= got[r]
      BY DEF Settles
  <1>2. ASSUME run[r] = "running", emitted[r] > got'[r]
        PROVE  \E m \in rqueue' : m.kind = "out" /\ m.run = r /\ m.n + 1 = emitted[r]
      <2>1. emitted[r] > got[r]
          BY <1>0, <1>1, <1>2
      <2>2. PICK m \in rqueue : m.kind = "out" /\ m.run = r /\ m.n + 1 = emitted[r]
          BY <1>1, <1>2, <2>1 DEF OwedInv
      <2>3. m.n \in Nat
          BY <1>0, WaysAreMessages DEF OnWay
      <2>4. ~Applied(m)
          BY <1>0, <1>1, <1>2, <2>1, <2>2, <2>3 DEF Applied
      <2> QED BY <2>2, <2>4
  <1>3. ASSUME run[r] \in {"reported", "ended"} PROVE \E m \in rqueue' : m.kind = "res" /\ m.run = r
      <2>1. PICK m \in rqueue : m.kind = "res" /\ m.run = r
          BY <1>1, <1>3 DEF OwedInv
      <2>2. ~Applied(m)
          BY <1>1, <1>3, <2>1 DEF Applied
      <2> QED BY <2>1, <2>2
  <1> QED BY <1>2, <1>3

LEMMA OwedStep ==
    ASSUME LinkInv, TypeOK', DataInv, FlowInv, OwedInv, [Next]_vars PROVE OwedInv'
  <1> USE DEF hubVars, linkVars, callerVars
  <1>0. /\ TypeOK /\ Settles /\ QueueInv /\ rqueue \subseteq UpMsg /\ tracked \subseteq Runs
        /\ got \in [Runs -> Nat] /\ emitted \in [Runs -> Nat]
        /\ run \in [Runs -> {"none", "running", "reported", "ended", "dead", "gone"}]
      BY SettlesStep DEF LinkInv, FlowInv, TypeOK
  <1>a. ASSUME UNCHANGED <<run, emitted, rqueue>> PROVE OwedInv'
      BY <1>0, <1>a, OwedKept
  <1>1. CASE Caller \/ UNCHANGED vars
      BY <1>a, <1>1 DEF Caller, Dispatch, Cancel, vars, execVars
  <1>2. CASE sendHeartbeat
      <2> DEFINE kept == {m \in rqueue : m.kind # "hb"}
      <2>1. \A m \in rqueue : m \in kept \/ Applied(m)
          <3> SUFFICES ASSUME NEW m \in rqueue, m.kind = "hb" PROVE Applied(m)
              OBVIOUS
          <3>1. m.run = NoRun
              BY <1>0 DEF UpMsg, RunMsg, Heartbeat
          <3> QED BY <1>0, <3>1, RunnerLinkConstants DEF Applied
      <2>2. UNCHANGED <<run, emitted>> /\ kept \subseteq rqueue'
          BY <1>2 DEF sendHeartbeat, execVars
      <2> HIDE DEF kept
      <2> QED BY <1>0, <2>1, <2>2, OwedKept
  <1>3. ASSUME NEW r \in Runs, Output(r) PROVE OwedInv'
      <2> DEFINE d == RunnerMsg("out", r, emitted[r])
      <2>1. d.kind = "out" /\ d.run = r /\ d.n = emitted[r]
          BY DEF RunnerMsg
      <2>2. /\ rqueue' = rqueue \cup {d} /\ emitted' = [emitted EXCEPT ![r] = @ + 1]
            /\ UNCHANGED <<run, tracked, got>> /\ run[r] = "running"
          BY <1>3 DEF Output, enqueue
      <2> HIDE DEF d
      <2>3. emitted'[r] = emitted[r] + 1 /\ \A q \in Runs : q # r => emitted'[q] = emitted[q]
          BY <1>0, <2>2
      <2>4. \E m \in rqueue' : m.kind = "out" /\ m.run = r /\ m.n + 1 = emitted'[r]
          BY <2>1, <2>2, <2>3
      <2>5. \A q \in tracked' : run'[q] = "running" /\ emitted'[q] > got'[q] =>
               \E m \in rqueue' : m.kind = "out" /\ m.run = q /\ m.n + 1 = emitted'[q]
          <3> SUFFICES ASSUME NEW q \in tracked, q # r, run[q] = "running", emitted[q] > got[q]
                       PROVE  \E m \in rqueue' : m.kind = "out" /\ m.run = q /\ m.n + 1 = emitted[q]
              BY <1>0, <2>2, <2>3, <2>4
          <3> QED BY <2>2 DEF OwedInv
      <2>6. \A q \in tracked' : run'[q] \in {"reported", "ended"} => \E m \in rqueue' : m.kind = "res" /\ m.run = q
          BY <2>2 DEF OwedInv
      <2> QED BY <2>5, <2>6 DEF OwedInv
  <1>4. ASSUME NEW r \in Runs, Report(r) PROVE OwedInv'
      <2> DEFINE d == RunnerMsg("res", r, emitted[r])
      <2>1. d.kind = "res" /\ d.run = r
          BY DEF RunnerMsg
      <2>2. /\ rqueue' = rqueue \cup {d} /\ run' = [run EXCEPT ![r] = "reported"]
            /\ UNCHANGED <<emitted, tracked, got>> /\ run[r] = "running"
          BY <1>4 DEF Report, enqueue
      <2> HIDE DEF d
      <2>3. run'[r] = "reported" /\ \A q \in Runs : q # r => run'[q] = run[q]
          BY <1>0, <2>2
      <2>4. \A q \in tracked : q = r \/ run'[q] = run[q]
          BY <1>0, <2>3
      <2>5. \E m \in rqueue' : m.kind = "res" /\ m.run = r
          BY <2>1, <2>2
      <2>6. \A q \in tracked' : run'[q] = "running" /\ emitted'[q] > got'[q] =>
               \E m \in rqueue' : m.kind = "out" /\ m.run = q /\ m.n + 1 = emitted'[q]
          BY <2>2, <2>3, <2>4 DEF OwedInv
      <2>7. \A q \in tracked' : run'[q] \in {"reported", "ended"} => \E m \in rqueue' : m.kind = "res" /\ m.run = q
          BY <2>2, <2>4, <2>5 DEF OwedInv
      <2> QED BY <2>6, <2>7 DEF OwedInv
  <1>5. ASSUME NEW r \in Runs, EndRun(r) PROVE OwedInv'
      <2>1. /\ run[r] = "reported" /\ run' = [run EXCEPT ![r] = "ended"]
            /\ emitted' = [emitted EXCEPT ![r] = 0] /\ UNCHANGED <<got, tracked, rqueue>>
          BY <1>5 DEF EndRun
      <2>2. run'[r] = "ended" /\ \A q \in Runs : q # r => run'[q] = run[q] /\ emitted'[q] = emitted[q]
          BY <1>0, <2>1
      <2> QED BY <1>0, <2>1, <2>2 DEF OwedInv
  <1>6. CASE RunnerCrash
      <2>1. \A r \in Runs : run'[r] \in {"none", "dead", "gone"}
          BY <1>0, <1>6 DEF RunnerCrash
      <2>2. tracked' \subseteq Runs
          BY DEF TypeOK
      <2> QED BY <2>1, <2>2 DEF OwedInv
  <1>7. CASE BackendCrash
      BY <1>7 DEF BackendCrash, OwedInv
  <1>8. ASSUME NEW s \in Sessions, Hub(s) PROVE OwedInv'
      <2>1. UNCHANGED <<run, emitted, rqueue>>
          BY <1>8 DEF Hub, CheckFinalized, Register, Detach, BackendSend, BackendSendAck,
                  BackendReceiveAck, Take, ApplyHeartbeat, ApplyOutput, MarkFinalized, MarkFailed,
                  Deliver, Commit, execVars
      <2> QED BY <1>a, <2>1
  <1>9. ASSUME NEW s \in Sessions, Runner(s) PROVE OwedInv'
      <2>1. CASE Connect(s) \/ Abandon(s) \/ RunnerSend(s) \/ RunnerSendAck(s)
          BY <1>a, <2>1 DEF Connect, Abandon, RunnerSend, RunnerSendAck, execVars
      <2>2. CASE Attach(s)
          <3>1. rsess = s /\ s # 0 /\ sess[s].res # NoRes /\ UNCHANGED <<run, emitted>>
                /\ rqueue' = Trim(rqueue, sess[s].res.acked)
              BY <2>2, RunnerLinkConstants DEF Attach, execVars
          <3>2. sess[s].res.acked \in Nat
              <4>1. sess[s] \in Session
                  BY <1>0 DEF TypeOK
              <4> QED BY <3>1, <4>1 DEF Session
          <3>3. \A m \in rqueue : m.seq \in Nat
              BY <1>0, WaysAreMessages DEF OnWay
          <3>4. \A m \in rqueue : m \in rqueue' \/ Applied(m)
              BY <1>0, <3>1, <3>2, <3>3 DEF QueueInv, Trim
          <3> QED BY <1>0, <3>1, <3>4, OwedKept
      <2>3. CASE RunnerReceiveAck(s)
          <3>1. rsess = s /\ s # 0 /\ UNCHANGED <<run, emitted>>
                /\ rqueue' = Trim(rqueue, sess[s].downAck)
              BY <2>3, RunnerLinkConstants DEF RunnerReceiveAck, execVars
          <3>2. sess[s].downAck \in Nat
              BY <1>0 DEF TypeOK, Session
          <3>3. \A m \in rqueue : m.seq \in Nat
              BY <1>0, WaysAreMessages DEF OnWay
          <3>4. \A m \in rqueue : m \in rqueue' \/ Applied(m)
              BY <1>0, <3>1, <3>2, <3>3 DEF QueueInv, Trim
          <3> QED BY <1>0, <3>1, <3>4, OwedKept
      <2>4. CASE RunnerReceive(s)
          <3>0. UNCHANGED <<rqueue, tracked, got>>
              BY <2>4 DEF RunnerReceive
          <3>1. PICK m \in sess[s].down :
              /\ m \in DownMsg
              /\ \/ run' = run /\ emitted' = emitted
                 \/ /\ run[m.run] = "none" /\ run' = [run EXCEPT ![m.run] = "running"]
                    /\ emitted' = [emitted EXCEPT ![m.run] = 0]
              BY <2>4, ReceiveStep
          <3>2. CASE run' = run /\ emitted' = emitted
              BY <1>a, <3>0, <3>2
          <3>3. CASE /\ run[m.run] = "none" /\ run' = [run EXCEPT ![m.run] = "running"]
                     /\ emitted' = [emitted EXCEPT ![m.run] = 0]
              <4>1. m.run \in Runs
                  BY <3>1 DEF DownMsg
              <4>2. /\ run'[m.run] = "running" /\ emitted'[m.run] = 0
                    /\ \A q \in Runs : q # m.run => run'[q] = run[q] /\ emitted'[q] = emitted[q]
                  BY <1>0, <3>3, <4>1
              <4>3. ~(emitted'[m.run] > got[m.run])
                  BY <1>0, <4>1, <4>2
              <4> QED BY <1>0, <3>0, <4>1, <4>2, <4>3 DEF OwedInv
          <3> QED BY <3>1, <3>2, <3>3
      <2> QED BY <1>9, <2>1, <2>2, <2>3, <2>4 DEF Runner
  <1> QED BY <1>1, <1>2, <1>3, <1>4, <1>5, <1>6, <1>7, <1>8, <1>9 DEF Next, Executor

Taken(r) == run[r] \in {"running", "reported", "ended"}

\* What a Register tells stays true while no agent starts and no later session ends.
LEMMA SnapshotKept ==
    ASSUME LinkInv, TypeOK', Settles, SnapshotInv,
           \A t \in Sessions : sess'[t].st \in {"dialled", "checked"} =>
              sess[t].st \in {"dialled", "checked"} /\ sess'[t].reg = sess[t].reg,
           \A t \in Sessions : sess[t].st = "open" => sess'[t].st = "open",
           \A r \in Runs : Taken(r)' => Taken(r)
    PROVE  SnapshotInv'
  <1> SUFFICES ASSUME NEW s \in Sessions, sess'[s].st \in {"dialled", "checked"},
                      \A t \in Sessions : t > s => sess'[t].st # "open",
                      NEW r \in tracked', Taken(r)'
               PROVE  r \in sess'[s].reg.active \cup sess'[s].reg.completed
      BY DEF SnapshotInv, Taken
  <1>1. r \in Runs
      BY DEF TypeOK
  <1>2. Taken(r) /\ r \in tracked
      BY <1>1 DEF Settles, Taken
  <1>3. \A t \in Sessions : t > s => sess[t].st # "open"
      OBVIOUS
  <1> QED BY <1>2, <1>3 DEF SnapshotInv, Taken

LEMMA SnapshotStep ==
    ASSUME LinkInv, TypeOK', OwedInv, SnapshotInv, ~RegisterRace, [Next]_vars PROVE SnapshotInv'
  <1> USE DEF hubVars, linkVars, callerVars
  <1>0. /\ TypeOK /\ Settles /\ SessionInv /\ DownFresh /\ TrackedInv
        /\ run \in [Runs -> {"none", "running", "reported", "ended", "dead", "gone"}]
        /\ \A t \in Sessions : t \in Nat /\ t # 0
      BY SettlesStep, RunnerLinkConstants DEF LinkInv, AgentInv, TypeOK
  <1>a. ASSUME run' = run,
           \A t \in Sessions : sess'[t].st \in {"dialled", "checked"} =>
              sess[t].st \in {"dialled", "checked"} /\ sess'[t].reg = sess[t].reg,
           \A t \in Sessions : sess[t].st = "open" => sess'[t].st = "open"
        PROVE  SnapshotInv'
      BY <1>0, <1>a, SnapshotKept DEF Taken
  <1>1. CASE Caller \/ sendHeartbeat \/ UNCHANGED vars
      BY <1>a, <1>1 DEF Caller, Dispatch, Cancel, sendHeartbeat, vars, execVars
  <1>2. ASSUME NEW r \in Runs, Output(r) \/ Report(r) \/ EndRun(r) PROVE SnapshotInv'
      <2>1. sess' = sess
          BY <1>2 DEF Output, Report, EndRun
      <2>2. \A q \in Runs : Taken(q)' => Taken(q)
          BY <1>0, <1>2 DEF Output, Report, EndRun, Taken
      <2> QED BY <1>0, <2>1, <2>2, SnapshotKept
  <1>3. CASE RunnerCrash
      <2>1. \A r \in Runs : run'[r] \in {"none", "dead", "gone"}
          BY <1>0, <1>3 DEF RunnerCrash
      <2>2. tracked' \subseteq Runs
          BY DEF TypeOK
      <2> QED BY <2>1, <2>2 DEF SnapshotInv
  <1>4. CASE BackendCrash
      BY <1>4 DEF BackendCrash, SnapshotInv
  <1>b. ASSUME NEW s \in Sessions, Others(s), run' = run, sess'[s].st = sess[s].st, sess'[s].reg = sess[s].reg
        PROVE  SnapshotInv'
      BY <1>a, <1>b DEF Others
  <1>5. ASSUME NEW s \in Sessions, Runner(s) PROVE SnapshotInv'
      <2>1. CASE Connect(s)
          <3>1. /\ Others(s) /\ sess'[s].st = "dialled" /\ sess'[s].reg = buildRegister
                /\ UNCHANGED <<run, tracked>> /\ sess[s].st = "unused"
              BY <1>0, <2>1, ConnectEffect DEF Connect, execVars
          <3>2. \A r \in tracked : Taken(r) => r \in buildRegister.active \cup buildRegister.completed
              <4> SUFFICES ASSUME NEW r \in tracked, Taken(r)
                           PROVE  r \in buildRegister.active \cup buildRegister.completed
                  OBVIOUS
              <4>1. r \in Runs
                  BY <1>0 DEF TypeOK
              <4>2. run[r] = "ended" => r \in QueuedRuns(rqueue, "res")
                  BY DEF OwedInv, QueuedRuns
              <4> QED BY <4>1, <4>2 DEF buildRegister, Taken, InTable
          <3> QED BY <3>1, <3>2 DEF SnapshotInv, Others, Taken
      <2>2. CASE Attach(s) \/ Abandon(s) \/ RunnerReceiveAck(s) \/ RunnerSend(s)
          <3>1. Others(s) /\ SameEnd(sess'[s], sess[s])
              BY <1>0, <2>2, AttachEffect, AbandonEffect, ReceiveAckEffect, SendEffect
          <3>2. run' = run
              BY <2>2 DEF Attach, Abandon, RunnerReceiveAck, RunnerSend, execVars
          <3> QED BY <1>b, <3>1, <3>2 DEF SameEnd
      <2>3. CASE RunnerSendAck(s)
          <3>1. BackKept /\ run' = run
              BY <1>0, <2>3, DownSteps DEF RunnerSendAck, execVars
          <3> QED BY <1>a, <3>1 DEF BackKept, SameEnd
      <2>4. CASE RunnerReceive(s)
          <3>0. BackKept /\ tracked' = tracked /\ rsess = s /\ attached /\ outcome' = outcome
              BY <1>0, <2>4, DownSteps DEF RunnerReceive
          <3>1. PICK m \in sess[s].down :
              /\ m \in DownMsg
              /\ \/ run' = run
                 \/ m.kind = "start" /\ run[m.run] = "none" /\ run' = [run EXCEPT ![m.run] = "running"]
              BY <2>4, ReceiveStep
          <3>2. CASE run' = run
              BY <1>a, <3>0, <3>2 DEF BackKept, SameEnd
          <3>3. CASE m.kind = "start" /\ run[m.run] = "none" /\ run' = [run EXCEPT ![m.run] = "running"]
              <4>1. m.run \in Runs /\ \A q \in Runs : q # m.run => run'[q] = run[q]
                  BY <1>0, <3>1, <3>3 DEF DownMsg
              <4>2. sess[s].st \in {"open", "closed"} /\ \A t \in Sessions : t > s => sess[t].st = "unused"
                  BY <1>0, <3>0 DEF SessionInv
              <4>3. sess[s].st = "closed" => m.run \notin tracked
                  BY <1>0, <3>1, <3>3, <4>1 DEF DownFresh, TrackedInv
              <4> SUFFICES ASSUME NEW t \in Sessions, sess[t].st \in {"dialled", "checked"},
                             \A u \in Sessions : u > t => sess[u].st # "open",
                             NEW r \in tracked, Taken(r)'
                           PROVE  r \in sess[t].reg.active \cup sess[t].reg.completed
                  BY <3>0 DEF BackKept, SameEnd, SnapshotInv, Taken
              <4>4. sess[s].st = "closed"
                  <5>1. t < s
                      BY <1>0, <4>2
                  <5> QED BY <1>0, <4>2, <5>1
              <4>5. r # m.run /\ r \in Runs
                  BY <1>0, <4>3, <4>4 DEF TypeOK
              <4>6. Taken(r)
                  BY <4>1, <4>5 DEF Taken
              <4> QED BY <4>6 DEF SnapshotInv, Taken
          <3> QED BY <3>1, <3>2, <3>3
      <2> QED BY <1>5, <2>1, <2>2, <2>3, <2>4 DEF Runner
  <1>6. ASSUME NEW s \in Sessions, Hub(s) PROVE SnapshotInv'
      <2>0. run' = run
          BY <1>6 DEF Hub, CheckFinalized, Register, Detach, BackendSend, BackendSendAck,
                  BackendReceiveAck, Take, ApplyHeartbeat, ApplyOutput, MarkFinalized, MarkFailed,
                  Deliver, Commit, execVars
      <2>1. CASE BackendSend(s) \/ BackendReceiveAck(s)
          <3>1. BackKept
              BY <1>0, <2>1, DownSteps
          <3> QED BY <1>a, <2>0, <3>1 DEF BackKept, SameEnd
      <2>2. CASE \/ BackendSendAck(s) \/ Take(s) \/ Commit(s)
                 \/ ApplyHeartbeat(s) \/ ApplyOutput(s) \/ MarkFinalized(s) \/ Deliver(s)
          <3>1. Others(s) /\ SameEnd(sess'[s], sess[s])
              BY <1>0, <2>2, SendAckEffect, TakeEffect, CommitEffect, ApplyEffect
          <3> QED BY <1>b, <2>0, <3>1 DEF SameEnd
      <2>3. CASE CheckFinalized(s)
          <3>1. Others(s) /\ sess'[s].reg = sess[s].reg /\ sess[s].st = "dialled"
              BY <1>0, <2>3, CheckEffect
          <3> QED BY <1>a, <2>0, <3>1 DEF Others
      <2>4. CASE Register(s)
          <3>1. Others(s) /\ sess'[s].st = "open"
              BY <1>0, <2>4, RegisterEffect
          <3> QED BY <1>a, <2>0, <3>1 DEF Others
      <2>5. CASE Detach(s) \/ MarkFailed(s)
          <3>1. Others(s) /\ sess'[s].st = sess[s].st /\ sess'[s].reg = sess[s].reg
              BY <1>0, <2>5, DetachEffect
          <3> QED BY <1>b, <2>0, <3>1
      <2> QED BY <1>6, <2>1, <2>2, <2>3, <2>4, <2>5 DEF Hub
  <1> QED BY <1>1, <1>2, <1>3, <1>4, <1>5, <1>6 DEF Next, Executor

-----------------------------------------------------------------------------
(* The contract *)

LEMMA CallInit == Init => CallInv
  <1> SUFFICES ASSUME Init PROVE CallInv
      OBVIOUS
  <1>1. LinkInv
      BY LinkInit
  <1>2. /\ highest = 0 /\ knownBoot = 0 /\ conn = 0 /\ tracked = {}
        /\ rboot = 1 /\ rnext = 0 /\ rqueue = {} /\ rsess = 0
        /\ got = [r \in Runs |-> 0] /\ run = [r \in Runs |-> "none"]
      BY DEF Init
  <1>3. \A s \in Sessions : /\ sess[s].st = "unused" /\ ~sess[s].live
                            /\ sess[s].up = {} /\ sess[s].hnd = Idle /\ sess[s].ackSeq = 0
                            /\ sess[s].rsent = 0 /\ sess[s].downAck = 0
      BY DEF Init, Unused
  <1>4. \A m : ~OnWay(m)
      BY <1>2, <1>3 DEF OnWay, Holds
  <1>5. DataInv
      BY <1>2, <1>4 DEF DataInv
  <1>6. FreshInv /\ FlowInv /\ HandlerInv /\ OwedInv /\ SnapshotInv
      BY <1>2, <1>3 DEF FreshInv, FreshSession, FlowInv, NumberInv, StreamInv, QueueInv, HandlerInv,
                        OwedInv, SnapshotInv
  <1> QED BY <1>1, <1>5, <1>6 DEF CallInv

LEMMA CallStep == ASSUME CallInv, ~RegisterRace, [Next]_vars PROVE CallInv'
  <1>0. LinkInv /\ DataInv /\ FreshInv /\ FlowInv /\ HandlerInv /\ OwedInv /\ SnapshotInv
      BY DEF CallInv
  <1>1. LinkInv' /\ TypeOK'
      BY <1>0, LinkStep DEF LinkInv
  <1> QED BY <1>0, <1>1, DataStep, FreshStep, FlowStep, HandlerStep, OwedStep, SnapshotStep DEF CallInv

\* What a step tells the callers.
CallerStep ==
    \/ outcome' = outcome
    \/ \E r \in Runs : outcome[r] = "none" /\ outcome' = [outcome EXCEPT ![r] = "pending"]
    \/ \E r \in Runs : /\ outcome[r] = "pending" /\ agentState[r] \in {"done", "gone"}
                       /\ outcome' = [outcome EXCEPT ![r] = "result"]
    \/ \E lost \in SUBSET {r \in Runs : /\ outcome[r] = "pending"
                                       /\ agentState[r] \in {"none", "dead", "gone"}} :
          outcome' = [r \in Runs |-> IF r \in lost THEN "lost" ELSE outcome[r]]
    \/ outcome' = [r \in Runs |-> IF outcome[r] = "pending" THEN "closed" ELSE outcome[r]]

LEMMA CallersStep == ASSUME CallInv, ~RegisterRace, [Next]_vars PROVE CallerStep
  <1> USE DEF hubVars, linkVars, callerVars
  <1>0. /\ LinkInv /\ TypeOK /\ TrackedInv /\ HandlerInv /\ DataInv /\ SnapshotInv
        /\ tracked \subseteq Runs /\ got \in [Runs -> Nat]
        /\ outcome \in [Runs -> {"none", "pending", "result", "lost", "error", "closed"}]
        /\ run \in [Runs -> {"none", "running", "reported", "ended", "dead", "gone"}]
      BY DEF CallInv, LinkInv, AgentInv, TypeOK
  <1>a. ASSUME outcome' = outcome PROVE CallerStep
      BY <1>a DEF CallerStep
  <1>1. CASE Executor \/ sendHeartbeat \/ RunnerCrash \/ UNCHANGED vars
      BY <1>a, <1>1 DEF Executor, Output, Report, EndRun, sendHeartbeat, RunnerCrash, vars
  <1>2. ASSUME NEW r \in Runs, Dispatch(r) \/ Cancel(r) PROVE CallerStep
      BY <1>2 DEF Dispatch, Cancel, CallerStep
  <1>3. CASE BackendCrash
      <2>1. outcome' = finish(tracked, "closed")
          BY <1>3 DEF BackendCrash
      <2>2. \A r \in Runs : r \in tracked /\ outcome[r] = "pending" <=> outcome[r] = "pending"
          BY <1>0 DEF TrackedInv
      <2> QED BY <2>1, <2>2 DEF finish, CallerStep
  <1>4. ASSUME NEW s \in Sessions, Runner(s) PROVE CallerStep
      BY <1>a, <1>4 DEF Runner, Connect, Attach, Abandon, RunnerReceive, RunnerReceiveAck,
                        RunnerSend, RunnerSendAck
  <1>5. ASSUME NEW s \in Sessions, Hub(s) PROVE CallerStep
      <2>0. sess[s] \in Session
          BY <1>0 DEF TypeOK
      <2> DEFINE m == sess[s].hnd.msg
      <2>1. CASE Register(s)
          <3> DEFINE reg == sess[s].reg
                     lost == tracked \ (reg.active \cup reg.completed \cup QueuedRuns(KeptQueue(reg), "start"))
          <3>1. /\ outcome' = finish(lost, "lost") /\ sess[s].st = "checked"
                /\ \A t \in Sessions : t > s => sess[t].st # "open"
              BY <2>1 DEF Register
          <3>2. \A r \in lost : r \in Runs /\ outcome[r] = "pending" /\ run[r] \notin {"running", "reported", "ended"}
              BY <1>0, <3>1 DEF TrackedInv, SnapshotInv
          <3>3. \A r \in lost : agentState[r] \in {"none", "dead", "gone"}
              BY <1>0, <3>2 DEF agentState
          <3> HIDE DEF lost
          <3>4. outcome' = [r \in Runs |-> IF r \in lost THEN "lost" ELSE outcome[r]]
              BY <3>1, <3>2 DEF finish
          <3> QED BY <3>2, <3>3, <3>4 DEF CallerStep
      <2>2. CASE ApplyOutput(s)
          <3>1. sess[s].hnd.step = "taken"
              BY <2>2 DEF ApplyOutput, Handling
          <3>2. ~Late(m) /\ m.n \in Nat
              BY <1>0, <2>0, <3>1, HandlingType DEF HandlerInv
          <3>3. ~(m.run \in tracked /\ m.n > got[m.run])
              BY <3>2 DEF Late
          <3>4. outcome' = outcome
              BY <2>2, <3>3 DEF ApplyOutput
          <3> QED BY <1>a, <3>4
      <2>3. CASE Deliver(s)
          <3>1. /\ sess[s].hnd.step = "marked" /\ m.kind = "res"
                /\ outcome' = finish({m.run}, IF got[m.run] = m.n THEN "result" ELSE "error")
              BY <2>3 DEF Deliver, Handling
          <3>2. ~Late(m) /\ m.n \in Nat /\ m.run \in Runs /\ sess[s].hnd # Idle
              BY <1>0, <2>0, <3>1, HandlingType DEF HandlerInv
          <3>3. OnWay(m)
              BY <3>2 DEF OnWay, Holds
          <3> HIDE DEF m
          <3>4. run[m.run] \in {"reported", "ended", "gone"} /\ got[m.run] <= m.n
              BY <3>1, <3>3, <1>0 DEF DataInv
          <3>5. CASE outcome[m.run] = "pending"
              <4>1. m.run \in tracked
                  BY <1>0, <3>2, <3>5 DEF TrackedInv
              <4>2. got[m.run] = m.n
                  BY <1>0, <3>2, <3>4, <4>1 DEF Late
              <4>3. outcome' = [outcome EXCEPT ![m.run] = "result"]
                  BY <1>0, <3>1, <3>2, <3>5, <4>2 DEF finish
              <4>4. agentState[m.run] \in {"done", "gone"}
                  BY <3>2, <3>4 DEF agentState
              <4> QED BY <3>2, <3>5, <4>3, <4>4 DEF CallerStep
          <3>6. CASE outcome[m.run] # "pending"
              <4>1. outcome' = [r \in Runs |-> outcome[r]]
                  BY <3>1, <3>6 DEF finish
              <4> QED BY <1>0, <1>a, <4>1
          <3> QED BY <3>5, <3>6
      <2>4. CASE ~Register(s) /\ ~ApplyOutput(s) /\ ~Deliver(s)
          <3>1. outcome' = outcome
              BY <1>5, <2>4 DEF Hub, CheckFinalized, Detach, BackendSend, BackendSendAck,
                  BackendReceiveAck, Take, ApplyHeartbeat, MarkFinalized, MarkFailed, Commit
          <3> QED BY <1>a, <3>1
      <2> QED BY <2>1, <2>2, <2>3, <2>4
  <1> QED BY <1>1, <1>2, <1>3, <1>4, <1>5 DEF Next, Caller

\* Every step is one of the contract's, or none.
LEMMA ContractStep ==
    ASSUME CallInv, ~RegisterRace, [Next]_vars
    PROVE  Contract!Next \/ UNCHANGED Contract!vars
  <1> USE DEF Contract!Next, Contract!vars
  <1>1. AgentStep /\ CallerStep
      BY AgentsStep, CallersStep DEF CallInv
  <1>2. CASE outcome' = outcome
      BY <1>1, <1>2 DEF AgentStep, Contract!Start, Contract!Finish, Contract!RunnerRestart
  <1>3. CASE agentState' = agentState
      <2>1. \/ UNCHANGED <<outcome, agentState>>
            \/ \E r \in Runs : Contract!Dispatch(r) \/ Contract!Result(r)
            \/ Contract!Lose \/ Contract!BackendRestart
          BY <1>1, <1>3 DEF CallerStep, Contract!Dispatch, Contract!Result, Contract!Lose,
                            Contract!BackendRestart
      <2> QED BY <2>1
  <1> QED BY <1>1, <1>2, <1>3 DEF AgentStep

LEMMA ContractInit == Init => Contract!Init
  <1>1. Init => agentState = [r \in Runs |-> "none"]
      BY DEF Init, agentState
  <1> QED BY <1>1 DEF Init, Contract!Init

THEOREM ContractKept == ASSUME ~RegisterRace PROVE Spec => KeepsContract
  <1>1. CallInv /\ [Next]_vars => CallInv' /\ (Contract!Next \/ UNCHANGED Contract!vars)
      BY CallStep, ContractStep
  <1> QED BY <1>1, CallInit, ContractInit, PTL DEF Spec, KeepsContract, Contract!Spec

\* What the contract says of a run whose outcome is known.
Told ==
    \A r \in Runs : /\ outcome[r] # "error"
                    /\ outcome[r] = "lost" => agentState[r] \in {"none", "dead", "gone"}

LEMMA ToldStep == ASSUME CallInv, Told, ~RegisterRace, [Next]_vars PROVE Told'
  <1>0. /\ outcome \in [Runs -> {"none", "pending", "result", "lost", "error", "closed"}]
        /\ AgentStep /\ CallerStep
      BY AgentsStep, CallersStep DEF CallInv, LinkInv, TypeOK
  <1>1. \A r \in Runs : agentState'[r] # agentState[r] =>
           outcome[r] # "lost" \/ agentState'[r] \in {"none", "dead", "gone"}
      <2>0. agentState \in [Runs -> {"none", "running", "done", "dead", "gone"}]
          BY DEF CallInv, LinkInv, TypeOK, agentState
      <2> QED BY <1>0, <2>0 DEF AgentStep, Told
  <1>2. \A r \in Runs : outcome'[r] # outcome[r] =>
           /\ outcome'[r] # "error"
           /\ outcome'[r] = "lost" => agentState[r] \in {"none", "dead", "gone"} /\ agentState' = agentState
      <2>1. outcome' = outcome \/ agentState' = agentState
          BY <1>0 DEF AgentStep
      <2> QED BY <1>0, <2>1 DEF CallerStep
  <1> QED BY <1>1, <1>2 DEF Told

LEMMA ToldAlways == ASSUME ~RegisterRace PROVE Spec => []Told
  <1>1. Init => Told
      BY DEF Init, Told
  <1>2. CallInv /\ [Next]_vars => CallInv'
      BY CallStep
  <1>3. CallInv /\ Told /\ [Next]_vars => Told'
      BY ToldStep
  <1> QED BY <1>1, <1>2, <1>3, CallInit, PTL DEF Spec

THEOREM NothingMisdelivered == ASSUME ~RegisterRace PROVE Spec => []NoDeliveryFault
  <1>1. Told => NoDeliveryFault
      BY DEF Told, NoDeliveryFault
  <1> QED BY <1>1, ToldAlways, PTL

THEOREM LostRunsAreGone == ASSUME ~RegisterRace PROVE Spec => []LostIsGone
  <1>1. Told => LostIsGone
      BY DEF Told, LostIsGone, InTable, agentState
  <1> QED BY <1>1, ToldAlways, PTL

-----------------------------------------------------------------------------
(* Nobody waits in vain *)

\* A request to start an agent that the hub has queued and no runner has had.
Waits(m) == m \in bqueue /\ m.kind = "start" /\ run[m.run] = "none"

\* A run that the runner process has, or whose result it has yet to send.
UnderWay(r) == run[r] \in {"running", "reported", "ended"}

\* Sequence numbers of the backend grow, and no position in its stream is ahead
\* of them.
DownNumbers ==
    /\ \A m, o \in bqueue : m.seq = o.seq => m = o
    /\ \A m \in bqueue : m.seq <= bnext
    /\ seenBoot = bboot => lastB <= bnext
    /\ conn # 0 => sess[conn].bsent <= bnext /\ sess[conn].upAck <= bnext
    /\ \A s \in Sessions : sess[s].reg # NoReg /\ sess[s].reg.seenBoot = bboot =>
          sess[s].reg.lastB <= bnext
    /\ rsess # 0 /\ sess[rsess].st = "open" =>
          /\ \A m \in sess[rsess].down : m.seq <= bnext
          /\ \A m, o \in sess[rsess].down : m.seq = o.seq => m = o
    /\ \A s \in Sessions : sess[s].st \in {"unused", "dialled", "checked"} => sess[s].upAck = 0

\* A request that waits is behind every position: the runner's, one that a
\* Register brings and one that is acknowledged; and what was sent of it is
\* still on its way.
BehindAll(m) ==
    /\ seenBoot = bboot => m.seq > lastB
    /\ \A s \in Sessions :
          sess[s].reg # NoReg /\ sess[s].reg.boot = rboot /\ sess[s].reg.seenBoot = bboot =>
              m.seq > sess[s].reg.lastB
    /\ conn # 0 /\ knownBoot = rboot => m.seq > sess[conn].upAck
    /\ conn # 0 /\ rsess = conn /\ m.seq <= sess[conn].bsent => m \in sess[conn].down
    /\ rsess # 0 /\ sess[rsess].st = "open" =>
          \A x \in sess[rsess].down : m.seq <= x.seq => m \in sess[rsess].down
WaitsInv == \A m : Waits(m) => BehindAll(m)

\* No Register names a later backend process.
SeenInv == \A s \in Sessions : sess[s].reg # NoReg => sess[s].reg.seenBoot <= bboot

\* A hub that knows no process has nothing to wait for.
KnownInv == knownBoot = 0 => conn = 0 /\ tracked = {}

\* What the runner names in a Register or has queued is of this process.
NamedInv ==
    /\ \A s \in Sessions : sess[s].reg # NoReg /\ sess[s].reg.boot = rboot =>
          \A r \in sess[s].reg.active \cup sess[s].reg.completed : UnderWay(r)
    /\ \A m \in rqueue : m.kind # "hb" => UnderWay(m.run)

\* While the hub knows the runner's process, a run it waits for is under way or
\* its request is queued.
FateInv ==
    knownBoot = rboot => \A r \in tracked :
        \/ UnderWay(r)
        \/ run[r] = "none" /\ \E m \in bqueue : m.kind = "start" /\ m.run = r

ServeInv ==
    CallInv /\ SeenInv /\ DownNumbers /\ WaitsInv /\ KnownInv /\ NamedInv /\ FateInv
    /\ LostNeedsRestart

\* No position moves, except that an end of a session goes.
DownKept ==
    /\ UNCHANGED <<bboot, rboot, knownBoot, lastB, seenBoot>>
    /\ conn' \in {0, conn} /\ rsess' \in {0, rsess}
    /\ \A s \in Sessions :
          /\ sess'[s].reg = sess[s].reg
          /\ sess'[s].upAck \in {0, sess[s].upAck}
          /\ conn' = s => sess'[s].bsent = sess[s].bsent
          /\ rsess' = s => sess'[s].down = sess[s].down
          /\ sess'[s].st = "open" => sess[s].st = "open"
          /\ sess'[s].st \in {"unused", "dialled", "checked"} =>
                sess[s].st \in {"unused", "dialled", "checked"}

\* The queue's own numbers.
QueueNumbers ==
    /\ \A m, o \in bqueue : m.seq = o.seq => m = o
    /\ \A m \in bqueue : m.seq <= bnext

LEMMA DownNumbersKept ==
    ASSUME TypeOK, TypeOK', DownNumbers, DownKept, QueueNumbers', bnext' >= bnext
    PROVE  DownNumbers'
  <1>1. /\ bnext \in Nat /\ bnext' \in Nat /\ lastB \in Nat
        /\ conn' # 0 => conn' \in Sessions /\ conn' = conn
        /\ rsess' # 0 => rsess' \in Sessions /\ rsess' = rsess
      BY DEF TypeOK, DownKept
  <1>2. \A s \in Sessions : /\ sess[s].bsent \in Nat /\ sess[s].upAck \in Nat
                            /\ sess[s].down \subseteq DownMsg
                            /\ sess[s].reg # NoReg => sess[s].reg.lastB \in Nat
      BY DEF TypeOK, Session, RegisterMsg
  <1>3. seenBoot' = bboot' => lastB' <= bnext'
      BY <1>1 DEF DownNumbers, DownKept
  <1>4. conn' # 0 => sess'[conn'].bsent <= bnext' /\ sess'[conn'].upAck <= bnext'
      BY <1>1, <1>2 DEF DownNumbers, DownKept
  <1>5. \A s \in Sessions : sess'[s].reg # NoReg /\ sess'[s].reg.seenBoot = bboot' =>
            sess'[s].reg.lastB <= bnext'
      BY <1>1, <1>2 DEF DownNumbers, DownKept
  <1>6. rsess' # 0 /\ sess'[rsess'].st = "open" =>
            /\ \A m \in sess'[rsess'].down : m.seq <= bnext'
            /\ \A m, o \in sess'[rsess'].down : m.seq = o.seq => m = o
      <2> SUFFICES ASSUME rsess' # 0, sess'[rsess'].st = "open"
                   PROVE  /\ \A m \in sess'[rsess'].down : m.seq <= bnext'
                          /\ \A m, o \in sess'[rsess'].down : m.seq = o.seq => m = o
          OBVIOUS
      <2>1. rsess' = rsess /\ rsess \in Sessions /\ rsess # 0 /\ sess'[rsess'].down = sess[rsess].down
            /\ sess[rsess].st = "open"
          BY <1>1 DEF DownKept
      <2>2. \A m \in sess[rsess].down : m.seq \in Nat
          BY <1>2, <2>1 DEF DownMsg
      <2> QED BY <1>1, <2>1, <2>2 DEF DownNumbers
  <1>7. \A s \in Sessions : sess'[s].st \in {"unused", "dialled", "checked"} => sess'[s].upAck = 0
      BY DEF DownNumbers, DownKept
  <1> QED BY <1>3, <1>4, <1>5, <1>6, <1>7 DEF DownNumbers, QueueNumbers

\* A request made meanwhile is the last of all.
LEMMA WaitsKept ==
    ASSUME TypeOK, TypeOK', DownNumbers, WaitsInv, DownKept,
           \A m : Waits(m)' => Waits(m) \/ m.seq = bnext + 1
    PROVE  WaitsInv'
  <1> SUFFICES ASSUME NEW m, Waits(m)' PROVE BehindAll(m)'
      BY DEF WaitsInv
  <1>1. /\ bnext \in Nat /\ lastB \in Nat /\ m.seq \in Nat \ {0}
        /\ conn' # 0 => conn' \in Sessions /\ conn' = conn
        /\ rsess' # 0 => rsess' \in Sessions /\ rsess' = rsess
      BY DEF TypeOK, DownKept, Waits, DownMsg
  <1>2. \A s \in Sessions : /\ sess[s].bsent \in Nat /\ sess[s].upAck \in Nat
                            /\ sess[s].down \subseteq DownMsg
                            /\ sess[s].reg # NoReg => sess[s].reg.lastB \in Nat
      BY DEF TypeOK, Session, RegisterMsg
  <1>3. CASE Waits(m)
      <2>1. BehindAll(m)
          BY <1>3 DEF WaitsInv
      <2> QED BY <1>1, <1>2, <2>1 DEF BehindAll, DownKept
  <1>4. CASE m.seq = bnext + 1
      <2>1. \A n \in Nat : n <= bnext => m.seq > n
          BY <1>1, <1>4
      <2>2. seenBoot' = bboot' => m.seq > lastB'
          BY <1>1, <2>1 DEF DownNumbers, DownKept
      <2>3. \A s \in Sessions : sess'[s].reg # NoReg /\ sess'[s].reg.seenBoot = bboot' =>
                m.seq > sess'[s].reg.lastB
          BY <1>2, <2>1 DEF DownNumbers, DownKept
      <2>4. conn' # 0 => m.seq > sess'[conn'].upAck /\ ~(m.seq <= sess'[conn'].bsent)
          BY <1>1, <1>2, <2>1 DEF DownNumbers, DownKept
      <2>5. rsess' # 0 /\ sess'[rsess'].st = "open" => \A x \in sess'[rsess'].down : ~(m.seq <= x.seq)
          <3> SUFFICES ASSUME rsess' # 0, sess'[rsess'].st = "open", NEW x \in sess'[rsess'].down
                       PROVE  ~(m.seq <= x.seq)
              OBVIOUS
          <3>1. rsess # 0 /\ rsess \in Sessions /\ x \in sess[rsess].down /\ sess[rsess].st = "open"
              BY <1>1 DEF DownKept
          <3>2. x.seq \in Nat /\ x.seq <= bnext
              BY <1>2, <3>1 DEF DownNumbers, DownMsg
          <3> QED BY <1>1, <1>4, <3>2
      <2> QED BY <2>2, <2>3, <2>4, <2>5 DEF BehindAll
  <1> QED BY <1>3, <1>4

\* The steps that only lose what is on its way, or do not touch it.
LEMMA QuietSteps ==
    ASSUME TypeOK, NEW s \in Sessions,
           \/ Abandon(s) \/ Detach(s) \/ MarkFailed(s) \/ CheckFinalized(s)
           \/ RunnerReceiveAck(s) \/ RunnerSend(s) \/ BackendSendAck(s) \/ BackendReceiveAck(s)
           \/ Take(s) \/ ApplyHeartbeat(s) \/ ApplyOutput(s) \/ MarkFinalized(s) \/ Deliver(s)
           \/ Commit(s)
    PROVE  DownKept
  <1> USE DEF hubVars, callerVars, execVars, linkVars
  <1>0. /\ sess \in [Sessions -> Session] /\ sess[s] \in Session
        /\ s # 0 /\ \A t \in Sessions : t # 0
      BY RunnerLinkConstants DEF TypeOK
  <1>a. ASSUME NEW x, Sets(s, x), x.reg = sess[s].reg, x.upAck \in {0, sess[s].upAck},
               conn' = s => x.bsent = sess[s].bsent, rsess' = s => x.down = sess[s].down,
               x.st = sess[s].st \/ (sess[s].st = "dialled" /\ x.st = "checked"),
               UNCHANGED <<bboot, rboot, knownBoot, lastB, seenBoot>>,
               conn' \in {0, conn}, rsess' \in {0, rsess}
        PROVE  DownKept
      <2>1. sess'[s] = x /\ \A t \in Sessions : t # s => sess'[t] = sess[t]
          BY <1>0, <1>a, SetsEffect
      <2>2. \A t \in Sessions : /\ sess'[t].reg = sess[t].reg /\ sess'[t].upAck \in {0, sess[t].upAck}
                                /\ conn' = t => sess'[t].bsent = sess[t].bsent
                                /\ rsess' = t => sess'[t].down = sess[t].down
                                /\ sess'[t].st = sess[t].st
                                   \/ (sess[t].st = "dialled" /\ sess'[t].st = "checked")
          BY <1>a, <2>1
      <2> QED BY <1>a, <2>2 DEF DownKept
  <1>b. CASE CheckFinalized(s)
      <2>1. PICK a : Sets(s, [sess[s] EXCEPT !.st = "checked", !.fin = a]) /\ sess[s].st = "dialled"
          BY <1>b DEF CheckFinalized, Sets
      <2> DEFINE x == [sess[s] EXCEPT !.st = "checked", !.fin = a]
      <2>2. /\ x.reg = sess[s].reg /\ x.upAck = sess[s].upAck /\ x.bsent = sess[s].bsent
            /\ x.down = sess[s].down /\ x.st = "checked"
          BY <1>0 DEF Session
      <2>3. Sets(s, x)
          BY <2>1
      <2>4. /\ UNCHANGED <<bboot, rboot, knownBoot, lastB, seenBoot>>
            /\ conn' \in {0, conn} /\ rsess' \in {0, rsess}
          BY <1>b DEF CheckFinalized
      <2> HIDE DEF x
      <2> QED BY <1>a, <2>1, <2>2, <2>3, <2>4
  <1>c. CASE Abandon(s)
      <2>1. Sets(s, LeftByRunner(s)) /\ rsess' = 0
          BY <1>c DEF Abandon, Sets
      <2>2. /\ LeftByRunner(s).reg = sess[s].reg /\ LeftByRunner(s).upAck = sess[s].upAck
            /\ LeftByRunner(s).bsent = sess[s].bsent /\ LeftByRunner(s).st = sess[s].st
          BY <1>0 DEF Session, LeftByRunner
      <2>3. UNCHANGED <<bboot, rboot, knownBoot, lastB, seenBoot, conn>>
          BY <1>c DEF Abandon
      <2> QED BY <1>0, <1>a, <2>1, <2>2, <2>3
  <1>d. CASE Detach(s) \/ MarkFailed(s)
      <2> DEFINE x == [Closed(s) EXCEPT !.hnd = Idle]
      <2>1. Closed(s) \in Session
          BY <1>0, EndsAreSessions DEF TypeOK
      <2>2. /\ Closed(s).reg = sess[s].reg /\ Closed(s).upAck = 0
            /\ Closed(s).down = sess[s].down /\ Closed(s).st = sess[s].st
          BY <1>0 DEF Session, Closed
      <2>3. x.reg = sess[s].reg /\ x.upAck = 0 /\ x.down = sess[s].down /\ x.st = sess[s].st
          BY <2>1, <2>2 DEF Session
      <2>4. Sets(s, Closed(s)) \/ Sets(s, x)
          BY <1>d DEF Detach, MarkFailed, Sets
      <2>5. /\ UNCHANGED <<bboot, rboot, knownBoot, lastB, seenBoot, rsess>>
            /\ conn' \in {0, conn} /\ conn' # s
          BY <1>0, <1>d DEF Detach, MarkFailed, detach
      <2> HIDE DEF x
      <2> QED BY <1>a, <2>2, <2>3, <2>4, <2>5
  <1>e. CASE \/ RunnerReceiveAck(s) \/ RunnerSend(s) \/ BackendSendAck(s) \/ BackendReceiveAck(s)
             \/ Take(s) \/ ApplyHeartbeat(s) \/ ApplyOutput(s) \/ MarkFinalized(s) \/ Deliver(s)
             \/ Commit(s)
      <2>1. /\ UNCHANGED <<bboot, rboot, knownBoot, lastB, seenBoot, rsess, conn>>
          BY <1>e DEF RunnerReceiveAck, RunnerSend, BackendSendAck, BackendReceiveAck, Take,
                  ApplyHeartbeat, ApplyOutput, MarkFinalized, Deliver, Commit
      <2>a. ASSUME NEW x, Sets(s, x), x.reg = sess[s].reg, x.upAck \in {0, sess[s].upAck},
                   x.bsent = sess[s].bsent, x.down = sess[s].down, x.st = sess[s].st
            PROVE  DownKept
          BY <1>a, <2>1, <2>a
      <2>2. CASE RunnerReceiveAck(s)
          <3>1. Sets(s, [sess[s] EXCEPT !.downAck = 0])
              BY <2>2 DEF RunnerReceiveAck, Sets
          <3> QED BY <1>0, <2>a, <3>1 DEF Session
      <2>3. CASE RunnerSend(s)
          <3>1. PICK a, b : Sets(s, [sess[s] EXCEPT !.rsent = a, !.up = b])
              BY <2>3 DEF RunnerSend, Sets
          <3> QED BY <1>0, <2>a, <3>1 DEF Session
      <2>4. CASE BackendSendAck(s)
          <3>1. PICK a, b : Sets(s, [sess[s] EXCEPT !.ackDirty = a, !.downAck = b])
              BY <2>4 DEF BackendSendAck, Sets
          <3> QED BY <1>0, <2>a, <3>1 DEF Session
      <2>5. CASE BackendReceiveAck(s)
          <3>1. Sets(s, [sess[s] EXCEPT !.upAck = 0])
              BY <2>5 DEF BackendReceiveAck, Sets
          <3> QED BY <1>0, <2>a, <3>1 DEF Session
      <2>6. CASE Take(s)
          <3>1. PICK a, b : Sets(s, [sess[s] EXCEPT !.up = a, !.hnd = b])
              BY <2>6 DEF Take, Sets
          <3> QED BY <1>0, <2>a, <3>1 DEF Session
      <2>7. CASE ApplyHeartbeat(s) \/ ApplyOutput(s) \/ MarkFinalized(s) \/ Deliver(s)
          <3>1. PICK a : Sets(s, [sess[s] EXCEPT !.hnd = a])
              <4>1. \E step : sess' = [sess EXCEPT ![s].hnd.step = step]
                  BY <2>7 DEF ApplyHeartbeat, ApplyOutput, MarkFinalized, Deliver
              <4> QED BY <4>1 DEF Sets
          <3> QED BY <1>0, <2>a, <3>1 DEF Session
      <2>8. CASE Commit(s)
          <3> DEFINE b == IF sess[s].live THEN highest' ELSE 0
                     c == sess[s].live
                     x == [sess[s] EXCEPT !.hnd = Idle, !.ackSeq = b, !.ackDirty = c]
          <3>1. Sets(s, x)
              BY <2>8 DEF Commit, Sets
          <3> HIDE DEF b, c
          <3>2. /\ x.reg = sess[s].reg /\ x.upAck = sess[s].upAck /\ x.bsent = sess[s].bsent
                /\ x.down = sess[s].down /\ x.st = sess[s].st
              BY <1>0 DEF Session
          <3> HIDE DEF x
          <3> QED BY <2>a, <3>1, <3>2
      <2> QED BY <1>e, <2>2, <2>3, <2>4, <2>5, <2>6, <2>7, <2>8
  <1> QED BY <1>b, <1>c, <1>d, <1>e

\* What Register leaves of the queue, and what it adds.
LEMMA RegisterQueue ==
    ASSUME LinkInv, QueueNumbers, NEW s \in Sessions, Register(s)
    PROVE  /\ sess[s].reg \in RegisterMsg /\ sess[s].reg # NoReg
           /\ KeptQueue(sess[s].reg) \subseteq bqueue' /\ KeptQueue(sess[s].reg) \subseteq bqueue
           /\ \A m \in bqueue' : m \in KeptQueue(sess[s].reg) \/ (m.kind = "cancel" /\ m.seq > bnext)
           /\ \A m \in bqueue' : m \in bqueue \/ m.seq <= bnext'
           /\ \A m, o \in bqueue' : m.seq = o.seq => m = o \/ (m \in bqueue /\ o \in bqueue)
           /\ bnext' \in Nat /\ bnext' >= bnext
  <1> DEFINE reg == sess[s].reg
             kept == KeptQueue(reg)
             known == reg.active \cup reg.completed \cup QueuedRuns(kept, "start")
             lost == tracked \ known
             orphans == ((reg.active \ (tracked \ lost)) \ sess[s].fin) \ QueuedRuns(kept, "cancel")
             N == Cardinality(orphans)
  <1>0. TypeOK /\ SessionInv /\ sess[s] \in Session
      BY DEF LinkInv, AgentInv, TypeOK
  <1>1. sess[s].st = "checked" /\ reg # NoReg /\ reg \in RegisterMsg
      BY <1>0 DEF Register, SessionInv, Session
  <1>2. orphans \in SUBSET Runs /\ IsFiniteSet(orphans) /\ N \in Nat
      <2>1. reg.active \in SUBSET Runs
          BY <1>1 DEF RegisterMsg
      <2> HIDE DEF reg, kept, lost
      <2>2. orphans \in SUBSET Runs
          BY <2>1
      <2> HIDE DEF orphans
      <2> QED BY <2>2, RunnerLinkConstants, FS_Subset, FS_CardinalityType DEF N
  <1>3. PICK order \in [orphans -> (bnext + 1)..(bnext + N)] :
              /\ \A q, r \in orphans : q # r => order[q] # order[r]
              /\ bqueue' = kept \cup {[seq |-> order[r], kind |-> "cancel", run |-> r] : r \in orphans}
      BY DEF Register
  <1>4. bnext' = bnext + N /\ bnext \in Nat
      BY <1>0 DEF Register, TypeOK
  <1>5. kept \subseteq bqueue
      BY DEF KeptQueue, Trim
  <1>6. \A m \in kept : m.seq \in Nat /\ m.seq <= bnext
      BY <1>0, <1>5 DEF TypeOK, DownMsg, QueueNumbers
  <1> DEFINE Cancels == {[seq |-> order[r], kind |-> "cancel", run |-> r] : r \in orphans}
  <1> HIDE DEF orphans, kept, N, lost, known, reg
  <1>7. \A m \in Cancels : m.kind = "cancel" /\ m.seq > bnext /\ m.seq <= bnext'
      BY <1>2, <1>3, <1>4
  <1>8. \A m, o \in Cancels : m.seq = o.seq => m = o
      <2> SUFFICES ASSUME NEW q \in orphans, NEW r \in orphans, order[q] = order[r]
                   PROVE  q = r
          OBVIOUS
      <2> QED BY <1>3
  <1>9. bqueue' = kept \cup Cancels
      BY <1>3
  <1> HIDE DEF Cancels
  <1>10. \A m \in Cancels : m.seq \in Nat
      <2> SUFFICES ASSUME NEW r \in orphans PROVE order[r] \in Nat
          BY DEF Cancels
      <2> QED BY <1>2, <1>3, <1>4
  <1>11. \A m, o \in bqueue' : m.seq = o.seq => m = o \/ (m \in bqueue /\ o \in bqueue)
      BY <1>4, <1>5, <1>6, <1>7, <1>8, <1>9, <1>10
  <1> QED BY <1>11, <1>1, <1>2, <1>4, <1>5, <1>6, <1>7, <1>8, <1>9 DEF reg, kept

LEMMA QueueNumbersStep ==
    ASSUME LinkInv, QueueNumbers, [Next]_vars
    PROVE  /\ QueueNumbers'
           /\ bboot' = bboot => bnext' >= bnext
           /\ \A m : Waits(m)' => Waits(m) \/ m.seq = bnext + 1
  <1> USE DEF hubVars, callerVars, execVars, linkVars
  <1>0. TypeOK /\ bnext \in Nat /\ bqueue \subseteq DownMsg
      BY DEF LinkInv, TypeOK
  <1>1. \A m : m \in bqueue => m.run \in Runs /\ m.seq \in Nat
      BY <1>0 DEF DownMsg
  <1>2. \A r \in Runs : run'[r] = "none" => run[r] = "none"
      BY RunsMoveOn
  <1>a. ASSUME bqueue' \subseteq bqueue, bnext' = bnext
        PROVE  QueueNumbers' /\ bnext' >= bnext /\ \A m : Waits(m)' => Waits(m)
      BY <1>0, <1>1, <1>2, <1>a DEF QueueNumbers, Waits
  <1>3. ASSUME NEW r \in Runs, NEW kind \in {"start", "cancel"}, enqueueLocked(kind, r)
        PROVE  /\ QueueNumbers' /\ bnext' >= bnext
               /\ \A m : Waits(m)' => Waits(m) \/ m.seq = bnext + 1
      <2>1. BackendMsg(kind, r).seq = bnext + 1 /\ bqueue' = bqueue \cup {BackendMsg(kind, r)}
            /\ bnext' = bnext + 1
          BY <1>3 DEF BackendMsg, enqueueLocked
      <2>2. QueueNumbers'
          BY <1>0, <1>1, <2>1 DEF QueueNumbers
      <2>3. \A m : Waits(m)' => Waits(m) \/ m.seq = bnext + 1
          BY <1>1, <1>2, <2>1 DEF Waits
      <2> QED BY <1>0, <2>1, <2>2, <2>3
  <1>4. CASE Caller
      <2>1. PICK r \in Runs : Dispatch(r) \/ Cancel(r)
          BY <1>4 DEF Caller
      <2>2. enqueueLocked("start", r) \/ enqueueLocked("cancel", r)
          BY <2>1 DEF Dispatch, Cancel
      <2> QED BY <1>3, <2>2
  <1>5. CASE Executor \/ sendHeartbeat \/ UNCHANGED vars \/ RunnerCrash
      <2>1. bqueue' = bqueue /\ bnext' = bnext
          BY <1>5 DEF Executor, Output, Report, EndRun, sendHeartbeat, vars, RunnerCrash
      <2> QED BY <1>a, <2>1
  <1>6. ASSUME NEW s \in Sessions, Runner(s)
        PROVE  QueueNumbers' /\ bnext' >= bnext /\ \A m : Waits(m)' => Waits(m)
      <2>1. bqueue' = bqueue /\ bnext' = bnext
          BY <1>6 DEF Runner, Connect, Attach, Abandon, RunnerReceive, RunnerReceiveAck, RunnerSend,
                  RunnerSendAck
      <2> QED BY <1>a, <2>1
  <1>7. ASSUME NEW s \in Sessions, Hub(s), ~Register(s)
        PROVE  QueueNumbers' /\ bnext' >= bnext /\ \A m : Waits(m)' => Waits(m)
      <2>1. bqueue' \subseteq bqueue /\ bnext' = bnext
          BY <1>7 DEF Hub, CheckFinalized, Detach, BackendSend, BackendSendAck, BackendReceiveAck,
                  Take, ApplyHeartbeat, ApplyOutput, MarkFinalized, MarkFailed, Deliver, Commit, Trim
      <2> QED BY <1>a, <2>1
  <1>8. ASSUME NEW s \in Sessions, Register(s)
        PROVE  QueueNumbers' /\ bnext' >= bnext /\ \A m : Waits(m)' => Waits(m)
      <2> DEFINE kept == KeptQueue(sess[s].reg)
      <2>1. /\ kept \subseteq bqueue /\ bnext' >= bnext /\ bnext' \in Nat
            /\ \A m \in bqueue' : m \in kept \/ (m.kind = "cancel" /\ m.seq > bnext)
            /\ \A m \in bqueue' : m \in bqueue \/ m.seq <= bnext'
            /\ \A m, o \in bqueue' : m.seq = o.seq => m = o \/ (m \in bqueue /\ o \in bqueue)
          BY <1>8, RegisterQueue
      <2> HIDE DEF kept
      <2>2. QueueNumbers'
          BY <1>0, <1>1, <2>1 DEF QueueNumbers
      <2>3. \A m : Waits(m)' => Waits(m)
          BY <1>1, <1>2, <2>1 DEF Waits
      <2> QED BY <2>1, <2>2, <2>3
  <1>9. CASE BackendCrash
      <2>1. bqueue' = {} /\ bboot' = bboot + 1 /\ bboot \in Nat
          BY <1>9 DEF BackendCrash, LinkInv, TypeOK
      <2> QED BY <2>1 DEF QueueNumbers, Waits
  <1> QED BY <1>4, <1>5, <1>6, <1>7, <1>8, <1>9 DEF Next

\* What the other steps do to what goes down.
LEMMA ConnectDown ==
    ASSUME TypeOK, NEW s \in Sessions, Connect(s)
    PROVE  /\ Others(s) /\ sess[s].st = "unused" /\ sess'[s].st = "dialled"
           /\ sess'[s].reg = buildRegister
           /\ sess'[s].down = {} /\ sess'[s].upAck = 0 /\ sess'[s].bsent = 0
  <1> DEFINE g == buildRegister
             x == [Unused EXCEPT !.st = "dialled", !.live = TRUE, !.reg = g]
  <1>1. x.st = "dialled" /\ x.reg = g /\ x.down = {} /\ x.upAck = 0 /\ x.bsent = 0
      BY DEF Unused
  <1>2. Sets(s, x) /\ sess \in [Sessions -> Session] /\ sess[s].st = "unused"
      BY DEF Connect, Sets, TypeOK
  <1> HIDE DEF x
  <1>3. sess'[s] = x /\ Others(s)
      BY <1>2, SetsEffect DEF Others
  <1> QED BY <1>1, <1>2, <1>3

LEMMA RegisterDown ==
    ASSUME TypeOK, NEW s \in Sessions, Register(s)
    PROVE  /\ Others(s) /\ sess[s].st = "checked" /\ sess'[s].st = "open" /\ sess'[s].reg = NoReg
           /\ sess'[s].down = sess[s].down /\ sess'[s].upAck = sess[s].upAck
           /\ sess'[s].bsent = sess[s].bsent
  <1>0. sess \in [Sessions -> Session] /\ sess[s] \in Session
      BY DEF TypeOK
  <1> DEFINE a == IF sess[s].live /\ rsess = s THEN [boot |-> bboot, acked |-> highest'] ELSE NoRes
             x == [sess[s] EXCEPT !.st = "open", !.reg = NoReg, !.fin = {}, !.res = a]
  <1>1. Sets(s, x) /\ sess[s].st = "checked"
      BY DEF Register, Sets
  <1> HIDE DEF a
  <1>2. /\ x.st = "open" /\ x.reg = NoReg /\ x.down = sess[s].down
        /\ x.upAck = sess[s].upAck /\ x.bsent = sess[s].bsent
      BY <1>0 DEF Session
  <1> HIDE DEF x
  <1>3. sess'[s] = x /\ Others(s)
      BY <1>0, <1>1, SetsEffect DEF Others
  <1> QED BY <1>1, <1>2, <1>3

LEMMA AttachDown ==
    ASSUME TypeOK, NEW s \in Sessions, Attach(s)
    PROVE  /\ Others(s) /\ sess'[s].st = sess[s].st /\ sess'[s].reg = sess[s].reg
           /\ sess'[s].down = sess[s].down /\ sess'[s].upAck = sess[s].upAck
           /\ sess'[s].bsent = sess[s].bsent
  <1>0. sess \in [Sessions -> Session] /\ sess[s] \in Session
      BY DEF TypeOK
  <1>1. Sets(s, [sess[s] EXCEPT !.res = NoRes])
      BY DEF Attach, Sets
  <1> QED BY <1>0, <1>1, SetsEffect DEF Session, Others

LEMMA SendAckDown ==
    ASSUME TypeOK, NEW s \in Sessions, RunnerSendAck(s)
    PROVE  /\ Others(s) /\ sess'[s].st = sess[s].st /\ sess'[s].reg = sess[s].reg
           /\ sess'[s].down = sess[s].down /\ sess'[s].bsent = sess[s].bsent
           /\ sess'[s].upAck = IF sess[s].live THEN lastB ELSE 0
  <1>0. sess \in [Sessions -> Session] /\ sess[s] \in Session
      BY DEF TypeOK
  <1> DEFINE a == IF sess[s].live THEN lastB ELSE 0
             x == [sess[s] EXCEPT !.upAck = a]
  <1>1. Sets(s, x)
      BY DEF RunnerSendAck, Sets
  <1> HIDE DEF a
  <1>2. /\ x.st = sess[s].st /\ x.reg = sess[s].reg /\ x.down = sess[s].down
        /\ x.bsent = sess[s].bsent /\ x.upAck = a
      BY <1>0 DEF Session
  <1> HIDE DEF x
  <1>3. sess'[s] = x /\ Others(s)
      BY <1>0, <1>1, SetsEffect DEF Others
  <1> QED BY <1>2, <1>3 DEF a

LEMMA BackendSendDown ==
    ASSUME TypeOK, NEW s \in Sessions, BackendSend(s)
    PROVE  \E m \in bqueue :
              /\ IsNextToSend(m, bqueue, sess[s].bsent)
              /\ sess'[s].bsent = m.seq
              /\ sess'[s].down = IF rsess = s THEN sess[s].down \cup {m} ELSE {}
              /\ Others(s) /\ sess'[s].st = sess[s].st /\ sess'[s].reg = sess[s].reg
              /\ sess'[s].upAck = sess[s].upAck
  <1>0. sess \in [Sessions -> Session] /\ sess[s] \in Session
      BY DEF TypeOK
  <1>1. PICK m \in bqueue :
              /\ IsNextToSend(m, bqueue, sess[s].bsent)
              /\ sess' = [sess EXCEPT ![s].bsent = m.seq,
                                      ![s].down = IF rsess = s THEN @ \cup {m} ELSE {}]
      BY DEF BackendSend
  <1> DEFINE a == IF rsess = s THEN sess[s].down \cup {m} ELSE {}
             b == m.seq
             x == [sess[s] EXCEPT !.bsent = b, !.down = a]
  <1>2. Sets(s, x)
      BY <1>1 DEF Sets
  <1> HIDE DEF a, b
  <1>3. x.st = sess[s].st /\ x.reg = sess[s].reg /\ x.down = a /\ x.bsent = b /\ x.upAck = sess[s].upAck
      BY <1>0 DEF Session
  <1> HIDE DEF x
  <1>4. sess'[s] = x /\ Others(s)
      BY <1>0, <1>2, SetsEffect DEF Others
  <1> QED BY <1>1, <1>3, <1>4 DEF a, b

LEMMA ReceiveDown ==
    ASSUME TypeOK, NEW s \in Sessions, RunnerReceive(s)
    PROVE  \E m \in sess[s].down :
              /\ IsFirst(m, sess[s].down)
              /\ IF m.seq <= lastB THEN UNCHANGED <<lastB, execVars>> ELSE handle(m) /\ lastB' = m.seq
              /\ sess'[s].down = sess[s].down \ {m}
              /\ Others(s) /\ sess'[s].st = sess[s].st /\ sess'[s].reg = sess[s].reg
              /\ sess'[s].upAck = sess[s].upAck /\ sess'[s].bsent = sess[s].bsent
  <1>0. sess \in [Sessions -> Session] /\ sess[s] \in Session
      BY DEF TypeOK
  <1>1. PICK m \in sess[s].down :
           /\ IsFirst(m, sess[s].down)
           /\ IF m.seq <= lastB THEN UNCHANGED <<lastB, execVars>> ELSE handle(m) /\ lastB' = m.seq
           /\ sess' = [sess EXCEPT ![s].down = @ \ {m}]
      BY DEF RunnerReceive
  <1> DEFINE a == sess[s].down \ {m}
             x == [sess[s] EXCEPT !.down = a]
  <1>2. Sets(s, x)
      BY <1>1 DEF Sets
  <1> HIDE DEF a
  <1>3. /\ x.st = sess[s].st /\ x.reg = sess[s].reg /\ x.down = a
        /\ x.upAck = sess[s].upAck /\ x.bsent = sess[s].bsent
      BY <1>0 DEF Session
  <1> HIDE DEF x
  <1>4. sess'[s] = x /\ Others(s)
      BY <1>0, <1>2, SetsEffect DEF Others
  <1> QED BY <1>1, <1>3, <1>4 DEF a

\* A new Register brings the position the runner has.
LEMMA ConnectWaits ==
    ASSUME LinkInv, DownNumbers, WaitsInv, NEW s \in Sessions, Connect(s)
    PROVE  DownNumbers' /\ WaitsInv'
  <1> USE DEF hubVars, callerVars, execVars, linkVars
  <1>0. TypeOK /\ SessionInv
      BY DEF LinkInv, AgentInv
  <1>1. /\ Others(s) /\ sess[s].st = "unused" /\ sess'[s].st = "dialled" /\ sess'[s].reg = buildRegister
        /\ sess'[s].down = {} /\ sess'[s].upAck = 0 /\ sess'[s].bsent = 0
      BY <1>0, ConnectDown
  <1>2. /\ rsess' = s
        /\ UNCHANGED <<bboot, bnext, bqueue, knownBoot, conn, rboot, lastB, seenBoot, run>>
      BY DEF Connect
  <1>3. buildRegister.boot = rboot /\ buildRegister.lastB = lastB /\ buildRegister.seenBoot = seenBoot
      BY DEF buildRegister
  <1>4. /\ conn # s /\ s # 0 /\ (conn # 0 => conn \in Sessions)
      BY <1>0, <1>1, RunnerLinkConstants DEF SessionInv, TypeOK
  <1>5. DownNumbers'
      BY <1>1, <1>2, <1>3, <1>4 DEF DownNumbers, Others
  <1>6. WaitsInv'
      <2> SUFFICES ASSUME NEW m, Waits(m)' PROVE BehindAll(m)'
          BY DEF WaitsInv
      <2>1. Waits(m) /\ BehindAll(m)
          BY <1>2 DEF Waits, WaitsInv
      <2> QED BY <1>1, <1>2, <1>3, <1>4, <2>1 DEF BehindAll, Others
  <1> QED BY <1>5, <1>6

\* A runner attached to another backend process begins at its first message.
LEMMA AttachWaits ==
    ASSUME LinkInv, DownNumbers, WaitsInv, NEW s \in Sessions, Attach(s)
    PROVE  DownNumbers' /\ WaitsInv'
  <1> USE DEF hubVars, callerVars, execVars, linkVars
  <1>0. TypeOK /\ bnext \in Nat
      BY DEF LinkInv, TypeOK
  <1>1. /\ Others(s) /\ sess'[s].st = sess[s].st /\ sess'[s].reg = sess[s].reg
        /\ sess'[s].down = sess[s].down /\ sess'[s].upAck = sess[s].upAck
        /\ sess'[s].bsent = sess[s].bsent
      BY <1>0, AttachDown
  <1>2. /\ lastB' = 0 \/ (lastB' = lastB /\ seenBoot' = seenBoot)
        /\ UNCHANGED <<bboot, bnext, bqueue, knownBoot, conn, rboot, rsess, run>>
      BY DEF Attach
  <1>3. DownNumbers'
      <2>1. seenBoot' = bboot' => lastB' <= bnext'
          BY <1>0, <1>2 DEF DownNumbers
      <2>2. \A t \in Sessions : /\ sess'[t].st = sess[t].st /\ sess'[t].reg = sess[t].reg
                                /\ sess'[t].down = sess[t].down /\ sess'[t].upAck = sess[t].upAck
                                /\ sess'[t].bsent = sess[t].bsent
          BY <1>1 DEF Others
      <2>3. (conn # 0 => conn \in Sessions) /\ (rsess # 0 => rsess \in Sessions)
          BY <1>0 DEF TypeOK
      <2> QED BY <1>2, <2>1, <2>2, <2>3 DEF DownNumbers
  <1>4. WaitsInv'
      <2> SUFFICES ASSUME NEW m, Waits(m)' PROVE BehindAll(m)'
          BY DEF WaitsInv
      <2>1. Waits(m) /\ BehindAll(m) /\ m.seq \in Nat \ {0}
          BY <1>0, <1>2 DEF Waits, WaitsInv, TypeOK, DownMsg
      <2>2. seenBoot' = bboot' => m.seq > lastB'
          BY <1>2, <2>1 DEF BehindAll
      <2>3. (conn # 0 => conn \in Sessions) /\ (rsess # 0 => rsess \in Sessions)
          BY <1>0 DEF TypeOK
      <2>4. \A t \in Sessions : /\ sess'[t].st = sess[t].st /\ sess'[t].reg = sess[t].reg
                                /\ sess'[t].down = sess[t].down /\ sess'[t].upAck = sess[t].upAck
                                /\ sess'[t].bsent = sess[t].bsent
          BY <1>1 DEF Others
      <2> QED BY <1>2, <2>1, <2>2, <2>3, <2>4 DEF BehindAll
  <1> QED BY <1>3, <1>4

\* An attached runner has a position in the stream of this backend, if its
\* session is served.
LEMMA AttachedTo ==
    ASSUME LinkInv, FreshInv, NEW s \in Sessions, rsess = s, attached
    PROVE  /\ sess[s].st \in {"open", "closed"}
           /\ sess[s].st = "open" <=> seenBoot = bboot
           /\ sess[s].live => sess[s].st = "open" /\ conn = s /\ knownBoot = rboot
  <1>1. s # 0 /\ bboot \in Nat /\ seenBoot \in Nat
      BY RunnerLinkConstants DEF LinkInv, TypeOK
  <1>2. sess[s].st \in {"open", "closed"}
      BY <1>1 DEF LinkInv, AgentInv, SessionInv
  <1>3. sess[s].st = "open" <=> seenBoot = bboot
      BY <1>1, <1>2 DEF LinkInv, AgentInv, BootInv
  <1>4. sess[s].live => sess[s].st = "open"
      BY <1>2 DEF FreshInv, FreshSession
  <1> QED BY <1>1, <1>2, <1>3, <1>4 DEF FreshInv

\* The runner acknowledges what it has handled.
LEMMA SendAckWaits ==
    ASSUME LinkInv, FreshInv, DownNumbers, WaitsInv, NEW s \in Sessions, RunnerSendAck(s)
    PROVE  DownNumbers' /\ WaitsInv'
  <1> USE DEF hubVars, callerVars, execVars, linkVars
  <1>0. TypeOK /\ bnext \in Nat
      BY DEF LinkInv, TypeOK
  <1>1. /\ Others(s) /\ sess'[s].st = sess[s].st /\ sess'[s].reg = sess[s].reg
        /\ sess'[s].down = sess[s].down /\ sess'[s].bsent = sess[s].bsent
        /\ sess'[s].upAck = IF sess[s].live THEN lastB ELSE 0
      BY <1>0, SendAckDown
  <1>2. /\ rsess = s /\ attached
        /\ UNCHANGED <<bboot, bnext, bqueue, knownBoot, conn, rboot, rsess, lastB, seenBoot, run>>
      BY DEF RunnerSendAck
  <1>3. /\ sess[s].st \in {"open", "closed"}
        /\ sess[s].live => seenBoot = bboot
      BY <1>2, AttachedTo
  <1>4. \A t \in Sessions : /\ sess'[t].st = sess[t].st /\ sess'[t].reg = sess[t].reg
                            /\ sess'[t].down = sess[t].down /\ sess'[t].bsent = sess[t].bsent
                            /\ \/ sess'[t].upAck = sess[t].upAck
                               \/ t = s /\ sess'[t].upAck = 0
                               \/ t = s /\ sess'[t].upAck = lastB /\ seenBoot = bboot
      BY <1>1, <1>3 DEF Others
  <1>5. (conn # 0 => conn \in Sessions) /\ (rsess # 0 => rsess \in Sessions)
      BY <1>0 DEF TypeOK
  <1>6. DownNumbers'
      <2>1. conn # 0 => sess'[conn].bsent <= bnext /\ sess'[conn].upAck <= bnext
          BY <1>0, <1>4, <1>5 DEF DownNumbers
      <2>2. \A t \in Sessions : sess'[t].st \in {"unused", "dialled", "checked"} => sess'[t].upAck = 0
          BY <1>3, <1>4 DEF DownNumbers
      <2> QED BY <1>2, <1>4, <1>5, <2>1, <2>2 DEF DownNumbers
  <1>7. WaitsInv'
      <2> SUFFICES ASSUME NEW m, Waits(m)' PROVE BehindAll(m)'
          BY DEF WaitsInv
      <2>1. Waits(m) /\ BehindAll(m) /\ m.seq \in Nat \ {0}
          BY <1>0, <1>2 DEF Waits, WaitsInv, TypeOK, DownMsg
      <2>2. conn # 0 /\ knownBoot = rboot => m.seq > sess'[conn].upAck
          BY <1>4, <1>5, <2>1 DEF BehindAll
      <2> QED BY <1>2, <1>4, <1>5, <2>1, <2>2 DEF BehindAll
  <1> QED BY <1>6, <1>7

\* A Register binds the node to a session that nothing has been sent over.
LEMMA RegisterWaits ==
    ASSUME LinkInv, DownNumbers, WaitsInv, NEW s \in Sessions, Register(s)
    PROVE  DownNumbers' /\ WaitsInv'
  <1> USE DEF hubVars, callerVars, execVars, linkVars
  <1>0. /\ TypeOK /\ bnext \in Nat /\ lastB \in Nat /\ QueueNumbers /\ s # 0
        /\ rsess # 0 => rsess \in Sessions
      BY RunnerLinkConstants DEF LinkInv, TypeOK, DownNumbers, QueueNumbers
  <1>1. /\ Others(s) /\ sess[s].st = "checked" /\ sess'[s].st = "open" /\ sess'[s].reg = NoReg
        /\ sess'[s].down = sess[s].down /\ sess'[s].upAck = sess[s].upAck
        /\ sess'[s].bsent = sess[s].bsent
      BY <1>0, RegisterDown
  <1>2. sess'[s].down = {} /\ sess'[s].upAck = 0 /\ sess'[s].bsent = 0
      BY <1>1 DEF LinkInv, AgentInv, SessionInv, DownNumbers
  <1>3. /\ conn' = s
        /\ UNCHANGED <<bboot, rboot, rsess, lastB, seenBoot, run>>
      BY DEF Register
  <1>4. /\ KeptQueue(sess[s].reg) \subseteq bqueue
        /\ \A m \in bqueue' : m \in KeptQueue(sess[s].reg) \/ m.kind = "cancel"
        /\ bnext' \in Nat /\ bnext' >= bnext
      BY <1>0, RegisterQueue
  <1>5. QueueNumbers'
      <2>1. Hub(s)
          BY DEF Hub
      <2>2. [Next]_vars
          BY <2>1 DEF Next
      <2> QED BY <1>0, <2>2, QueueNumbersStep
  <1>6. \A t \in Sessions : /\ sess[t].upAck \in Nat /\ sess[t].bsent \in Nat
                            /\ sess[t].reg # NoReg => sess[t].reg.lastB \in Nat
                            /\ \A m \in sess[t].down : m.seq \in Nat
      BY <1>0 DEF TypeOK, Session, RegisterMsg, DownMsg
  <1>7. DownNumbers'
      <2>1. seenBoot' = bboot' => lastB' <= bnext'
          BY <1>0, <1>3, <1>4 DEF DownNumbers
      <2>2. \A t \in Sessions : sess'[t].reg # NoReg /\ sess'[t].reg.seenBoot = bboot' =>
                sess'[t].reg.lastB <= bnext'
          BY <1>0, <1>1, <1>3, <1>4, <1>6 DEF DownNumbers, Others
      <2>3. conn' # 0 => sess'[conn'].bsent <= bnext' /\ sess'[conn'].upAck <= bnext'
          BY <1>2, <1>3, <1>4
      <2>4. ASSUME rsess' # 0, sess'[rsess'].st = "open"
            PROVE  /\ \A m \in sess'[rsess'].down : m.seq <= bnext'
                   /\ \A m, o \in sess'[rsess'].down : m.seq = o.seq => m = o
          <3>1. CASE rsess = s
              BY <1>2, <1>3, <3>1
          <3>2. CASE rsess # s
              <4>1. sess'[rsess'] = sess[rsess] /\ rsess # 0 /\ rsess \in Sessions
                  BY <1>0, <1>1, <1>3, <2>4, <3>2 DEF Others
              <4> QED BY <1>0, <1>4, <1>6, <2>4, <4>1 DEF DownNumbers
          <3> QED BY <3>1, <3>2
      <2>5. \A t \in Sessions : sess'[t].st \in {"unused", "dialled", "checked"} => sess'[t].upAck = 0
          BY <1>1 DEF DownNumbers, Others
      <2> QED BY <1>5, <2>1, <2>2, <2>3, <2>4, <2>5 DEF DownNumbers, QueueNumbers
  <1>8. WaitsInv'
      <2> SUFFICES ASSUME NEW m, Waits(m)' PROVE BehindAll(m)'
          BY DEF WaitsInv
      <2>1. Waits(m)
          BY <1>3, <1>4 DEF Waits
      <2>2. BehindAll(m) /\ m.seq \in Nat \ {0}
          BY <1>0, <2>1 DEF WaitsInv, Waits, TypeOK, DownMsg
      <2>3. seenBoot' = bboot' => m.seq > lastB'
          BY <1>3, <2>2 DEF BehindAll
      <2>4. \A t \in Sessions :
                sess'[t].reg # NoReg /\ sess'[t].reg.boot = rboot' /\ sess'[t].reg.seenBoot = bboot' =>
                    m.seq > sess'[t].reg.lastB
          BY <1>1, <1>3, <2>2 DEF BehindAll, Others
      <2>5. m.seq > sess'[conn'].upAck /\ ~(m.seq <= sess'[conn'].bsent)
          BY <1>2, <1>3, <2>2
      <2>6. rsess' # 0 /\ sess'[rsess'].st = "open" =>
                \A x \in sess'[rsess'].down : m.seq <= x.seq => m \in sess'[rsess'].down
          <3>1. CASE rsess = s
              BY <1>2, <1>3, <3>1
          <3>2. CASE rsess # s
              BY <1>0, <1>1, <1>3, <2>2, <3>2 DEF BehindAll, Others
          <3> QED BY <3>1, <3>2
      <2> QED BY <2>3, <2>4, <2>5, <2>6 DEF BehindAll
  <1> QED BY <1>7, <1>8

\* The backend sends its queue in order.
LEMMA BackendSendWaits ==
    ASSUME LinkInv, DownNumbers, WaitsInv, NEW s \in Sessions, BackendSend(s)
    PROVE  DownNumbers' /\ WaitsInv'
  <1> USE DEF hubVars, callerVars, execVars, linkVars
  <1>0. /\ TypeOK /\ bnext \in Nat /\ s # 0 /\ (rsess # 0 => rsess \in Sessions)
        /\ sess[s].bsent \in Nat
        /\ \A x \in bqueue \cup sess[s].down : x.seq \in Nat
      BY RunnerLinkConstants DEF LinkInv, TypeOK, Session, DownMsg
  <1>1. PICK f \in bqueue :
              /\ IsNextToSend(f, bqueue, sess[s].bsent)
              /\ sess'[s].bsent = f.seq
              /\ sess'[s].down = IF rsess = s THEN sess[s].down \cup {f} ELSE {}
              /\ Others(s) /\ sess'[s].st = sess[s].st /\ sess'[s].reg = sess[s].reg
              /\ sess'[s].upAck = sess[s].upAck
      BY <1>0, BackendSendDown
  <1>2. /\ conn = s
        /\ UNCHANGED <<bboot, bnext, bqueue, knownBoot, conn, rboot, rsess, lastB, seenBoot, run>>
      BY DEF BackendSend
  <1>3. /\ f.seq > sess[s].bsent /\ f.seq <= bnext
        /\ \A m \in bqueue : m.seq > sess[s].bsent /\ m.seq <= f.seq => m = f
      BY <1>0, <1>1 DEF IsNextToSend, IsFirst, Trim, DownNumbers
  <1>4. \A x \in sess[s].down : x.seq <= sess[s].bsent
      BY <1>0, <1>2 DEF LinkInv, AgentInv, StartInv
  <1>5. \A t \in Sessions : /\ sess'[t].st = sess[t].st /\ sess'[t].reg = sess[t].reg
                            /\ sess'[t].upAck = sess[t].upAck
      BY <1>1 DEF Others
  <1>6. DownNumbers'
      <2>1. ASSUME rsess # 0, sess[rsess].st = "open"
            PROVE  /\ \A m \in sess'[rsess].down : m.seq <= bnext
                   /\ \A m, o \in sess'[rsess].down : m.seq = o.seq => m = o
          <3>1. CASE rsess = s
              <4>1. \A m, o \in sess[s].down : m.seq = o.seq => m = o
                  BY <1>0, <2>1, <3>1 DEF DownNumbers
              <4> QED BY <1>0, <1>1, <1>3, <1>4, <3>1, <4>1
          <3>2. CASE rsess # s
              <4>1. sess'[rsess] = sess[rsess]
                  BY <1>0, <1>1, <2>1, <3>2 DEF Others
              <4> QED BY <2>1, <4>1 DEF DownNumbers
          <3> QED BY <3>1, <3>2
      <2>2. sess'[conn].bsent <= bnext /\ sess'[conn].upAck <= bnext
          BY <1>0, <1>1, <1>2, <1>3 DEF DownNumbers
      <2>3. rsess # 0 /\ sess'[rsess].st = "open" => sess[rsess].st = "open"
          BY <1>0, <1>5
      <2> QED BY <1>2, <1>5, <2>1, <2>2, <2>3 DEF DownNumbers
  <1>7. WaitsInv'
      <2> SUFFICES ASSUME NEW m, Waits(m)' PROVE BehindAll(m)'
          BY DEF WaitsInv
      <2>1. Waits(m) /\ BehindAll(m) /\ m \in bqueue /\ m.seq \in Nat
          BY <1>0, <1>2 DEF Waits, WaitsInv
      <2>2. conn # 0 /\ knownBoot = rboot => m.seq > sess'[conn].upAck
          BY <1>0, <1>2, <1>5, <2>1 DEF BehindAll
      <2>3. rsess = s /\ m.seq <= f.seq => m \in sess'[s].down
          <3>1. rsess = s /\ m.seq <= sess[s].bsent => m \in sess[s].down
              BY <1>0, <1>2, <2>1 DEF BehindAll
          <3> QED BY <1>0, <1>1, <1>3, <2>1, <3>1
      <2>4. ASSUME rsess # 0, sess[rsess].st = "open", NEW x \in sess'[rsess].down, m.seq <= x.seq
            PROVE  m \in sess'[rsess].down
          <3>1. CASE rsess = s /\ x = f
              BY <2>3, <2>4, <3>1
          <3>2. CASE rsess = s /\ x \in sess[s].down
              BY <1>1, <2>1, <2>4, <3>2 DEF BehindAll
          <3>3. CASE rsess # s
              <4>1. sess'[rsess] = sess[rsess]
                  BY <1>0, <1>1, <2>4, <3>3 DEF Others
              <4> QED BY <2>1, <2>4, <4>1 DEF BehindAll
          <3> QED BY <1>1, <2>4, <3>1, <3>2, <3>3
      <2>5. rsess # 0 /\ sess'[rsess].st = "open" => sess[rsess].st = "open"
          BY <1>0, <1>5
      <2>6. seenBoot = bboot => m.seq > lastB
          BY <2>1 DEF BehindAll
      <2>7. \A t \in Sessions :
                sess'[t].reg # NoReg /\ sess'[t].reg.boot = rboot /\ sess'[t].reg.seenBoot = bboot =>
                    m.seq > sess'[t].reg.lastB
          BY <1>5, <2>1 DEF BehindAll
      <2>8. rsess = conn /\ m.seq <= sess'[conn].bsent => m \in sess'[conn].down
          BY <1>1, <1>2, <2>3
      <2>9. rsess # 0 /\ sess'[rsess].st = "open" =>
                \A x \in sess'[rsess].down : m.seq <= x.seq => m \in sess'[rsess].down
          BY <2>4, <2>5
      <2> QED BY <1>2, <2>2, <2>6, <2>7, <2>8, <2>9 DEF BehindAll
  <1> QED BY <1>6, <1>7

\* The runner handles what it receives in order.
LEMMA ReceiveWaits ==
    ASSUME LinkInv, FreshInv, DownNumbers, WaitsInv, NEW s \in Sessions, RunnerReceive(s)
    PROVE  DownNumbers' /\ WaitsInv'
  <1> USE DEF hubVars, callerVars, linkVars
  <1>0. /\ TypeOK /\ bnext \in Nat /\ lastB \in Nat /\ s # 0 /\ (conn # 0 => conn \in Sessions)
        /\ run \in [Runs -> {"none", "running", "reported", "ended", "dead", "gone"}]
        /\ \A x \in bqueue \cup sess[s].down : x.seq \in Nat /\ x.run \in Runs
      BY RunnerLinkConstants DEF LinkInv, TypeOK, Session, DownMsg
  <1>1. PICK f \in sess[s].down :
              /\ IsFirst(f, sess[s].down)
              /\ IF f.seq <= lastB THEN UNCHANGED <<lastB, execVars>> ELSE handle(f) /\ lastB' = f.seq
              /\ sess'[s].down = sess[s].down \ {f}
              /\ Others(s) /\ sess'[s].st = sess[s].st /\ sess'[s].reg = sess[s].reg
              /\ sess'[s].upAck = sess[s].upAck /\ sess'[s].bsent = sess[s].bsent
      BY <1>0, ReceiveDown
  <1>2. /\ rsess = s /\ attached
        /\ UNCHANGED <<bboot, bnext, bqueue, knownBoot, conn, rboot, rsess, seenBoot>>
      BY DEF RunnerReceive
  <1>3. sess[s].st = "open" <=> seenBoot = bboot
      BY <1>2, AttachedTo
  <1>4. /\ f.seq > lastB => lastB' = f.seq
        /\ ~(f.seq > lastB) => lastB' = lastB /\ run' = run
        /\ f.seq > lastB /\ f.kind = "start" /\ run[f.run] = "none" => run'[f.run] = "running"
        /\ \A r \in Runs : run'[r] = "none" => run[r] = "none"
      <2>1. CASE f.seq <= lastB
          BY <1>0, <1>1, <2>1 DEF execVars
      <2>2. CASE ~(f.seq <= lastB)
          <3>1. handle(f) /\ lastB' = f.seq
              BY <1>1, <2>2
          <3>2. f.run \in Runs /\ f.seq \in Nat
              BY <1>0
          <3>3. run' = IF f.kind = "start" /\ ~InTable(f.run) THEN [run EXCEPT ![f.run] = "running"] ELSE run
              BY <3>1 DEF handle
          <3> QED BY <1>0, <2>2, <3>1, <3>2, <3>3 DEF InTable
      <2> QED BY <2>1, <2>2
  <1>5. \A t \in Sessions : /\ sess'[t].st = sess[t].st /\ sess'[t].reg = sess[t].reg
                            /\ sess'[t].upAck = sess[t].upAck /\ sess'[t].bsent = sess[t].bsent
      BY <1>1 DEF Others
  <1>6. seenBoot = bboot =>
            /\ \A m \in sess[s].down : m.seq <= bnext
            /\ \A m, o \in sess[s].down : m.seq = o.seq => m = o
      BY <1>0, <1>2, <1>3 DEF DownNumbers
  <1>7. DownNumbers'
      <2>1. seenBoot' = bboot' => lastB' <= bnext'
          BY <1>0, <1>1, <1>2, <1>4, <1>6 DEF DownNumbers
      <2>2. sess[s].st = "open" => /\ \A m \in sess'[s].down : m.seq <= bnext
                                   /\ \A m, o \in sess'[s].down : m.seq = o.seq => m = o
          BY <1>1, <1>3, <1>6
      <2> QED BY <1>0, <1>2, <1>5, <2>1, <2>2 DEF DownNumbers
  <1>8. WaitsInv'
      <2> SUFFICES ASSUME NEW m, Waits(m)' PROVE BehindAll(m)'
          BY DEF WaitsInv
      <2>1. Waits(m) /\ BehindAll(m) /\ m \in bqueue /\ m.seq \in Nat
          BY <1>0, <1>2, <1>4 DEF Waits, WaitsInv
      <2>2. ASSUME seenBoot = bboot PROVE m.seq > lastB' /\ m # f
          <3>1. m.seq > lastB
              BY <2>1, <2>2 DEF BehindAll
          <3>2. m # f
              BY <1>4, <2>1, <3>1 DEF Waits
          <3>3. CASE f.seq > lastB
              <4>1. m.seq <= f.seq => m \in sess[s].down
                  BY <1>0, <1>2, <1>3, <2>1, <2>2 DEF BehindAll
              <4>2. m \in sess[s].down => f.seq <= m.seq
                  BY <1>1 DEF IsFirst
              <4>3. m \in sess[s].down /\ m.seq = f.seq => m = f
                  BY <1>6, <2>2
              <4> QED BY <1>0, <1>4, <2>1, <3>2, <3>3, <4>1, <4>2, <4>3
          <3>4. CASE ~(f.seq > lastB)
              BY <1>4, <3>1, <3>2, <3>4
          <3> QED BY <3>3, <3>4
      <2>3. conn # 0 => sess[conn].st = "open"
          BY DEF LinkInv, AgentInv, SessionInv
      <2>4. seenBoot' = bboot' => m.seq > lastB'
          BY <1>2, <2>2
      <2>5. conn # 0 /\ knownBoot = rboot => m.seq > sess'[conn].upAck
          BY <1>0, <1>5, <2>1 DEF BehindAll
      <2>6. conn # 0 /\ rsess = conn /\ m.seq <= sess'[conn].bsent => m \in sess'[conn].down
          <3> SUFFICES ASSUME conn # 0, rsess = conn, m.seq <= sess'[conn].bsent
                       PROVE  m \in sess'[conn].down
              OBVIOUS
          <3>1. m \in sess[s].down
              BY <1>0, <1>2, <1>5, <2>1 DEF BehindAll
          <3>2. m # f
              BY <1>2, <1>3, <2>2, <2>3
          <3> QED BY <1>1, <1>2, <3>1, <3>2
      <2>7. rsess # 0 /\ sess'[rsess].st = "open" =>
                \A x \in sess'[rsess].down : m.seq <= x.seq => m \in sess'[rsess].down
          <3> SUFFICES ASSUME sess[s].st = "open", NEW x \in sess'[s].down, m.seq <= x.seq
                       PROVE  m \in sess'[s].down
              BY <1>2, <1>5
          <3>1. m \in sess[s].down
              BY <1>0, <1>1, <1>2, <2>1 DEF BehindAll
          <3>2. m # f
              BY <1>3, <2>2
          <3> QED BY <1>1, <3>1, <3>2
      <2>8. \A t \in Sessions :
                sess'[t].reg # NoReg /\ sess'[t].reg.boot = rboot /\ sess'[t].reg.seenBoot = bboot =>
                    m.seq > sess'[t].reg.lastB
          BY <1>5, <2>1 DEF BehindAll
      <2> QED BY <1>2, <2>4, <2>5, <2>6, <2>7, <2>8 DEF BehindAll
  <1> QED BY <1>7, <1>8

\* A new runner process has no position.
LEMMA RunnerCrashWaits ==
    ASSUME LinkInv, DownNumbers, WaitsInv, RunnerCrash
    PROVE  DownNumbers' /\ WaitsInv'
  <1> USE DEF hubVars, callerVars
  <1>0. /\ TypeOK /\ bboot \in Nat \ {0} /\ rboot \in Nat /\ knownBoot \in Nat
        /\ (conn # 0 => conn \in Sessions)
        /\ \A t \in Sessions : sess[t].reg # NoReg => sess[t].reg.boot \in Nat
      BY DEF LinkInv, TypeOK, Session, RegisterMsg
  <1>1. /\ rboot' = rboot + 1 /\ lastB' = 0 /\ seenBoot' = 0 /\ rsess' = 0
        /\ UNCHANGED <<bboot, bnext, bqueue, knownBoot, conn>>
        /\ \A m \in bqueue : run'[m.run] = "none" => run[m.run] = "none"
      BY <1>0 DEF RunnerCrash, TypeOK, DownMsg
  <1>2. \A t \in Sessions : /\ sess'[t].st = sess[t].st /\ sess'[t].reg = sess[t].reg
                            /\ sess'[t].upAck = sess[t].upAck /\ sess'[t].bsent = sess[t].bsent
      <2> SUFFICES ASSUME NEW t \in Sessions
                   PROVE  /\ sess'[t].st = sess[t].st /\ sess'[t].reg = sess[t].reg
                          /\ sess'[t].upAck = sess[t].upAck /\ sess'[t].bsent = sess[t].bsent
          OBVIOUS
      <2>1. sess'[t] = sess[t] \/ sess'[t] = LeftByRunner(t)
          BY DEF RunnerCrash
      <2>2. sess[t] \in Session
          BY <1>0 DEF TypeOK
      <2> QED BY <2>1, <2>2 DEF Session, LeftByRunner
  <1>3. DownNumbers'
      BY <1>0, <1>1, <1>2 DEF DownNumbers
  <1>4. WaitsInv'
      <2> SUFFICES ASSUME NEW m, Waits(m)' PROVE BehindAll(m)'
          BY DEF WaitsInv
      <2>1. \A t \in Sessions : sess'[t].reg # NoReg => sess'[t].reg.boot # rboot'
          BY <1>0, <1>1, <1>2 DEF LinkInv, AgentInv, BootInv
      <2>2. knownBoot' # rboot' /\ seenBoot' # bboot'
          BY <1>0, <1>1 DEF LinkInv, AgentInv, BootInv
      <2>3. rsess' = 0
          BY <1>1
      <2> QED BY <2>1, <2>2, <2>3 DEF BehindAll
  <1> QED BY <1>3, <1>4

\* The steps that move a position.
MovesDown(s) ==
    Connect(s) \/ Attach(s) \/ RunnerReceive(s) \/ RunnerSendAck(s) \/ Register(s) \/ BackendSend(s)

LEMMA DownCases ==
    ASSUME TypeOK, [Next]_vars
    PROVE  DownKept \/ RunnerCrash \/ BackendCrash \/ \E s \in Sessions : MovesDown(s)
  <1>1. CASE Caller \/ Executor \/ sendHeartbeat \/ UNCHANGED vars
      <2>1. UNCHANGED <<bboot, rboot, knownBoot, lastB, seenBoot, conn, rsess, sess>>
          BY <1>1 DEF Caller, Dispatch, Cancel, Executor, Output, Report, EndRun, sendHeartbeat,
                  vars, hubVars, linkVars
      <2> QED BY <2>1 DEF DownKept
  <1>2. ASSUME NEW s \in Sessions, Runner(s) \/ Hub(s) PROVE DownKept \/ MovesDown(s)
      BY <1>2, QuietSteps DEF Runner, Hub, MovesDown
  <1> QED BY <1>1, <1>2 DEF Next

\* A Register is written when a session begins.
LEMMA RegMoves ==
    ASSUME TypeOK, [Next]_vars, NEW t \in Sessions
    PROVE  \/ sess'[t].reg = sess[t].reg \/ sess'[t].reg = NoReg
           \/ sess'[t].reg = buildRegister /\ Connect(t)
  <1>1. CASE DownKept
      BY <1>1 DEF DownKept
  <1>2. CASE RunnerCrash
      <2>1. sess[t] \in Session /\ (sess'[t] = LeftByRunner(t) \/ sess'[t] = sess[t])
          BY <1>2 DEF RunnerCrash, TypeOK
      <2> QED BY <2>1 DEF LeftByRunner, Session
  <1>3. CASE BackendCrash
      <2>1. Closed(t) \in Session /\ sess[t] \in Session
          BY EndsAreSessions DEF TypeOK
      <2>2. \/ sess'[t] = sess[t]
            \/ sess'[t] = [Closed(t) EXCEPT !.hnd = Idle, !.st = "closed", !.fin = {}]
          BY <1>3 DEF BackendCrash
      <2>3. Closed(t).reg = sess[t].reg
          BY <2>1 DEF Closed, Session
      <2> QED BY <2>1, <2>2, <2>3 DEF Session
  <1>4. ASSUME NEW s \in Sessions, MovesDown(s)
        PROVE  \/ sess'[t].reg = sess[t].reg \/ sess'[t].reg = NoReg
               \/ sess'[t].reg = buildRegister /\ Connect(t)
      <2>1. CASE Connect(s)
          BY <2>1, ConnectDown DEF Others
      <2>2. CASE Register(s)
          BY <2>2, RegisterDown DEF Others
      <2>3. CASE Attach(s) \/ RunnerReceive(s) \/ RunnerSendAck(s) \/ BackendSend(s)
          BY <2>3, AttachDown, ReceiveDown, SendAckDown, BackendSendDown DEF Others
      <2> QED BY <1>4, <2>1, <2>2, <2>3 DEF MovesDown
  <1> QED BY <1>1, <1>2, <1>3, <1>4, DownCases

LEMMA BootsGrow ==
    ASSUME TypeOK, [Next]_vars
    PROVE  /\ bboot' \in Nat /\ rboot' \in Nat /\ bboot' >= bboot /\ rboot' >= rboot
           /\ rboot' = rboot \/ (RunnerCrash /\ rboot' = rboot + 1)
           /\ bboot' = bboot \/ (BackendCrash /\ bboot' = bboot + 1)
  <1> USE DEF hubVars, linkVars
  <1>0. bboot \in Nat /\ rboot \in Nat
      BY DEF TypeOK
  <1>1. CASE DownKept
      BY <1>0, <1>1 DEF DownKept
  <1>2. CASE RunnerCrash
      <2>1. rboot' = rboot + 1 /\ bboot' = bboot
          BY <1>2 DEF RunnerCrash
      <2> QED BY <1>0, <1>2, <2>1
  <1>3. CASE BackendCrash
      <2>1. bboot' = bboot + 1 /\ rboot' = rboot
          BY <1>3 DEF BackendCrash
      <2> QED BY <1>0, <1>3, <2>1
  <1>4. ASSUME NEW s \in Sessions, MovesDown(s) PROVE bboot' = bboot /\ rboot' = rboot
      BY <1>4 DEF MovesDown, Connect, Attach, RunnerReceive, RunnerSendAck, Register, BackendSend
  <1> QED BY <1>0, <1>1, <1>2, <1>3, <1>4, DownCases

LEMMA SeenStep ==
    ASSUME LinkInv, SeenInv, [Next]_vars PROVE SeenInv'
  <1> SUFFICES ASSUME NEW s \in Sessions, sess'[s].reg # NoReg
               PROVE  sess'[s].reg.seenBoot <= bboot'
      BY DEF SeenInv
  <1>0. TypeOK /\ bboot \in Nat /\ seenBoot <= bboot
      BY DEF LinkInv, AgentInv, BootInv, TypeOK
  <1>1. bboot' \in Nat /\ bboot' >= bboot
      BY <1>0, BootsGrow
  <1>2. CASE sess'[s].reg = sess[s].reg
      <2>1. sess[s].reg.seenBoot \in Nat /\ sess[s].reg.seenBoot <= bboot
          BY <1>0, <1>2 DEF SeenInv, TypeOK, Session, RegisterMsg
      <2> QED BY <1>0, <1>1, <1>2, <2>1
  <1>3. CASE sess'[s].reg = buildRegister
      <2>1. buildRegister.seenBoot = seenBoot /\ seenBoot \in Nat
          BY <1>0 DEF buildRegister, TypeOK
      <2> QED BY <1>0, <1>1, <1>3, <2>1
  <1> QED BY <1>0, <1>2, <1>3, RegMoves

\* A new backend process has an empty queue.
LEMMA BackendCrashWaits ==
    ASSUME LinkInv, SeenInv, DownNumbers, BackendCrash
    PROVE  DownNumbers' /\ WaitsInv'
  <1> USE DEF linkVars
  <1>0. TypeOK /\ bboot \in Nat /\ seenBoot \in Nat /\ (rsess # 0 => rsess \in Sessions)
        /\ \A t \in Sessions : sess[t].reg # NoReg => sess[t].reg.seenBoot \in Nat
      BY DEF LinkInv, TypeOK, Session, RegisterMsg
  <1>1. /\ bboot' = bboot + 1 /\ bqueue' = {} /\ conn' = 0
        /\ UNCHANGED <<seenBoot, rsess>>
      BY DEF BackendCrash
  <1>2. WaitsInv'
      BY <1>1 DEF WaitsInv, Waits
  <1>3. \A t \in Sessions : /\ sess'[t].reg = sess[t].reg
                            /\ (sess'[t] = sess[t] /\ sess[t].st = "unused") \/ sess'[t].st = "closed"
      <2> SUFFICES ASSUME NEW t \in Sessions
                   PROVE  /\ sess'[t].reg = sess[t].reg
                          /\ (sess'[t] = sess[t] /\ sess[t].st = "unused") \/ sess'[t].st = "closed"
          OBVIOUS
      <2>1. Closed(t) \in Session /\ sess[t] \in Session
          BY <1>0, EndsAreSessions DEF TypeOK
      <2>2. \/ sess'[t] = sess[t] /\ sess[t].st = "unused"
            \/ sess'[t] = [Closed(t) EXCEPT !.hnd = Idle, !.st = "closed", !.fin = {}]
          BY DEF BackendCrash
      <2>3. Closed(t).reg = sess[t].reg
          BY <2>1 DEF Closed, Session
      <2> QED BY <2>1, <2>2, <2>3 DEF Session
  <1>4. \A t \in Sessions : sess'[t].reg # NoReg => sess'[t].reg.seenBoot # bboot'
      BY <1>0, <1>1, <1>3 DEF SeenInv
  <1>5. seenBoot' # bboot'
      BY <1>0, <1>1 DEF LinkInv, AgentInv, BootInv
  <1>6. rsess' # 0 => sess'[rsess'].st # "open"
      BY <1>0, <1>1, <1>3
  <1>7. \A t \in Sessions : sess'[t].st \in {"unused", "dialled", "checked"} => sess'[t].upAck = 0
      BY <1>3 DEF DownNumbers
  <1> QED BY <1>1, <1>2, <1>4, <1>5, <1>6, <1>7 DEF DownNumbers

LEMMA DownStep ==
    ASSUME LinkInv, TypeOK', FreshInv, SeenInv, DownNumbers, WaitsInv, [Next]_vars
    PROVE  DownNumbers' /\ WaitsInv'
  <1>0. TypeOK /\ QueueNumbers
      BY DEF LinkInv, DownNumbers, QueueNumbers
  <1>1. /\ QueueNumbers'
        /\ bboot' = bboot => bnext' >= bnext
        /\ \A m : Waits(m)' => Waits(m) \/ m.seq = bnext + 1
      BY <1>0, QueueNumbersStep
  <1>2. CASE DownKept
      <2>1. bboot' = bboot
          BY <1>2 DEF DownKept
      <2> QED BY <1>0, <1>1, <1>2, <2>1, DownNumbersKept, WaitsKept
  <1>3. ASSUME NEW s \in Sessions, MovesDown(s) PROVE DownNumbers' /\ WaitsInv'
      BY <1>3, ConnectWaits, AttachWaits, ReceiveWaits, SendAckWaits, RegisterWaits, BackendSendWaits
         DEF MovesDown
  <1>4. CASE RunnerCrash
      BY <1>4, RunnerCrashWaits
  <1>5. CASE BackendCrash
      BY <1>5, BackendCrashWaits
  <1> QED BY <1>0, <1>2, <1>3, <1>4, <1>5, DownCases

\* While its process lives, a run that is under way stays so, and one that has
\* not been begun begins.
LEMMA RunsOfAProcess ==
    ASSUME TypeOK, [Next]_vars, ~RunnerCrash
    PROVE  \A r \in Runs : /\ UnderWay(r) => UnderWay(r)'
                           /\ run[r] = "none" => run'[r] = "none" \/ UnderWay(r)'
  <1> USE DEF execVars
  <1>0. run \in [Runs -> {"none", "running", "reported", "ended", "dead", "gone"}]
      BY DEF TypeOK
  <1>a. ASSUME run' = run
        PROVE  \A r \in Runs : /\ UnderWay(r) => UnderWay(r)'
                               /\ run[r] = "none" => run'[r] = "none" \/ UnderWay(r)'
      BY <1>a DEF UnderWay
  <1>b. ASSUME NEW q \in Runs, NEW v \in {"running", "reported", "ended"},
               run' = [run EXCEPT ![q] = v]
        PROVE  \A r \in Runs : /\ UnderWay(r) => UnderWay(r)'
                               /\ run[r] = "none" => run'[r] = "none" \/ UnderWay(r)'
      BY <1>0, <1>b DEF UnderWay
  <1>1. CASE Caller \/ sendHeartbeat \/ UNCHANGED vars \/ BackendCrash
      <2>1. run' = run
          BY <1>1 DEF Caller, Dispatch, Cancel, sendHeartbeat, vars, BackendCrash
      <2> QED BY <1>a, <2>1
  <1>2. CASE Executor
      <2>1. PICK r \in Runs : Output(r) \/ Report(r) \/ EndRun(r)
          BY <1>2 DEF Executor
      <2>2. CASE Output(r)
          BY <1>a, <2>2 DEF Output
      <2>3. CASE Report(r)
          BY <1>b, <2>3 DEF Report
      <2>4. CASE EndRun(r)
          BY <1>b, <2>4 DEF EndRun
      <2> QED BY <2>1, <2>2, <2>3, <2>4
  <1>3. ASSUME NEW s \in Sessions, Runner(s)
        PROVE  \A r \in Runs : /\ UnderWay(r) => UnderWay(r)'
                               /\ run[r] = "none" => run'[r] = "none" \/ UnderWay(r)'
      <2>1. CASE RunnerReceive(s)
          <3>1. PICK m \in sess[s].down : run' = run \/ handle(m)
              BY <2>1 DEF RunnerReceive
          <3>2. m.run \in Runs
              BY DEF TypeOK, Session, DownMsg
          <3>3. run' = run \/ run' = [run EXCEPT ![m.run] = "running"]
              BY <3>1 DEF handle
          <3> QED BY <1>a, <1>b, <3>2, <3>3
      <2>2. CASE ~RunnerReceive(s)
          <3>1. run' = run
              BY <1>3, <2>2 DEF Runner, Connect, Attach, Abandon, RunnerReceiveAck, RunnerSend, RunnerSendAck
          <3> QED BY <1>a, <3>1
      <2> QED BY <2>1, <2>2
  <1>4. ASSUME NEW s \in Sessions, Hub(s) PROVE run' = run
      BY <1>4 DEF Hub, CheckFinalized, Register, Detach, BackendSend, BackendSendAck, BackendReceiveAck,
              Take, ApplyHeartbeat, ApplyOutput, MarkFinalized, MarkFailed, Deliver, Commit
  <1> QED BY <1>a, <1>1, <1>2, <1>3, <1>4 DEF Next

\* What the runner queues.
LEMMA QueueOrigins ==
    ASSUME [Next]_vars
    PROVE  \A m \in rqueue' : m \in rqueue \/ m.kind = "hb" \/ run[m.run] = "running"
  <1> USE DEF linkVars
  <1>1. CASE Caller \/ UNCHANGED vars \/ RunnerCrash \/ BackendCrash
      BY <1>1 DEF Caller, Dispatch, Cancel, vars, RunnerCrash, BackendCrash
  <1>2. CASE sendHeartbeat
      BY <1>2 DEF sendHeartbeat, RunnerMsg
  <1>3. ASSUME NEW r \in Runs, Output(r) \/ Report(r) \/ EndRun(r)
        PROVE  \A m \in rqueue' : m \in rqueue \/ m.kind = "hb" \/ run[m.run] = "running"
      BY <1>3 DEF Output, Report, EndRun, enqueue, RunnerMsg
  <1>4. ASSUME NEW s \in Sessions, Runner(s) PROVE rqueue' \subseteq rqueue
      BY <1>4 DEF Runner, Connect, Attach, Abandon, RunnerReceive, RunnerReceiveAck, RunnerSend,
              RunnerSendAck, Trim
  <1>5. ASSUME NEW s \in Sessions, Hub(s) PROVE rqueue' = rqueue
      BY <1>5 DEF Hub, CheckFinalized, Register, Detach, BackendSend, BackendSendAck, BackendReceiveAck,
              Take, ApplyHeartbeat, ApplyOutput, MarkFinalized, MarkFailed, Deliver, Commit
  <1> QED BY <1>1, <1>2, <1>3, <1>4, <1>5 DEF Next, Executor

LEMMA NamedStep ==
    ASSUME LinkInv, TypeOK', NamedInv, [Next]_vars PROVE NamedInv'
  <1>0. TypeOK /\ rboot \in Nat /\ BootInv
      BY DEF LinkInv, AgentInv, TypeOK
  <1>1. CASE RunnerCrash
      <2>1. rboot' = rboot + 1 /\ rqueue' = {}
          BY <1>1 DEF RunnerCrash
      <2>2. ASSUME NEW s \in Sessions, sess'[s].reg # NoReg PROVE sess'[s].reg.boot # rboot'
          <3>1. sess'[s].reg = sess[s].reg \/ sess'[s].reg = buildRegister
              BY <1>0, <2>2, RegMoves
          <3>2. buildRegister.boot = rboot
              BY DEF buildRegister
          <3>3. sess[s].reg # NoReg => sess[s].reg.boot \in Nat /\ sess[s].reg.boot <= rboot
              BY <1>0 DEF BootInv, TypeOK, Session, RegisterMsg
          <3> QED BY <1>0, <2>1, <2>2, <3>1, <3>2, <3>3
      <2> QED BY <2>1, <2>2 DEF NamedInv
  <1>2. CASE ~RunnerCrash
      <2>1. \A r \in Runs : UnderWay(r) => UnderWay(r)'
          BY <1>0, <1>2, RunsOfAProcess
      <2>2. rboot' = rboot
          BY <1>0, <1>2, BootsGrow
      <2>3. ASSUME NEW m \in rqueue, m.kind # "hb" PROVE m.run \in Runs /\ UnderWay(m.run)
          BY <1>0, <2>3 DEF NamedInv, TypeOK, UpMsg, RunMsg, Heartbeat
      <2>4. \A m \in rqueue' : m.kind # "hb" => UnderWay(m.run)'
          <3> SUFFICES ASSUME NEW m \in rqueue', m.kind # "hb" PROVE UnderWay(m.run)'
              OBVIOUS
          <3>1. CASE m \in rqueue
              BY <2>1, <2>3, <3>1
          <3>2. CASE m \notin rqueue
              <4>1. run[m.run] = "running"
                  BY <3>2, QueueOrigins
              <4>2. m.run \in Runs
                  BY DEF TypeOK, UpMsg, RunMsg, Heartbeat
              <4> QED BY <2>1, <4>1, <4>2 DEF UnderWay
          <3> QED BY <3>1, <3>2
      <2>5. ASSUME NEW s \in Sessions, sess'[s].reg # NoReg, sess'[s].reg.boot = rboot,
                   NEW r \in sess'[s].reg.active \cup sess'[s].reg.completed
            PROVE  UnderWay(r)'
          <3>1. CASE sess'[s].reg = sess[s].reg
              <4>1. r \in Runs
                  BY <1>0, <2>5, <3>1 DEF TypeOK, Session, RegisterMsg
              <4> QED BY <2>1, <2>5, <3>1, <4>1 DEF NamedInv
          <3>2. CASE sess'[s].reg = buildRegister
              <4>1. buildRegister.active \subseteq {q \in Runs : InTable(q)}
                    /\ buildRegister.completed = QueuedRuns(rqueue, "res")
                  BY DEF buildRegister
              <4>2. \A q \in Runs : InTable(q) => UnderWay(q)
                  BY DEF InTable, UnderWay
              <4>3. \A q \in QueuedRuns(rqueue, "res") : q \in Runs /\ UnderWay(q)
                  BY <2>3 DEF QueuedRuns
              <4> QED BY <2>1, <2>5, <3>2, <4>1, <4>2, <4>3
          <3> QED BY <1>0, <2>5, <3>1, <3>2, RegMoves
      <2> QED BY <2>2, <2>4, <2>5 DEF NamedInv
  <1> QED BY <1>1, <1>2

LEMMA KnownStep ==
    ASSUME LinkInv, KnownInv, [Next]_vars PROVE KnownInv'
  <1> USE DEF hubVars, callerVars
  <1>1. CASE Caller \/ Executor \/ sendHeartbeat \/ UNCHANGED vars \/ RunnerCrash \/ BackendCrash
      BY <1>1 DEF Caller, Dispatch, Cancel, Executor, Output, Report, EndRun, sendHeartbeat, vars,
              RunnerCrash, BackendCrash, KnownInv
  <1>2. ASSUME NEW s \in Sessions, Runner(s) PROVE KnownInv'
      BY <1>2 DEF Runner, Connect, Attach, Abandon, RunnerReceive, RunnerReceiveAck, RunnerSend,
              RunnerSendAck, KnownInv
  <1>3. ASSUME NEW s \in Sessions, Register(s) PROVE KnownInv'
      <2>1. sess[s].st = "checked" /\ knownBoot' = sess[s].reg.boot
          BY <1>3 DEF Register
      <2>2. sess[s].reg # NoReg
          BY <2>1 DEF LinkInv, AgentInv, SessionInv
      <2>3. sess[s].reg \in RegisterMsg
          BY <2>2 DEF LinkInv, TypeOK, Session
      <2> QED BY <2>1, <2>3 DEF KnownInv, RegisterMsg
  <1>4. ASSUME NEW s \in Sessions, Hub(s), ~Register(s) PROVE KnownInv'
      BY <1>4 DEF Hub, CheckFinalized, Detach, detach, BackendSend, BackendSendAck, BackendReceiveAck,
              Take, ApplyHeartbeat, ApplyOutput, MarkFinalized, MarkFailed, Deliver, Commit, KnownInv
  <1> QED BY <1>1, <1>2, <1>3, <1>4 DEF Next

LEMMA FateKept ==
    ASSUME TypeOK, FateInv, [Next]_vars, ~RunnerCrash, UNCHANGED <<knownBoot, rboot>>,
           tracked' \subseteq tracked, bqueue \subseteq bqueue'
    PROVE  FateInv'
  <1>1. tracked \subseteq Runs
      BY DEF TypeOK
  <1>2. \A r \in Runs : /\ UnderWay(r) => UnderWay(r)'
                        /\ run[r] = "none" => run'[r] = "none" \/ UnderWay(r)'
      BY RunsOfAProcess
  <1> QED BY <1>1, <1>2 DEF FateInv

\* The runs that Register takes to be alive.
KnownRuns(reg) == reg.active \cup reg.completed \cup QueuedRuns(KeptQueue(reg), "start")

\* What Register finds: a run of this process is named, or its request is kept.
LEMMA RegisterFinds ==
    ASSUME LinkInv, WaitsInv, FateInv, SnapshotInv, ~RegisterRace, NEW s \in Sessions, Register(s),
           sess[s].reg.boot = rboot, knownBoot = rboot, NEW r \in tracked
    PROVE  r \in KnownRuns(sess[s].reg)
  <1>1. /\ sess[s].st = "checked"
        /\ \A t \in Sessions : t > s => sess[t].st # "open"
      BY DEF Register
  <1>2. sess[s].reg # NoReg
      BY <1>1 DEF LinkInv, AgentInv, SessionInv
  <1>3. CASE UnderWay(r)
      BY <1>1, <1>3 DEF SnapshotInv, UnderWay, KnownRuns
  <1>4. CASE run[r] = "none" /\ \E m \in bqueue : m.kind = "start" /\ m.run = r
      <2>1. PICK m \in bqueue : m.kind = "start" /\ m.run = r
          BY <1>4
      <2>2. BehindAll(m)
          BY <1>4, <2>1 DEF WaitsInv, Waits
      <2>3. sess[s].reg.seenBoot = bboot => m.seq > sess[s].reg.lastB
          BY <1>2, <2>2 DEF BehindAll
      <2>4. m \in KeptQueue(sess[s].reg)
          BY <2>1, <2>3 DEF KeptQueue, Trim
      <2> QED BY <2>1, <2>4 DEF QueuedRuns, KnownRuns
  <1> QED BY <1>3, <1>4 DEF FateInv

\* What it settles.
LEMMA RegisterSettles ==
    ASSUME LinkInv, NEW s \in Sessions, Register(s)
    PROVE  /\ tracked' \subseteq tracked /\ run' = run /\ rboot' = rboot
           /\ knownBoot' = sess[s].reg.boot
           /\ sess[s].reg # NoReg /\ sess[s].reg \in RegisterMsg
           /\ \A r \in tracked' : r \in KnownRuns(sess[s].reg)
           /\ \A r \in Runs : outcome'[r] = "lost" =>
                outcome[r] = "lost" \/ r \in tracked \ KnownRuns(sess[s].reg)
           /\ KeptQueue(sess[s].reg) \subseteq bqueue'
  <1> DEFINE known == KnownRuns(sess[s].reg)
  <1>1. /\ outcome' = finish(tracked \ known, "lost") /\ tracked' = tracked \ (tracked \ known)
        /\ run' = run /\ rboot' = rboot /\ knownBoot' = sess[s].reg.boot /\ sess[s].st = "checked"
        /\ KeptQueue(sess[s].reg) \subseteq bqueue'
      BY DEF Register, execVars, KnownRuns
  <1>2. sess[s].reg # NoReg /\ sess[s].reg \in RegisterMsg
      BY <1>1 DEF LinkInv, AgentInv, SessionInv, TypeOK, Session
  <1> HIDE DEF known
  <1>3. \A r \in Runs : outcome'[r] = "lost" => outcome[r] = "lost" \/ r \in tracked \ known
      BY <1>1 DEF finish
  <1> QED BY <1>1, <1>2, <1>3 DEF known

LEMMA RegisterFate ==
    ASSUME LinkInv, NamedInv, FateInv, NEW s \in Sessions, Register(s)
    PROVE  FateInv'
  <1> DEFINE reg == sess[s].reg
             kept == KeptQueue(reg)
  <1>1. /\ tracked' \subseteq tracked /\ run' = run /\ rboot' = rboot
        /\ knownBoot' = reg.boot /\ reg # NoReg
        /\ \A r \in tracked' : r \in reg.active \cup reg.completed \cup QueuedRuns(kept, "start")
        /\ kept \subseteq bqueue'
      BY RegisterSettles DEF KnownRuns
  <1> SUFFICES ASSUME reg.boot = rboot, NEW r \in tracked'
               PROVE  UnderWay(r)' \/ (run'[r] = "none" /\ \E m \in bqueue' : m.kind = "start" /\ m.run = r)
      BY <1>1 DEF FateInv
  <1>2. CASE r \in reg.active \cup reg.completed
      BY <1>1, <1>2 DEF NamedInv, UnderWay
  <1>3. CASE r \in QueuedRuns(kept, "start")
      <2>1. PICK m \in kept : m.kind = "start" /\ m.run = r
          BY <1>3 DEF QueuedRuns
      <2>2. knownBoot = rboot
          BY <2>1 DEF KeptQueue
      <2>3. UnderWay(r) \/ run[r] = "none"
          BY <1>1, <2>2 DEF FateInv
      <2> HIDE DEF kept
      <2> QED BY <1>1, <2>1, <2>3 DEF UnderWay
  <1> QED BY <1>1, <1>2, <1>3

LEMMA FateStep ==
    ASSUME LinkInv, WaitsInv, NamedInv, FateInv, [Next]_vars PROVE FateInv'
  <1> USE DEF hubVars, callerVars, linkVars
  <1>0. TypeOK
      BY DEF LinkInv
  <1>1. CASE RunnerCrash
      <2>1. rboot' = rboot + 1 /\ knownBoot' = knownBoot
          BY <1>1 DEF RunnerCrash
      <2>2. knownBoot <= rboot /\ knownBoot \in Nat /\ rboot \in Nat
          BY DEF LinkInv, AgentInv, BootInv, TypeOK
      <2> QED BY <2>1, <2>2 DEF FateInv
  <1>2. CASE BackendCrash
      BY <1>2 DEF BackendCrash, FateInv
  <1>a. ASSUME ~RunnerCrash, UNCHANGED <<knownBoot, rboot>>, tracked' \subseteq tracked,
               bqueue \subseteq bqueue'
        PROVE  FateInv'
      BY <1>0, <1>a, FateKept
  <1>3. CASE ~RunnerCrash /\ (Executor \/ sendHeartbeat \/ UNCHANGED vars)
      <2>1. UNCHANGED <<knownBoot, rboot, tracked, bqueue>>
          BY <1>3 DEF Executor, Output, Report, EndRun, sendHeartbeat, vars
      <2> QED BY <1>3, <1>a, <2>1
  <1>4. ASSUME NEW r \in Runs, Cancel(r), ~RunnerCrash PROVE FateInv'
      <2>1. UNCHANGED <<knownBoot, rboot, tracked>> /\ bqueue \subseteq bqueue'
          BY <1>4 DEF Cancel, enqueueLocked
      <2> QED BY <1>4, <1>a, <2>1
  <1>5. ASSUME NEW r \in Runs, Dispatch(r) PROVE FateInv'
      <2>1. /\ UNCHANGED <<knownBoot, rboot, run>> /\ outcome[r] = "none" /\ tracked' = tracked \cup {r}
            /\ bqueue' = bqueue \cup {BackendMsg("start", r)}
          BY <1>5 DEF Dispatch, enqueueLocked, execVars
      <2>2. run[r] = "none"
          BY <2>1 DEF LinkInv, AgentInv, StartInv
      <2>3. BackendMsg("start", r).kind = "start" /\ BackendMsg("start", r).run = r
          BY DEF BackendMsg
      <2>4. \E m \in bqueue' : m.kind = "start" /\ m.run = r
          BY <2>1, <2>3
      <2> QED BY <2>1, <2>2, <2>4 DEF FateInv, UnderWay
  <1>6. ASSUME NEW s \in Sessions, Runner(s), ~RunnerCrash PROVE FateInv'
      <2>1. UNCHANGED <<knownBoot, rboot, tracked, bqueue>>
          BY <1>6 DEF Runner, Connect, Attach, Abandon, RunnerReceive, RunnerReceiveAck, RunnerSend,
                  RunnerSendAck
      <2> QED BY <1>6, <1>a, <2>1
  <1>7. ASSUME NEW s \in Sessions, BackendReceiveAck(s) PROVE FateInv'
      <2>1. /\ UNCHANGED <<knownBoot, rboot, run, tracked>> /\ conn = s /\ s # 0
            /\ bqueue' = Trim(bqueue, sess[s].upAck)
          BY <1>7, RunnerLinkConstants DEF BackendReceiveAck, execVars
      <2> SUFFICES ASSUME knownBoot = rboot, NEW r \in tracked
                   PROVE  UnderWay(r) \/ (run[r] = "none" /\ \E m \in bqueue' : m.kind = "start" /\ m.run = r)
          BY <2>1 DEF FateInv, UnderWay
      <2>2. CASE run[r] = "none" /\ \E m \in bqueue : m.kind = "start" /\ m.run = r
          <3>1. PICK m \in bqueue : m.kind = "start" /\ m.run = r
              BY <2>2
          <3>2. BehindAll(m)
              BY <2>2, <3>1 DEF WaitsInv, Waits
          <3>3. m.seq > sess[s].upAck
              BY <2>1, <3>2 DEF BehindAll
          <3> QED BY <2>1, <2>2, <3>1, <3>3 DEF Trim
      <2> QED BY <2>2 DEF FateInv
  <1>8. ASSUME NEW s \in Sessions, Hub(s), ~Register(s), ~BackendReceiveAck(s), ~RunnerCrash PROVE FateInv'
      <2>1. UNCHANGED <<knownBoot, rboot, bqueue>> /\ tracked' \subseteq tracked
          BY <1>8 DEF Hub, CheckFinalized, Detach, BackendSend, BackendSendAck, Take, ApplyHeartbeat,
                  ApplyOutput, MarkFinalized, MarkFailed, Deliver, Commit
      <2> QED BY <1>8, <1>a, <2>1
  <1> QED BY <1>1, <1>2, <1>3, <1>4, <1>5, <1>6, <1>7, <1>8, RegisterFate DEF Next, Caller

\* Only Register tells callers that their runs are lost.
LEMMA LostStep ==
    ASSUME LinkInv, WaitsInv, KnownInv, FateInv, SnapshotInv, LostNeedsRestart, ~RegisterRace, [Next]_vars
    PROVE  LostNeedsRestart'
  <1> USE DEF hubVars, callerVars, linkVars
  <1>0. TypeOK /\ BootInv /\ rboot \in Nat \ {0} /\ knownBoot \in Nat
      BY DEF LinkInv, AgentInv, TypeOK
  <1>1. rboot' \in Nat /\ rboot' >= rboot
      BY <1>0, BootsGrow
  <1>a. ASSUME \A r \in Runs : outcome'[r] = "lost" => outcome[r] = "lost"
        PROVE  LostNeedsRestart'
      BY <1>0, <1>1, <1>a DEF LostNeedsRestart
  <1>2. CASE Caller
      <2>1. PICK r \in Runs : outcome' = [outcome EXCEPT ![r] = "pending"] \/ outcome' = outcome
          BY <1>2 DEF Caller, Dispatch, Cancel
      <2>2. \A q \in Runs : outcome'[q] = "lost" => outcome[q] = "lost"
          BY <1>0, <2>1 DEF TypeOK
      <2> QED BY <1>a, <2>2
  <1>3. CASE Executor \/ sendHeartbeat \/ UNCHANGED vars \/ RunnerCrash
      <2>1. outcome' = outcome
          BY <1>3 DEF Executor, Output, Report, EndRun, sendHeartbeat, vars, RunnerCrash
      <2> QED BY <1>a, <2>1
  <1>4. CASE BackendCrash
      <2>1. outcome' = finish(tracked, "closed")
          BY <1>4 DEF BackendCrash
      <2> QED BY <1>a, <2>1 DEF finish
  <1>5. ASSUME NEW s \in Sessions, Runner(s) PROVE LostNeedsRestart'
      <2>1. outcome' = outcome
          BY <1>5 DEF Runner, Connect, Attach, Abandon, RunnerReceive, RunnerReceiveAck, RunnerSend,
                  RunnerSendAck
      <2> QED BY <1>a, <2>1
  <1>6. ASSUME NEW s \in Sessions, Hub(s), ~Register(s) PROVE LostNeedsRestart'
      <2>1. outcome' = outcome \/ \E S : outcome' = finish(S, "error") \/ outcome' = finish(S, "result")
          BY <1>6 DEF Hub, CheckFinalized, Detach, BackendSend, BackendSendAck, BackendReceiveAck, Take,
                  ApplyHeartbeat, ApplyOutput, MarkFinalized, MarkFailed, Deliver, Commit
      <2> QED BY <1>a, <2>1 DEF finish
  <1>7. ASSUME NEW s \in Sessions, Register(s) PROVE LostNeedsRestart'
      <2> SUFFICES ASSUME NEW r \in Runs, outcome'[r] = "lost", outcome[r] # "lost", rboot = 1
                   PROVE  FALSE
          BY <1>0, <1>1 DEF LostNeedsRestart
      <2>1. /\ sess[s].reg # NoReg /\ sess[s].reg \in RegisterMsg
            /\ r \in tracked \ KnownRuns(sess[s].reg)
          BY <1>7, RegisterSettles
      <2>2. sess[s].reg.boot = rboot
          BY <1>0, <2>1 DEF BootInv, RegisterMsg
      <2>3. knownBoot = rboot
          <3>1. knownBoot # 0
              BY <2>1 DEF KnownInv
          <3> QED BY <1>0, <3>1 DEF BootInv
      <2> QED BY <1>7, <2>1, <2>2, <2>3, RegisterFinds
  <1> QED BY <1>2, <1>3, <1>4, <1>5, <1>6, <1>7 DEF Next

LEMMA ServeInit == Init => ServeInv
  <1> SUFFICES ASSUME Init PROVE ServeInv
      OBVIOUS
  <1>1. CallInv
      BY CallInit
  <1>2. \A s \in Sessions : sess[s] = Unused
      BY DEF Init
  <1>3. Unused.reg = NoReg /\ Unused.upAck = 0
      BY DEF Unused
  <1>4. SeenInv /\ DownNumbers
      BY <1>2, <1>3 DEF Init, SeenInv, DownNumbers
  <1>5. WaitsInv /\ KnownInv /\ NamedInv /\ FateInv /\ LostNeedsRestart
      BY <1>2, <1>3 DEF Init, WaitsInv, Waits, KnownInv, NamedInv, FateInv, LostNeedsRestart
  <1> QED BY <1>1, <1>4, <1>5 DEF ServeInv

LEMMA ServeStep == ASSUME ServeInv, ~RegisterRace, [Next]_vars PROVE ServeInv'
  <1>1. LinkInv /\ FreshInv /\ SnapshotInv /\ CallInv
      BY DEF ServeInv, CallInv
  <1>2. CallInv'
      BY <1>1, CallStep
  <1>3. TypeOK'
      BY <1>2 DEF CallInv, LinkInv
  <1>4. DownNumbers' /\ WaitsInv'
      BY <1>1, <1>3, DownStep DEF ServeInv
  <1>5. SeenInv' /\ KnownInv'
      BY <1>1, SeenStep, KnownStep DEF ServeInv
  <1>6. NamedInv'
      BY <1>1, <1>3, NamedStep DEF ServeInv
  <1>7. FateInv' /\ LostNeedsRestart'
      BY <1>1, FateStep, LostStep DEF ServeInv
  <1> QED BY <1>2, <1>4, <1>5, <1>6, <1>7 DEF ServeInv

LEMMA ServeAlways == ASSUME ~RegisterRace PROVE Spec => []ServeInv
  <1>1. Init => ServeInv
      BY ServeInit
  <1>2. ServeInv /\ [Next]_vars => ServeInv'
      BY ServeStep
  <1> QED BY <1>1, <1>2, PTL DEF Spec

\* A caller is never left waiting for nothing: whatever sessions broke and
\* whichever process restarted in between, the request of a run the hub waits
\* for is still queued, its agent is still there, its result is still to be sent,
\* or the next Register of the restarted runner settles it
\* (register, handleUpstream, Client.attach, Client.enqueue).
THEOREM NobodyIsStranded == ASSUME ~RegisterRace PROVE Spec => []NoneStranded
  <1>1. ServeInv => NoneStranded
      <2> SUFFICES ASSUME ServeInv, NEW r \in tracked, rboot = knownBoot
                   PROVE  \/ \E m \in bqueue : m.kind = "start" /\ m.run = r
                          \/ InTable(r)
                          \/ \E m \in rqueue : m.kind = "res" /\ m.run = r
          BY DEF NoneStranded
      <2>1. UnderWay(r) \/ \E m \in bqueue : m.kind = "start" /\ m.run = r
          BY DEF ServeInv, FateInv
      <2>2. run[r] \in {"reported", "ended"} => \E m \in rqueue : m.kind = "res" /\ m.run = r
          BY DEF ServeInv, CallInv, OwedInv
      <2> QED BY <2>1, <2>2 DEF UnderWay, InTable
  <1> QED BY <1>1, ServeAlways, PTL

\* ErrRunLost is told only after the runner process has been started again: as
\* long as it lives, neither a lost session nor a restart of the backend makes
\* register give a run up.
THEOREM OnlyRestartsLose == ASSUME ~RegisterRace PROVE Spec => []LostNeedsRestart
  <1>1. ServeInv => LostNeedsRestart
      BY DEF ServeInv
  <1> QED BY <1>1, ServeAlways, PTL

\* What a caller may rely on, as the runs check it (register, detach).
THEOREM CallersServed == ASSUME ~RegisterRace PROVE Spec => []NoCallerStranded
  <1>1. TypeOK /\ NoneStranded /\ LostNeedsRestart /\ OnlineIsConnected => NoCallerStranded
      BY DEF NoCallerStranded
  <1> QED BY <1>1, TypeCorrect, NobodyIsStranded, OnlyRestartsLose, OnlineServed, PTL
==============================================================================
