-------------------------- MODULE RunnerLinkProofs --------------------------
(***************************************************************************)
(* What holds of RunnerLink for every set of runs, any number of sessions, *)
(* restarts and chunks and every size of the runner's queue: the types, an *)
(* invariant of the run, its agent and its report, and that a node shown   *)
(* online has a session.                                                   *)
(***************************************************************************)
EXTENDS RunnerLink, FiniteSetTheorems, TLAPS

-----------------------------------------------------------------------------
(* Types *)

\* One session changes to x.
Sets(s, x) == sess' = [sess EXCEPT ![s] = x]

LEMMA SetsEffect ==
    ASSUME sess \in [Sessions -> Session], NEW s \in Sessions, NEW x, Sets(s, x)
    PROVE  /\ sess'[s] = x /\ \A t \in Sessions : t # s => sess'[t] = sess[t]
           /\ x \in Session => sess' \in [Sessions -> Session]
  BY DEF Sets

\* The constant records are sessions, or parts of one.
LEMMA Constants ==
    /\ Unused \in Session
    /\ NoReg \in {NoReg} \cup RegisterMsg
    /\ Idle.step = "none"
  BY DEF Unused, Session, NoReg, NoRes, Idle

\* So is a session whose end is gone.
LEMMA EndsAreSessions ==
    ASSUME sess \in [Sessions -> Session], NEW s \in Sessions
    PROVE  Closed(s) \in Session /\ LeftByRunner(s) \in Session
  <1>1. sess[s] \in Session
      OBVIOUS
  <1>2. Closed(s) \in Session
      BY <1>1 DEF Session, Closed
  <1>3. LeftByRunner(s) \in Session
      BY <1>1 DEF Session, LeftByRunner, NoRes
  <1> QED BY <1>2, <1>3

\* The messages the two ends write.
LEMMA Messages ==
    ASSUME TypeOK
    PROVE  /\ \A kind \in {"start", "cancel"}, r \in Runs : BackendMsg(kind, r) \in DownMsg
           /\ \A kind \in {"out", "res"}, r \in Runs, n \in Nat : RunnerMsg(kind, r, n) \in RunMsg
           /\ RunnerMsg("hb", NoRun, 0) \in Heartbeat
           /\ buildRegister \in RegisterMsg
  <1>1. \A kind \in {"start", "cancel"}, r \in Runs : BackendMsg(kind, r) \in DownMsg
      BY DEF TypeOK, BackendMsg, DownMsg
  <1>2. /\ \A kind \in {"out", "res"}, r \in Runs, n \in Nat : RunnerMsg(kind, r, n) \in RunMsg
        /\ RunnerMsg("hb", NoRun, 0) \in Heartbeat
      BY DEF TypeOK, RunnerMsg, RunMsg, Heartbeat
  <1>3. buildRegister \in RegisterMsg
      <2>1. QueuedRuns(rqueue, "res") \in SUBSET Runs
          BY DEF QueuedRuns, TypeOK, UpMsg, RunMsg, Heartbeat
      <2> QED BY <2>1 DEF buildRegister, RegisterMsg, TypeOK
  <1> QED BY <1>1, <1>2, <1>3

\* The dispatcher, the executor and the heartbeat change no session.
LEMMA CallerType == ASSUME TypeOK, Caller PROVE TypeOK'
  <1>1. ASSUME NEW r \in Runs, Dispatch(r) PROVE TypeOK'
      <2>1. bnext' \in Nat /\ bqueue' \in SUBSET DownMsg
          BY <1>1, Messages DEF Dispatch, enqueueLocked, TypeOK
      <2>2. tracked' \in SUBSET Runs
            /\ outcome' \in [Runs -> {"none", "pending", "result", "lost", "error", "closed"}]
          BY <1>1 DEF Dispatch, TypeOK
      <2> QED BY <1>1, <2>1, <2>2 DEF Dispatch, TypeOK, linkVars, execVars
  <1>2. ASSUME NEW r \in Runs, Cancel(r) PROVE TypeOK'
      <2>1. bnext' \in Nat /\ bqueue' \in SUBSET DownMsg
          BY <1>2, Messages DEF Cancel, enqueueLocked, TypeOK
      <2> QED BY <1>2, <2>1 DEF Cancel, TypeOK, linkVars, execVars
  <1> QED BY <1>1, <1>2 DEF Caller

LEMMA ExecutorType == ASSUME TypeOK, Executor \/ sendHeartbeat PROVE TypeOK'
  <1> USE DEF hubVars, callerVars, execVars, linkVars
  <1>1. ASSUME NEW r \in Runs, Output(r) PROVE TypeOK'
      <2>1. emitted[r] \in Nat /\ emitted' \in [Runs -> Nat]
          BY <1>1 DEF Output, TypeOK
      <2>2. rnext' \in Nat /\ rqueue' \in SUBSET UpMsg
          BY <1>1, <2>1, Messages DEF Output, enqueue, TypeOK, UpMsg
      <2> QED BY <1>1, <2>1, <2>2 DEF Output, TypeOK
  <1>2. ASSUME NEW r \in Runs, Report(r) PROVE TypeOK'
      <2>1. rnext' \in Nat /\ rqueue' \in SUBSET UpMsg
          BY <1>2, Messages DEF Report, enqueue, TypeOK, UpMsg
      <2> QED BY <1>2, <2>1 DEF Report, TypeOK
  <1>3. ASSUME NEW r \in Runs, EndRun(r) PROVE TypeOK'
      BY <1>3 DEF EndRun, TypeOK
  <1>4. CASE sendHeartbeat
      <2>1. rnext' \in Nat /\ rqueue' \in SUBSET UpMsg
          BY <1>4, Messages DEF sendHeartbeat, TypeOK, UpMsg
      <2> QED BY <1>4, <2>1 DEF sendHeartbeat, TypeOK
  <1> QED BY <1>1, <1>2, <1>3, <1>4 DEF Executor

\* Crashes.
LEMMA CrashType == ASSUME TypeOK, RunnerCrash \/ BackendCrash PROVE TypeOK'
  <1> USE DEF hubVars, callerVars, execVars, linkVars
  <1>1. CASE RunnerCrash
      <2>1. sess' \in [Sessions -> Session]
          BY <1>1, EndsAreSessions DEF RunnerCrash, TypeOK
      <2>2. run' \in [Runs -> {"none", "running", "reported", "ended", "dead", "gone"}]
          BY <1>1 DEF RunnerCrash, TypeOK
      <2>3. /\ rboot' = rboot + 1 /\ rnext' = 0 /\ rqueue' = {} /\ lastB' = 0 /\ seenBoot' = 0
            /\ rsess' = 0 /\ attached' = FALSE /\ rackDirty' = FALSE /\ cancelled' = {}
            /\ emitted' = [r \in Runs |-> 0]
            /\ UNCHANGED <<bboot, bnext, bqueue, highest, knownBoot, conn, tracked, got, finalized,
                           outcome, cancelAsked>>
          BY <1>1 DEF RunnerCrash
      <2>4. emitted' \in [Runs -> Nat] /\ rboot' \in Nat \ {0}
          BY <2>3 DEF TypeOK
      <2> QED BY <2>1, <2>2, <2>3, <2>4 DEF TypeOK
  <1>2. CASE BackendCrash
      <2>1. \A s \in Sessions : [Closed(s) EXCEPT !.hnd = Idle, !.st = "closed", !.fin = {}] \in Session
          <3> SUFFICES ASSUME NEW s \in Sessions
                       PROVE  [Closed(s) EXCEPT !.hnd = Idle, !.st = "closed", !.fin = {}] \in Session
              OBVIOUS
          <3>1. Closed(s) \in Session
              BY EndsAreSessions DEF TypeOK
          <3> QED BY <3>1 DEF Session
      <2>2. sess' \in [Sessions -> Session]
          BY <1>2, <2>1 DEF BackendCrash, TypeOK
      <2>3. outcome' \in [Runs -> {"none", "pending", "result", "lost", "error", "closed"}]
          BY <1>2 DEF BackendCrash, TypeOK, finish
      <2>4. /\ bboot' = bboot + 1 /\ bnext' = 0 /\ bqueue' = {} /\ highest' = 0 /\ knownBoot' = 0
            /\ conn' = 0 /\ tracked' = {} /\ got' = [r \in Runs |-> 0]
            /\ UNCHANGED <<finalized, cancelAsked, rboot, rnext, rqueue, lastB, seenBoot, rsess,
                           attached, rackDirty, run, emitted, cancelled>>
          BY <1>2 DEF BackendCrash
      <2> QED BY <2>2, <2>3, <2>4 DEF TypeOK
  <1> QED BY <1>1, <1>2

\* The runner's end of the stream.
LEMMA RunnerType == ASSUME TypeOK, NEW s \in Sessions, Runner(s) PROVE TypeOK'
  <1> USE DEF hubVars, callerVars, execVars, linkVars
  <1>0. sess \in [Sessions -> Session] /\ sess[s] \in Session
      BY DEF TypeOK
  <1>a. ASSUME NEW x \in Session, Sets(s, x),
               UNCHANGED <<hubVars, finalized, callerVars, rboot>>,
               rnext' \in Nat, rqueue' \in SUBSET UpMsg, lastB' \in Nat, seenBoot' \in Nat,
               rsess' \in {0} \cup Sessions, attached' \in BOOLEAN, rackDirty' \in BOOLEAN,
               run' \in [Runs -> {"none", "running", "reported", "ended", "dead", "gone"}],
               emitted' \in [Runs -> Nat], cancelled' \in SUBSET Runs
        PROVE  TypeOK'
      BY <1>0, <1>a, SetsEffect DEF TypeOK
  <1>b. ASSUME NEW x \in Session, Sets(s, x),
               UNCHANGED <<hubVars, finalized, callerVars, rboot, linkVars, execVars>>
        PROVE  TypeOK'
      BY <1>0, <1>b, SetsEffect DEF TypeOK
  <1>1. CASE Connect(s)
      <2> DEFINE x == [Unused EXCEPT !.st = "dialled", !.live = TRUE, !.reg = buildRegister]
      <2>1. x \in Session
          <3>1. Unused \in Session /\ buildRegister \in RegisterMsg
              BY Constants, Messages
          <3> QED BY <3>1 DEF Session
      <2>2. Sets(s, x) /\ rsess' = s /\ attached' = FALSE
            /\ UNCHANGED <<hubVars, finalized, callerVars, rboot, rnext, rqueue, lastB, seenBoot,
                           rackDirty, execVars>>
          BY <1>1 DEF Connect, Sets
      <2> HIDE DEF x
      <2> QED BY <1>a, <2>1, <2>2 DEF TypeOK
  <1>2. CASE Attach(s)
      <2> DEFINE x == [sess[s] EXCEPT !.res = NoRes]
      <2>1. x \in Session /\ sess[s].res \in {NoRes} \cup [boot : Nat \ {0}, acked : Nat]
          BY <1>0 DEF Session
      <2>2. Sets(s, x) /\ sess[s].res # NoRes /\ rsess' = rsess /\ attached' = TRUE
            /\ UNCHANGED <<hubVars, finalized, callerVars, rboot, rnext, execVars>>
          BY <1>2 DEF Attach, Sets
      <2>3. /\ seenBoot' = sess[s].res.boot
            /\ lastB' = IF sess[s].res.boot # seenBoot THEN 0 ELSE lastB
            /\ rackDirty' = (lastB' > 0)
            /\ rqueue' = Trim(rqueue, sess[s].res.acked)
          BY <1>2 DEF Attach
      <2>4. seenBoot' \in Nat /\ lastB' \in Nat /\ rackDirty' \in BOOLEAN /\ rqueue' \in SUBSET UpMsg
          BY <2>1, <2>2, <2>3 DEF TypeOK, Trim
      <2> HIDE DEF x
      <2> QED BY <1>a, <2>1, <2>2, <2>4 DEF TypeOK
  <1>3. CASE Abandon(s)
      <2>1. LeftByRunner(s) \in Session
          BY <1>0, EndsAreSessions
      <2>2. Sets(s, LeftByRunner(s)) /\ rsess' = 0 /\ attached' = FALSE
            /\ UNCHANGED <<hubVars, finalized, callerVars, rboot, rnext, rqueue, lastB, seenBoot,
                           rackDirty, execVars>>
          BY <1>3 DEF Abandon, Sets
      <2> QED BY <1>a, <2>1, <2>2 DEF TypeOK
  <1>4. CASE RunnerReceive(s)
      <2>1. PICK m \in sess[s].down :
               /\ IF m.seq <= lastB THEN UNCHANGED <<lastB, execVars>>
                  ELSE handle(m) /\ lastB' = m.seq
               /\ sess' = [sess EXCEPT ![s].down = @ \ {m}]
          BY <1>4 DEF RunnerReceive
      <2>2. m \in DownMsg /\ m.seq \in Nat /\ m.run \in Runs
          BY <1>0 DEF Session, DownMsg
      <2> DEFINE x == [sess[s] EXCEPT !.down = @ \ {m}]
      <2>3. x \in Session
          BY <1>0 DEF Session
      <2>4. Sets(s, x)
          BY <2>1 DEF Sets
      <2>5. /\ lastB' \in Nat /\ run' \in [Runs -> {"none", "running", "reported", "ended", "dead", "gone"}]
            /\ emitted' \in [Runs -> Nat] /\ cancelled' \in SUBSET Runs
          BY <2>1, <2>2 DEF TypeOK, handle
      <2>6. rackDirty' = TRUE /\ UNCHANGED <<hubVars, finalized, callerVars, rboot, rnext, rqueue,
                                              seenBoot, rsess, attached>>
          BY <1>4 DEF RunnerReceive
      <2> HIDE DEF x
      <2> QED BY <1>a, <2>3, <2>4, <2>5, <2>6 DEF TypeOK
  <1>5. CASE RunnerReceiveAck(s)
      <2> DEFINE x == [sess[s] EXCEPT !.downAck = 0]
      <2>1. x \in Session
          BY <1>0 DEF Session
      <2>2. Sets(s, x) /\ rqueue' = Trim(rqueue, sess[s].downAck)
            /\ UNCHANGED <<hubVars, finalized, callerVars, rboot, rnext, lastB, seenBoot, rsess,
                           attached, rackDirty, execVars>>
          BY <1>5 DEF RunnerReceiveAck, Sets
      <2>3. rqueue' \in SUBSET UpMsg
          BY <2>2 DEF TypeOK, Trim
      <2> HIDE DEF x
      <2> QED BY <1>a, <2>1, <2>2, <2>3 DEF TypeOK
  <1>6. CASE RunnerSend(s)
      <2>1. PICK m \in rqueue :
               sess' = [sess EXCEPT ![s].rsent = m.seq,
                                    ![s].up = IF sess[s].live THEN @ \cup {m} ELSE {}]
          BY <1>6 DEF RunnerSend
      <2> DEFINE x == [sess[s] EXCEPT !.rsent = m.seq, !.up = IF sess[s].live THEN @ \cup {m} ELSE {}]
      <2>2. m \in UpMsg /\ m.seq \in Nat
          BY DEF TypeOK, UpMsg, RunMsg, Heartbeat
      <2>3. x \in Session
          BY <1>0, <2>2 DEF Session
      <2>4. Sets(s, x)
          BY <2>1 DEF Sets
      <2> HIDE DEF x
      <2> QED BY <1>6, <1>b, <2>3, <2>4 DEF RunnerSend
  <1>7. CASE RunnerSendAck(s)
      <2> DEFINE x == [sess[s] EXCEPT !.upAck = IF sess[s].live THEN lastB ELSE 0]
      <2>1. x \in Session
          <3>1. (IF sess[s].live THEN lastB ELSE 0) \in Nat
              BY DEF TypeOK
          <3> QED BY <1>0, <3>1 DEF Session
      <2>2. Sets(s, x) /\ rackDirty' = FALSE
            /\ UNCHANGED <<hubVars, finalized, callerVars, rboot, rnext, rqueue, lastB, seenBoot,
                           rsess, attached, execVars>>
          BY <1>7 DEF RunnerSendAck, Sets
      <2> HIDE DEF x
      <2> QED BY <1>a, <2>1, <2>2 DEF TypeOK
  <1> QED BY <1>1, <1>2, <1>3, <1>4, <1>5, <1>6, <1>7 DEF Runner

Steps == {"dup", "taken", "marked", "applied"}

\* What the backend is handling.
LEMMA HandlingType ==
    ASSUME NEW x \in Session, x.hnd # Idle \/ x.hnd.step # "none"
    PROVE  /\ x.hnd \in [step : Steps, msg : UpMsg]
           /\ x.hnd.step # "none" /\ x.hnd # Idle
           /\ x.hnd.msg \in UpMsg /\ x.hnd.msg.seq \in Nat /\ x.hnd.msg.n \in Nat
           /\ x.hnd.msg.kind # "hb" => x.hnd.msg.run \in Runs
  <1>1. x.hnd \in {Idle} \cup [step : Steps, msg : UpMsg]
      BY DEF Session, Steps
  <1>2. x.hnd \in [step : Steps, msg : UpMsg]
      BY <1>1 DEF Idle
  <1>3. x.hnd.step # "none" /\ x.hnd.msg \in UpMsg
      BY <1>2 DEF Steps
  <1>4. x.hnd # Idle
      BY <1>3 DEF Idle
  <1> QED BY <1>2, <1>3, <1>4 DEF UpMsg, RunMsg, Heartbeat

\* The handler goes on.
Stepped(x, step) == [x EXCEPT !.hnd = [x.hnd EXCEPT !.step = step]]

LEMMA SteppedType ==
    ASSUME NEW x \in Session, x.hnd # Idle \/ x.hnd.step # "none", NEW step \in Steps
    PROVE  Stepped(x, step) \in Session
  <1> DEFINE h == [x.hnd EXCEPT !.step = step]
  <1>1. h \in [step : Steps, msg : UpMsg]
      BY HandlingType
  <1> HIDE DEF h
  <1>2. [x EXCEPT !.hnd = h] \in Session
      BY <1>1 DEF Session, Steps
  <1> QED BY <1>2 DEF Stepped, h

\* The registration: the messages that are left for the node, with the
\* cancellations it adds.
LEMMA RegisterType ==
    ASSUME TypeOK, NEW s \in Sessions, sess[s].reg # NoReg, Register(s)
    PROVE  /\ bnext' \in Nat /\ bqueue' \in SUBSET DownMsg
           /\ tracked' \in SUBSET Runs
           /\ outcome' \in [Runs -> {"none", "pending", "result", "lost", "error", "closed"}]
           /\ highest' \in Nat /\ knownBoot' \in Nat \ {0}
           /\ sess' \in [Sessions -> Session]
  <1> DEFINE reg == sess[s].reg
             kept == KeptQueue(reg)
             known == reg.active \cup reg.completed \cup QueuedRuns(kept, "start")
             lost == tracked \ known
             orphans == ((reg.active \ (tracked \ lost)) \ sess[s].fin) \ QueuedRuns(kept, "cancel")
  <1>1. sess[s] \in Session /\ reg \in {NoReg} \cup RegisterMsg
      BY DEF TypeOK, Session
  <1>2. /\ reg \in RegisterMsg /\ reg.active \in SUBSET Runs /\ reg.completed \in SUBSET Runs
        /\ reg.boot \in Nat \ {0} /\ reg.lastB \in Nat /\ reg.seenBoot \in Nat
      BY <1>1 DEF RegisterMsg
  <1>3. kept \in SUBSET DownMsg
      BY DEF KeptQueue, Trim, TypeOK
  <1>4. orphans \in SUBSET Runs /\ IsFiniteSet(orphans) /\ Cardinality(orphans) \in Nat
      <2>1. orphans \in SUBSET Runs
          BY <1>2
      <2>2. IsFiniteSet(orphans)
          BY <2>1, RunnerLinkConstants, FS_Subset
      <2> QED BY <2>1, <2>2, FS_CardinalityType
  <1>5. /\ knownBoot' = reg.boot
        /\ highest' = IF knownBoot # reg.boot THEN 0 ELSE highest
        /\ outcome' = finish(lost, "lost")
        /\ tracked' = tracked \ lost
        /\ bnext' = bnext + Cardinality(orphans)
        /\ \E order \in [orphans -> (bnext + 1)..(bnext + Cardinality(orphans))] :
              bqueue' = kept \cup {[seq |-> order[r], kind |-> "cancel", run |-> r] : r \in orphans}
      BY DEF Register
  <1>6. PICK order \in [orphans -> (bnext + 1)..(bnext + Cardinality(orphans))] :
              bqueue' = kept \cup {[seq |-> order[r], kind |-> "cancel", run |-> r] : r \in orphans}
      BY <1>5
  <1>7. \A r \in orphans : [seq |-> order[r], kind |-> "cancel", run |-> r] \in DownMsg
      <2> SUFFICES ASSUME NEW r \in orphans PROVE order[r] \in Nat \ {0} /\ r \in Runs
          BY DEF DownMsg
      <2> HIDE DEF orphans
      <2>1. order[r] \in (bnext + 1)..(bnext + Cardinality(orphans))
          BY <1>6
      <2> QED BY <1>4, <2>1 DEF TypeOK
  <1>8. bnext' \in Nat /\ bqueue' \in SUBSET DownMsg
      <2> HIDE DEF orphans, kept
      <2> QED BY <1>3, <1>4, <1>5, <1>6, <1>7 DEF TypeOK
  <1>9. /\ tracked' \in SUBSET Runs
        /\ outcome' \in [Runs -> {"none", "pending", "result", "lost", "error", "closed"}]
        /\ highest' \in Nat /\ knownBoot' \in Nat \ {0}
      <2> HIDE DEF lost
      <2> QED BY <1>2, <1>5 DEF TypeOK, finish
  <1>10. sess' \in [Sessions -> Session]
      <2> DEFINE a == IF sess[s].live /\ rsess = s THEN [boot |-> bboot, acked |-> highest'] ELSE NoRes
                 x == [sess[s] EXCEPT !.st = "open", !.reg = NoReg, !.fin = {}, !.res = a]
      <2>1. Sets(s, x)
          BY DEF Register, Sets
      <2>2. a \in {NoRes} \cup [boot : Nat \ {0}, acked : Nat]
          BY <1>9 DEF TypeOK
      <2> HIDE DEF a
      <2>3. x \in Session
          BY <1>1, <2>2 DEF Session
      <2> HIDE DEF x
      <2> QED BY <2>1, <2>3, SetsEffect DEF TypeOK
  <1> QED BY <1>8, <1>9, <1>10

\* The hub's end of the stream.
LEMMA HubType ==
    ASSUME TypeOK, NEW s \in Sessions, Hub(s),
           sess[s].st \in {"dialled", "checked"} => sess[s].reg # NoReg
    PROVE  TypeOK'
  <1> USE DEF hubVars, callerVars, execVars, linkVars
  <1>0. sess \in [Sessions -> Session] /\ sess[s] \in Session
      BY DEF TypeOK
  <1>a. ASSUME NEW x \in Session, Sets(s, x),
               bqueue' \in SUBSET DownMsg, highest' \in Nat,
               conn' \in {0} \cup Sessions, tracked' \in SUBSET Runs, got' \in [Runs -> Nat],
               finalized' \in SUBSET Runs,
               outcome' \in [Runs -> {"none", "pending", "result", "lost", "error", "closed"}],
               UNCHANGED <<bboot, bnext, knownBoot, cancelAsked, rboot, linkVars, execVars>>
        PROVE  TypeOK'
      BY <1>0, <1>a, SetsEffect DEF TypeOK
  <1>b. ASSUME NEW x \in Session, Sets(s, x),
               UNCHANGED <<hubVars, finalized, callerVars, rboot, linkVars, execVars>>
        PROVE  TypeOK'
      BY <1>0, <1>b, SetsEffect DEF TypeOK
  <1>1. CASE CheckFinalized(s)
      <2>1. PICK failed \in SUBSET sess[s].reg.active :
               sess' = [sess EXCEPT ![s].st = "checked",
                                    ![s].fin = (sess[s].reg.active \cap finalized) \cup failed]
          BY <1>1 DEF CheckFinalized
      <2> DEFINE x == [sess[s] EXCEPT !.st = "checked",
                                      !.fin = (sess[s].reg.active \cap finalized) \cup failed]
      <2>2. sess[s].reg.active \in SUBSET Runs
          BY <1>0, <1>1 DEF CheckFinalized, Session, RegisterMsg
      <2>3. x \in Session
          BY <1>0, <2>2 DEF Session
      <2>4. Sets(s, x)
          BY <2>1 DEF Sets
      <2> HIDE DEF x
      <2> QED BY <1>1, <1>b, <2>3, <2>4 DEF CheckFinalized
  <1>2. CASE Register(s)
      <2>1. UNCHANGED <<bboot, got, finalized, cancelAsked, rboot, linkVars, execVars>> /\ conn' = s
            /\ sess[s].st = "checked"
          BY <1>2 DEF Register
      <2> QED BY <1>2, <2>1, RegisterType DEF TypeOK
  <1>3. CASE Detach(s)
      <2>1. Closed(s) \in Session
          BY <1>0, EndsAreSessions
      <2>2. Sets(s, Closed(s)) /\ conn' \in {0, conn}
          BY <1>3 DEF Detach, Sets, detach
      <2> QED BY <1>3, <1>a, <2>1, <2>2 DEF Detach, TypeOK
  <1>4. CASE BackendSend(s)
      <2>1. PICK m \in bqueue :
               sess' = [sess EXCEPT ![s].bsent = m.seq,
                                    ![s].down = IF rsess = s THEN @ \cup {m} ELSE {}]
          BY <1>4 DEF BackendSend
      <2> DEFINE x == [sess[s] EXCEPT !.bsent = m.seq, !.down = IF rsess = s THEN @ \cup {m} ELSE {}]
      <2>2. m \in DownMsg /\ m.seq \in Nat
          BY DEF TypeOK, DownMsg
      <2>3. x \in Session
          BY <1>0, <2>2 DEF Session
      <2>4. Sets(s, x)
          BY <2>1 DEF Sets
      <2> HIDE DEF x
      <2> QED BY <1>4, <1>b, <2>3, <2>4 DEF BackendSend
  <1>5. CASE BackendSendAck(s)
      <2> DEFINE x == [sess[s] EXCEPT !.ackDirty = FALSE,
                                      !.downAck = IF rsess = s THEN sess[s].ackSeq ELSE 0]
      <2>1. x \in Session
          BY <1>0 DEF Session
      <2>2. Sets(s, x)
          BY <1>5 DEF BackendSendAck, Sets
      <2> HIDE DEF x
      <2> QED BY <1>5, <1>b, <2>1, <2>2 DEF BackendSendAck
  <1>6. CASE BackendReceiveAck(s)
      <2> DEFINE x == [sess[s] EXCEPT !.upAck = 0]
      <2>1. x \in Session
          BY <1>0 DEF Session
      <2>2. Sets(s, x) /\ bqueue' \in SUBSET DownMsg
          BY <1>6 DEF BackendReceiveAck, Sets, Trim, TypeOK
      <2> HIDE DEF x
      <2> QED BY <1>6, <1>a, <2>1, <2>2 DEF BackendReceiveAck, TypeOK
  <1>7. CASE Take(s)
      <2>1. PICK m \in sess[s].up :
               sess' = [sess EXCEPT ![s].up = @ \ {m},
                                    ![s].hnd = [step |-> IF m.seq <= highest THEN "dup" ELSE "taken",
                                                msg |-> m]]
          BY <1>7 DEF Take
      <2> DEFINE h == [step |-> IF m.seq <= highest THEN "dup" ELSE "taken", msg |-> m]
                 x == [sess[s] EXCEPT !.up = @ \ {m}, !.hnd = h]
      <2>2. m \in UpMsg
          BY <1>0 DEF Session
      <2>3. h \in [step : Steps, msg : UpMsg]
          BY <2>2 DEF Steps
      <2> HIDE DEF h
      <2>4. x \in Session
          BY <1>0, <2>3 DEF Session, Steps
      <2>5. Sets(s, x)
          BY <2>1 DEF Sets, h
      <2> HIDE DEF x
      <2> QED BY <1>7, <1>b, <2>4, <2>5 DEF Take
  <1>c. ASSUME sess[s].hnd.step # "none", NEW step \in Steps,
               sess' = [sess EXCEPT ![s].hnd.step = step]
        PROVE  Stepped(sess[s], step) \in Session /\ Sets(s, Stepped(sess[s], step))
      <2>1. Stepped(sess[s], step) \in Session
          BY <1>0, <1>c, SteppedType
      <2> QED BY <1>c, <2>1 DEF Sets, Stepped
  <1>8. CASE ApplyHeartbeat(s)
      <2>1. "applied" \in Steps /\ sess[s].hnd.step # "none"
            /\ sess' = [sess EXCEPT ![s].hnd.step = "applied"]
          BY <1>8 DEF ApplyHeartbeat, Handling, Steps
      <2> QED BY <1>8, <1>b, <1>c, <2>1 DEF ApplyHeartbeat
  <1>9. CASE ApplyOutput(s)
      <2> DEFINE m == sess[s].hnd.msg
                 gap == m.run \in tracked /\ m.n > got[m.run]
      <2>1. "applied" \in Steps /\ sess[s].hnd.step # "none"
            /\ sess' = [sess EXCEPT ![s].hnd.step = "applied"]
          BY <1>9 DEF ApplyOutput, Handling, Steps
      <2>2. /\ tracked' = IF gap THEN tracked \ {m.run} ELSE tracked
            /\ outcome' = IF gap THEN finish({m.run}, "error") ELSE outcome
            /\ got' = IF m.run \in tracked /\ m.n = got[m.run]
                      THEN [got EXCEPT ![m.run] = @ + 1] ELSE got
          BY <1>9 DEF ApplyOutput
      <2> HIDE DEF m
      <2>3. tracked' \in SUBSET Runs
          BY <2>2 DEF TypeOK
      <2>4. outcome' \in [Runs -> {"none", "pending", "result", "lost", "error", "closed"}]
          BY <2>2 DEF TypeOK, finish
      <2>5. got' \in [Runs -> Nat]
          BY <2>2 DEF TypeOK
      <2> QED BY <1>9, <1>a, <1>c, <2>1, <2>3, <2>4, <2>5 DEF ApplyOutput, TypeOK
  <1>10. CASE MarkFinalized(s)
      <2> DEFINE step == IF sess[s].hnd.msg.run \in tracked THEN "marked" ELSE "applied"
      <2>1. step \in Steps /\ sess[s].hnd.step # "none"
            /\ sess' = [sess EXCEPT ![s].hnd.step = step]
          BY <1>10 DEF MarkFinalized, Handling, Steps
      <2>2. finalized' \in SUBSET Runs
          <3>1. sess[s].hnd.msg.run \in Runs
              BY <1>0, <1>10, HandlingType DEF MarkFinalized, Handling
          <3> QED BY <1>10, <3>1 DEF MarkFinalized, TypeOK
      <2> HIDE DEF step
      <2> QED BY <1>10, <1>a, <1>c, <2>1, <2>2 DEF MarkFinalized, TypeOK
  <1>11. CASE MarkFailed(s)
      <2> DEFINE x == [Closed(s) EXCEPT !.hnd = Idle]
      <2>1. x \in Session
          <3>1. Closed(s) \in Session
              BY <1>0, EndsAreSessions
          <3> QED BY <3>1 DEF Session
      <2>2. Sets(s, x) /\ conn' \in {0, conn}
          BY <1>11 DEF MarkFailed, Sets, detach
      <2> HIDE DEF x
      <2> QED BY <1>11, <1>a, <2>1, <2>2 DEF MarkFailed, TypeOK
  <1>12. CASE Deliver(s)
      <2> DEFINE m == sess[s].hnd.msg
      <2>1. "applied" \in Steps /\ sess[s].hnd.step # "none"
            /\ sess' = [sess EXCEPT ![s].hnd.step = "applied"]
          BY <1>12 DEF Deliver, Handling, Steps
      <2>2. /\ tracked' = tracked \ {m.run}
            /\ outcome' = finish({m.run}, IF got[m.run] = m.n THEN "result" ELSE "error")
          BY <1>12 DEF Deliver
      <2> HIDE DEF m
      <2>3. tracked' \in SUBSET Runs
            /\ outcome' \in [Runs -> {"none", "pending", "result", "lost", "error", "closed"}]
          BY <2>2 DEF TypeOK, finish
      <2> QED BY <1>12, <1>a, <1>c, <2>1, <2>3 DEF Deliver, TypeOK
  <1>13. CASE Commit(s)
      <2>1. sess[s].hnd.step # "none" /\ sess[s].hnd.msg.seq \in Nat
          BY <1>0, <1>13, HandlingType DEF Commit
      <2>2. highest' \in Nat
          BY <1>13, <2>1 DEF Commit, TypeOK
      <2> DEFINE a == IF sess[s].live THEN highest' ELSE 0
                 x == [sess[s] EXCEPT !.hnd = Idle, !.ackSeq = a, !.ackDirty = sess[s].live]
      <2>3. a \in Nat
          BY <2>2
      <2>4. Sets(s, x)
          BY <1>13 DEF Commit, Sets
      <2> HIDE DEF a
      <2>5. x \in Session
          BY <1>0, <2>3 DEF Session
      <2> HIDE DEF x
      <2> QED BY <1>13, <1>a, <2>2, <2>4, <2>5 DEF Commit, TypeOK
  <1> QED BY <1>1, <1>2, <1>3, <1>4, <1>5, <1>6, <1>7, <1>8, <1>9, <1>10, <1>11, <1>12, <1>13 DEF Hub

-----------------------------------------------------------------------------
(* The agents' side of the contract *)

\* Sessions are used one after the other; the runner's is the latest one, the
\* hub's connection an open one that is served, and no later one is open.
SessionInv ==
    /\ \A s, t \in Sessions : t < s /\ sess[s].st # "unused" => sess[t].st # "unused"
    /\ rsess # 0 => /\ sess[rsess].st # "unused"
                    /\ \A t \in Sessions : t > rsess => sess[t].st = "unused"
    /\ conn # 0 => /\ sess[conn].st = "open" /\ sess[conn].live
                   /\ \A t \in Sessions : t > conn => sess[t].st # "open"
    /\ \A s \in Sessions : s # rsess => sess[s].down = {} /\ sess[s].res = NoRes
    /\ \A s \in Sessions : sess[s].st \in {"dialled", "checked"} =>
          sess[s].down = {} /\ sess[s].bsent = 0 /\ sess[s].res = NoRes /\ sess[s].reg # NoReg
    /\ attached => /\ rsess # 0 /\ sess[rsess].st \in {"open", "closed"}
                   /\ sess[rsess].res = NoRes

\* Who knows which process, and from where the runner goes on.
BootInv ==
    /\ knownBoot <= rboot /\ seenBoot <= bboot
    /\ \A s \in Sessions : sess[s].reg # NoReg => sess[s].reg.boot <= rboot
    /\ rsess # 0 =>
          /\ sess[rsess].st \in {"dialled", "checked"} =>
                /\ sess[rsess].reg.boot = rboot
                /\ sess[rsess].reg.lastB = lastB /\ sess[rsess].reg.seenBoot = seenBoot
          /\ sess[rsess].st = "open" =>
                /\ attached => seenBoot = bboot
                /\ sess[rsess].res # NoRes => sess[rsess].res.boot = bboot
          /\ sess[rsess].st = "closed" =>
                /\ seenBoot < bboot
                /\ sess[rsess].res # NoRes => sess[rsess].res.boot < bboot

\* The hub waits for exactly the runs whose callers have no outcome.
TrackedInv == \A r \in Runs : outcome[r] = "pending" <=> r \in tracked

\* A request to start an agent, queued or on its way.
StartOf(m) == m.kind = "start" /\ (m \in bqueue \/ \E s \in Sessions : m \in sess[s].down)

\* There is one per run, and only for runs that were asked for.
StartInv ==
    /\ \A m, n : StartOf(m) /\ StartOf(n) /\ m.run = n.run => m = n
    /\ \A m : StartOf(m) => outcome[m.run] # "none"
    /\ \A r \in Runs : outcome[r] = "none" => run[r] = "none"
    /\ conn # 0 => \A m \in sess[conn].down : m.seq <= sess[conn].bsent

\* One that is on its way to the runner has never been there.
DownFresh ==
    \A s \in Sessions : \A m \in sess[s].down :
        m.kind = "start" => /\ run[m.run] = "none"
                            /\ outcome[m.run] = IF sess[s].st = "closed" THEN "closed" ELSE "pending"

\* Neither has one that is yet to be sent; one that was handled is either
\* dropped or skipped by the next registration of the runner.
QueueFresh ==
    \A m \in bqueue : m.kind = "start" =>
        /\ rsess = conn /\ conn # 0 /\ m.seq > sess[conn].bsent => run[m.run] = "none"
        /\ run[m.run] = "none" => outcome[m.run] = "pending"
        /\ run[m.run] = "none" \/ knownBoot # rboot \/ (seenBoot = bboot /\ m.seq <= lastB)

\* A message on its way to the hub: queued, sent or being handled.
Holds(s, m) == m \in sess[s].up \/ (sess[s].hnd # Idle /\ m = sess[s].hnd.msg)
OnWay(m) == m \in rqueue \/ \E s \in Sessions : Holds(s, m)

\* Reports come from agents.
ReportInv == \A m : OnWay(m) /\ m.kind # "hb" => run[m.run] # "none"

AgentInv ==
    SessionInv /\ BootInv /\ TrackedInv /\ StartInv /\ DownFresh /\ QueueFresh

LinkInv == TypeOK /\ AgentInv /\ ReportInv

\* The part of the sessions that requests to start an agent pass through.
FrontKept ==
    \A s \in Sessions :
        /\ sess'[s].st = sess[s].st /\ sess'[s].live = sess[s].live
        /\ sess'[s].reg = sess[s].reg /\ sess'[s].res = sess[s].res
        /\ sess'[s].down = sess[s].down /\ sess'[s].bsent = sess[s].bsent

\* A step that leaves it alone, sends nothing to the runner and settles only
\* runs whose agent was started.
LEMMA AsideAgent ==
    ASSUME TypeOK, AgentInv, FrontKept,
           UNCHANGED <<bboot, knownBoot, conn, rboot, lastB, seenBoot, rsess, attached>>,
           bqueue' \subseteq bqueue,
           \A r \in Runs : run'[r] = "none" <=> run[r] = "none",
           \A r \in Runs : outcome'[r] # outcome[r] =>
              outcome[r] = "pending" /\ outcome'[r] # "none" /\ run[r] # "none",
           TrackedInv'
    PROVE  AgentInv'
  <1>1. SessionInv'
      BY DEF AgentInv, SessionInv, FrontKept, TypeOK
  <1>2. BootInv'
      BY DEF AgentInv, BootInv, FrontKept, TypeOK
  <1>3. \A m : StartOf(m)' => StartOf(m) /\ m.run \in Runs
      BY DEF StartOf, FrontKept, TypeOK, Session, DownMsg
  <1>4. StartInv'
      <2>1. \A m : StartOf(m)' => outcome'[m.run] # "none"
          BY <1>3 DEF AgentInv, StartInv
      <2>2. conn' # 0 => \A m \in sess'[conn'].down : m.seq <= sess'[conn'].bsent
          BY DEF AgentInv, StartInv, FrontKept, TypeOK
      <2>3. \A r \in Runs : outcome'[r] = "none" => run'[r] = "none"
          BY DEF AgentInv, StartInv
      <2> QED BY <1>3, <2>1, <2>2, <2>3 DEF AgentInv, StartInv
  <1>5. DownFresh'
      <2> SUFFICES ASSUME NEW s \in Sessions, NEW m \in sess'[s].down, m.kind = "start"
                   PROVE  /\ run'[m.run] = "none"
                          /\ outcome'[m.run] = IF sess'[s].st = "closed" THEN "closed" ELSE "pending"
          BY DEF DownFresh
      <2>1. m \in sess[s].down /\ m.run \in Runs /\ sess'[s].st = sess[s].st
          BY DEF FrontKept, TypeOK, Session, DownMsg
      <2> QED BY <2>1 DEF AgentInv, DownFresh
  <1>6. QueueFresh'
      <2> SUFFICES ASSUME NEW m \in bqueue', m.kind = "start"
                   PROVE  /\ rsess' = conn' /\ conn' # 0 /\ m.seq > sess'[conn'].bsent => run'[m.run] = "none"
                          /\ run'[m.run] = "none" => outcome'[m.run] = "pending"
                          /\ \/ run'[m.run] = "none" \/ knownBoot' # rboot'
                             \/ seenBoot' = bboot' /\ m.seq <= lastB'
          BY DEF QueueFresh
      <2>1. m \in bqueue /\ m.run \in Runs
          BY DEF TypeOK, DownMsg
      <2>2. conn # 0 => sess'[conn].bsent = sess[conn].bsent
          BY DEF FrontKept, TypeOK
      <2> QED BY <2>1, <2>2 DEF AgentInv, QueueFresh
  <1> QED BY <1>1, <1>2, <1>4, <1>5, <1>6 DEF AgentInv

\* Steps that concern what goes upstream leave it alone.
LEMMA FrontSteps ==
    ASSUME TypeOK, NEW s \in Sessions,
           \/ RunnerReceiveAck(s) \/ RunnerSend(s) \/ RunnerSendAck(s)
           \/ BackendSendAck(s) \/ BackendReceiveAck(s) \/ Take(s) \/ ApplyHeartbeat(s)
           \/ ApplyOutput(s) \/ MarkFinalized(s) \/ Deliver(s) \/ Commit(s)
    PROVE  FrontKept
  <1>0. sess \in [Sessions -> Session] /\ sess[s] \in Session
      BY DEF TypeOK
  <1>a. ASSUME NEW x, Sets(s, x), x.st = sess[s].st, x.live = sess[s].live, x.reg = sess[s].reg,
               x.res = sess[s].res, x.down = sess[s].down, x.bsent = sess[s].bsent
        PROVE  FrontKept
      <2>1. sess'[s] = x /\ \A t \in Sessions : t # s => sess'[t] = sess[t]
          BY <1>0, <1>a, SetsEffect
      <2> QED BY <1>a, <2>1 DEF FrontKept
  <1>1. CASE RunnerReceiveAck(s)
      <2>1. Sets(s, [sess[s] EXCEPT !.downAck = 0])
          BY <1>1 DEF RunnerReceiveAck, Sets
      <2> QED BY <1>0, <1>a, <2>1 DEF Session
  <1>2. CASE RunnerSend(s)
      <2>1. PICK a, b : Sets(s, [sess[s] EXCEPT !.rsent = a, !.up = b])
          BY <1>2 DEF RunnerSend, Sets
      <2> QED BY <1>0, <1>a, <2>1 DEF Session
  <1>3. CASE RunnerSendAck(s)
      <2>1. PICK a : Sets(s, [sess[s] EXCEPT !.upAck = a])
          BY <1>3 DEF RunnerSendAck, Sets
      <2> QED BY <1>0, <1>a, <2>1 DEF Session
  <1>4. CASE BackendSendAck(s)
      <2>1. PICK a, b : Sets(s, [sess[s] EXCEPT !.ackDirty = a, !.downAck = b])
          BY <1>4 DEF BackendSendAck, Sets
      <2> QED BY <1>0, <1>a, <2>1 DEF Session
  <1>5. CASE BackendReceiveAck(s)
      <2>1. Sets(s, [sess[s] EXCEPT !.upAck = 0])
          BY <1>5 DEF BackendReceiveAck, Sets
      <2> QED BY <1>0, <1>a, <2>1 DEF Session
  <1>6. CASE Take(s)
      <2>1. PICK a, b : Sets(s, [sess[s] EXCEPT !.up = a, !.hnd = b])
          BY <1>6 DEF Take, Sets
      <2> QED BY <1>0, <1>a, <2>1 DEF Session
  <1>7. CASE ApplyHeartbeat(s) \/ ApplyOutput(s) \/ MarkFinalized(s) \/ Deliver(s)
      <2>1. PICK a : Sets(s, [sess[s] EXCEPT !.hnd = a])
          <3>1. \E step : sess' = [sess EXCEPT ![s].hnd.step = step]
              BY <1>7 DEF ApplyHeartbeat, ApplyOutput, MarkFinalized, Deliver
          <3> QED BY <3>1 DEF Sets
      <2> QED BY <1>0, <1>a, <2>1 DEF Session
  <1>8. CASE Commit(s)
      <2> DEFINE b == IF sess[s].live THEN highest' ELSE 0
      <2>1. Sets(s, [sess[s] EXCEPT !.hnd = Idle, !.ackSeq = b, !.ackDirty = sess[s].live])
          BY <1>8 DEF Commit, Sets
      <2> HIDE DEF b
      <2> QED BY <1>0, <1>a, <2>1 DEF Session
  <1> QED BY <1>1, <1>2, <1>3, <1>4, <1>5, <1>6, <1>7, <1>8

\* So the agents' side holds after them, and after what the executor does.
LEMMA UpstreamAgent ==
    ASSUME LinkInv, NEW s \in Sessions,
           \/ RunnerReceiveAck(s) \/ RunnerSend(s) \/ RunnerSendAck(s)
           \/ BackendSendAck(s) \/ BackendReceiveAck(s) \/ Take(s) \/ ApplyHeartbeat(s)
           \/ ApplyOutput(s) \/ MarkFinalized(s) \/ Deliver(s) \/ Commit(s)
    PROVE  AgentInv'
  <1> USE DEF hubVars, callerVars, execVars, linkVars
  <1>0. TypeOK /\ AgentInv /\ TrackedInv /\ sess[s] \in Session /\ FrontKept
      BY FrontSteps DEF LinkInv, AgentInv, TypeOK
  <1>1. CASE \/ RunnerReceiveAck(s) \/ RunnerSend(s) \/ RunnerSendAck(s)
             \/ BackendSendAck(s) \/ BackendReceiveAck(s) \/ Take(s) \/ ApplyHeartbeat(s)
             \/ MarkFinalized(s) \/ Commit(s)
      <2>1. /\ UNCHANGED <<bboot, knownBoot, conn, rboot, lastB, seenBoot, rsess, attached, run,
                           tracked, outcome>>
            /\ bqueue' \subseteq bqueue
          BY <1>1 DEF RunnerReceiveAck, RunnerSend, RunnerSendAck, BackendSendAck,
                      BackendReceiveAck, Take, ApplyHeartbeat, MarkFinalized, Commit, Trim
      <2>2. TrackedInv'
          BY <1>0, <2>1 DEF TrackedInv
      <2> QED BY <1>0, <2>1, <2>2, AsideAgent
  <1>2. ASSUME NEW r \in Runs, run[r] # "none", NEW what \in {"result", "error"},
               \/ tracked' = tracked \ {r} /\ outcome' = finish({r}, what)
               \/ UNCHANGED <<tracked, outcome>>,
               UNCHANGED <<bboot, bqueue, knownBoot, conn, rboot, lastB, seenBoot, rsess, attached, run>>
        PROVE  AgentInv'
      <2>1. \A q \in Runs : outcome'[q] # outcome[q] =>
               q = r /\ outcome[q] = "pending" /\ outcome'[q] # "none" /\ run[q] # "none"
          BY <1>2 DEF finish
      <2>2. TrackedInv'
          BY <1>0, <1>2 DEF TrackedInv, finish
      <2> QED BY <1>0, <1>2, <2>1, <2>2, AsideAgent
  <1>3. CASE ApplyOutput(s) \/ Deliver(s)
      <2> DEFINE m == sess[s].hnd.msg
      <2>1. sess[s].hnd.step # "none" /\ m.kind \in {"out", "res"}
          BY <1>3 DEF ApplyOutput, Deliver, Handling
      <2>2. m.run \in Runs /\ run[m.run] # "none"
          BY <1>0, <2>1, HandlingType DEF LinkInv, ReportInv, OnWay, Holds
      <2>3. CASE Deliver(s)
          <3>1. PICK what \in {"result", "error"} :
                   tracked' = tracked \ {m.run} /\ outcome' = finish({m.run}, what)
              BY <2>3 DEF Deliver
          <3> HIDE DEF m
          <3> QED BY <1>2, <2>2, <2>3, <3>1 DEF Deliver
      <2>4. CASE ApplyOutput(s)
          <3>1. \/ tracked' = tracked \ {m.run} /\ outcome' = finish({m.run}, "error")
                \/ UNCHANGED <<tracked, outcome>>
              BY <2>4 DEF ApplyOutput
          <3> HIDE DEF m
          <3> QED BY <1>2, <2>2, <2>4, <3>1 DEF ApplyOutput
      <2> QED BY <1>3, <2>3, <2>4
  <1> QED BY <1>1, <1>3

LEMMA ExecutorAgent ==
    ASSUME LinkInv, Executor \/ sendHeartbeat \/ UNCHANGED vars PROVE AgentInv'
  <1> USE DEF hubVars, callerVars, execVars, linkVars
  <1>0. TypeOK /\ AgentInv /\ TrackedInv
      BY DEF LinkInv, AgentInv
  <1>1. /\ UNCHANGED <<bboot, bqueue, knownBoot, conn, rboot, lastB, seenBoot, rsess, attached, sess,
                       tracked, outcome>>
        /\ \A q \in Runs : run'[q] = "none" <=> run[q] = "none"
      BY <1>0 DEF Executor, Output, Report, EndRun, sendHeartbeat, vars, TypeOK
  <1>2. TrackedInv' /\ FrontKept
      BY <1>0, <1>1 DEF TrackedInv, FrontKept
  <1> QED BY <1>0, <1>1, <1>2, AsideAgent

\* The caller's requests: a cancellation is no start, and a run is asked for once.
LEMMA CallerAgent ==
    ASSUME LinkInv, Caller PROVE AgentInv'
  <1> USE DEF hubVars, callerVars, execVars, linkVars
  <1>0. TypeOK /\ AgentInv
      BY DEF LinkInv
  <1>1. ASSUME NEW r \in Runs, Cancel(r) PROVE AgentInv'
      <2>1. /\ UNCHANGED <<bboot, knownBoot, conn, rboot, lastB, seenBoot, rsess, attached, run,
                           tracked, outcome, sess>>
            /\ bqueue' = bqueue \cup {BackendMsg("cancel", r)}
          BY <1>1 DEF Cancel, enqueueLocked
      <2>2. \A m \in bqueue' : m.kind = "start" => m \in bqueue
          BY <2>1 DEF BackendMsg
      <2>3. SessionInv' /\ BootInv' /\ TrackedInv'
          BY <1>0, <2>1 DEF AgentInv, SessionInv, BootInv, TrackedInv
      <2>4. StartInv'
          <3>1. \A m : StartOf(m)' => StartOf(m)
              BY <2>1, <2>2 DEF StartOf
          <3> QED BY <1>0, <2>1, <3>1 DEF AgentInv, StartInv
      <2>5. DownFresh' /\ QueueFresh'
          BY <1>0, <2>1, <2>2 DEF AgentInv, DownFresh, QueueFresh
      <2> QED BY <2>3, <2>4, <2>5 DEF AgentInv
  <1>2. ASSUME NEW r \in Runs, Dispatch(r) PROVE AgentInv'
      <2> DEFINE d == BackendMsg("start", r)
      <2>1. /\ UNCHANGED <<bboot, knownBoot, conn, rboot, lastB, seenBoot, rsess, attached, run, sess>>
            /\ bqueue' = bqueue \cup {d}
            /\ outcome[r] = "none" /\ outcome' = [outcome EXCEPT ![r] = "pending"]
            /\ tracked' = tracked \cup {r}
          BY <1>2 DEF Dispatch, enqueueLocked
      <2>2. d.kind = "start" /\ d.run = r
          BY DEF BackendMsg
      <2> HIDE DEF d
      <2>3. \A m : StartOf(m)' <=> StartOf(m) \/ m = d
          BY <2>1, <2>2 DEF StartOf
      <2>4. \A m : StartOf(m) => m.run # r /\ m.run \in Runs
          <3>1. \A m : StartOf(m) => m.run \in Runs
              BY <1>0 DEF StartOf, TypeOK, Session, DownMsg
          <3> QED BY <1>0, <2>1, <3>1 DEF AgentInv, StartInv
      <2>5. run[r] = "none" /\ outcome'[r] = "pending"
            /\ \A q \in Runs : q # r => outcome'[q] = outcome[q]
          BY <1>0, <2>1 DEF AgentInv, StartInv, TypeOK
      <2>6. SessionInv' /\ BootInv'
          BY <1>0, <2>1 DEF AgentInv, SessionInv, BootInv
      <2>7. TrackedInv'
          BY <1>0, <2>1, <2>5 DEF AgentInv, TrackedInv
      <2>8. StartInv'
          <3>1. \A m : StartOf(m)' => outcome'[m.run] # "none"
              BY <1>0, <2>2, <2>3, <2>4, <2>5 DEF AgentInv, StartInv
          <3>2. \A m, n : StartOf(m)' /\ StartOf(n)' /\ m.run = n.run => m = n
              BY <1>0, <2>2, <2>3, <2>4 DEF AgentInv, StartInv
          <3>3. \A q \in Runs : outcome'[q] = "none" => run'[q] = "none"
              BY <1>0, <2>1, <2>5 DEF AgentInv, StartInv
          <3> QED BY <1>0, <2>1, <3>1, <3>2, <3>3 DEF AgentInv, StartInv
      <2>9. DownFresh'
          <3> SUFFICES ASSUME NEW s \in Sessions, NEW m \in sess[s].down, m.kind = "start"
                       PROVE  /\ run[m.run] = "none"
                              /\ outcome'[m.run] = IF sess[s].st = "closed" THEN "closed" ELSE "pending"
              BY <2>1 DEF DownFresh
          <3>1. StartOf(m)
              BY DEF StartOf
          <3> QED BY <1>0, <2>4, <2>5, <3>1 DEF AgentInv, DownFresh
      <2>10. QueueFresh'
          <3> SUFFICES ASSUME NEW m \in bqueue', m.kind = "start"
                       PROVE  /\ rsess = conn /\ conn # 0 /\ m.seq > sess[conn].bsent => run[m.run] = "none"
                              /\ run[m.run] = "none" => outcome'[m.run] = "pending"
                              /\ \/ run[m.run] = "none" \/ knownBoot # rboot
                                 \/ seenBoot = bboot /\ m.seq <= lastB
              BY <2>1 DEF QueueFresh
          <3>1. CASE m = d
              BY <2>2, <2>5, <3>1
          <3>2. CASE m \in bqueue
              <4>1. StartOf(m)
                  BY <3>2 DEF StartOf
              <4> QED BY <1>0, <2>4, <2>5, <3>2, <4>1 DEF AgentInv, QueueFresh
          <3> QED BY <2>1, <3>1, <3>2
      <2> QED BY <2>6, <2>7, <2>8, <2>9, <2>10 DEF AgentInv
  <1> QED BY <1>1, <1>2 DEF Caller

\* A step that takes no message nearer to the runner and settles nothing.
LEMMA NothingNearer ==
    ASSUME TypeOK, AgentInv, UNCHANGED <<bqueue, run, outcome, tracked, bboot, rboot, knownBoot>>,
           \A s \in Sessions : /\ sess'[s].down \subseteq sess[s].down
                               /\ sess'[s].down # {} => sess'[s].st = sess[s].st,
           conn' # 0 => conn' = conn /\ sess'[conn].bsent = sess[conn].bsent,
           rsess' = conn' /\ conn' # 0 => rsess' = rsess,
           UNCHANGED <<seenBoot, lastB>> \/ seenBoot # bboot
    PROVE  TrackedInv' /\ StartInv' /\ DownFresh' /\ QueueFresh'
  <1>1. TrackedInv'
      BY DEF AgentInv, TrackedInv
  <1>2. \A m : StartOf(m)' => StartOf(m)
      BY DEF StartOf
  <1>3. StartInv'
      BY <1>2 DEF AgentInv, StartInv, TypeOK
  <1>4. DownFresh'
      BY DEF AgentInv, DownFresh
  <1>5. QueueFresh'
      <2> SUFFICES ASSUME NEW m \in bqueue, m.kind = "start"
                   PROVE  /\ rsess' = conn' /\ conn' # 0 /\ m.seq > sess'[conn'].bsent => run[m.run] = "none"
                          /\ run[m.run] = "none" => outcome[m.run] = "pending"
                          /\ \/ run[m.run] = "none" \/ knownBoot # rboot
                             \/ seenBoot' = bboot /\ m.seq <= lastB'
          BY DEF QueueFresh
      <2> QED BY DEF AgentInv, QueueFresh
  <1> QED BY <1>1, <1>3, <1>4, <1>5

\* Connections that are opened and closed.
LEMMA ConnectAgent ==
    ASSUME LinkInv, NEW s \in Sessions, Connect(s) PROVE AgentInv'
  <1> USE DEF hubVars, callerVars, execVars, linkVars
  <1>0. TypeOK /\ AgentInv /\ SessionInv /\ BootInv
      BY DEF LinkInv, AgentInv
  <1>1. /\ rsess = 0 /\ sess[s].st = "unused" /\ \A t \in Sessions : t < s => sess[t].st # "unused"
        /\ rsess' = s /\ attached' = FALSE
        /\ UNCHANGED <<bqueue, run, outcome, tracked, bboot, rboot, knownBoot, conn, seenBoot, lastB>>
      BY DEF Connect
  <1>2. /\ sess'[s].st = "dialled" /\ sess'[s].live /\ sess'[s].reg = buildRegister
        /\ sess'[s].down = {} /\ sess'[s].bsent = 0 /\ sess'[s].res = NoRes
        /\ \A t \in Sessions : t # s => sess'[t] = sess[t]
      BY <1>0 DEF Connect, TypeOK, Unused
  <1>3. /\ buildRegister # NoReg /\ buildRegister.boot = rboot
        /\ buildRegister.lastB = lastB /\ buildRegister.seenBoot = seenBoot
      <2>1. buildRegister \in RegisterMsg
          BY <1>0, Messages
      <2>2. buildRegister.boot = rboot /\ buildRegister.lastB = lastB
            /\ buildRegister.seenBoot = seenBoot
          BY DEF buildRegister
      <2>3. rboot # 0 /\ NoReg.boot = 0
          BY <1>0 DEF TypeOK, NoReg
      <2> QED BY <2>2, <2>3
  <1>4. \A t \in Sessions : t \in Nat /\ t # 0
      BY RunnerLinkConstants
  <1>5. conn # s
      BY <1>0, <1>1, <1>4 DEF SessionInv
  <1>6. SessionInv'
      <2>1. \A t \in Sessions : t > s => sess[t].st = "unused"
          BY <1>0, <1>1 DEF SessionInv
      <2>2. \A t, u \in Sessions : u < t /\ sess'[t].st # "unused" => sess'[u].st # "unused"
          BY <1>0, <1>1, <1>2, <1>4 DEF SessionInv
      <2>3. conn # 0 => conn \in Sessions
          BY <1>0 DEF TypeOK
      <2> QED BY <1>0, <1>1, <1>2, <1>3, <1>4, <1>5, <2>1, <2>2, <2>3 DEF SessionInv
  <1>7. BootInv'
      <2>1. rboot \in Nat
          BY <1>0 DEF TypeOK
      <2> QED BY <1>0, <1>1, <1>2, <1>3, <2>1 DEF BootInv
  <1>8. conn # 0 => sess'[conn] = sess[conn]
      BY <1>0, <1>2, <1>5 DEF TypeOK
  <1> QED BY <1>0, <1>1, <1>2, <1>5, <1>6, <1>7, <1>8, NothingNearer DEF AgentInv

LEMMA CheckAgent ==
    ASSUME LinkInv, NEW s \in Sessions, CheckFinalized(s) PROVE AgentInv'
  <1> USE DEF hubVars, callerVars, execVars, linkVars
  <1>0. TypeOK /\ AgentInv /\ SessionInv /\ BootInv /\ sess[s] \in Session
      BY DEF LinkInv, AgentInv, TypeOK
  <1>1. /\ sess[s].st = "dialled"
        /\ UNCHANGED <<bqueue, run, outcome, tracked, bboot, rboot, knownBoot, conn, seenBoot, lastB,
                       rsess, attached>>
      BY DEF CheckFinalized
  <1>2. /\ sess'[s].st = "checked" /\ sess'[s].live = sess[s].live /\ sess'[s].reg = sess[s].reg
        /\ sess'[s].down = sess[s].down /\ sess'[s].bsent = sess[s].bsent
        /\ sess'[s].res = sess[s].res
        /\ \A t \in Sessions : t # s => sess'[t] = sess[t]
      <2>1. PICK a : Sets(s, [sess[s] EXCEPT !.st = "checked", !.fin = a])
          BY DEF CheckFinalized, Sets
      <2> DEFINE x == [sess[s] EXCEPT !.st = "checked", !.fin = a]
      <2>2. /\ x.st = "checked" /\ x.live = sess[s].live /\ x.reg = sess[s].reg
            /\ x.down = sess[s].down /\ x.bsent = sess[s].bsent /\ x.res = sess[s].res
          BY <1>0 DEF Session
      <2>3. Sets(s, x) /\ sess \in [Sessions -> Session]
          BY <1>0, <2>1 DEF TypeOK
      <2> HIDE DEF x
      <2>4. sess'[s] = x /\ \A t \in Sessions : t # s => sess'[t] = sess[t]
          BY <2>3, SetsEffect
      <2> QED BY <2>2, <2>4
  <1>3. conn # s /\ (conn # 0 => conn \in Sessions) /\ (rsess # 0 => rsess \in Sessions) /\ s # 0
      BY <1>0, <1>1, RunnerLinkConstants DEF SessionInv, TypeOK
  <1>4. SessionInv'
      BY <1>0, <1>1, <1>2, <1>3 DEF SessionInv
  <1>5. BootInv'
      BY <1>0, <1>1, <1>2, <1>3 DEF BootInv
  <1>6. \A t \in Sessions : sess'[t].down = sess[t].down /\ (t # s => sess'[t].st = sess[t].st)
      BY <1>2
  <1>7. sess'[s].down = {}
      BY <1>0, <1>1, <1>2 DEF SessionInv
  <1> QED BY <1>0, <1>1, <1>2, <1>3, <1>4, <1>5, <1>6, <1>7, NothingNearer DEF AgentInv

LEMMA AttachAgent ==
    ASSUME LinkInv, NEW s \in Sessions, Attach(s) PROVE AgentInv'
  <1> USE DEF hubVars, callerVars, execVars, linkVars
  <1>0. TypeOK /\ AgentInv /\ SessionInv /\ BootInv /\ sess[s] \in Session
      BY DEF LinkInv, AgentInv, TypeOK
  <1>1. /\ rsess = s /\ s # 0 /\ sess[s].res # NoRes /\ rsess' = s /\ attached' = TRUE
        /\ seenBoot' = sess[s].res.boot
        /\ lastB' = IF sess[s].res.boot # seenBoot THEN 0 ELSE lastB
        /\ UNCHANGED <<bqueue, run, outcome, tracked, bboot, rboot, knownBoot, conn>>
      BY RunnerLinkConstants DEF Attach
  <1>2. /\ sess'[s].st = sess[s].st /\ sess'[s].live = sess[s].live /\ sess'[s].reg = sess[s].reg
        /\ sess'[s].down = sess[s].down /\ sess'[s].bsent = sess[s].bsent
        /\ sess'[s].res = NoRes
        /\ \A t \in Sessions : t # s => sess'[t] = sess[t]
      <2> DEFINE x == [sess[s] EXCEPT !.res = NoRes]
      <2>1. /\ x.st = sess[s].st /\ x.live = sess[s].live /\ x.reg = sess[s].reg
            /\ x.down = sess[s].down /\ x.bsent = sess[s].bsent /\ x.res = NoRes
          BY <1>0 DEF Session
      <2>2. Sets(s, x) /\ sess \in [Sessions -> Session]
          BY <1>0 DEF TypeOK, Attach, Sets
      <2> HIDE DEF x
      <2>3. sess'[s] = x /\ \A t \in Sessions : t # s => sess'[t] = sess[t]
          BY <2>2, SetsEffect
      <2> QED BY <2>1, <2>3
  <1>3. sess[s].st \in {"open", "closed"}
      BY <1>0, <1>1 DEF SessionInv, Session
  <1>4. /\ bboot \in Nat /\ seenBoot \in Nat /\ sess[s].res.boot \in Nat
        /\ conn # 0 => conn \in Sessions
      BY <1>0, <1>1 DEF TypeOK, Session
  <1>5. SessionInv'
      BY <1>0, <1>1, <1>2, <1>3, <1>4 DEF SessionInv
  <1>6. BootInv'
      BY <1>0, <1>1, <1>2, <1>3, <1>4 DEF BootInv
  <1>7. UNCHANGED <<seenBoot, lastB>> \/ seenBoot # bboot
      BY <1>0, <1>1, <1>3, <1>4 DEF BootInv
  <1>8. \A t \in Sessions : sess'[t].down = sess[t].down /\ sess'[t].st = sess[t].st
                            /\ sess'[t].bsent = sess[t].bsent
      BY <1>2
  <1> QED BY <1>0, <1>1, <1>4, <1>5, <1>6, <1>7, <1>8, NothingNearer DEF AgentInv

LEMMA AbandonAgent ==
    ASSUME LinkInv, NEW s \in Sessions, Abandon(s) PROVE AgentInv'
  <1> USE DEF hubVars, callerVars, execVars, linkVars
  <1>0. TypeOK /\ AgentInv /\ SessionInv /\ BootInv /\ sess[s] \in Session
      BY DEF LinkInv, AgentInv, TypeOK
  <1>1. /\ rsess = s /\ rsess' = 0 /\ attached' = FALSE
        /\ UNCHANGED <<bqueue, run, outcome, tracked, bboot, rboot, knownBoot, conn, seenBoot, lastB>>
      BY DEF Abandon
  <1>2. /\ sess'[s].st = sess[s].st /\ sess'[s].live = sess[s].live /\ sess'[s].reg = sess[s].reg
        /\ sess'[s].down = {} /\ sess'[s].bsent = sess[s].bsent
        /\ sess'[s].res = NoRes
        /\ \A t \in Sessions : t # s => sess'[t] = sess[t]
      <2>1. /\ LeftByRunner(s).st = sess[s].st /\ LeftByRunner(s).live = sess[s].live
            /\ LeftByRunner(s).reg = sess[s].reg /\ LeftByRunner(s).down = {}
            /\ LeftByRunner(s).bsent = sess[s].bsent /\ LeftByRunner(s).res = NoRes
          BY <1>0 DEF Session, LeftByRunner
      <2>2. Sets(s, LeftByRunner(s)) /\ sess \in [Sessions -> Session]
          BY <1>0 DEF TypeOK, Abandon, Sets
      <2>3. sess'[s] = LeftByRunner(s) /\ \A t \in Sessions : t # s => sess'[t] = sess[t]
          BY <2>2, SetsEffect
      <2> QED BY <2>1, <2>3
  <1>3. conn # 0 => conn \in Sessions
      BY <1>0 DEF TypeOK
  <1>4. SessionInv'
      BY <1>0, <1>1, <1>2, <1>3 DEF SessionInv
  <1>5. BootInv'
      BY <1>0, <1>1, <1>2 DEF BootInv
  <1>6. \A t \in Sessions : sess'[t].down \subseteq sess[t].down /\ sess'[t].st = sess[t].st
                            /\ sess'[t].bsent = sess[t].bsent
      BY <1>2
  <1> QED BY <1>0, <1>1, <1>3, <1>4, <1>5, <1>6, NothingNearer DEF AgentInv

\* The hub's end: it drops what it read, and forgets the connection.
LEMMA DetachAgent ==
    ASSUME LinkInv, NEW s \in Sessions, Detach(s) \/ MarkFailed(s) PROVE AgentInv'
  <1> USE DEF hubVars, callerVars, execVars, linkVars
  <1>0. TypeOK /\ AgentInv /\ SessionInv /\ BootInv /\ sess[s] \in Session
      BY DEF LinkInv, AgentInv, TypeOK
  <1>1. /\ conn' = IF conn = s THEN 0 ELSE conn
        /\ UNCHANGED <<bqueue, run, outcome, tracked, bboot, rboot, knownBoot, seenBoot, lastB,
                       rsess, attached>>
      BY DEF Detach, MarkFailed, detach
  <1>2. /\ sess'[s].st = sess[s].st /\ sess'[s].reg = sess[s].reg
        /\ sess'[s].down = sess[s].down /\ sess'[s].bsent = 0 /\ sess'[s].res = sess[s].res
        /\ \A t \in Sessions : t # s => sess'[t] = sess[t]
      <2>0. Closed(s) \in Session
          BY <1>0, EndsAreSessions DEF TypeOK
      <2>1. /\ Closed(s).st = sess[s].st /\ Closed(s).reg = sess[s].reg
            /\ Closed(s).down = sess[s].down
            /\ Closed(s).bsent = 0 /\ Closed(s).res = sess[s].res
          BY <1>0 DEF Session, Closed
      <2> DEFINE x == [Closed(s) EXCEPT !.hnd = Idle]
      <2>2. /\ x.st = sess[s].st /\ x.reg = sess[s].reg /\ x.down = sess[s].down
            /\ x.bsent = 0 /\ x.res = sess[s].res
          BY <2>0, <2>1 DEF Session
      <2>3. Sets(s, Closed(s)) \/ Sets(s, x)
          BY DEF Detach, MarkFailed, Sets
      <2>4. sess \in [Sessions -> Session]
          BY <1>0 DEF TypeOK
      <2> HIDE DEF x
      <2>5. sess'[s] \in {x, Closed(s)} /\ \A t \in Sessions : t # s => sess'[t] = sess[t]
          BY <2>3, <2>4, SetsEffect
      <2> QED BY <2>1, <2>2, <2>5
  <1>3. (conn # 0 => conn \in Sessions) /\ (rsess # 0 => rsess \in Sessions)
      BY <1>0 DEF TypeOK
  <1>4. SessionInv'
      BY <1>0, <1>1, <1>2, <1>3 DEF SessionInv
  <1>5. BootInv'
      BY <1>0, <1>1, <1>2, <1>3 DEF BootInv
  <1>6. \A t \in Sessions : /\ sess'[t].down = sess[t].down /\ sess'[t].st = sess[t].st
                            /\ t # s => sess'[t].bsent = sess[t].bsent
      BY <1>2
  <1> QED BY <1>0, <1>1, <1>3, <1>4, <1>5, <1>6, NothingNearer DEF AgentInv

\* What the hub sends has not been at the runner.
LEMMA BackendSendAgent ==
    ASSUME LinkInv, NEW s \in Sessions, BackendSend(s) PROVE AgentInv'
  <1> USE DEF hubVars, callerVars, execVars, linkVars
  <1>0. /\ TypeOK /\ AgentInv /\ SessionInv /\ BootInv /\ StartInv /\ DownFresh /\ QueueFresh
        /\ sess[s] \in Session
      BY DEF LinkInv, AgentInv, TypeOK
  <1>1. PICK m \in bqueue : /\ IsNextToSend(m, bqueue, sess[s].bsent)
                            /\ sess' = [sess EXCEPT ![s].bsent = m.seq,
                                                    ![s].down = IF rsess = s THEN @ \cup {m} ELSE {}]
      BY DEF BackendSend
  <1>2. /\ conn = s /\ s # 0 /\ sess[s].st = "open"
        /\ UNCHANGED <<bqueue, run, outcome, tracked, bboot, rboot, knownBoot, conn, seenBoot, lastB,
                       rsess, attached>>
      BY <1>0, RunnerLinkConstants DEF BackendSend, SessionInv
  <1>3. m.seq \in Nat /\ sess[s].bsent \in Nat /\ m.seq > sess[s].bsent
        /\ \A x \in bqueue \cup sess[s].down : x.seq \in Nat /\ x.run \in Runs
      <2>1. \A x \in bqueue \cup sess[s].down : x \in DownMsg
          BY <1>0 DEF TypeOK, Session
      <2>2. \A x \in bqueue \cup sess[s].down : x.seq \in Nat /\ x.run \in Runs
          BY <2>1 DEF DownMsg
      <2> QED BY <1>0, <1>1, <2>2 DEF Session, IsNextToSend, IsFirst, Trim
  <1>4. /\ sess'[s].st = "open" /\ sess'[s].live = sess[s].live /\ sess'[s].reg = sess[s].reg
        /\ sess'[s].bsent = m.seq /\ sess'[s].res = sess[s].res
        /\ sess'[s].down = IF rsess = s THEN sess[s].down \cup {m} ELSE {}
        /\ \A t \in Sessions : t # s => sess'[t] = sess[t]
      <2> DEFINE x == [sess[s] EXCEPT !.bsent = m.seq, !.down = IF rsess = s THEN @ \cup {m} ELSE {}]
      <2>1. /\ x.st = sess[s].st /\ x.live = sess[s].live /\ x.reg = sess[s].reg
            /\ x.bsent = m.seq /\ x.res = sess[s].res
            /\ x.down = IF rsess = s THEN sess[s].down \cup {m} ELSE {}
          BY <1>0 DEF Session
      <2>2. Sets(s, x) /\ sess \in [Sessions -> Session]
          BY <1>0, <1>1 DEF TypeOK, Sets
      <2> HIDE DEF x
      <2>3. sess'[s] = x /\ \A t \in Sessions : t # s => sess'[t] = sess[t]
          BY <2>2, SetsEffect
      <2> QED BY <1>2, <2>1, <2>3
  <1>a. rsess # 0 => rsess \in Sessions
      BY <1>0 DEF TypeOK
  <1>5. SessionInv'
      BY <1>0, <1>2, <1>4, <1>a DEF SessionInv
  <1>6. BootInv'
      BY <1>0, <1>2, <1>4, <1>a DEF BootInv
  <1>7. TrackedInv'
      BY <1>0, <1>2 DEF AgentInv, TrackedInv
  <1>8. StartInv'
      <2>1. \A x : StartOf(x)' => StartOf(x)
          <3>1. \A t \in Sessions : sess'[t].down \subseteq sess[t].down \cup bqueue
              BY <1>2, <1>4
          <3> QED BY <1>2, <3>1 DEF StartOf
      <2>2. \A x \in sess'[s].down : x.seq <= sess'[s].bsent
          BY <1>0, <1>2, <1>3, <1>4 DEF StartInv
      <2> QED BY <1>0, <1>2, <2>1, <2>2 DEF StartInv
  <1>9. DownFresh'
      <2> SUFFICES ASSUME NEW t \in Sessions, NEW x \in sess'[t].down, x.kind = "start"
                   PROVE  /\ run[x.run] = "none"
                          /\ outcome[x.run] = IF sess'[t].st = "closed" THEN "closed" ELSE "pending"
          BY <1>2 DEF DownFresh
      <2>1. CASE x \in sess[t].down
          BY <1>0, <1>2, <1>4, <2>1 DEF DownFresh
      <2>2. CASE x \notin sess[t].down
          <3>1. t = s /\ x = m /\ rsess = s
              BY <1>4, <2>2
          <3> QED BY <1>0, <1>1, <1>2, <1>3, <1>4, <3>1 DEF QueueFresh
      <2> QED BY <2>1, <2>2
  <1>10. QueueFresh'
      <2> SUFFICES ASSUME NEW x \in bqueue, x.kind = "start"
                   PROVE  /\ rsess = conn /\ conn # 0 /\ x.seq > sess'[conn].bsent => run[x.run] = "none"
                          /\ run[x.run] = "none" => outcome[x.run] = "pending"
                          /\ \/ run[x.run] = "none" \/ knownBoot # rboot
                             \/ seenBoot = bboot /\ x.seq <= lastB
          BY <1>2 DEF QueueFresh
      <2> QED BY <1>0, <1>2, <1>3, <1>4 DEF QueueFresh
  <1> QED BY <1>5, <1>6, <1>7, <1>8, <1>9, <1>10 DEF AgentInv

\* What the runner does with the next message: at most one run begins, one that
\* was never begun before.
LEMMA ReceiveStep ==
    ASSUME LinkInv, NEW s \in Sessions, RunnerReceive(s)
    PROVE  \E m \in sess[s].down :
              /\ m \in DownMsg /\ sess'[s].down = sess[s].down \ {m}
              /\ \/ run' = run /\ emitted' = emitted
                    /\ (lastB' = lastB \/ (m.seq > lastB /\ lastB' = m.seq /\ m.kind # "start"))
                 \/ /\ m.seq > lastB /\ lastB' = m.seq /\ m.kind = "start"
                    /\ run[m.run] = "none" /\ run' = [run EXCEPT ![m.run] = "running"]
                    /\ emitted' = [emitted EXCEPT ![m.run] = 0]
  <1>0. TypeOK /\ DownFresh /\ sess[s] \in Session
      BY DEF LinkInv, AgentInv, TypeOK
  <1>1. PICK m \in sess[s].down :
           /\ IF m.seq <= lastB THEN UNCHANGED <<lastB, execVars>> ELSE handle(m) /\ lastB' = m.seq
           /\ sess' = [sess EXCEPT ![s].down = @ \ {m}]
      BY DEF RunnerReceive
  <1>2. m \in DownMsg /\ m.seq \in Nat /\ lastB \in Nat
      BY <1>0 DEF TypeOK, Session, DownMsg
  <1>3. sess'[s].down = sess[s].down \ {m}
      BY <1>0, <1>1 DEF TypeOK, Session
  <1>4. CASE m.seq <= lastB
      BY <1>1, <1>2, <1>3, <1>4 DEF execVars
  <1>5. CASE m.seq > lastB /\ m.kind # "start"
      BY <1>1, <1>2, <1>3, <1>5 DEF handle
  <1>6. CASE m.seq > lastB /\ m.kind = "start"
      <2>1. run[m.run] = "none"
          BY <1>0, <1>6 DEF DownFresh
      <2> QED BY <1>1, <1>2, <1>3, <1>6, <2>1 DEF handle, InTable
  <1> QED BY <1>2, <1>4, <1>5, <1>6

LEMMA ReceiveAgent ==
    ASSUME LinkInv, NEW s \in Sessions, RunnerReceive(s) PROVE AgentInv'
  <1> USE DEF hubVars, callerVars, execVars, linkVars
  <1>0. /\ TypeOK /\ AgentInv /\ SessionInv /\ BootInv /\ StartInv /\ DownFresh /\ QueueFresh
        /\ sess[s] \in Session
      BY DEF LinkInv, AgentInv, TypeOK
  <1>1. PICK m \in sess[s].down :
              /\ m \in DownMsg /\ sess'[s].down = sess[s].down \ {m}
              /\ \/ run' = run /\ lastB' = lastB
                 \/ m.seq > lastB /\ lastB' = m.seq /\ m.kind # "start" /\ run' = run
                 \/ /\ m.seq > lastB /\ lastB' = m.seq /\ m.kind = "start"
                    /\ run[m.run] = "none" /\ run' = [run EXCEPT ![m.run] = "running"]
      BY ReceiveStep
  <1>2. /\ rsess = s /\ attached /\ s # 0 /\ sess[s].st \in {"open", "closed"}
        /\ UNCHANGED <<bqueue, outcome, tracked, bboot, rboot, knownBoot, conn, seenBoot,
                       rsess, attached>>
      BY <1>0, RunnerLinkConstants DEF RunnerReceive, SessionInv
  <1>3. /\ sess'[s].st = sess[s].st /\ sess'[s].live = sess[s].live /\ sess'[s].reg = sess[s].reg
        /\ sess'[s].bsent = sess[s].bsent /\ sess'[s].res = sess[s].res
        /\ \A t \in Sessions : t # s => sess'[t] = sess[t]
      <2>1. PICK a : Sets(s, [sess[s] EXCEPT !.down = a])
          BY DEF RunnerReceive, Sets
      <2> DEFINE x == [sess[s] EXCEPT !.down = a]
      <2>2. /\ x.st = sess[s].st /\ x.live = sess[s].live /\ x.reg = sess[s].reg
            /\ x.bsent = sess[s].bsent /\ x.res = sess[s].res
          BY <1>0 DEF Session
      <2>3. Sets(s, x) /\ sess \in [Sessions -> Session]
          BY <1>0, <2>1 DEF TypeOK
      <2> HIDE DEF x
      <2>4. sess'[s] = x /\ \A t \in Sessions : t # s => sess'[t] = sess[t]
          BY <2>3, SetsEffect
      <2> QED BY <2>2, <2>4
  <1>4. /\ conn # 0 => conn \in Sessions
        /\ m.seq \in Nat /\ lastB \in Nat /\ m.run \in Runs
        /\ \A x \in bqueue \cup sess[s].down : x.seq \in Nat /\ x.run \in Runs /\ sess[s].bsent \in Nat
      BY <1>0, <1>1 DEF TypeOK, Session, DownMsg
  <1>5. SessionInv'
      BY <1>0, <1>1, <1>2, <1>3, <1>4 DEF SessionInv
  <1>6. BootInv'
      BY <1>0, <1>2, <1>3 DEF BootInv
  <1>7. TrackedInv'
      BY <1>0, <1>2 DEF AgentInv, TrackedInv
  <1>8. StartOf(m) <=> m.kind = "start"
      BY DEF StartOf
  <1>9. \A r \in Runs : run'[r] = IF m.kind = "start" /\ r = m.run /\ run' # run THEN "running" ELSE run[r]
      BY <1>0, <1>1, <1>4 DEF TypeOK
  <1>10. StartInv'
      <2>1. \A x : StartOf(x)' => StartOf(x)
          <3>1. \A t \in Sessions : sess'[t].down \subseteq sess[t].down
              BY <1>1, <1>3
          <3> QED BY <1>2, <3>1 DEF StartOf
      <2>2. \A r \in Runs : outcome'[r] = "none" => run'[r] = "none"
          BY <1>0, <1>2, <1>8, <1>9 DEF StartInv
      <2>3. conn' # 0 => \A x \in sess'[conn'].down : x.seq <= sess'[conn'].bsent
          BY <1>0, <1>1, <1>2, <1>3, <1>4 DEF StartInv
      <2> QED BY <1>0, <1>2, <2>1, <2>2, <2>3 DEF StartInv
  <1>11. DownFresh'
      <2> SUFFICES ASSUME NEW t \in Sessions, NEW x \in sess'[t].down, x.kind = "start"
                   PROVE  /\ run'[x.run] = "none"
                          /\ outcome[x.run] = IF sess'[t].st = "closed" THEN "closed" ELSE "pending"
          BY <1>2 DEF DownFresh
      <2>1. t = s /\ x \in sess[s].down /\ x # m
          BY <1>0, <1>1, <1>2, <1>3 DEF SessionInv
      <2>2. StartOf(x) /\ x.run \in Runs
          BY <1>4, <2>1 DEF StartOf
      <2>3. m.kind = "start" => x.run # m.run
          BY <1>0, <1>8, <2>1, <2>2 DEF StartInv
      <2>4. run'[x.run] = run[x.run]
          BY <1>9, <2>2, <2>3
      <2> QED BY <1>0, <1>3, <2>1, <2>4 DEF DownFresh
  <1>12. QueueFresh'
      <2> SUFFICES ASSUME NEW x \in bqueue, x.kind = "start"
                   PROVE  /\ rsess = conn /\ conn # 0 /\ x.seq > sess'[conn].bsent => run'[x.run] = "none"
                          /\ run'[x.run] = "none" => outcome[x.run] = "pending"
                          /\ \/ run'[x.run] = "none" \/ knownBoot # rboot
                             \/ seenBoot = bboot /\ x.seq <= lastB'
          BY <1>2 DEF QueueFresh
      <2>1. StartOf(x) /\ x.run \in Runs
          BY <1>4 DEF StartOf
      <2>2. CASE run'[x.run] = run[x.run]
          <3>1. conn # 0 => sess'[conn].bsent = sess[conn].bsent
              BY <1>3, <1>4
          <3>2. lastB' \in Nat /\ lastB' >= lastB
              BY <1>1, <1>4
          <3> QED BY <1>0, <1>4, <2>2, <3>1, <3>2 DEF QueueFresh
      <2>3. CASE run'[x.run] # run[x.run]
          <3>1. m.kind = "start" /\ x.run = m.run /\ run' # run
              BY <1>9, <2>1, <2>3
          <3>2. x = m
              BY <1>0, <1>8, <2>1, <3>1 DEF StartInv
          <3>3. run[m.run] = "none" /\ lastB' = m.seq /\ run'[m.run] = "running"
              BY <1>1, <1>4, <1>9, <3>1
          <3>4. outcome[m.run] = "pending" /\ sess[s].st # "closed"
              BY <1>0, <3>2, <3>3 DEF QueueFresh, DownFresh
          <3>5. seenBoot = bboot
              BY <1>0, <1>2, <3>4 DEF BootInv
          <3>6. conn = s => m.seq <= sess[s].bsent
              BY <1>0, <1>2 DEF StartInv
          <3> QED BY <1>2, <1>3, <1>4, <3>2, <3>3, <3>5, <3>6
      <2> QED BY <2>2, <2>3
  <1> QED BY <1>5, <1>6, <1>7, <1>10, <1>11, <1>12 DEF AgentInv

\* A registration settles only runs whose start is not kept, and what it keeps is
\* where the runner goes on.
LEMMA RegisterAgent ==
    ASSUME LinkInv, ~RegisterRace, NEW s \in Sessions, Register(s) PROVE AgentInv'
  <1> DEFINE reg == sess[s].reg
             kept == KeptQueue(reg)
             known == reg.active \cup reg.completed \cup QueuedRuns(kept, "start")
             lost == tracked \ known
  <1>0. /\ TypeOK /\ AgentInv /\ SessionInv /\ BootInv /\ StartInv /\ DownFresh /\ QueueFresh
        /\ sess[s] \in Session
      BY DEF LinkInv, AgentInv, TypeOK
  <1>1. /\ sess[s].st = "checked" /\ sess[s].live
        /\ \A t \in Sessions : t > s => sess[t].st # "open"
        /\ knownBoot' = reg.boot /\ conn' = s
        /\ outcome' = finish(lost, "lost") /\ tracked' = tracked \ lost
        /\ UNCHANGED <<bboot, rboot, run, lastB, seenBoot, rsess, attached>>
      BY DEF Register, linkVars, execVars
  <1>2. s \in Nat /\ s # 0 /\ \A t \in Sessions : t \in Nat /\ t # 0
      BY RunnerLinkConstants
  <1>3. /\ sess'[s].st = "open" /\ sess'[s].live = sess[s].live /\ sess'[s].reg = NoReg
        /\ sess'[s].down = {} /\ sess'[s].bsent = 0
        /\ sess'[s].res # NoRes => rsess = s /\ sess'[s].res.boot = bboot
        /\ \A t \in Sessions : t # s => sess'[t] = sess[t]
      <2> DEFINE a == IF sess[s].live /\ rsess = s THEN [boot |-> bboot, acked |-> highest'] ELSE NoRes
                 x == [sess[s] EXCEPT !.st = "open", !.reg = NoReg, !.fin = {}, !.res = a]
      <2>1. a # NoRes => rsess = s /\ a.boot = bboot
          OBVIOUS
      <2>2. Sets(s, x) /\ sess \in [Sessions -> Session]
          BY <1>0 DEF Register, Sets, TypeOK
      <2> HIDE DEF a
      <2>3. /\ x.st = "open" /\ x.live = sess[s].live /\ x.reg = NoReg
            /\ x.down = sess[s].down /\ x.bsent = sess[s].bsent /\ x.res = a
          BY <1>0 DEF Session
      <2> HIDE DEF x
      <2>4. sess'[s] = x /\ \A t \in Sessions : t # s => sess'[t] = sess[t]
          BY <2>2, SetsEffect
      <2>5. sess[s].down = {} /\ sess[s].bsent = 0
          BY <1>0, <1>1 DEF SessionInv
      <2> QED BY <2>1, <2>3, <2>4, <2>5
  <1>4. \A x \in bqueue' : x.kind = "start" => x \in kept
      <2>1. \E C \in SUBSET Runs : \E order : bqueue' = kept \cup {[seq |-> order[r], kind |-> "cancel", run |-> r] : r \in C}
          <3> DEFINE orphans == ((reg.active \ (tracked \ lost)) \ sess[s].fin) \ QueuedRuns(kept, "cancel")
          <3>1. PICK order \in [orphans -> (bnext + 1)..(bnext + Cardinality(orphans))] :
                   bqueue' = kept \cup {[seq |-> order[r], kind |-> "cancel", run |-> r] : r \in orphans}
              BY DEF Register
          <3>2. orphans \in SUBSET Runs
              <4>1. reg # NoReg
                  BY <1>0, <1>1 DEF SessionInv
              <4>2. reg \in RegisterMsg
                  BY <1>0, <4>1 DEF Session
              <4>3. reg.active \in SUBSET Runs
                  BY <4>2 DEF RegisterMsg
              <4> QED BY <4>3
          <3> HIDE DEF orphans, kept
          <3> QED BY <3>1, <3>2
      <2>2. PICK C \in SUBSET Runs :
               \E order : bqueue' = kept \cup {[seq |-> order[r], kind |-> "cancel", run |-> r] : r \in C}
          BY <2>1
      <2>3. PICK order : bqueue' = kept \cup {[seq |-> order[r], kind |-> "cancel", run |-> r] : r \in C}
          BY <2>2
      <2> HIDE DEF kept
      <2> SUFFICES ASSUME NEW x \in bqueue', x \notin kept PROVE x.kind # "start"
          OBVIOUS
      <2>4. PICK r \in C : x = [seq |-> order[r], kind |-> "cancel", run |-> r]
          BY <2>3
      <2> QED BY <2>4
  <1>5. /\ kept \subseteq bqueue
        /\ \A x \in kept : /\ knownBoot = reg.boot
                           /\ reg.seenBoot = bboot => x.seq > reg.lastB
                           /\ x \in DownMsg /\ x.run \in Runs /\ x.seq \in Nat
      BY <1>0 DEF KeptQueue, Trim, TypeOK, DownMsg
  <1>6. \A x \in kept : x.kind = "start" => x.run \notin lost
      BY DEF QueuedRuns
  <1>7. /\ conn # 0 => conn \in Sessions
        /\ rsess # 0 => rsess \in Sessions
        /\ lastB \in Nat /\ reg # NoReg
      BY <1>0, <1>1 DEF TypeOK, SessionInv
  <1>8. \A r \in Runs : outcome'[r] = IF r \in lost /\ outcome[r] = "pending" THEN "lost" ELSE outcome[r]
      BY <1>1 DEF finish
  <1> HIDE DEF kept, lost, known
  <1>9. SessionInv'
      <2>1. \A t \in Sessions : sess'[t].st # "unused" <=> sess[t].st # "unused"
          BY <1>1, <1>3
      <2>2. \A t \in Sessions : t > s => sess'[t].st # "open"
          BY <1>1, <1>2, <1>3
      <2>3. \A t \in Sessions : t # rsess => sess'[t].down = {} /\ sess'[t].res = NoRes
          BY <1>0, <1>3 DEF SessionInv
      <2>4. \A t \in Sessions : sess'[t].st \in {"dialled", "checked"} =>
               sess'[t].down = {} /\ sess'[t].bsent = 0 /\ sess'[t].res = NoRes /\ sess'[t].reg # NoReg
          BY <1>0, <1>3 DEF SessionInv
      <2>5. attached => /\ rsess # 0 /\ sess'[rsess].st \in {"open", "closed"}
                        /\ sess'[rsess].res = NoRes
          <3>1. attached => rsess # 0 /\ rsess # s
              BY <1>0, <1>1 DEF SessionInv
          <3> QED BY <1>0, <1>3, <1>7, <3>1 DEF SessionInv
      <2> QED BY <1>0, <1>1, <1>2, <1>3, <1>7, <2>1, <2>2, <2>3, <2>4, <2>5 DEF SessionInv
  <1>10. BootInv'
      BY <1>0, <1>1, <1>2, <1>3, <1>7 DEF BootInv, SessionInv
  <1>11. TrackedInv'
      BY <1>0, <1>1, <1>8 DEF AgentInv, TrackedInv
  <1>12. \A x : StartOf(x)' => StartOf(x)
      <2>1. \A t \in Sessions : sess'[t].down \subseteq sess[t].down
          BY <1>3
      <2> QED BY <1>4, <1>5, <2>1 DEF StartOf
  <1>13. StartInv'
      <2>1. \A x : StartOf(x) => x.run \in Runs
          BY <1>0 DEF StartOf, TypeOK, Session, DownMsg
      <2>2. \A x : StartOf(x)' => outcome'[x.run] # "none"
          BY <1>0, <1>8, <1>12, <2>1 DEF StartInv
      <2>3. \A r \in Runs : outcome'[r] = "none" => run'[r] = "none"
          BY <1>0, <1>1, <1>8 DEF StartInv
      <2>4. \A x, y : StartOf(x)' /\ StartOf(y)' /\ x.run = y.run => x = y
          BY <1>0, <1>12 DEF StartInv
      <2>5. conn' # 0 => \A x \in sess'[conn'].down : x.seq <= sess'[conn'].bsent
          BY <1>1, <1>3
      <2> QED BY <2>2, <2>3, <2>4, <2>5 DEF StartInv
  <1>14. DownFresh'
      <2> SUFFICES ASSUME NEW t \in Sessions, NEW x \in sess'[t].down, x.kind = "start"
                   PROVE  /\ run[x.run] = "none"
                          /\ outcome'[x.run] = IF sess'[t].st = "closed" THEN "closed" ELSE "pending"
          BY <1>1 DEF DownFresh
      <2>1. t # s /\ sess'[t] = sess[t] /\ x \in sess[t].down
          BY <1>3
      <2>2. t = rsess
          BY <1>0, <2>1 DEF SessionInv
      <2>3. t > s
          BY <1>0, <1>1, <1>2, <1>7, <2>1, <2>2 DEF SessionInv
      <2>4. sess[t].st # "open" /\ sess[t].st # "unused" /\ sess[t].st \notin {"dialled", "checked"}
          BY <1>0, <1>1, <1>2, <1>7, <2>1, <2>2, <2>3 DEF SessionInv
      <2>5. sess[t].st = "closed"
          BY <1>0, <2>4 DEF TypeOK, Session
      <2>6. x.run \in Runs
          BY <1>0, <2>1 DEF TypeOK, Session, DownMsg
      <2> QED BY <1>0, <1>8, <2>1, <2>5, <2>6 DEF DownFresh
  <1>15. QueueFresh'
      <2> SUFFICES ASSUME NEW x \in bqueue', x.kind = "start"
                   PROVE  /\ rsess = s => run[x.run] = "none"
                          /\ run[x.run] = "none" => outcome'[x.run] = "pending"
                          /\ \/ run[x.run] = "none" \/ reg.boot # rboot
                             \/ seenBoot = bboot /\ x.seq <= lastB
          BY <1>1 DEF QueueFresh
      <2>1. x \in kept /\ x \in bqueue /\ x.run \in Runs /\ x.seq \in Nat
          BY <1>4, <1>5
      <2>2. rsess = s => run[x.run] = "none"
          BY <1>0, <1>1, <1>2, <1>5, <1>7, <2>1 DEF BootInv, QueueFresh
      <2>3. run[x.run] = "none" => outcome'[x.run] = "pending"
          BY <1>0, <1>6, <1>8, <2>1 DEF QueueFresh
      <2>4. \/ run[x.run] = "none" \/ reg.boot # rboot
            \/ seenBoot = bboot /\ x.seq <= lastB
          BY <1>0, <1>5, <2>1 DEF QueueFresh
      <2> QED BY <2>2, <2>3, <2>4
  <1> QED BY <1>9, <1>10, <1>11, <1>13, <1>14, <1>15 DEF AgentInv

LEMMA RunnerCrashAgent ==
    ASSUME LinkInv, RunnerCrash PROVE AgentInv'
  <1> USE DEF hubVars, callerVars, execVars, linkVars
  <1>0. /\ TypeOK /\ AgentInv /\ SessionInv /\ BootInv /\ StartInv /\ DownFresh /\ QueueFresh
      BY DEF LinkInv, AgentInv
  <1>1. /\ rboot' = rboot + 1 /\ lastB' = 0 /\ seenBoot' = 0 /\ rsess' = 0 /\ attached' = FALSE
        /\ UNCHANGED <<bboot, bqueue, knownBoot, conn, tracked, outcome>>
      BY DEF RunnerCrash
  <1>2. \A r \in Runs : run'[r] = "none" <=> run[r] = "none"
      BY <1>0 DEF RunnerCrash, TypeOK
  <1>3. \A t \in Sessions :
           /\ sess'[t].st = sess[t].st /\ sess'[t].live = sess[t].live /\ sess'[t].reg = sess[t].reg
           /\ sess'[t].bsent = sess[t].bsent /\ sess'[t].down = {} /\ sess'[t].res = NoRes
      <2> TAKE t \in Sessions
      <2>1. sess[t] \in Session
          BY <1>0 DEF TypeOK
      <2>2. sess'[t] = IF t = rsess THEN LeftByRunner(t) ELSE sess[t]
          BY DEF RunnerCrash
      <2>3. CASE t = rsess
          BY <2>1, <2>2, <2>3 DEF LeftByRunner, Session
      <2>4. CASE t # rsess
          BY <1>0, <2>2, <2>4 DEF SessionInv
      <2> QED BY <2>3, <2>4
  <1>4. /\ conn # 0 => conn \in Sessions
        /\ rboot \in Nat /\ bboot \in Nat /\ knownBoot \in Nat
        /\ \A t \in Sessions : sess[t].reg # NoReg => sess[t].reg.boot \in Nat
      <2>1. \A t \in Sessions : sess[t].reg # NoReg => sess[t].reg.boot \in Nat
          BY <1>0 DEF TypeOK, Session, RegisterMsg
      <2> QED BY <1>0, <2>1 DEF TypeOK
  <1>5. SessionInv'
      BY <1>0, <1>1, <1>3, <1>4 DEF SessionInv
  <1>6. BootInv'
      BY <1>0, <1>1, <1>3, <1>4 DEF BootInv
  <1>7. TrackedInv'
      BY <1>0, <1>1 DEF AgentInv, TrackedInv
  <1>8. StartInv'
      <2>1. \A x : StartOf(x)' => StartOf(x) /\ x.run \in Runs
          BY <1>0, <1>1, <1>3 DEF StartOf, TypeOK, DownMsg
      <2>2. \A r \in Runs : outcome'[r] = "none" => run'[r] = "none"
          BY <1>0, <1>1, <1>2 DEF StartInv
      <2> QED BY <1>0, <1>1, <1>3, <1>4, <2>1, <2>2 DEF StartInv
  <1>9. DownFresh'
      BY <1>3 DEF DownFresh
  <1>10. QueueFresh'
      <2> SUFFICES ASSUME NEW x \in bqueue, x.kind = "start"
                   PROVE  /\ run'[x.run] = "none" => outcome[x.run] = "pending"
                          /\ knownBoot # rboot'
          BY <1>1 DEF QueueFresh
      <2>1. x.run \in Runs
          BY <1>0 DEF TypeOK, DownMsg
      <2> QED BY <1>0, <1>1, <1>2, <1>4, <2>1 DEF QueueFresh, BootInv
  <1> QED BY <1>5, <1>6, <1>7, <1>8, <1>9, <1>10 DEF AgentInv

LEMMA BackendCrashAgent ==
    ASSUME LinkInv, BackendCrash PROVE AgentInv'
  <1> USE DEF hubVars, callerVars, execVars, linkVars
  <1>0. /\ TypeOK /\ AgentInv /\ SessionInv /\ BootInv /\ StartInv /\ DownFresh /\ TrackedInv
      BY DEF LinkInv, AgentInv
  <1>1. /\ bboot' = bboot + 1 /\ bqueue' = {} /\ knownBoot' = 0 /\ conn' = 0 /\ tracked' = {}
        /\ outcome' = finish(tracked, "closed")
        /\ UNCHANGED <<rboot, run, lastB, seenBoot, rsess, attached>>
      BY DEF BackendCrash
  <1>2. \A r \in Runs : outcome'[r] = IF outcome[r] = "pending" THEN "closed" ELSE outcome[r]
      BY <1>0, <1>1 DEF finish, TrackedInv
  <1>3. \A t \in Sessions :
           /\ sess'[t].st = IF sess[t].st = "unused" THEN "unused" ELSE "closed"
           /\ sess'[t].reg = sess[t].reg /\ sess'[t].down = sess[t].down /\ sess'[t].res = sess[t].res
      <2> TAKE t \in Sessions
      <2>1. sess[t] \in Session
          BY <1>0 DEF TypeOK
      <2>2. sess'[t] = IF sess[t].st = "unused" THEN sess[t]
                       ELSE [Closed(t) EXCEPT !.hnd = Idle, !.st = "closed", !.fin = {}]
          BY DEF BackendCrash
      <2>3. Closed(t) \in Session
          BY <1>0, EndsAreSessions DEF TypeOK
      <2>4. /\ Closed(t).reg = sess[t].reg /\ Closed(t).down = sess[t].down
            /\ Closed(t).res = sess[t].res
          BY <2>1 DEF Session, Closed
      <2> DEFINE x == [Closed(t) EXCEPT !.hnd = Idle, !.st = "closed", !.fin = {}]
      <2>5. x.st = "closed" /\ x.reg = Closed(t).reg /\ x.down = Closed(t).down /\ x.res = Closed(t).res
          BY <2>3 DEF Session
      <2> HIDE DEF x
      <2> QED BY <2>2, <2>4, <2>5
  <1>4. /\ rsess # 0 => rsess \in Sessions
        /\ rboot \in Nat /\ bboot \in Nat /\ seenBoot \in Nat
        /\ \A t \in Sessions : sess[t].res # NoRes => sess[t].res.boot \in Nat
      <2>1. \A t \in Sessions : sess[t].res # NoRes => sess[t].res.boot \in Nat
          BY <1>0 DEF TypeOK, Session
      <2> QED BY <1>0, <2>1 DEF TypeOK
  <1>5. SessionInv'
      BY <1>0, <1>1, <1>3, <1>4 DEF SessionInv
  <1>6. BootInv'
      <2>1. knownBoot' <= rboot' /\ seenBoot' <= bboot' /\ seenBoot' < bboot'
          BY <1>0, <1>1, <1>4 DEF BootInv
      <2>2. \A t \in Sessions : sess'[t].reg # NoReg => sess'[t].reg.boot <= rboot'
          BY <1>0, <1>1, <1>3 DEF BootInv
      <2>3. ASSUME rsess # 0, sess[rsess].res # NoRes PROVE sess[rsess].res.boot < bboot + 1
          <3>1. sess[rsess].st \in {"open", "closed"}
              <4>1. sess[rsess] \in Session
                  BY <1>0, <1>4, <2>3 DEF TypeOK
              <4> QED BY <1>0, <1>4, <2>3, <4>1 DEF SessionInv, Session
          <3> QED BY <1>0, <1>4, <2>3, <3>1 DEF BootInv
      <2>4. rsess # 0 => sess'[rsess].st = "closed"
          BY <1>0, <1>3, <1>4 DEF SessionInv
      <2> QED BY <1>1, <1>3, <1>4, <2>1, <2>2, <2>3, <2>4 DEF BootInv
  <1>7. TrackedInv'
      BY <1>1, <1>2 DEF TrackedInv
  <1>8. StartInv'
      <2>1. \A x : StartOf(x)' => StartOf(x) /\ x.run \in Runs
          BY <1>0, <1>1, <1>3 DEF StartOf, TypeOK, Session, DownMsg
      <2>2. \A r \in Runs : (outcome'[r] = "none" <=> outcome[r] = "none") /\ run'[r] = run[r]
          BY <1>1, <1>2
      <2> QED BY <1>0, <1>1, <2>1, <2>2 DEF StartInv
  <1>9. DownFresh'
      <2> SUFFICES ASSUME NEW t \in Sessions, NEW x \in sess'[t].down, x.kind = "start"
                   PROVE  /\ run[x.run] = "none"
                          /\ outcome'[x.run] = IF sess'[t].st = "closed" THEN "closed" ELSE "pending"
          BY <1>1 DEF DownFresh
      <2>1. x \in sess[t].down /\ x.run \in Runs
          BY <1>0, <1>3 DEF TypeOK, Session, DownMsg
      <2>2. sess[t].st # "unused"
          BY <1>0, <1>4, <2>1, RunnerLinkConstants DEF SessionInv
      <2> QED BY <1>0, <1>2, <1>3, <2>1, <2>2 DEF DownFresh
  <1>10. QueueFresh'
      BY <1>1 DEF QueueFresh
  <1> QED BY <1>5, <1>6, <1>7, <1>8, <1>9, <1>10 DEF AgentInv

\* What is on its way is a message.
LEMMA WaysAreMessages ==
    ASSUME TypeOK, NEW m, OnWay(m)
    PROVE  m \in UpMsg /\ m.seq \in Nat \ {0} /\ m.n \in Nat /\ (m.kind # "hb" => m.run \in Runs)
  <1>1. \A s \in Sessions : sess[s] \in Session
      BY DEF TypeOK
  <1>2. m \in UpMsg
      <2>1. CASE m \in rqueue
          BY <2>1 DEF TypeOK
      <2>2. ASSUME NEW s \in Sessions, Holds(s, m) PROVE m \in UpMsg
          <3>1. sess[s].up \subseteq UpMsg
              BY <1>1 DEF Session
          <3>2. sess[s].hnd # Idle => sess[s].hnd.msg \in UpMsg
              BY <1>1, HandlingType
          <3> QED BY <2>2, <3>1, <3>2 DEF Holds
      <2> QED BY <2>1, <2>2 DEF OnWay
  <1> QED BY <1>2 DEF UpMsg, RunMsg, Heartbeat

\* One session changes to x, and its messages only move on.
LEMMA SessionWays ==
    ASSUME TypeOK, NEW s \in Sessions, NEW x, Sets(s, x), rqueue' \subseteq rqueue,
           x.up \subseteq sess[s].up \cup rqueue,
           \/ x.hnd = Idle \/ (sess[s].hnd # Idle /\ x.hnd.msg = sess[s].hnd.msg)
           \/ x.hnd = sess[s].hnd \/ x.hnd.msg \in sess[s].up
    PROVE  \A m : OnWay(m)' => OnWay(m)
  <1>1. sess'[s] = x /\ \A t \in Sessions : t # s => sess'[t] = sess[t]
      BY SetsEffect DEF TypeOK
  <1> QED BY <1>1 DEF OnWay, Holds

\* The state of a run never returns to "none".
LEMMA RunsMoveOn ==
    ASSUME LinkInv, [Next]_vars
    PROVE  \A r \in Runs : run[r] # "none" => run'[r] # "none"
  <1> USE DEF hubVars, callerVars, execVars, linkVars
  <1>0. TypeOK
      BY DEF LinkInv
  <1>1. CASE Caller \/ UNCHANGED vars \/ sendHeartbeat
      BY <1>1 DEF Caller, Dispatch, Cancel, vars, sendHeartbeat
  <1>2. CASE Executor
      BY <1>0, <1>2 DEF Executor, Output, Report, EndRun, TypeOK
  <1>3. ASSUME NEW s \in Sessions, RunnerReceive(s)
        PROVE  \A r \in Runs : run[r] # "none" => run'[r] # "none"
      <2>1. PICK m \in sess[s].down :
              \/ run' = run
              \/ run[m.run] = "none" /\ run' = [run EXCEPT ![m.run] = "running"]
          BY <1>3, ReceiveStep
      <2> QED BY <1>0, <2>1 DEF TypeOK
  <1>4. ASSUME NEW s \in Sessions, Runner(s), ~RunnerReceive(s) PROVE run' = run
      BY <1>4 DEF Runner, Connect, Attach, Abandon, RunnerReceiveAck, RunnerSend, RunnerSendAck
  <1>5. ASSUME NEW s \in Sessions, Hub(s) PROVE run' = run
      BY <1>5 DEF Hub, CheckFinalized, Register, Detach, BackendSend, BackendSendAck,
                  BackendReceiveAck, Take, ApplyHeartbeat, ApplyOutput, MarkFinalized, MarkFailed,
                  Deliver, Commit
  <1>6. CASE RunnerCrash
      BY <1>0, <1>6 DEF RunnerCrash, TypeOK
  <1>7. CASE BackendCrash
      BY <1>7 DEF BackendCrash
  <1> QED BY <1>1, <1>2, <1>3, <1>4, <1>5, <1>6, <1>7 DEF Next

LEMMA RunnerWays ==
    ASSUME TypeOK, NEW s \in Sessions, Runner(s) PROVE \A m : OnWay(m)' => OnWay(m)
  <1> USE DEF linkVars
  <1>0. sess[s] \in Session
      BY DEF TypeOK
  <1>1. CASE Connect(s)
      <2> DEFINE x == [Unused EXCEPT !.st = "dialled", !.live = TRUE, !.reg = buildRegister]
      <2>1. x.up = {} /\ x.hnd = Idle
          BY DEF Unused
      <2>2. Sets(s, x) /\ rqueue' = rqueue
          BY <1>1 DEF Connect, Sets
      <2> HIDE DEF x
      <2> QED BY <1>0, <2>1, <2>2, SessionWays
  <1>2. CASE Attach(s)
      <2> DEFINE x == [sess[s] EXCEPT !.res = NoRes]
      <2>1. x.up = sess[s].up /\ x.hnd = sess[s].hnd
          BY <1>0 DEF Session
      <2>2. Sets(s, x) /\ rqueue' \subseteq rqueue
          BY <1>2 DEF Attach, Sets, Trim
      <2> HIDE DEF x
      <2> QED BY <1>0, <2>1, <2>2, SessionWays
  <1>3. CASE Abandon(s)
      <2> DEFINE x == LeftByRunner(s)
      <2>1. x.up = sess[s].up /\ x.hnd = sess[s].hnd
          BY <1>0 DEF Session, LeftByRunner
      <2>2. Sets(s, x) /\ rqueue' = rqueue
          BY <1>3 DEF Abandon, Sets
      <2> HIDE DEF x
      <2> QED BY <1>0, <2>1, <2>2, SessionWays
  <1>4. CASE RunnerReceive(s)
      <2>1. PICK a : Sets(s, [sess[s] EXCEPT !.down = a])
          BY <1>4 DEF RunnerReceive, Sets
      <2> DEFINE x == [sess[s] EXCEPT !.down = a]
      <2>2. x.up = sess[s].up /\ x.hnd = sess[s].hnd
          BY <1>0 DEF Session
      <2>3. Sets(s, x) /\ rqueue' = rqueue
          BY <1>4, <2>1 DEF RunnerReceive
      <2> HIDE DEF x
      <2> QED BY <1>0, <2>2, <2>3, SessionWays
  <1>5. CASE RunnerReceiveAck(s)
      <2> DEFINE x == [sess[s] EXCEPT !.downAck = 0]
      <2>1. x.up = sess[s].up /\ x.hnd = sess[s].hnd
          BY <1>0 DEF Session
      <2>2. Sets(s, x) /\ rqueue' \subseteq rqueue
          BY <1>5 DEF RunnerReceiveAck, Sets, Trim
      <2> HIDE DEF x
      <2> QED BY <1>0, <2>1, <2>2, SessionWays
  <1>6. CASE RunnerSend(s)
      <2>1. PICK m \in rqueue : sess' = [sess EXCEPT ![s].rsent = m.seq,
                                  ![s].up = IF sess[s].live THEN @ \cup {m} ELSE {}]
          BY <1>6 DEF RunnerSend
      <2> DEFINE b == IF sess[s].live THEN sess[s].up \cup {m} ELSE {}
                 x == [sess[s] EXCEPT !.rsent = m.seq, !.up = b]
      <2>2. Sets(s, x)
          BY <2>1 DEF Sets
      <2>3. b \subseteq sess[s].up \cup rqueue
          OBVIOUS
      <2> HIDE DEF b
      <2>4. x.up = b /\ x.hnd = sess[s].hnd
          BY <1>0 DEF Session
      <2>5. rqueue' = rqueue
          BY <1>6 DEF RunnerSend
      <2> HIDE DEF x
      <2> QED BY <1>0, <2>2, <2>3, <2>4, <2>5, SessionWays
  <1>7. CASE RunnerSendAck(s)
      <2>1. PICK a : Sets(s, [sess[s] EXCEPT !.upAck = a])
          BY <1>7 DEF RunnerSendAck, Sets
      <2> DEFINE x == [sess[s] EXCEPT !.upAck = a]
      <2>2. x.up = sess[s].up /\ x.hnd = sess[s].hnd
          BY <1>0 DEF Session
      <2>3. Sets(s, x) /\ rqueue' = rqueue
          BY <1>7, <2>1 DEF RunnerSendAck
      <2> HIDE DEF x
      <2> QED BY <1>0, <2>2, <2>3, SessionWays
  <1> QED BY <1>1, <1>2, <1>3, <1>4, <1>5, <1>6, <1>7 DEF Runner

LEMMA HubWays ==
    ASSUME TypeOK, NEW s \in Sessions, Hub(s) PROVE \A m : OnWay(m)' => OnWay(m)
  <1> USE DEF linkVars
  <1>0. sess[s] \in Session /\ rqueue' = rqueue
      BY DEF TypeOK, Hub, CheckFinalized, Register, Detach, BackendSend, BackendSendAck,
                  BackendReceiveAck, Take, ApplyHeartbeat, ApplyOutput, MarkFinalized, MarkFailed,
                  Deliver, Commit
  <1>a. ASSUME NEW x, Sets(s, x), x.up = sess[s].up, x.hnd = sess[s].hnd PROVE \A m : OnWay(m)' => OnWay(m)
      BY <1>0, <1>a, SessionWays
  <1>1. CASE CheckFinalized(s)
      <2>1. PICK c : Sets(s, [sess[s] EXCEPT !.st = "checked", !.fin = c])
          BY <1>1 DEF CheckFinalized, Sets
      <2> QED BY <1>0, <1>a, <2>1 DEF Session
  <1>b. CASE Register(s)
      <2> DEFINE a == IF sess[s].live /\ rsess = s THEN [boot |-> bboot, acked |-> highest'] ELSE NoRes
      <2>1. Sets(s, [sess[s] EXCEPT !.st = "open", !.reg = NoReg, !.fin = {}, !.res = a])
          BY <1>b DEF Register, Sets
      <2> HIDE DEF a
      <2> QED BY <1>0, <1>a, <2>1 DEF Session
  <1>2. CASE Detach(s)
      <2>1. Closed(s).up = {} /\ Closed(s).hnd = sess[s].hnd
          BY <1>0 DEF Session, Closed
      <2>2. Sets(s, Closed(s))
          BY <1>2 DEF Detach, Sets
      <2> QED BY <1>0, <2>1, <2>2, SessionWays
  <1>3. CASE MarkFailed(s)
      <2> DEFINE x == [Closed(s) EXCEPT !.hnd = Idle]
      <2>1. x.up = {} /\ x.hnd = Idle
          <3>1. Closed(s) \in Session
              BY EndsAreSessions DEF TypeOK
          <3>2. Closed(s).up = {}
              BY <1>0 DEF Session, Closed
          <3> QED BY <3>1, <3>2 DEF Session
      <2>2. Sets(s, x)
          BY <1>3 DEF MarkFailed, Sets
      <2> HIDE DEF x
      <2> QED BY <1>0, <2>1, <2>2, SessionWays
  <1>4. CASE BackendSend(s)
      <2>1. PICK a, b : Sets(s, [sess[s] EXCEPT !.bsent = a, !.down = b])
          BY <1>4 DEF BackendSend, Sets
      <2> QED BY <1>0, <1>a, <2>1 DEF Session
  <1>c. CASE BackendSendAck(s)
      <2>1. PICK a, b : Sets(s, [sess[s] EXCEPT !.ackDirty = a, !.downAck = b])
          BY <1>c DEF BackendSendAck, Sets
      <2> QED BY <1>0, <1>a, <2>1 DEF Session
  <1>d. CASE BackendReceiveAck(s)
      <2>1. Sets(s, [sess[s] EXCEPT !.upAck = 0])
          BY <1>d DEF BackendReceiveAck, Sets
      <2> QED BY <1>0, <1>a, <2>1 DEF Session
  <1>5. CASE Take(s)
      <2>1. PICK m \in sess[s].up : sess' = [sess EXCEPT
                    ![s].up = @ \ {m},
                    ![s].hnd = [step |-> IF m.seq <= highest THEN "dup" ELSE "taken",
                                msg |-> m]]
          BY <1>5 DEF Take
      <2> DEFINE step == IF m.seq <= highest THEN "dup" ELSE "taken"
      <2>2. Sets(s, [sess[s] EXCEPT !.up = sess[s].up \ {m}, !.hnd = [step |-> step, msg |-> m]])
          BY <2>1 DEF Sets
      <2> HIDE DEF step
      <2> DEFINE x == [sess[s] EXCEPT !.up = sess[s].up \ {m}, !.hnd = [step |-> step, msg |-> m]]
      <2>3. x.up = sess[s].up \ {m} /\ x.hnd = [step |-> step, msg |-> m]
          BY <1>0 DEF Session
      <2>4. Sets(s, x)
          BY <2>2
      <2> HIDE DEF x
      <2>5. x.hnd.msg = m
          BY <2>3
      <2> QED BY <1>0, <2>3, <2>4, <2>5, SessionWays
  <1>6. CASE ApplyHeartbeat(s) \/ ApplyOutput(s) \/ MarkFinalized(s) \/ Deliver(s)
      <2>1. PICK step : sess' = [sess EXCEPT ![s].hnd.step = step]
          BY <1>6 DEF ApplyHeartbeat, ApplyOutput, MarkFinalized, Deliver
      <2> DEFINE h == [sess[s].hnd EXCEPT !.step = step]
                 x == [sess[s] EXCEPT !.hnd = h]
      <2>2. Sets(s, x)
          BY <2>1 DEF Sets
      <2>3. sess[s].hnd.step # "none"
          BY <1>6 DEF ApplyHeartbeat, ApplyOutput, MarkFinalized, Deliver, Handling
      <2>4. sess[s].hnd # Idle /\ h.msg = sess[s].hnd.msg
          <3>1. sess[s].hnd # Idle /\ sess[s].hnd \in [step : Steps, msg : UpMsg]
              BY <1>0, <2>3, HandlingType
          <3> QED BY <3>1
      <2> HIDE DEF h
      <2>5. x.up = sess[s].up /\ x.hnd = h
          BY <1>0 DEF Session
      <2> HIDE DEF x
      <2> QED BY <1>0, <2>2, <2>4, <2>5, SessionWays
  <1>7. CASE Commit(s)
      <2>1. PICK a, b : Sets(s, [sess[s] EXCEPT !.hnd = Idle, !.ackSeq = a, !.ackDirty = b])
          <3>1. Sets(s, [sess[s] EXCEPT !.hnd = Idle, !.ackSeq = IF sess[s].live THEN highest' ELSE 0,
                                        !.ackDirty = sess[s].live])
              BY <1>7 DEF Commit, Sets
          <3> QED BY <3>1
      <2> DEFINE x == [sess[s] EXCEPT !.hnd = Idle, !.ackSeq = a, !.ackDirty = b]
      <2>2. x.up = sess[s].up /\ x.hnd = Idle
          BY <1>0 DEF Session
      <2>3. Sets(s, x)
          BY <2>1
      <2> HIDE DEF x
      <2> QED BY <1>0, <2>2, <2>3, SessionWays
  <1> QED BY <1>1, <1>b, <1>2, <1>3, <1>4, <1>c, <1>d, <1>5, <1>6, <1>7 DEF Hub

\* Crashes and the hub's callers add nothing; the executor queues one message.
LEMMA OtherWays ==
    ASSUME TypeOK, Caller \/ RunnerCrash \/ BackendCrash \/ UNCHANGED vars
    PROVE  \A m : OnWay(m)' => OnWay(m)
  <1> USE DEF linkVars
  <1>1. CASE Caller \/ UNCHANGED vars
      BY <1>1 DEF Caller, Dispatch, Cancel, vars, OnWay, Holds
  <1>2. CASE RunnerCrash
      <2>1. rqueue' = {}
          BY <1>2 DEF RunnerCrash
      <2>2. \A t \in Sessions : sess'[t].up = sess[t].up /\ sess'[t].hnd = sess[t].hnd
          <3> TAKE t \in Sessions
          <3>1. sess[t] \in Session /\ (sess'[t] = LeftByRunner(t) \/ sess'[t] = sess[t])
              BY <1>2 DEF RunnerCrash, TypeOK
          <3> QED BY <3>1 DEF LeftByRunner, Session
      <2> QED BY <2>1, <2>2 DEF OnWay, Holds
  <1>3. CASE BackendCrash
      <2>1. rqueue' = rqueue
          BY <1>3 DEF BackendCrash
      <2>2. \A t \in Sessions : \/ sess'[t] = sess[t]
                                \/ sess'[t].up = {} /\ sess'[t].hnd = Idle
          <3> TAKE t \in Sessions
          <3> DEFINE x == [Closed(t) EXCEPT !.hnd = Idle, !.st = "closed", !.fin = {}]
          <3>1. sess'[t] = sess[t] \/ sess'[t] = x
              BY <1>3 DEF BackendCrash
          <3>2. Closed(t) \in Session
              BY EndsAreSessions DEF TypeOK
          <3>3. Closed(t).up = {}
              BY DEF Closed, Session, TypeOK
          <3>4. x.up = {} /\ x.hnd = Idle
              BY <3>2, <3>3 DEF Session
          <3> QED BY <3>1, <3>4
      <2> QED BY <2>1, <2>2 DEF OnWay, Holds
  <1> QED BY <1>1, <1>2, <1>3

LEMMA ExecutorWays ==
    ASSUME TypeOK, Executor \/ sendHeartbeat
    PROVE  \A m : OnWay(m)' =>
              OnWay(m) \/ m.kind = "hb" \/ \E r \in Runs : m.run = r /\ run[r] = "running"
  <1>1. sess' = sess
      BY DEF Executor, Output, Report, EndRun, sendHeartbeat
  <1>2. \A m \in rqueue' : m \in rqueue \/ m.kind = "hb" \/ \E r \in Runs : m.run = r /\ run[r] = "running"
      BY DEF Executor, Output, Report, EndRun, sendHeartbeat, enqueue, RunnerMsg, linkVars
  <1> QED BY <1>1, <1>2 DEF OnWay, Holds

LEMMA ReportStep ==
    ASSUME LinkInv, [Next]_vars PROVE ReportInv'
  <1>1. TypeOK /\ ReportInv
      BY DEF LinkInv
  <1>2. \A m : OnWay(m)' =>
            OnWay(m) \/ m.kind = "hb" \/ (m.run \in Runs /\ run[m.run] # "none")
      BY <1>1, RunnerWays, HubWays, OtherWays, ExecutorWays DEF Next
  <1>3. \A m : OnWay(m)' /\ m.kind # "hb" => m.run \in Runs /\ run[m.run] # "none"
      BY <1>1, <1>2, WaysAreMessages DEF ReportInv
  <1> QED BY <1>3, RunsMoveOn DEF ReportInv

-----------------------------------------------------------------------------
(* Type correctness *)

\* A session that is being registered carries the Register it was opened with.
RegKept == \A s \in Sessions : sess[s].st \in {"dialled", "checked"} => sess[s].reg # NoReg

LEMMA RegStep ==
    ASSUME TypeOK, RegKept, [Next]_vars PROVE RegKept'
  <1>1. CASE Caller \/ Executor \/ sendHeartbeat \/ UNCHANGED vars
      BY <1>1 DEF RegKept, Caller, Dispatch, Cancel, Executor, Output, Report, EndRun, sendHeartbeat, vars
  <1>2. CASE RunnerCrash
      <2>1. \A s \in Sessions : sess'[s].st = sess[s].st /\ sess'[s].reg = sess[s].reg
          <3> TAKE s \in Sessions
          <3>1. sess[s] \in Session /\ (sess'[s] = LeftByRunner(s) \/ sess'[s] = sess[s])
              BY <1>2 DEF RunnerCrash, TypeOK
          <3> QED BY <3>1 DEF LeftByRunner, Session
      <2> QED BY <2>1 DEF RegKept
  <1>3. CASE BackendCrash
      <2>1. \A s \in Sessions : sess'[s].st \in {"unused", "closed"}
          <3> TAKE s \in Sessions
          <3>1. Closed(s) \in Session
              BY EndsAreSessions DEF TypeOK
          <3>2. sess'[s] = IF sess[s].st = "unused" THEN sess[s]
                           ELSE [Closed(s) EXCEPT !.hnd = Idle, !.st = "closed", !.fin = {}]
              BY <1>3 DEF BackendCrash
          <3> QED BY <3>1, <3>2 DEF Session
      <2> QED BY <2>1 DEF RegKept
  <1>4. ASSUME NEW s \in Sessions, Runner(s) \/ Hub(s) PROVE RegKept'
      <2>0. sess \in [Sessions -> Session] /\ sess[s] \in Session
          BY DEF TypeOK
      <2>a. ASSUME NEW x, Sets(s, x),
                   \/ x.st = sess[s].st /\ x.reg = sess[s].reg
                   \/ sess[s].st = "dialled" /\ x.reg = sess[s].reg
                   \/ x.st = "open" \/ x.reg # NoReg
            PROVE  RegKept'
          <3>1. sess'[s] = x /\ \A t \in Sessions : t # s => sess'[t] = sess[t]
              BY <2>0, <2>a, SetsEffect
          <3> QED BY <2>a, <3>1 DEF RegKept
      <2>1. CASE \/ RunnerReceiveAck(s) \/ RunnerSend(s) \/ RunnerSendAck(s)
                 \/ BackendSendAck(s) \/ BackendReceiveAck(s) \/ Take(s) \/ ApplyHeartbeat(s)
                 \/ ApplyOutput(s) \/ MarkFinalized(s) \/ Deliver(s) \/ Commit(s)
          <3>1. FrontKept
              BY <2>1, FrontSteps
          <3> QED BY <3>1 DEF FrontKept, RegKept
      <2>2. CASE Connect(s)
          <3> DEFINE x == [Unused EXCEPT !.st = "dialled", !.live = TRUE, !.reg = buildRegister]
          <3>1. buildRegister \in RegisterMsg
              BY Messages
          <3>2. buildRegister.boot # 0
              BY <3>1 DEF RegisterMsg
          <3>3. x.reg # NoReg
              BY <3>2 DEF NoReg, Unused
          <3>4. Sets(s, x)
              BY <2>2 DEF Connect, Sets
          <3> HIDE DEF x
          <3> QED BY <2>a, <3>3, <3>4
      <2>3. CASE Attach(s)
          <3>1. Sets(s, [sess[s] EXCEPT !.res = NoRes])
              BY <2>3 DEF Attach, Sets
          <3> QED BY <2>0, <2>a, <3>1 DEF Session
      <2>4. CASE Abandon(s)
          <3>1. Sets(s, LeftByRunner(s))
              BY <2>4 DEF Abandon, Sets
          <3>2. LeftByRunner(s).st = sess[s].st /\ LeftByRunner(s).reg = sess[s].reg
              BY <2>0 DEF LeftByRunner, Session
          <3> QED BY <2>a, <3>1, <3>2
      <2>5. CASE RunnerReceive(s)
          <3>1. PICK a : Sets(s, [sess[s] EXCEPT !.down = a])
              BY <2>5 DEF RunnerReceive, Sets
          <3> QED BY <2>0, <2>a, <3>1 DEF Session
      <2>6. CASE CheckFinalized(s)
          <3>1. PICK a : Sets(s, [sess[s] EXCEPT !.st = "checked", !.fin = a]) /\ sess[s].st = "dialled"
              BY <2>6 DEF CheckFinalized, Sets
          <3> QED BY <2>0, <2>a, <3>1 DEF Session
      <2>7. CASE Register(s)
          <3> DEFINE a == IF sess[s].live /\ rsess = s THEN [boot |-> bboot, acked |-> highest'] ELSE NoRes
          <3>1. Sets(s, [sess[s] EXCEPT !.st = "open", !.reg = NoReg, !.fin = {}, !.res = a])
              BY <2>7 DEF Register, Sets
          <3> HIDE DEF a
          <3> QED BY <2>0, <2>a, <3>1 DEF Session
      <2>8. CASE BackendSend(s)
          <3>1. PICK a, b : Sets(s, [sess[s] EXCEPT !.bsent = a, !.down = b])
              BY <2>8 DEF BackendSend, Sets
          <3> QED BY <2>0, <2>a, <3>1 DEF Session
      <2>9. CASE Detach(s) \/ MarkFailed(s)
          <3>0. Closed(s) \in Session /\ Closed(s).st = sess[s].st /\ Closed(s).reg = sess[s].reg
              BY <2>0, EndsAreSessions DEF Closed, Session
          <3>1. Sets(s, Closed(s)) \/ Sets(s, [Closed(s) EXCEPT !.hnd = Idle])
              BY <2>9 DEF Detach, MarkFailed, Sets
          <3>2. [Closed(s) EXCEPT !.hnd = Idle].st = sess[s].st
                /\ [Closed(s) EXCEPT !.hnd = Idle].reg = sess[s].reg
              BY <3>0 DEF Session
          <3> QED BY <2>a, <3>0, <3>1, <3>2
      <2> QED BY <1>4, <2>1, <2>2, <2>3, <2>4, <2>5, <2>6, <2>7, <2>8, <2>9 DEF Runner, Hub
  <1> QED BY <1>1, <1>2, <1>3, <1>4 DEF Next

LEMMA TypeInit == Init => TypeOK /\ RegKept
  <1> SUFFICES ASSUME Init PROVE TypeOK /\ RegKept
      OBVIOUS
  <1>1. sess \in [Sessions -> Session] /\ \A s \in Sessions : sess[s].st = "unused"
      BY Constants DEF Init, Unused
  <1>2. /\ bboot = 1 /\ bnext = 0 /\ bqueue = {} /\ highest = 0 /\ knownBoot = 0
        /\ conn = 0 /\ tracked = {} /\ finalized = {} /\ cancelAsked = {}
        /\ rboot = 1 /\ rnext = 0 /\ rqueue = {} /\ lastB = 0 /\ seenBoot = 0
        /\ rsess = 0 /\ attached = FALSE /\ rackDirty = FALSE /\ cancelled = {}
      BY DEF Init
  <1>3. /\ got \in [Runs -> Nat] /\ emitted \in [Runs -> Nat]
        /\ outcome \in [Runs -> {"none", "pending", "result", "lost", "error", "closed"}]
        /\ run \in [Runs -> {"none", "running", "reported", "ended", "dead", "gone"}]
      BY DEF Init
  <1>4. RegKept
      BY <1>1 DEF RegKept
  <1>5. /\ bqueue \in SUBSET DownMsg /\ rqueue \in SUBSET UpMsg
        /\ tracked \in SUBSET Runs /\ finalized \in SUBSET Runs
        /\ cancelAsked \in SUBSET Runs /\ cancelled \in SUBSET Runs
      BY <1>2
  <1>a. /\ bboot \in Nat \ {0} /\ bnext \in Nat /\ highest \in Nat /\ knownBoot \in Nat
        /\ rboot \in Nat \ {0} /\ rnext \in Nat /\ lastB \in Nat /\ seenBoot \in Nat
      BY <1>2
  <1>b. /\ conn \in {0} \cup Sessions /\ rsess \in {0} \cup Sessions
        /\ attached \in BOOLEAN /\ rackDirty \in BOOLEAN
      BY <1>2
  <1>6. TypeOK
      BY <1>1, <1>3, <1>5, <1>a, <1>b DEF TypeOK
  <1> QED BY <1>4, <1>6

LEMMA TypeStep == ASSUME TypeOK, RegKept, [Next]_vars PROVE TypeOK'
  <1>1. ASSUME NEW s \in Sessions, Hub(s) PROVE TypeOK'
      BY <1>1, HubType DEF RegKept
  <1>2. CASE UNCHANGED vars
      BY <1>2 DEF vars, hubVars, callerVars, linkVars, execVars, TypeOK
  <1> QED BY <1>1, <1>2, CallerType, ExecutorType, CrashType, RunnerType DEF Next

\* The messages and the state of both processes are well formed.
THEOREM TypeCorrect == Spec => []TypeOK
  <1>1. TypeOK /\ RegKept /\ [Next]_vars => (TypeOK /\ RegKept)'
      BY TypeStep, RegStep
  <1> QED BY <1>1, TypeInit, PTL DEF Spec

-----------------------------------------------------------------------------
(* An agent starts once *)

LEMMA LinkInit == Init => LinkInv
  <1> SUFFICES ASSUME Init PROVE LinkInv
      OBVIOUS
  <1>1. TypeOK
      BY TypeInit
  <1>2. /\ bboot = 1 /\ bqueue = {} /\ knownBoot = 0 /\ conn = 0 /\ tracked = {}
        /\ rboot = 1 /\ rqueue = {} /\ lastB = 0 /\ seenBoot = 0 /\ rsess = 0 /\ attached = FALSE
        /\ \A r \in Runs : outcome[r] = "none" /\ run[r] = "none"
      BY DEF Init
  <1>3. \A s \in Sessions : /\ sess[s].st = "unused" /\ sess[s].reg = NoReg /\ sess[s].res = NoRes
                            /\ sess[s].up = {} /\ sess[s].down = {} /\ sess[s].hnd = Idle
      BY DEF Init, Unused
  <1>4. SessionInv /\ BootInv
      BY <1>2, <1>3 DEF SessionInv, BootInv
  <1>5. TrackedInv /\ StartInv /\ DownFresh /\ QueueFresh
      BY <1>2, <1>3 DEF TrackedInv, StartInv, StartOf, DownFresh, QueueFresh
  <1>6. ReportInv
      BY <1>2, <1>3 DEF ReportInv, OnWay, Holds
  <1> QED BY <1>1, <1>4, <1>5, <1>6 DEF LinkInv, AgentInv

LEMMA LinkStep == ASSUME LinkInv, ~RegisterRace, [Next]_vars PROVE LinkInv'
  <1>1. TypeOK'
      BY TypeStep DEF LinkInv, AgentInv, SessionInv, RegKept
  <1>2. CASE Caller \/ Executor \/ sendHeartbeat \/ RunnerCrash \/ BackendCrash \/ UNCHANGED vars
      BY <1>1, <1>2, CallerAgent, ExecutorAgent, RunnerCrashAgent, BackendCrashAgent, ReportStep
         DEF LinkInv, Next
  <1>3. ASSUME NEW s \in Sessions, Runner(s) PROVE LinkInv'
      <2>1. AgentInv'
          BY <1>3, ConnectAgent, AttachAgent, AbandonAgent, ReceiveAgent, UpstreamAgent DEF Runner
      <2> QED BY <1>1, <1>3, <2>1, ReportStep DEF LinkInv, Next
  <1>4. ASSUME NEW s \in Sessions, Hub(s) PROVE LinkInv'
      <2>1. AgentInv'
          BY <1>4, CheckAgent, RegisterAgent, DetachAgent, BackendSendAgent, UpstreamAgent DEF Hub
      <2> QED BY <1>1, <1>4, <2>1, ReportStep DEF LinkInv, Next
  <1> QED BY <1>2, <1>3, <1>4 DEF Next

\* A node shown online has a connection that is served, as long as a Register
\* is only processed for a session that is there.
THEOREM OnlineServed == ASSUME ~RegisterRace PROVE Spec => []OnlineIsConnected
  <1>1. LinkInv => OnlineIsConnected
      BY DEF LinkInv, AgentInv, SessionInv, OnlineIsConnected
  <1>2. LinkInv /\ [Next]_vars => LinkInv'
      BY LinkStep
  <1> QED BY <1>1, <1>2, LinkInit, PTL DEF Spec

\* What a step does to the agents.
AgentStep ==
    \/ agentState' = agentState
    \/ \E r \in Runs : /\ agentState[r] = "none" /\ outcome[r] \in {"pending", "closed"}
                       /\ agentState' = [agentState EXCEPT ![r] = "running"] /\ outcome' = outcome
    \/ \E r \in Runs : /\ agentState[r] = "running"
                       /\ agentState' = [agentState EXCEPT ![r] = "done"] /\ outcome' = outcome
    \/ /\ agentState' = [r \in Runs |-> CASE agentState[r] = "running" -> "dead"
                                         [] agentState[r] = "done" -> "gone"
                                         [] OTHER -> agentState[r]]
       /\ outcome' = outcome

LEMMA AgentsStep == ASSUME LinkInv, [Next]_vars PROVE AgentStep
  <1> USE DEF hubVars, callerVars, execVars, linkVars
  <1>0. /\ TypeOK /\ DownFresh
        /\ run \in [Runs -> {"none", "running", "reported", "ended", "dead", "gone"}]
      BY DEF LinkInv, AgentInv, TypeOK
  <1>1. CASE Caller \/ sendHeartbeat \/ UNCHANGED vars \/ BackendCrash
      <2>1. run' = run
          BY <1>1 DEF Caller, Dispatch, Cancel, sendHeartbeat, vars, BackendCrash
      <2> QED BY <2>1 DEF AgentStep, agentState
  <1>2. ASSUME NEW s \in Sessions, Hub(s) PROVE AgentStep
      <2>1. run' = run
          BY <1>2 DEF Hub, CheckFinalized, Register, Detach, BackendSend, BackendSendAck,
                  BackendReceiveAck, Take, ApplyHeartbeat, ApplyOutput, MarkFinalized, MarkFailed,
                  Deliver, Commit
      <2> QED BY <2>1 DEF AgentStep, agentState
  <1>3. ASSUME NEW s \in Sessions, Runner(s), ~RunnerReceive(s) PROVE AgentStep
      <2>1. run' = run
          BY <1>3 DEF Runner, Connect, Attach, Abandon, RunnerReceiveAck, RunnerSend, RunnerSendAck
      <2> QED BY <2>1 DEF AgentStep, agentState
  <1>4. ASSUME NEW s \in Sessions, RunnerReceive(s) PROVE AgentStep
      <2>1. PICK m \in sess[s].down :
              /\ m \in DownMsg
              /\ \/ run' = run
                 \/ m.kind = "start" /\ run[m.run] = "none" /\ run' = [run EXCEPT ![m.run] = "running"]
          BY <1>4, ReceiveStep
      <2>2. CASE run' = run
          BY <2>2 DEF AgentStep, agentState
      <2>3. CASE m.kind = "start" /\ run[m.run] = "none" /\ run' = [run EXCEPT ![m.run] = "running"]
          <3>1. m.run \in Runs
              BY <2>1 DEF DownMsg
          <3>2. outcome[m.run] \in {"pending", "closed"} /\ outcome' = outcome
              BY <1>0, <1>4, <2>3 DEF DownFresh, RunnerReceive
          <3>3. agentState[m.run] = "none" /\ agentState' = [agentState EXCEPT ![m.run] = "running"]
              BY <1>0, <2>3, <3>1 DEF agentState
          <3> QED BY <3>1, <3>2, <3>3 DEF AgentStep
      <2> QED BY <2>1, <2>2, <2>3
  <1>5. ASSUME NEW r \in Runs, Output(r) \/ EndRun(r) PROVE AgentStep
      <2>1. agentState' = agentState
          BY <1>0, <1>5 DEF Output, EndRun, agentState
      <2> QED BY <2>1 DEF AgentStep
  <1>6. ASSUME NEW r \in Runs, Report(r) PROVE AgentStep
      <2>1. /\ agentState[r] = "running" /\ agentState' = [agentState EXCEPT ![r] = "done"]
            /\ outcome' = outcome
          BY <1>0, <1>6 DEF Report, agentState
      <2> QED BY <2>1 DEF AgentStep
  <1>7. CASE RunnerCrash
      <2>1. outcome' = outcome
          BY <1>7 DEF RunnerCrash
      <2>2. agentState' = [r \in Runs |-> CASE agentState[r] = "running" -> "dead"
                                           [] agentState[r] = "done" -> "gone"
                                           [] OTHER -> agentState[r]]
          <3>1. run' = [r \in Runs |-> CASE run[r] = "running" -> "dead"
                               [] run[r] \in {"reported", "ended"} -> "gone"
                               [] OTHER -> run[r]]
              BY <1>7 DEF RunnerCrash
          <3>2. \A r \in Runs : run'[r] = CASE run[r] = "running" -> "dead"
                               [] run[r] \in {"reported", "ended"} -> "gone"
                               [] OTHER -> run[r]
              BY <3>1
          <3>3. \A r \in Runs :
                   (IF run'[r] \in {"reported", "ended"} THEN "done" ELSE run'[r])
                   = CASE agentState[r] = "running" -> "dead"
                       [] agentState[r] = "done" -> "gone"
                       [] OTHER -> agentState[r]
              BY <1>0, <3>2 DEF agentState
          <3> QED BY <3>3 DEF agentState
      <2> QED BY <2>1, <2>2 DEF AgentStep
  <1> QED BY <1>1, <1>2, <1>3, <1>4, <1>5, <1>6, <1>7 DEF Next, Executor
=============================================================================
