-------------------------- MODULE ChatQueueProofs --------------------------
(***************************************************************************)
(* Proofs about ChatQueue, for any number of executions, messages,         *)
(* registrations, stops and restarts, with every kind of failure.          *)
(***************************************************************************)
EXTENDS ChatQueue, WellFoundedInduction, TLAPS

-----------------------------------------------------------------------------
(* Types *)

\* The execution has a message in hand.
Carries(e) ==
    \/ exec[e].pc \in {"admit", "readgen", "execute", "wait", "requeue"}
    \/ exec[e].pc = "begun" /\ exec[e].kind # "queue"

\* It is one that was sent.
InHandSent == \A e \in Execs : Carries(e) => exec[e].msg \in 1..sent

ExecRec == [pc : Pcs, kind : {"initial", "sync", "queue"}, msg : 0..MaxMsgs,
            gen : Gens, park : Parks, cancelled : BOOLEAN]

\* The pieces executions are made of.
LEMMA Pieces ==
    /\ Unparked \in Parks /\ Hard \in Parks /\ \A g \in Gens : UntilNewer(g) \in Parks
    /\ 0 \in Gens /\ 0 \in 0..MaxMsgs
    /\ IdleExec \in ExecRec
    /\ \A pc \in Pcs, p \in Parks : AtStep(pc, p) \in ExecRec
  <1>1. /\ Unparked \in Parks /\ Hard \in Parks
        /\ \A g \in Gens : UntilNewer(g) \in Parks
      BY DEF Parks
  <1>2. 0 \in Gens /\ 0 \in 0..MaxMsgs
      BY ChatQueueConstants DEF Gens
  <1>3. IdleExec \in ExecRec
      BY <1>1, <1>2 DEF IdleExec, ExecRec, Pcs
  <1>4. \A pc \in Pcs, p \in Parks : AtStep(pc, p) \in ExecRec
      BY <1>3, <1>1, <1>2 DEF AtStep, IdleExec, ExecRec
  <1> QED BY <1>1, <1>2, <1>3, <1>4

\* The oldest queued message is one of them.
LEMMA HeadIsFirst ==
    ASSUME queue \in SUBSET Msgs, queue # {}
    PROVE  Head \in queue /\ \A n \in queue : Head <= n
  <1>1. queue \subseteq Nat
      BY ChatQueueConstants DEF Msgs
  <1> DEFINE Less == {ss \in Nat \X Nat : ss[1] < ss[2]}
  <1>2. IsWellFoundedOn(Less, Nat)
      <2>1. OpToRel(<, Nat) = Less
          BY Zenon DEF OpToRel
      <2> QED BY <2>1, NatLessThanWellFounded, Zenon
  <1>3. PICK m \in queue : \A n \in queue : ~(<<n, m>> \in Less)
      BY <1>1, <1>2, WFMin
  <1>4. ASSUME NEW n \in queue
        PROVE  m <= n
      <2>1. n \in Nat /\ m \in Nat
          BY <1>1
      <2>2. n < m => <<n, m>> \in Less
          BY <2>1
      <2> QED BY <2>1, <2>2, <1>3
  <1> QED BY <1>4 DEF Head

\* A goroutine that moves from one step to another keeps the counts natural.
LEMMA GoesType ==
    ASSUME TypeOK, NEW from, NEW to, Goes(from, to),
           from \in GoSteps => gor[from] > 0
    PROVE  gor' \in [GoSteps -> Nat]
  <1> SUFFICES ASSUME NEW s \in GoSteps
               PROVE  gor[s] + (IF s = to THEN 1 ELSE 0) - (IF s = from THEN 1 ELSE 0) \in Nat
      BY DEF Goes
  <1>1. gor[s] \in Nat
      BY DEF TypeOK
  <1> QED BY <1>1

\* So does a goroutine that is started or ends.
LEMMA GoesNew ==
    ASSUME TypeOK, NEW to, Goes("", to)
    PROVE  gor' \in [GoSteps -> Nat]
  <1>1. "" \notin GoSteps
      BY DEF GoSteps
  <1> QED BY <1>1, GoesType

\* What a step does to an execution keeps its type.
LEMMA EndsType ==
    ASSUME TypeOK, NEW e \in Execs, NEW p \in Parks, Ends(e, p)
    PROVE  exec' \in [Execs -> ExecRec]
  BY Pieces DEF TypeOK, Ends, ExecRec, Pcs

\* ... also when only its step changes, ...
LEMMA ToPcType ==
    ASSUME TypeOK, NEW e \in Execs, NEW pc \in Pcs, ToPc(e, pc)
    PROVE  exec' \in [Execs -> ExecRec]
  BY DEF TypeOK, ToPc, ExecRec

\* ... when it takes a message, ...
LEMMA TakeType ==
    ASSUME exec \in [Execs -> ExecRec], NEW e \in Execs, NEW m \in 0..MaxMsgs,
           exec' = [exec EXCEPT ![e].pc = "execute", ![e].msg = m]
    PROVE  exec' \in [Execs -> ExecRec]
  <1>1. exec' = [exec EXCEPT ![e] = [exec[e] EXCEPT !.pc = "execute", !.msg = m]]
      OBVIOUS
  <1>2. [exec[e] EXCEPT !.pc = "execute", !.msg = m] \in ExecRec
      <2>1. "execute" \in Pcs
          BY DEF Pcs
      <2> QED BY <2>1, Zenon DEF ExecRec
  <1> QED BY <1>1, <1>2

\* ... or notes a generation.
LEMMA GenType ==
    ASSUME exec \in [Execs -> ExecRec], NEW e \in Execs, NEW pc \in Pcs, NEW g \in Gens,
           exec' = [exec EXCEPT ![e].pc = pc, ![e].gen = g]
    PROVE  exec' \in [Execs -> ExecRec]
  <1>1. exec' = [exec EXCEPT ![e] = [exec[e] EXCEPT !.pc = pc, !.gen = g]]
      OBVIOUS
  <1>2. [exec[e] EXCEPT !.pc = pc, !.gen = g] \in ExecRec
      BY Zenon DEF ExecRec
  <1> QED BY <1>1, <1>2

\* A new execution is well formed.
LEMMA BeginType ==
    ASSUME TypeOK, NEW e \in Execs, NEW kind \in {"initial", "sync", "queue"},
           NEW m \in 0..MaxMsgs, Begin(e, kind, m)
    PROVE  guard' \in Execs \cup {NoExec} /\ exec' \in [Execs -> ExecRec]
  <1>1. [pc |-> "begun", kind |-> kind, msg |-> m, gen |-> 0,
         park |-> Unparked, cancelled |-> stage = "ending"] \in ExecRec
      BY Pieces DEF ExecRec, Pcs
  <1>2. exec \in [Execs -> ExecRec]
      BY DEF TypeOK, ExecRec
  <1> QED BY <1>1, <1>2 DEF Begin

\* The HTTP handlers keep the types.
LEMMA UserType == ASSUME TypeOK, User PROVE TypeOK'
  <1>1. ASSUME NEW e \in Execs, NEW kind \in Triggers, TriggerMessage(e, kind)
        PROVE  TypeOK'
      <2>1. kind \in {"initial", "sync", "queue"}
          BY ChatQueueConstants
      <2>2. sent' \in 0..MaxMsgs
          BY <1>1, ChatQueueConstants DEF TypeOK, TriggerMessage
      <2>3. guard' \in Execs \cup {NoExec} /\ exec' \in [Execs -> ExecRec]
          BY <1>1, <2>1, <2>2, BeginType DEF TriggerMessage
      <2> QED BY <1>1, <2>2, <2>3
              DEF TypeOK, TriggerMessage, ExecRec, goVars, runnerVars, stopVars, bootVars
  <1>2. CASE EnqueueMessage
      <2>1. sent' \in 0..MaxMsgs /\ sent' \in Msgs
          <3>1. sent \in 0..MaxMsgs
              BY DEF TypeOK
          <3>2. sent < MaxMsgs /\ sent' = sent + 1
              BY <1>2 DEF EnqueueMessage
          <3> QED BY <3>1, <3>2, ChatQueueConstants DEF Msgs
      <2>2. gor' \in [GoSteps -> Nat]
          BY <1>2, GoesNew DEF EnqueueMessage
      <2> QED BY <1>2, <2>1, <2>2
              DEF TypeOK, EnqueueMessage, runnerVars, stopVars, bootVars
  <1>3. CASE DeleteQueued
      BY <1>3 DEF TypeOK, DeleteQueued, goVars, runnerVars, stopVars, bootVars
  <1>4. CASE StopCancel
      <2>1. exec' \in [Execs -> ExecRec]
          BY <1>4 DEF TypeOK, StopCancel, ExecRec
      <2>2. stops' \in 0..MaxStops /\ clearing' \in Nat
          BY <1>4, ChatQueueConstants DEF TypeOK, StopCancel
      <2> QED BY <1>4, <2>1, <2>2
              DEF TypeOK, StopCancel, ExecRec, goVars, runnerVars, bootVars
  <1>5. ASSUME NEW e \in Execs, CallerEnds(e) PROVE TypeOK'
      <2>1. exec' \in [Execs -> ExecRec]
          BY <1>5 DEF TypeOK, CallerEnds, ExecRec
      <2>2. ends' \in 0..MaxEnds
          BY <1>5, ChatQueueConstants DEF TypeOK, CallerEnds
      <2> QED BY <1>5, <2>1, <2>2
              DEF TypeOK, CallerEnds, ExecRec, goVars, runnerVars, bootVars
  <1> QED BY <1>1, <1>2, <1>3, <1>4, <1>5 DEF User

\* The goroutines keep the types.
LEMMA GoroutineType == ASSUME TypeOK, Goroutine PROVE TypeOK'
  <1> USE DEF runnerVars, stopVars, bootVars, goVars
  <1>1. CASE DrainLoadsPark
      <2>1. gor' \in [GoSteps -> Nat]
          <3>1. \E to \in {"online", ""} : Goes("parked", to)
              BY <1>1 DEF DrainLoadsPark
          <3> QED BY <1>1, <3>1, GoesType DEF DrainLoadsPark
      <2>2. loaded' \in [Gens -> Nat]
          <3>1. loaded \in [Gens -> Nat]
              BY DEF TypeOK
          <3>2. \/ loaded' = loaded
                \/ loaded' = [loaded EXCEPT ![park.gen] = @ + 1]
              BY <1>1 DEF DrainLoadsPark
          <3> QED BY <3>1, <3>2
      <2> QED BY <1>1, <2>1, <2>2 DEF TypeOK, DrainLoadsPark
  <1>2. ASSUME NEW g \in Gens, DrainComparesGen(g)
        PROVE  TypeOK'
      <2>1. gor' \in [GoSteps -> Nat]
          BY <1>2, GoesNew DEF DrainComparesGen
      <2>2. loaded' \in [Gens -> Nat]
          <3>1. loaded \in [Gens -> Nat]
              BY DEF TypeOK
          <3>2. loaded[g] > 0 /\ loaded' = [loaded EXCEPT ![g] = @ - 1]
              BY <1>2 DEF DrainComparesGen
          <3> QED BY <3>1, <3>2
      <2> QED BY <1>2, <2>1, <2>2 DEF TypeOK, DrainComparesGen
  <1>3. CASE DrainChecksRunner
      <2>1. gor' \in [GoSteps -> Nat]
          BY <1>3, GoesType DEF DrainChecksRunner
      <2> QED BY <1>3, <2>1 DEF TypeOK, DrainChecksRunner
  <1>4. CASE DrainPeeks
      <2>1. gor' \in [GoSteps -> Nat]
          BY <1>4, GoesType DEF DrainPeeks, FindsQueued
      <2> QED BY <1>4, <2>1 DEF TypeOK, DrainPeeks
  <1>5. CASE OnNodeOnline
      <2>1. gor' \in [GoSteps -> Nat]
          BY <1>5, GoesType DEF OnNodeOnline
      <2> QED BY <1>5, <2>1 DEF TypeOK, OnNodeOnline
  <1>6. CASE RunnerOnline
      <2>1. gor' \in [GoSteps -> Nat]
          BY <1>6, GoesType DEF RunnerOnline, FindsQueued
      <2> QED BY <1>6, <2>1 DEF TypeOK, RunnerOnline
  <1>7. CASE unparkQueue
      <2>1. gor' \in [GoSteps -> Nat]
          BY <1>7, GoesType DEF unparkQueue
      <2> QED BY <1>7, <2>1, Pieces DEF TypeOK, unparkQueue
  <1>8. CASE startQueueConsumerIfIdle
      <2>1. gor' \in [GoSteps -> Nat]
          BY <1>8, GoesType DEF startQueueConsumerIfIdle
      <2>2. guard' \in Execs \cup {NoExec} /\ exec' \in [Execs -> ExecRec]
          BY <1>8, BeginType, Pieces DEF startQueueConsumerIfIdle, TypeOK, ExecRec
      <2> QED BY <1>8, <2>1, <2>2 DEF TypeOK, startQueueConsumerIfIdle, ExecRec
  <1>9. CASE StopClear
      BY <1>9, ChatQueueConstants DEF TypeOK, StopClear, ClearQueuedMessages
  <1> QED BY <1>1, <1>2, <1>3, <1>4, <1>5, <1>6, <1>7, <1>8, <1>9 DEF Goroutine

\* The steps of an execution keep the types, given what it has in hand.
LEMMA ExecutionType ==
    ASSUME TypeOK, InHandSent, NEW e \in Execs, Execution(e)
    PROVE  TypeOK'
  <1> USE DEF runnerVars, stopVars, bootVars, goVars
  <1>0. exec \in [Execs -> ExecRec] /\ gen \in Gens
      BY DEF TypeOK, ExecRec
  <1>1. CASE BeginUnpark(e)
      <2>1. exec' \in [Execs -> ExecRec]
          BY <1>1, ToPcType DEF BeginUnpark, Pcs
      <2> QED BY <1>1, <2>1, Pieces DEF TypeOK, BeginUnpark, ExecRec
  <1>2. CASE Admit(e)
      <2>1. exec' \in [Execs -> ExecRec]
          BY <1>0, <1>2, Pieces DEF Admit, ExecRec, Pcs
      <2> QED BY <1>2, <2>1 DEF TypeOK, Admit, ExecRec
  <1>3. CASE ReadGen(e)
      <2>1. exec' \in [Execs -> ExecRec]
          BY <1>0, <1>3, GenType DEF ReadGen, Pcs
      <2> QED BY <1>3, <2>1 DEF TypeOK, ReadGen, ExecRec
  <1>4. CASE LoopTop(e)
      <2>1. CASE online
          <3>1. exec' \in [Execs -> ExecRec]
              BY <1>0, <1>4, <2>1, GenType DEF LoopTop, Pcs
          <3> QED BY <1>4, <3>1 DEF TypeOK, LoopTop, ExecRec
      <2>2. CASE ~online
          <3>1. exec' \in [Execs -> ExecRec]
              BY <1>0, <1>4, <2>2, EndsType, Pieces DEF LoopTop
          <3> QED BY <1>4, <3>1 DEF TypeOK, LoopTop, ExecRec
      <2> QED BY <2>1, <2>2
  <1>5. CASE Pop(e)
      <2>1. Head \in queue /\ queue \subseteq Msgs
          BY <1>5, HeadIsFirst DEF Pop, TypeOK
      <2>2. Head \in 0..MaxMsgs
          BY <2>1, ChatQueueConstants DEF Msgs
      <2>3. exec' \in [Execs -> ExecRec]
          BY <1>0, <1>5, <2>2, TakeType DEF Pop
      <2> QED BY <1>5, <2>1, <2>3 DEF TypeOK, Pop, ExecRec
  <1>6. CASE PopNothing(e)
      <2>1. exec' \in [Execs -> ExecRec]
          BY <1>6, ToPcType DEF PopNothing, Pcs
      <2>2. gor' \in [GoSteps -> Nat]
          BY <1>6, GoesNew DEF PopNothing, releaseExecution
      <2> QED BY <1>6, <2>1, <2>2 DEF TypeOK, PopNothing, releaseExecution, ExecRec
  <1>7. CASE Peek(e)
      <2>1. exec' \in [Execs -> ExecRec]
          BY <1>0, <1>7, Pieces DEF Peek, ExecRec, Pcs
      <2> QED BY <1>7, <2>1 DEF TypeOK, Peek, ExecRec
  <1>8. CASE Reacquire(e)
      <2>1. exec' \in [Execs -> ExecRec]
          BY <1>0, <1>8, Pieces, ToPcType DEF Reacquire, Pcs
      <2> QED BY <1>8, <2>1 DEF TypeOK, Reacquire, ExecRec
  <1>9. CASE PopAgain(e)
      <2>1. CASE queue # {} /\ queue' = queue \ {Head}
                 /\ exec' = [exec EXCEPT ![e].pc = "execute", ![e].msg = Head]
          <3>1. Head \in queue /\ queue \subseteq Msgs
              BY <2>1, HeadIsFirst DEF TypeOK
          <3>2. Head \in 0..MaxMsgs
              BY <3>1, ChatQueueConstants DEF Msgs
          <3>3. exec' \in [Execs -> ExecRec]
              BY <1>0, <2>1, <3>2, TakeType
          <3> QED BY <1>9, <2>1, <3>1, <3>3 DEF TypeOK, PopAgain, ExecRec
      <2>2. CASE ToPc(e, "top") /\ UNCHANGED queue
          <3>1. exec' \in [Execs -> ExecRec]
              BY <2>2, ToPcType DEF Pcs
          <3> QED BY <1>9, <2>2, <3>1 DEF TypeOK, PopAgain, ExecRec
      <2> QED BY <1>9, <2>1, <2>2 DEF PopAgain
  <1>10. CASE ExecuteDispatches(e)
      <2>1. exec' \in [Execs -> ExecRec]
          BY <1>10, ToPcType DEF ExecuteDispatches, Pcs
      <2> QED BY <1>10, <2>1 DEF TypeOK, ExecuteDispatches, ExecRec
  <1>11. CASE Collect(e)
      <2>1. exec' \in [Execs -> ExecRec]
          <3> DEFINE x == exec[e]
                     p == IF attempt[x.msg] = "offline" THEN UntilNewer(x.gen) ELSE Hard
          <3>1. x \in ExecRec /\ p \in Parks
              BY <1>0, Pieces DEF ExecRec
          <3>2. [AtStep("top", Unparked) EXCEPT !.cancelled = x.cancelled] \in ExecRec
              <4>1. AtStep("top", Unparked) \in ExecRec /\ x.cancelled \in BOOLEAN
                  BY <3>1, Pieces DEF ExecRec, Pcs
              <4> QED BY <4>1, Zenon DEF ExecRec
          <3>3. [AtStep("requeue", p) EXCEPT !.msg = x.msg] \in ExecRec
              <4>1. AtStep("requeue", p) \in ExecRec /\ x.msg \in 0..MaxMsgs
                  BY <3>1, Pieces DEF ExecRec, Pcs
              <4> QED BY <4>1, Zenon DEF ExecRec
          <3>4. AtStep("purge", Hard) \in ExecRec
              BY Pieces DEF Pcs
          <3>5. \/ \E q \in Parks : Ends(e, q)
                \/ exec' = [exec EXCEPT ![e] = [AtStep("top", Unparked)
                                                  EXCEPT !.cancelled = x.cancelled]]
                \/ exec' = [exec EXCEPT ![e] = AtStep("purge", Hard)]
                \/ exec' = [exec EXCEPT ![e] = [AtStep("requeue", p) EXCEPT !.msg = x.msg]]
                \/ ToPc(e, "execute")
              BY <1>11, <3>1, Pieces, Zenon DEF Collect
          <3> QED BY <1>0, <3>2, <3>3, <3>4, <3>5, EndsType, ToPcType DEF Pcs
      <2> QED BY <1>11, <2>1 DEF TypeOK, Collect, ExecRec
  <1>12. CASE Cancelled(e)
      <2>1. exec' \in [Execs -> ExecRec]
          BY <1>12, EndsType, Pieces DEF Cancelled
      <2> QED BY <1>12, <2>1 DEF TypeOK, Cancelled, ExecRec
  <1>13. CASE RequeueFront(e)
      <2>1. exec' \in [Execs -> ExecRec]
          <3>1. exec[e].park \in Parks
              BY <1>0 DEF ExecRec
          <3> QED BY <1>13, <3>1, EndsType DEF RequeueFront
      <2>2. queue' \in SUBSET Msgs
          <3>1. exec[e].msg \in 1..sent /\ sent \in 0..MaxMsgs
              BY <1>13 DEF RequeueFront, At, InHandSent, Carries, TypeOK
          <3>2. exec[e].msg \in Msgs
              BY <3>1, ChatQueueConstants DEF Msgs
          <3> QED BY <1>13, <3>2 DEF RequeueFront, TypeOK
      <2> QED BY <1>13, <2>1, <2>2 DEF TypeOK, RequeueFront, ExecRec
  <1>14. CASE Purge(e)
      <2>1. exec' \in [Execs -> ExecRec]
          BY <1>14, EndsType, Pieces DEF Purge
      <2> QED BY <1>14, <2>1 DEF TypeOK, Purge, ClearQueuedMessages, ExecRec
  <1>15. CASE GiveUp(e)
      <2>1. exec' \in [Execs -> ExecRec]
          BY <1>0, <1>15, Pieces DEF GiveUp, Pcs
      <2> QED BY <1>0, <1>15, <2>1 DEF TypeOK, GiveUp, ExecRec
  <1>16. CASE Release(e)
      <2>1. exec' \in [Execs -> ExecRec]
          BY <1>0, <1>16, Pieces DEF Release
      <2>2. gor' \in [GoSteps -> Nat]
          BY <1>16, GoesNew DEF Release, releaseExecution
      <2> QED BY <1>16, <2>1, <2>2 DEF TypeOK, Release, releaseExecution, ExecRec
  <1> QED BY <1>1, <1>2, <1>3, <1>4, <1>5, <1>6, <1>7, <1>8, <1>9, <1>10, <1>11,
             <1>12, <1>13, <1>14, <1>15, <1>16 DEF Execution

\* The failing steps of an execution keep the types.
LEMMA FailureType == ASSUME TypeOK, NEW e \in Execs, Failure(e) PROVE TypeOK'
  <1> USE DEF runnerVars, stopVars, bootVars, goVars
  <1>0. exec \in [Execs -> ExecRec]
      BY DEF TypeOK, ExecRec
  <1>1. CASE PopFails(e)
      <2>1. exec' \in [Execs -> ExecRec]
          BY <1>1, EndsType, Pieces DEF PopFails
      <2> QED BY <1>1, <2>1 DEF TypeOK, PopFails, ExecRec
  <1>2. CASE PeekFails(e)
      <2>1. exec' \in [Execs -> ExecRec]
          BY <1>2, ToPcType DEF PeekFails, Pcs
      <2> QED BY <1>2, <2>1 DEF TypeOK, PeekFails, ExecRec
  <1>3. CASE ParkLate(e)
      <2>1. exec' \in [Execs -> ExecRec]
          BY <1>0, <1>3, Pieces DEF ParkLate
      <2> QED BY <1>3, <2>1, Pieces DEF TypeOK, ParkLate, ExecRec
  <1>4. CASE ExecuteFails(e)
      <2>1. exec' \in [Execs -> ExecRec]
          BY <1>4, EndsType, Pieces DEF ExecuteFails
      <2> QED BY <1>4, <2>1 DEF TypeOK, ExecuteFails, ExecRec
  <1> QED BY <1>1, <1>2, <1>3, <1>4 DEF Failure

\* The dispatcher keeps the types.
LEMMA DispatcherType == ASSUME TypeOK, NEW m \in Msgs, Dispatcher(m) PROVE TypeOK'
  <1> USE DEF runnerVars, stopVars, bootVars, goVars
  <1>1. CASE HubDispatch(m)
      BY <1>1 DEF TypeOK, HubDispatch
  <1>2. CASE AgentEnds(m)
      BY <1>2 DEF TypeOK, AgentEnds
  <1> QED BY <1>1, <1>2 DEF Dispatcher

\* The end of the server changes nothing of an execution but its context.
LEMMA ShutdownEffect ==
    ASSUME TypeOK, Shutdown
    PROVE  /\ exec' \in [Execs -> ExecRec]
           /\ \A e \in Execs : /\ exec'[e].pc = exec[e].pc /\ exec'[e].kind = exec[e].kind
                                /\ exec'[e].msg = exec[e].msg /\ exec'[e].gen = exec[e].gen
                                /\ exec'[e].park = exec[e].park
  <1>1. exec \in [Execs -> ExecRec]
      BY DEF TypeOK, ExecRec
  <1>2. ASSUME NEW e \in Execs
        PROVE  LET x == [exec[e] EXCEPT !.cancelled = TRUE]
               IN  /\ x \in ExecRec /\ x.pc = exec[e].pc /\ x.kind = exec[e].kind
                   /\ x.msg = exec[e].msg /\ x.gen = exec[e].gen /\ x.park = exec[e].park
      <2>1. exec[e] \in ExecRec
          BY <1>1
      <2> QED BY <2>1 DEF ExecRec
  <1>3. \A e \in Execs : exec'[e] \in {exec[e], [exec[e] EXCEPT !.cancelled = TRUE]}
      BY DEF Shutdown
  <1>4. exec' = [e \in Execs |-> exec'[e]]
      BY DEF Shutdown
  <1> QED BY <1>1, <1>2, <1>3, <1>4

\* Connections, boot, shutdown and restart keep the types.
LEMMA EnvironmentType ==
    ASSUME TypeOK, Reconnect \/ Disconnect \/ Booting \/ Shutdown \/ Restart
    PROVE  TypeOK'
  <1> USE DEF runnerVars, stopVars, bootVars, goVars
  <1>1. CASE Reconnect
      <2>1. gen' \in Gens
          <3>1. gen \in 0..MaxGen /\ gen < MaxGen /\ gen' = gen + 1
              BY <1>1 DEF TypeOK, Reconnect, Gens
          <3> QED BY <3>1, ChatQueueConstants DEF Gens
      <2>2. gor' \in [GoSteps -> Nat]
          BY <1>1, GoesNew DEF Reconnect
      <2> QED BY <1>1, <2>1, <2>2 DEF TypeOK, Reconnect
  <1>2. CASE Disconnect
      BY <1>2 DEF TypeOK, Disconnect
  <1>3. CASE RecoverOrphans
      <2>1. gor' \in [GoSteps -> Nat]
          BY <1>3, GoesNew DEF RecoverOrphans, FindsQueued
      <2> QED BY <1>3, <2>1 DEF TypeOK, RecoverOrphans
  <1>4. CASE PublishServer
      BY <1>4 DEF TypeOK, PublishServer
  <1>5. CASE ResumeQueuesOfOnlineRunners
      <2>1. gor' \in [GoSteps -> Nat]
          BY <1>5, GoesNew DEF ResumeQueuesOfOnlineRunners
      <2> QED BY <1>5, <2>1 DEF TypeOK, ResumeQueuesOfOnlineRunners
  <1>6. CASE Restart
      <2>1. exec' \in [Execs -> ExecRec]
          BY <1>6, Pieces DEF Restart
      <2>2. attempt' \in [Msgs -> {"none", "asked", "live", "offline", "undispatched",
                                   "ok", "failed", "noquota"}]
          BY <1>6 DEF Restart, TypeOK
      <2>3. boots' \in 1..MaxBoots
          BY <1>6, ChatQueueConstants DEF Restart, TypeOK
      <2>4. gor' \in [GoSteps -> Nat] /\ loaded' \in [Gens -> Nat]
          BY <1>6 DEF Restart
      <2> QED BY <1>6, <2>1, <2>2, <2>3, <2>4, Pieces DEF TypeOK, Restart, ExecRec
  <1>7. CASE Shutdown
      <2>1. exec' \in [Execs -> ExecRec]
          BY <1>7, ShutdownEffect
      <2> QED BY <1>7, <2>1 DEF TypeOK, Shutdown, ExecRec
  <1> QED BY <1>1, <1>2, <1>3, <1>4, <1>5, <1>6, <1>7 DEF Booting

\* The initial state is well typed.
LEMMA InitType == Init => TypeOK
  <1> SUFFICES ASSUME Init PROVE TypeOK
      OBVIOUS
  <1>1. exec \in [Execs -> ExecRec]
      BY Pieces DEF Init
  <1>2. 0 \in 0..MaxStops /\ 0 \in 0..MaxEnds /\ 1 \in 1..MaxBoots
      BY ChatQueueConstants
  <1> QED BY <1>1, <1>2, Pieces DEF Init, TypeOK, ExecRec

\* Every step keeps the types.
LEMMA TypeStep == ASSUME TypeOK, InHandSent, [Next]_vars PROVE TypeOK'
  <1>1. CASE UNCHANGED vars
      BY <1>1 DEF TypeOK, vars, goVars, runnerVars, stopVars, bootVars
  <1> QED BY <1>1, UserType, GoroutineType, ExecutionType, FailureType, DispatcherType,
             EnvironmentType DEF Next

-----------------------------------------------------------------------------
(* The inductive invariant *)

\* What was sent bounds what is queued, in hand or dispatched.
Numbered ==
    /\ queue \subseteq 1..sent
    /\ InHandSent
    /\ \A m \in Msgs : m > sent => attempt[m] = "none"

\* What an execution has in hand is not in the queue as well.
HandNotQueued == \A e \in Execs : Carries(e) => exec[e].msg \notin queue

\* Only triggers are admitted.
Triggered == \A e \in Execs : exec[e].pc \in {"admit", "readgen"} => exec[e].kind # "queue"

\* A message on its way back to the queue reached no runner.
RequeueUnseen ==
    \A e \in Execs : At(e, "requeue") => attempt[exec[e].msg] \in {"offline", "undispatched"}

\* Neither did a queued one.
Unseen == \A m \in queue : attempt[m] \in {"none", "offline", "undispatched"}

HandInv == Numbered /\ HandNotQueued /\ Triggered /\ RequeueUnseen /\ InOrder /\ Unseen

IInv == TypeOK /\ GuardExact /\ HandInv

\* Whoever has a message in hand has the guard.
LEMMA OnlyGuard ==
    ASSUME GuardExact, NEW f \in Execs,
           Carries(f) \/ InHand(f) \/ At(f, "requeue") \/ exec[f].pc \in {"admit", "readgen"}
    PROVE  guard = f
  BY DEF GuardExact, OutsidePcs, Carries, InHand, At

\* The same after the step.
LEMMA OnlyGuardNext ==
    ASSUME GuardExact', NEW f \in Execs,
           (Carries(f) \/ InHand(f) \/ At(f, "requeue") \/ exec[f].pc \in {"admit", "readgen"})'
    PROVE  guard' = f
  BY DEF GuardExact, OutsidePcs, Carries, InHand, At

\* An execution that moves inside the guarded section keeps the guard exact.
LEMMA StaysInside ==
    ASSUME GuardExact, NEW e \in Execs, exec[e].pc \notin OutsidePcs,
           guard' = guard, exec'[e].pc \notin OutsidePcs,
           \A f \in Execs : f # e => exec'[f] = exec[f]
    PROVE  GuardExact'
  BY DEF GuardExact

\* So does one that leaves with its guard, ...
LEMMA Leaves ==
    ASSUME GuardExact, NEW e \in Execs, exec[e].pc \notin OutsidePcs,
           guard' = NoExec, exec'[e].pc \in OutsidePcs,
           \A f \in Execs : f # e => exec'[f] = exec[f]
    PROVE  GuardExact'
  BY ChatQueueConstants DEF GuardExact

\* ... one that enters with a free guard, ...
LEMMA Enters ==
    ASSUME GuardExact, NEW e \in Execs, guard = NoExec,
           guard' = e, exec'[e].pc \notin OutsidePcs,
           \A f \in Execs : f # e => exec'[f] = exec[f]
    PROVE  GuardExact'
  BY ChatQueueConstants DEF GuardExact

\* ... and one that stays outside.
LEMMA StaysOutside ==
    ASSUME GuardExact, NEW e \in Execs, exec[e].pc \in OutsidePcs,
           guard' = guard, exec'[e].pc \in OutsidePcs,
           \A f \in Execs : f # e => exec'[f] = exec[f]
    PROVE  GuardExact'
  BY DEF GuardExact

\* With nothing in hand, the rest of the invariant is about the queue.
LEMMA EmptyHanded ==
    ASSUME IInv, GuardExact', guard' \in Execs \cup {NoExec},
           \A f \in Execs : guard' = f =>
               ~(Carries(f) \/ InHand(f) \/ At(f, "requeue") \/ exec[f].pc \in {"admit", "readgen"})',
           UNCHANGED <<sent, attempt>>, queue' \subseteq queue
    PROVE  HandInv'
  <1>1. \A f \in Execs :
           ~(Carries(f) \/ InHand(f) \/ At(f, "requeue") \/ exec[f].pc \in {"admit", "readgen"})'
      BY OnlyGuardNext
  <1>2. HandNotQueued' /\ Triggered' /\ RequeueUnseen' /\ InOrder'
      BY <1>1 DEF HandNotQueued, Triggered, RequeueUnseen, InOrder
  <1>3. Numbered' /\ Unseen'
      BY <1>1 DEF IInv, HandInv, Numbered, Unseen, InHandSent
  <1> QED BY <1>2, <1>3 DEF HandInv

\* An execution that goes on with the message in its hand.
LEMMA KeepsHand ==
    ASSUME IInv, GuardExact', NEW e \in Execs, guard' = e,
           Carries(e), Carries(e)', exec'[e].msg = exec[e].msg,
           exec'[e].pc \in {"admit", "readgen"} => exec'[e].kind # "queue",
           InHand(e)' => InHand(e),
           At(e, "requeue")' => attempt[exec[e].msg] \in {"offline", "undispatched"},
           UNCHANGED <<sent, attempt, queue>>
    PROVE  HandInv'
  <1>1. \A f \in Execs : f # e =>
           ~(Carries(f) \/ InHand(f) \/ At(f, "requeue") \/ exec[f].pc \in {"admit", "readgen"})'
      BY OnlyGuardNext
  <1>2. HandNotQueued'
      BY <1>1 DEF HandNotQueued, IInv, HandInv
  <1>3. Triggered' /\ RequeueUnseen'
      BY <1>1 DEF Triggered, RequeueUnseen
  <1>4. InOrder'
      BY <1>1 DEF InOrder, IInv, HandInv
  <1>5. Numbered' /\ Unseen'
      BY <1>1 DEF IInv, HandInv, Numbered, Unseen, InHandSent
  <1> QED BY <1>2, <1>3, <1>4, <1>5 DEF HandInv

\* Steps at which an execution has a message, or may be admitted.
HandPcs == {"admit", "readgen", "execute", "wait", "requeue"}

\* At other steps it has none.
LEMMA NotInHand ==
    ASSUME NEW f, exec'[f].pc \notin HandPcs, exec'[f].pc # "begun"
    PROVE  ~(Carries(f) \/ InHand(f) \/ At(f, "requeue") \/ exec[f].pc \in {"admit", "readgen"})'
  BY DEF HandPcs, Carries, InHand, At

\* An execution that moves on inside the guarded section without a message.
LEMMA MovesOn ==
    ASSUME IInv, NEW e \in Execs, exec[e].pc \notin OutsidePcs,
           exec'[e].pc \notin OutsidePcs \cup HandPcs \cup {"begun"},
           \A f \in Execs : f # e => exec'[f] = exec[f],
           UNCHANGED <<sent, attempt, guard>>, queue' \subseteq queue
    PROVE  GuardExact' /\ HandInv'
  <1>1. GuardExact'
      BY StaysInside DEF IInv
  <1>2. guard = e
      BY DEF IInv, GuardExact
  <1> QED BY <1>1, <1>2, NotInHand, EmptyHanded

\* An execution that ends does.
LEMMA EndsInv ==
    ASSUME IInv, NEW e \in Execs, exec[e].pc \notin OutsidePcs, NEW p, Ends(e, p),
           UNCHANGED <<sent, attempt, guard>>, queue' \subseteq queue
    PROVE  GuardExact' /\ HandInv'
  <1>1. /\ exec'[e].pc \in {"release", "giveup"}
        /\ \A f \in Execs : f # e => exec'[f] = exec[f]
      BY DEF Ends, AtStep, IInv, TypeOK, IdleExec
  <1>2. exec'[e].pc \notin OutsidePcs \cup HandPcs \cup {"begun"}
      BY <1>1 DEF OutsidePcs, HandPcs
  <1> QED BY <1>1, <1>2, MovesOn

\* What taking a message does to the executions.
LEMMA TakeEffect ==
    ASSUME TypeOK, NEW e \in Execs, NEW m,
           exec' = [exec EXCEPT ![e].pc = "execute", ![e].msg = m]
    PROVE  /\ exec'[e].pc = "execute" /\ exec'[e].msg = m
           /\ \A f \in Execs : f # e => exec'[f] = exec[f]
  <1>1. exec \in [Execs -> ExecRec]
      BY DEF TypeOK, ExecRec
  <1> DEFINE x == [exec[e] EXCEPT !.pc = "execute", !.msg = m]
  <1>2. exec' = [exec EXCEPT ![e] = x]
      OBVIOUS
  <1>3. x.pc = "execute" /\ x.msg = m
      BY <1>1, Zenon DEF ExecRec
  <1> HIDE DEF x
  <1> QED BY <1>1, <1>2, <1>3

\* What noting a generation does to them.
LEMMA GenEffect ==
    ASSUME TypeOK, NEW e \in Execs, NEW pc, NEW g,
           exec' = [exec EXCEPT ![e].pc = pc, ![e].gen = g]
    PROVE  /\ exec'[e].pc = pc /\ exec'[e].msg = exec[e].msg
           /\ exec'[e].kind = exec[e].kind
           /\ \A f \in Execs : f # e => exec'[f] = exec[f]
  <1>1. exec \in [Execs -> ExecRec]
      BY DEF TypeOK, ExecRec
  <1> DEFINE x == [exec[e] EXCEPT !.pc = pc, !.gen = g]
  <1>2. exec' = [exec EXCEPT ![e] = x]
      OBVIOUS
  <1>3. x.pc = pc /\ x.msg = exec[e].msg /\ x.kind = exec[e].kind
      BY <1>1, Zenon DEF ExecRec
  <1> HIDE DEF x
  <1> QED BY <1>1, <1>2, <1>3

\* An execution that takes the head of the queue has the oldest message.
LEMMA TakesInv ==
    ASSUME IInv, NEW e \in Execs, exec[e].pc \in {"pop", "popagain"}, queue # {},
           queue' = queue \ {Head},
           exec'[e].pc = "execute", exec'[e].msg = Head,
           \A f \in Execs : f # e => exec'[f] = exec[f],
           UNCHANGED <<sent, attempt, guard>>
    PROVE  GuardExact' /\ HandInv'
  <1>0. TypeOK /\ GuardExact /\ HandInv
      BY DEF IInv
  <1>1. Head \in queue /\ (\A n \in queue : Head <= n) /\ queue \subseteq Msgs
      BY <1>0, HeadIsFirst DEF TypeOK
  <1>3. GuardExact'
      <2>1. exec[e].pc \notin OutsidePcs /\ exec'[e].pc \notin OutsidePcs
          BY DEF OutsidePcs
      <2> QED BY <1>0, <2>1, StaysInside
  <1>4. guard' = e
      BY <1>3 DEF GuardExact, OutsidePcs
  <1>5. \A f \in Execs : f # e =>
           ~(Carries(f) \/ InHand(f) \/ At(f, "requeue") \/ exec[f].pc \in {"admit", "readgen"})'
      BY <1>3, <1>4, OnlyGuardNext
  <1>6. HandNotQueued'
      <2>1. Head \notin queue'
          OBVIOUS
      <2> QED BY <1>5, <2>1 DEF HandNotQueued
  <1>7. Triggered' /\ RequeueUnseen'
      BY <1>5 DEF Triggered, RequeueUnseen, At
  <1>8. InOrder'
      <2>1. ASSUME NEW n \in queue'
            PROVE  Head < n
          <3>1. n \in Nat /\ Head \in Nat
              BY <1>1, ChatQueueConstants DEF Msgs
          <3>2. n # Head /\ Head <= n
              BY <1>1
          <3> QED BY <3>1, <3>2
      <2> QED BY <1>5, <2>1 DEF InOrder
  <1>9. Numbered' /\ Unseen'
      <2>1. Head \in 1..sent
          BY <1>0, <1>1 DEF HandInv, Numbered
      <2>2. InHandSent'
          BY <1>5, <2>1 DEF InHandSent
      <2> QED BY <1>0, <2>2 DEF HandInv, Numbered, Unseen
  <1> QED BY <1>3, <1>6, <1>7, <1>8, <1>9 DEF HandInv

\* An execution outside the guarded section stays there.
LEMMA OutsideInv ==
    ASSUME IInv, NEW e \in Execs, exec[e].pc \in OutsidePcs, exec'[e].pc \in OutsidePcs,
           \A f \in Execs : f # e => exec'[f] = exec[f],
           UNCHANGED <<sent, queue, attempt, guard>>
    PROVE  GuardExact' /\ HandInv'
  <1>0. TypeOK /\ GuardExact /\ HandInv
      BY DEF IInv
  <1>1. GuardExact'
      BY <1>0, StaysOutside
  <1>2. ~(Carries(e) \/ InHand(e) \/ At(e, "requeue") \/ exec[e].pc \in {"admit", "readgen"})'
      BY DEF OutsidePcs, Carries, InHand, At
  <1>3. \A f \in Execs : f # e => /\ Carries(f)' <=> Carries(f)
                                  /\ InHand(f)' <=> InHand(f)
                                  /\ At(f, "requeue")' <=> At(f, "requeue")
      BY DEF Carries, InHand, At
  <1>4. HandNotQueued' /\ RequeueUnseen' /\ Triggered'
      BY <1>0, <1>2, <1>3 DEF HandInv, HandNotQueued, RequeueUnseen, Triggered
  <1>5. InOrder'
      BY <1>0, <1>2, <1>3 DEF HandInv, InOrder
  <1>6. Numbered' /\ Unseen'
      BY <1>0, <1>2, <1>3 DEF HandInv, Numbered, InHandSent, Unseen
  <1> QED BY <1>1, <1>4, <1>5, <1>6 DEF HandInv

\* A dispatch marks a message that is not queued.
LEMMA DispatchInv ==
    ASSUME IInv, NEW e \in Execs, ExecuteDispatches(e)
    PROVE  GuardExact' /\ HandInv'
  <1>0. /\ TypeOK /\ GuardExact /\ HandInv
        /\ exec \in [Execs -> ExecRec]
      BY DEF IInv, TypeOK, ExecRec
  <1>1. /\ exec[e].pc = "execute" /\ exec'[e].pc = "wait"
        /\ exec'[e].kind = exec[e].kind /\ exec'[e].msg = exec[e].msg
        /\ \A f \in Execs : f # e => exec'[f] = exec[f]
        /\ UNCHANGED <<sent, queue, guard>>
      BY <1>0 DEF ExecuteDispatches, At, ToPc, ExecRec
  <1>2. GuardExact' /\ guard' = e
      <2>1. exec[e].pc \notin OutsidePcs /\ exec'[e].pc \notin OutsidePcs
          BY <1>1 DEF OutsidePcs
      <2> QED BY <1>0, <1>1, <2>1, StaysInside DEF GuardExact
  <1>3. /\ Carries(e) /\ Carries(e)' /\ ~At(e, "requeue")'
        /\ InHand(e)' => InHand(e)
      BY <1>1 DEF Carries, InHand, At
  <1>4. \A f \in Execs : f # e =>
           ~(Carries(f) \/ InHand(f) \/ At(f, "requeue") \/ exec[f].pc \in {"admit", "readgen"})'
      BY <1>2, OnlyGuardNext
  <1>5. exec[e].msg \in 1..sent /\ exec[e].msg \notin queue
      BY <1>0, <1>3 DEF HandInv, Numbered, InHandSent, HandNotQueued
  <1>6. \A m \in Msgs : m # exec[e].msg => attempt'[m] = attempt[m]
      BY <1>0 DEF ExecuteDispatches, TypeOK
  <1>7. HandNotQueued' /\ Triggered' /\ RequeueUnseen'
      BY <1>1, <1>3, <1>4, <1>5 DEF HandNotQueued, Triggered, RequeueUnseen
  <1>8. InOrder'
      BY <1>0, <1>1, <1>3, <1>4 DEF InOrder, HandInv
  <1>9. Unseen'
      BY <1>0, <1>1, <1>5, <1>6 DEF HandInv, Unseen, TypeOK
  <1>10. Numbered'
      <2>1. InHandSent'
          BY <1>1, <1>4, <1>5 DEF InHandSent
      <2>2. \A m \in Msgs : m > sent => m # exec[e].msg
          BY <1>0, <1>5, ChatQueueConstants DEF TypeOK, Msgs
      <2> QED BY <1>0, <1>1, <1>6, <2>1, <2>2 DEF HandInv, Numbered
  <1> QED BY <1>2, <1>7, <1>8, <1>9, <1>10 DEF HandInv

\* A result sends only a message that no runner has seen back to the queue.
LEMMA CollectInv ==
    ASSUME IInv, NEW e \in Execs, Collect(e)
    PROVE  GuardExact' /\ HandInv'
  <1> DEFINE x == exec[e]
             p == IF attempt[x.msg] = "offline" THEN UntilNewer(x.gen) ELSE Hard
             top == [AtStep("top", Unparked) EXCEPT !.cancelled = x.cancelled]
             back == [AtStep("requeue", p) EXCEPT !.msg = x.msg]
  <1>0. /\ TypeOK /\ GuardExact /\ HandInv
        /\ exec \in [Execs -> ExecRec]
      BY DEF IInv, TypeOK, ExecRec
  <1>1. exec[e].pc = "wait" /\ UNCHANGED <<sent, queue, attempt, guard>>
      BY DEF Collect, At
  <1>2. exec[e].pc \notin OutsidePcs
      BY <1>1 DEF OutsidePcs
  <1>3. \/ \E q \in Parks : Ends(e, q)
        \/ exec' = [exec EXCEPT ![e] = top]
        \/ exec' = [exec EXCEPT ![e] = AtStep("purge", Hard)]
        \/ /\ exec' = [exec EXCEPT ![e] = back] /\ x.kind = "queue"
           /\ attempt[x.msg] \in {"offline", "undispatched"}
        \/ ToPc(e, "execute")
      <2>1. p \in Parks /\ Hard \in Parks /\ Unparked \in Parks
          BY <1>0, Pieces DEF ExecRec
      <2>2. x.kind \in {"initial", "sync", "queue"}
          BY <1>0 DEF ExecRec
      <2> QED BY <2>1, <2>2, Zenon DEF Collect
  <1>4. CASE \E q \in Parks : Ends(e, q)
      BY <1>1, <1>2, <1>4, EndsInv
  <1>5. CASE exec' = [exec EXCEPT ![e] = top]
      <2>1. top.pc = "top"
          BY Zenon DEF AtStep, IdleExec
      <2> HIDE DEF top
      <2>2. exec'[e].pc = "top" /\ \A f \in Execs : f # e => exec'[f] = exec[f]
          BY <1>0, <1>5, <2>1
      <2> QED BY <1>1, <1>2, <2>2, MovesOn DEF OutsidePcs, HandPcs
  <1>6. CASE exec' = [exec EXCEPT ![e] = AtStep("purge", Hard)]
      <2>1. exec'[e].pc = "purge" /\ \A f \in Execs : f # e => exec'[f] = exec[f]
          BY <1>0, <1>6 DEF AtStep, IdleExec
      <2> QED BY <1>1, <1>2, <2>1, MovesOn DEF OutsidePcs, HandPcs
  <1>7. CASE /\ exec' = [exec EXCEPT ![e] = back] /\ x.kind = "queue"
             /\ attempt[x.msg] \in {"offline", "undispatched"}
      <2>1. back.pc = "requeue" /\ back.msg = x.msg
          BY Zenon DEF AtStep, IdleExec
      <2> HIDE DEF back
      <2>2. /\ exec'[e].pc = "requeue" /\ exec'[e].msg = exec[e].msg
            /\ \A f \in Execs : f # e => exec'[f] = exec[f]
          BY <1>0, <1>7, <2>1
      <2>3. GuardExact' /\ guard' = e
          <3>1. exec'[e].pc \notin OutsidePcs
              BY <2>2 DEF OutsidePcs
          <3> QED BY <1>0, <1>1, <1>2, <2>2, <3>1, StaysInside DEF GuardExact
      <2>4. Carries(e) /\ Carries(e)' /\ InHand(e)
          BY <1>1, <1>7, <2>2 DEF Carries, InHand
      <2> QED BY <1>1, <1>7, <2>2, <2>3, <2>4, KeepsHand
  <1>8. CASE ToPc(e, "execute")
      <2>1. /\ exec'[e].pc = "execute" /\ exec'[e].msg = exec[e].msg
            /\ exec'[e].kind = exec[e].kind
            /\ \A f \in Execs : f # e => exec'[f] = exec[f]
          BY <1>0, <1>8 DEF ToPc, ExecRec
      <2>2. GuardExact' /\ guard' = e
          <3>1. exec'[e].pc \notin OutsidePcs
              BY <2>1 DEF OutsidePcs
          <3> QED BY <1>0, <1>1, <1>2, <2>1, <3>1, StaysInside DEF GuardExact
      <2>3. /\ Carries(e) /\ Carries(e)' /\ ~At(e, "requeue")'
            /\ InHand(e)' => InHand(e)
          BY <1>1, <2>1 DEF Carries, InHand, At
      <2> QED BY <1>1, <2>1, <2>2, <2>3, KeepsHand
  <1> QED BY <1>3, <1>4, <1>5, <1>6, <1>7, <1>8

\* The message that goes back was sent, and no runner has seen it.
LEMMA RequeueInv ==
    ASSUME IInv, NEW e \in Execs, RequeueFront(e)
    PROVE  GuardExact' /\ HandInv'
  <1>0. /\ TypeOK /\ GuardExact /\ HandInv
        /\ exec \in [Execs -> ExecRec]
      BY DEF IInv, TypeOK, ExecRec
  <1>1. /\ exec[e].pc = "requeue" /\ UNCHANGED <<sent, attempt, guard>>
        /\ queue' \subseteq queue \cup {exec[e].msg}
        /\ Ends(e, exec[e].park)
      BY DEF RequeueFront, At
  <1>2. /\ exec'[e].pc \in {"release", "giveup"}
        /\ \A f \in Execs : f # e => exec'[f] = exec[f]
      BY <1>0, <1>1 DEF Ends, AtStep, IdleExec
  <1>3. GuardExact' /\ guard' = e
      <2>1. exec[e].pc \notin OutsidePcs /\ exec'[e].pc \notin OutsidePcs
          BY <1>1, <1>2 DEF OutsidePcs
      <2> QED BY <1>0, <1>1, <1>2, <2>1, StaysInside DEF GuardExact
  <1>4. \A f \in Execs :
           ~(Carries(f) \/ InHand(f) \/ At(f, "requeue") \/ exec[f].pc \in {"admit", "readgen"})'
      <2>1. exec'[e].pc \notin HandPcs /\ exec'[e].pc # "begun"
          BY <1>2 DEF HandPcs
      <2> QED BY <1>3, <2>1, NotInHand, OnlyGuardNext
  <1>5. exec[e].msg \in 1..sent /\ attempt[exec[e].msg] \in {"offline", "undispatched"}
      BY <1>0, <1>1 DEF HandInv, Numbered, InHandSent, Carries, RequeueUnseen, At
  <1>6. HandNotQueued' /\ Triggered' /\ RequeueUnseen' /\ InOrder'
      BY <1>4 DEF HandNotQueued, Triggered, RequeueUnseen, InOrder
  <1>7. Numbered' /\ Unseen'
      BY <1>0, <1>1, <1>4, <1>5 DEF HandInv, Numbered, Unseen, InHandSent
  <1> QED BY <1>3, <1>6, <1>7 DEF HandInv

\* The steps of an execution keep the invariant.
LEMMA ExecutionInv ==
    ASSUME IInv, NEW e \in Execs, Execution(e)
    PROVE  GuardExact' /\ HandInv'
  <1> USE DEF runnerVars, stopVars, bootVars, goVars
  <1>0. /\ TypeOK /\ GuardExact /\ HandInv
        /\ exec \in [Execs -> ExecRec]
      BY DEF IInv, TypeOK, ExecRec
  <1>1. CASE BeginUnpark(e)
      <2>1. /\ exec[e].pc \notin OutsidePcs
            /\ \A f \in Execs : f # e => exec'[f] = exec[f]
            /\ UNCHANGED <<sent, queue, attempt, guard>>
          BY <1>0, <1>1 DEF BeginUnpark, At, ToPc, OutsidePcs
      <2>2. CASE exec[e].kind = "queue"
          <3>1. exec'[e].pc = "top"
              BY <1>0, <1>1, <2>2 DEF BeginUnpark, ToPc, ExecRec
          <3> QED BY <2>1, <3>1, MovesOn DEF OutsidePcs, HandPcs
      <2>3. CASE exec[e].kind # "queue"
          <3>1. /\ exec'[e].pc = "admit" /\ exec'[e].kind = exec[e].kind
                /\ exec'[e].msg = exec[e].msg
              BY <1>0, <1>1, <2>3 DEF BeginUnpark, ToPc, ExecRec
          <3>2. GuardExact' /\ guard' = e
              <4>1. exec'[e].pc \notin OutsidePcs
                  BY <3>1 DEF OutsidePcs
              <4> QED BY <1>0, <2>1, <4>1, StaysInside DEF GuardExact
          <3>3. Carries(e) /\ Carries(e)' /\ ~InHand(e)' /\ ~At(e, "requeue")'
              BY <1>1, <2>3, <3>1 DEF BeginUnpark, Carries, InHand, At
          <3> QED BY <2>1, <2>3, <3>1, <3>2, <3>3, KeepsHand
      <2> QED BY <2>2, <2>3
  <1>2. CASE Admit(e)
      <2>1. /\ exec[e].pc = "admit" /\ exec[e].kind # "queue"
            /\ \A f \in Execs : f # e => exec'[f] = exec[f]
            /\ UNCHANGED <<sent, queue, attempt, guard>>
          BY <1>0, <1>2 DEF Admit, At, HandInv, Triggered
      <2>2. exec[e].pc \notin OutsidePcs
          BY <2>1 DEF OutsidePcs
      <2>3. CASE ~online
          <3>1. exec'[e].pc = "release"
              BY <1>0, <1>2, <2>3 DEF Admit, AtStep, IdleExec
          <3> QED BY <2>1, <2>2, <3>1, MovesOn DEF OutsidePcs, HandPcs
      <2>4. CASE online
          <3>1. /\ exec'[e].pc \in {"execute", "readgen"}
                /\ exec'[e].kind = exec[e].kind /\ exec'[e].msg = exec[e].msg
              BY <1>0, <1>2, <2>4 DEF Admit, ExecRec
          <3>2. GuardExact' /\ guard' = e
              <4>1. exec'[e].pc \notin OutsidePcs
                  BY <3>1 DEF OutsidePcs
              <4> QED BY <1>0, <2>1, <2>2, <4>1, StaysInside DEF GuardExact
          <3>3. Carries(e) /\ Carries(e)' /\ ~InHand(e)' /\ ~At(e, "requeue")'
              BY <2>1, <3>1 DEF Carries, InHand, At
          <3> QED BY <2>1, <3>1, <3>2, <3>3, KeepsHand
      <2> QED BY <2>3, <2>4
  <1>3. CASE ReadGen(e)
      <2>1. /\ exec[e].pc = "readgen" /\ exec[e].kind # "queue"
            /\ exec'[e].pc = "execute" /\ exec'[e].kind = exec[e].kind
            /\ exec'[e].msg = exec[e].msg
            /\ \A f \in Execs : f # e => exec'[f] = exec[f]
            /\ UNCHANGED <<sent, queue, attempt, guard>>
          BY <1>0, <1>3, GenEffect DEF ReadGen, At, HandInv, Triggered
      <2>2. GuardExact' /\ guard' = e
          <3>1. exec[e].pc \notin OutsidePcs /\ exec'[e].pc \notin OutsidePcs
              BY <2>1 DEF OutsidePcs
          <3> QED BY <1>0, <2>1, <3>1, StaysInside DEF GuardExact
      <2>3. Carries(e) /\ Carries(e)' /\ ~InHand(e)' /\ ~At(e, "requeue")'
          BY <2>1 DEF Carries, InHand, At
      <2> QED BY <2>1, <2>2, <2>3, KeepsHand
  <1>4. CASE LoopTop(e)
      <2>1. exec[e].pc \notin OutsidePcs /\ UNCHANGED <<sent, queue, attempt, guard>>
          BY <1>4 DEF LoopTop, At, OutsidePcs
      <2>2. CASE online
          <3>1. exec'[e].pc = "pop" /\ \A f \in Execs : f # e => exec'[f] = exec[f]
              BY <1>0, <1>4, <2>2, GenEffect DEF LoopTop
          <3> QED BY <2>1, <3>1, MovesOn DEF OutsidePcs, HandPcs
      <2>3. CASE ~online
          BY <1>4, <2>1, <2>3, EndsInv DEF LoopTop
      <2> QED BY <2>2, <2>3
  <1>5. CASE Pop(e)
      <2>1. /\ exec'[e].pc = "execute" /\ exec'[e].msg = Head
            /\ \A f \in Execs : f # e => exec'[f] = exec[f]
          BY <1>0, <1>5, TakeEffect DEF Pop
      <2>2. /\ exec[e].pc = "pop" /\ queue # {} /\ queue' = queue \ {Head}
            /\ UNCHANGED <<sent, attempt, guard>>
          BY <1>5 DEF Pop, At
      <2> QED BY <2>1, <2>2, TakesInv
  <1>6. CASE PopNothing(e)
      <2>1. /\ exec[e].pc = "pop" /\ exec'[e].pc = "peek" /\ guard' = NoExec
            /\ \A f \in Execs : f # e => exec'[f] = exec[f]
            /\ UNCHANGED <<sent, queue, attempt>>
          BY <1>0, <1>6 DEF PopNothing, At, ToPc, releaseExecution, ExecRec
      <2>2. GuardExact'
          BY <1>0, <2>1, Leaves DEF OutsidePcs
      <2> QED BY <2>1, <2>2, EmptyHanded, ChatQueueConstants
  <1>7. CASE Peek(e)
      <2>1. /\ exec[e].pc = "peek" /\ exec'[e].pc \in {"idle", "reacquire"}
            /\ \A f \in Execs : f # e => exec'[f] = exec[f]
            /\ UNCHANGED <<sent, queue, attempt, guard>>
          BY <1>0, <1>7 DEF Peek, At, ExecRec, IdleExec
      <2> QED BY <2>1, OutsideInv DEF OutsidePcs
  <1>8. CASE Reacquire(e)
      <2>1. CASE guard = NoExec
          <3>1. /\ guard' = e /\ exec'[e].pc = "popagain"
                /\ \A f \in Execs : f # e => exec'[f] = exec[f]
                /\ UNCHANGED <<sent, queue, attempt>>
              BY <1>0, <1>8, <2>1 DEF Reacquire, ToPc, ExecRec
          <3>2. GuardExact'
              BY <1>0, <2>1, <3>1, Enters DEF OutsidePcs
          <3>3. \A f \in Execs : guard' = f => exec'[f].pc \notin HandPcs /\ exec'[f].pc # "begun"
              BY <3>1 DEF HandPcs
          <3> QED BY <3>1, <3>2, <3>3, NotInHand, EmptyHanded
      <2>2. CASE guard # NoExec
          <3>1. /\ exec[e].pc = "reacquire" /\ exec'[e].pc = "idle"
                /\ \A f \in Execs : f # e => exec'[f] = exec[f]
                /\ UNCHANGED <<sent, queue, attempt, guard>>
              BY <1>0, <1>8, <2>2 DEF Reacquire, At, IdleExec
          <3> QED BY <3>1, OutsideInv DEF OutsidePcs
      <2> QED BY <2>1, <2>2
  <1>9. CASE PopAgain(e)
      <2>1. exec[e].pc = "popagain" /\ UNCHANGED <<sent, attempt, guard>>
          BY <1>9 DEF PopAgain, At
      <2>2. CASE queue # {} /\ queue' = queue \ {Head}
                 /\ exec' = [exec EXCEPT ![e].pc = "execute", ![e].msg = Head]
          <3>1. /\ exec'[e].pc = "execute" /\ exec'[e].msg = Head
                /\ \A f \in Execs : f # e => exec'[f] = exec[f]
              BY <1>0, <2>2, TakeEffect
          <3> QED BY <2>1, <2>2, <3>1, TakesInv
      <2>3. CASE ToPc(e, "top") /\ UNCHANGED queue
          <3>1. exec'[e].pc = "top" /\ \A f \in Execs : f # e => exec'[f] = exec[f]
              BY <1>0, <2>3 DEF ToPc, ExecRec
          <3> QED BY <2>1, <2>3, <3>1, MovesOn DEF OutsidePcs, HandPcs
      <2> QED BY <1>9, <2>2, <2>3 DEF PopAgain
  <1>10. CASE ExecuteDispatches(e)
      BY <1>10, DispatchInv
  <1>11. CASE Collect(e)
      BY <1>11, CollectInv
  <1>12. CASE Cancelled(e)
      <2>1. exec[e].pc \notin OutsidePcs /\ Ends(e, Hard)
            /\ UNCHANGED <<sent, queue, attempt, guard>>
          BY <1>12 DEF Cancelled, At, OutsidePcs
      <2> QED BY <2>1, EndsInv
  <1>13. CASE RequeueFront(e)
      BY <1>13, RequeueInv
  <1>14. CASE Purge(e)
      <2>1. exec[e].pc \notin OutsidePcs /\ Ends(e, Hard)
            /\ UNCHANGED <<sent, attempt, guard>> /\ queue' \subseteq queue
          BY <1>14 DEF Purge, At, OutsidePcs, ClearQueuedMessages
      <2> QED BY <2>1, EndsInv
  <1>15. CASE GiveUp(e)
      <2>1. /\ exec[e].pc = "giveup" /\ exec'[e].pc = "release"
            /\ \A f \in Execs : f # e => exec'[f] = exec[f]
            /\ UNCHANGED <<sent, queue, attempt, guard>>
          BY <1>0, <1>15 DEF GiveUp, At, AtStep, IdleExec
      <2> QED BY <2>1, MovesOn DEF OutsidePcs, HandPcs
  <1>16. CASE Release(e)
      <2>1. /\ exec[e].pc = "release" /\ exec'[e].pc = "idle" /\ guard' = NoExec
            /\ \A f \in Execs : f # e => exec'[f] = exec[f]
            /\ UNCHANGED <<sent, queue, attempt>>
          BY <1>0, <1>16 DEF Release, At, releaseExecution, IdleExec
      <2>2. GuardExact'
          BY <1>0, <2>1, Leaves DEF OutsidePcs
      <2> QED BY <2>1, <2>2, EmptyHanded, ChatQueueConstants
  <1> QED BY <1>1, <1>2, <1>3, <1>4, <1>5, <1>6, <1>7, <1>8, <1>9, <1>10, <1>11,
             <1>12, <1>13, <1>14, <1>15, <1>16 DEF Execution

\* So do its failing steps.
LEMMA FailureInv ==
    ASSUME IInv, NEW e \in Execs, Failure(e)
    PROVE  GuardExact' /\ HandInv'
  <1> USE DEF runnerVars, stopVars, bootVars, goVars
  <1>0. /\ TypeOK /\ GuardExact /\ HandInv
        /\ exec \in [Execs -> ExecRec]
      BY DEF IInv, TypeOK, ExecRec
  <1>1. CASE PopFails(e) \/ ExecuteFails(e)
      <2>1. exec[e].pc \notin OutsidePcs /\ Ends(e, Hard)
            /\ UNCHANGED <<sent, queue, attempt, guard>>
          BY <1>1 DEF PopFails, ExecuteFails, At, OutsidePcs
      <2> QED BY <2>1, EndsInv
  <1>2. CASE PeekFails(e)
      <2>1. /\ exec[e].pc = "peek" /\ exec'[e].pc = "parklate"
            /\ \A f \in Execs : f # e => exec'[f] = exec[f]
            /\ UNCHANGED <<sent, queue, attempt, guard>>
          BY <1>0, <1>2 DEF PeekFails, At, ToPc, ExecRec
      <2> QED BY <2>1, OutsideInv DEF OutsidePcs
  <1>3. CASE ParkLate(e)
      <2>1. /\ exec[e].pc = "parklate" /\ exec'[e].pc = "idle"
            /\ \A f \in Execs : f # e => exec'[f] = exec[f]
            /\ UNCHANGED <<sent, queue, attempt, guard>>
          BY <1>0, <1>3 DEF ParkLate, At, IdleExec
      <2> QED BY <2>1, OutsideInv DEF OutsidePcs
  <1> QED BY <1>1, <1>2, <1>3 DEF Failure

\* An execution that enters holds the message it was triggered with, or none.
LEMMA BeginInv ==
    ASSUME IInv, NEW e \in Execs, NEW kind, NEW m, Begin(e, kind, m),
           UNCHANGED <<queue, attempt>>,
           \/ kind = "queue" /\ UNCHANGED sent
           \/ kind # "queue" /\ sent' = sent + 1 /\ m = sent'
    PROVE  GuardExact' /\ HandInv'
  <1>0. /\ TypeOK /\ GuardExact /\ HandInv
        /\ exec \in [Execs -> ExecRec]
      BY DEF IInv, TypeOK, ExecRec
  <1>1. /\ guard = NoExec /\ guard' = e
        /\ exec'[e].pc = "begun" /\ exec'[e].kind = kind /\ exec'[e].msg = m
        /\ \A f \in Execs : f # e => exec'[f] = exec[f]
      BY <1>0 DEF Begin
  <1>2. GuardExact'
      BY <1>0, <1>1, Enters DEF OutsidePcs
  <1>3. CASE kind = "queue" /\ UNCHANGED sent
      <2>1. ~(Carries(e) \/ InHand(e) \/ At(e, "requeue") \/ exec[e].pc \in {"admit", "readgen"})'
          BY <1>1, <1>3 DEF Carries, InHand, At
      <2> QED BY <1>1, <1>2, <1>3, <2>1, EmptyHanded
  <1>4. CASE kind # "queue" /\ sent' = sent + 1 /\ m = sent'
      <2>1. \A f \in Execs : f # e =>
               ~(Carries(f) \/ InHand(f) \/ At(f, "requeue") \/ exec[f].pc \in {"admit", "readgen"})'
          BY <1>1, <1>2, OnlyGuardNext
      <2>2. ~(InHand(e) \/ At(e, "requeue") \/ exec[e].pc \in {"admit", "readgen"})'
          BY <1>1 DEF InHand, At
      <2>3. sent \in Nat /\ queue \subseteq 1..sent
          BY <1>0, ChatQueueConstants DEF TypeOK, HandInv, Numbered
      <2>4. m \notin queue /\ m \in 1..sent' /\ queue \subseteq 1..sent'
          BY <1>4, <2>3
      <2>5. HandNotQueued' /\ Triggered' /\ RequeueUnseen' /\ InOrder'
          BY <1>1, <2>1, <2>2, <2>4 DEF HandNotQueued, Triggered, RequeueUnseen, InOrder
      <2>6. \A n \in Msgs : n > sent' => n > sent
          BY <1>4, <2>3, ChatQueueConstants DEF Msgs
      <2>7. Numbered' /\ Unseen'
          BY <1>0, <1>1, <2>1, <2>4, <2>6 DEF HandInv, Numbered, Unseen, InHandSent
      <2> QED BY <1>2, <2>5, <2>7 DEF HandInv
  <1> QED BY <1>3, <1>4

\* A step that leaves the executions, the guard and the messages alone.
LEMMA AsideInv ==
    ASSUME IInv, UNCHANGED <<sent, guard, exec, attempt>>, queue' \subseteq queue
    PROVE  GuardExact' /\ HandInv'
  <1>0. TypeOK /\ GuardExact /\ HandInv
      BY DEF IInv
  <1>1. GuardExact'
      BY <1>0 DEF GuardExact
  <1>2. HandNotQueued' /\ Triggered' /\ RequeueUnseen'
      BY <1>0 DEF HandInv, HandNotQueued, Triggered, RequeueUnseen, Carries, At
  <1>3. InOrder'
      BY <1>0 DEF HandInv, InOrder, InHand
  <1>4. Numbered' /\ Unseen'
      BY <1>0 DEF HandInv, Numbered, Unseen, InHandSent, Carries
  <1> QED BY <1>1, <1>2, <1>3, <1>4 DEF HandInv

\* A step that ends contexts leaves the rest of the executions alone.
LEMMA ContextInv ==
    ASSUME GuardExact, HandInv, UNCHANGED <<sent, queue, guard, attempt>>,
           \A e \in Execs : /\ exec'[e].pc = exec[e].pc /\ exec'[e].kind = exec[e].kind
                            /\ exec'[e].msg = exec[e].msg
    PROVE  GuardExact' /\ HandInv'
  <1>1. GuardExact'
      BY DEF GuardExact
  <1>2. HandNotQueued' /\ Triggered' /\ RequeueUnseen'
      BY DEF HandInv, HandNotQueued, Triggered, RequeueUnseen, Carries, At
  <1>3. InOrder'
      BY DEF HandInv, InOrder, InHand
  <1>4. Numbered' /\ Unseen'
      BY DEF HandInv, Numbered, Unseen, InHandSent, Carries
  <1> QED BY <1>1, <1>2, <1>3, <1>4 DEF HandInv

\* The HTTP handlers keep the invariant.
LEMMA UserInv == ASSUME IInv, User PROVE GuardExact' /\ HandInv'
  <1>0. /\ TypeOK /\ GuardExact /\ HandInv
        /\ exec \in [Execs -> ExecRec]
      BY DEF IInv, TypeOK, ExecRec
  <1>1. ASSUME NEW e \in Execs, NEW kind \in Triggers, TriggerMessage(e, kind)
        PROVE  GuardExact' /\ HandInv'
      <2>1. kind # "queue"
          BY ChatQueueConstants
      <2> QED BY <1>1, <2>1, BeginInv DEF TriggerMessage
  <1>2. CASE EnqueueMessage
      <2>1. /\ UNCHANGED <<guard, exec, attempt>>
            /\ sent' = sent + 1 /\ queue' = queue \cup {sent'}
          BY <1>2 DEF EnqueueMessage
      <2>2. sent \in Nat /\ sent' \in Msgs
          <3>1. sent \in 0..MaxMsgs /\ sent < MaxMsgs
              BY <1>0, <1>2 DEF TypeOK, EnqueueMessage
          <3> QED BY <2>1, <3>1, ChatQueueConstants DEF Msgs
      <2>3. \A e \in Execs : Carries(e) => exec[e].msg \in 1..sent /\ exec[e].msg \notin queue
          BY <1>0 DEF HandInv, Numbered, InHandSent, HandNotQueued
      <2>4. GuardExact'
          BY <1>0, <2>1 DEF GuardExact
      <2>5. HandNotQueued'
          BY <2>1, <2>2, <2>3 DEF HandNotQueued, Carries
      <2>6. Triggered' /\ RequeueUnseen'
          BY <1>0, <2>1 DEF HandInv, Triggered, RequeueUnseen, At
      <2>7. InOrder'
          <3>1. \A e \in Execs : InHand(e) => Carries(e)
              BY DEF InHand, Carries
          <3>2. \A e \in Execs : InHand(e) => exec[e].msg < sent'
              BY <2>1, <2>2, <2>3, <3>1
          <3> QED BY <1>0, <2>1, <3>2 DEF HandInv, InOrder, InHand
      <2>8. Unseen' /\ Numbered'
          <3>1. attempt[sent'] = "none"
              BY <1>0, <2>1, <2>2 DEF HandInv, Numbered
          <3>2. queue' \subseteq 1..sent'
              BY <1>0, <2>1, <2>2 DEF HandInv, Numbered
          <3>3. InHandSent'
              BY <2>1, <2>2, <2>3 DEF InHandSent, Carries
          <3>4. \A n \in Msgs : n > sent' => n > sent
              BY <2>1, <2>2, ChatQueueConstants DEF Msgs
          <3> QED BY <1>0, <2>1, <3>1, <3>2, <3>3, <3>4 DEF HandInv, Unseen, Numbered
      <2> QED BY <2>4, <2>5, <2>6, <2>7, <2>8 DEF HandInv
  <1>3. CASE DeleteQueued
      BY <1>3, AsideInv DEF DeleteQueued
  <1>4. ASSUME NEW g \in Execs, exec' = [exec EXCEPT ![g].cancelled = TRUE],
               UNCHANGED <<sent, queue, guard, attempt>>
        PROVE  GuardExact' /\ HandInv'
      <2>1. /\ UNCHANGED <<sent, queue, guard, attempt>>
            /\ \A e \in Execs : /\ exec'[e].pc = exec[e].pc /\ exec'[e].kind = exec[e].kind
                                /\ exec'[e].msg = exec[e].msg
          BY <1>0, <1>4 DEF ExecRec
      <2> QED BY <1>0, <2>1, ContextInv
  <1>5. CASE StopCancel
      <2>1. guard \in Execs
          BY <1>0, <1>5 DEF StopCancel, TypeOK
      <2> QED BY <1>4, <1>5, <2>1 DEF StopCancel
  <1>6. ASSUME NEW e \in Execs, CallerEnds(e) PROVE GuardExact' /\ HandInv'
      BY <1>4, <1>6 DEF CallerEnds
  <1> QED BY <1>1, <1>2, <1>3, <1>5, <1>6 DEF User

\* The goroutines keep the invariant.
LEMMA GoroutineInv == ASSUME IInv, Goroutine PROVE GuardExact' /\ HandInv'
  <1>1. CASE startQueueConsumerIfIdle
      <2>1. ASSUME NEW e \in Execs, Begin(e, "queue", 0)
            PROVE  GuardExact' /\ HandInv'
          BY <1>1, <2>1, BeginInv DEF startQueueConsumerIfIdle
      <2>2. CASE UNCHANGED <<guard, exec>>
          BY <1>1, <2>2, AsideInv DEF startQueueConsumerIfIdle
      <2> QED BY <1>1, <2>1, <2>2 DEF startQueueConsumerIfIdle
  <1>2. CASE StopClear
      BY <1>2, AsideInv DEF StopClear, ClearQueuedMessages
  <1>3. CASE \/ DrainLoadsPark \/ (\E g \in Gens : DrainComparesGen(g))
             \/ DrainChecksRunner \/ DrainPeeks \/ OnNodeOnline \/ RunnerOnline \/ unparkQueue
      BY <1>3, AsideInv
         DEF DrainLoadsPark, DrainComparesGen, DrainChecksRunner, DrainPeeks, OnNodeOnline,
             RunnerOnline, unparkQueue
  <1> QED BY <1>1, <1>2, <1>3 DEF Goroutine

\* A dispatch that answers, or an agent that ends, is not one of a queued
\* message or of one on its way back.
LEMMA DispatcherInv == ASSUME IInv, NEW m \in Msgs, Dispatcher(m) PROVE GuardExact' /\ HandInv'
  <1>0. TypeOK /\ GuardExact /\ HandInv
      BY DEF IInv
  <1>1. /\ attempt[m] \in {"asked", "live"}
        /\ \A n \in Msgs : n # m => attempt'[n] = attempt[n]
        /\ UNCHANGED <<sent, queue, guard, exec>>
      BY <1>0 DEF Dispatcher, HubDispatch, AgentEnds, TypeOK
  <1>2. m \notin queue
      BY <1>0, <1>1 DEF HandInv, Unseen
  <1>3. GuardExact'
      BY <1>0, <1>1 DEF GuardExact
  <1>4. HandNotQueued' /\ Triggered'
      BY <1>0, <1>1 DEF HandInv, HandNotQueued, Triggered, Carries
  <1>5. RequeueUnseen'
      <2> SUFFICES ASSUME NEW e \in Execs, At(e, "requeue")'
                   PROVE  attempt'[exec'[e].msg] \in {"offline", "undispatched"}
          BY DEF RequeueUnseen
      <2>1. attempt[exec[e].msg] \in {"offline", "undispatched"} /\ exec[e].msg \in 1..sent
          BY <1>0, <1>1 DEF HandInv, RequeueUnseen, Numbered, InHandSent, Carries, At
      <2>2. exec[e].msg \in Msgs
          BY <1>0, <2>1, ChatQueueConstants DEF TypeOK, Msgs
      <2> QED BY <1>1, <2>1, <2>2
  <1>6. InOrder'
      BY <1>0, <1>1 DEF HandInv, InOrder, InHand
  <1>7. Numbered' /\ Unseen'
      <2>1. ~(m > sent)
          BY <1>0, <1>1 DEF HandInv, Numbered
      <2>2. InHandSent'
          BY <1>0, <1>1 DEF HandInv, Numbered, InHandSent, Carries
      <2> QED BY <1>0, <1>1, <1>2, <2>1, <2>2 DEF HandInv, Numbered, Unseen, TypeOK
  <1> QED BY <1>3, <1>4, <1>5, <1>6, <1>7 DEF HandInv

\* Connections, boot, shutdown and restart keep the invariant.
LEMMA EnvironmentInv ==
    ASSUME IInv, Reconnect \/ Disconnect \/ Booting \/ Shutdown \/ Restart
    PROVE  GuardExact' /\ HandInv'
  <1>0. TypeOK /\ GuardExact /\ HandInv
      BY DEF IInv
  <1>1. CASE Reconnect \/ Disconnect \/ Booting
      BY <1>1, AsideInv DEF Reconnect, Disconnect, Booting, RecoverOrphans, PublishServer,
                            ResumeQueuesOfOnlineRunners
  <1>2. CASE Restart
      <2>1. /\ guard' = NoExec /\ UNCHANGED <<sent, queue>>
            /\ \A e \in Execs : exec'[e] = IdleExec
            /\ \A m \in Msgs : attempt'[m] \in {attempt[m], "none"}
          BY <1>2 DEF Restart
      <2>2. GuardExact'
          BY <2>1, ChatQueueConstants DEF GuardExact, OutsidePcs, IdleExec
      <2>3. \A f \in Execs :
               ~(Carries(f) \/ InHand(f) \/ At(f, "requeue") \/ exec[f].pc \in {"admit", "readgen"})'
          BY <2>1, <2>2, OnlyGuardNext, ChatQueueConstants
      <2>4. HandNotQueued' /\ Triggered' /\ RequeueUnseen' /\ InOrder'
          BY <2>3 DEF HandNotQueued, Triggered, RequeueUnseen, InOrder
      <2>5. Numbered' /\ Unseen'
          BY <1>0, <2>1, <2>3 DEF HandInv, Numbered, Unseen, InHandSent, TypeOK
      <2> QED BY <2>2, <2>4, <2>5 DEF HandInv
  <1>3. CASE Shutdown
      BY <1>0, <1>3, ShutdownEffect, ContextInv DEF Shutdown
  <1> QED BY <1>1, <1>2, <1>3

\* The invariant holds initially.
LEMMA InitInv == Init => IInv
  <1> SUFFICES ASSUME Init PROVE IInv
      OBVIOUS
  <1>1. \A f \in Execs : exec[f].pc = "idle"
      BY DEF Init, IdleExec
  <1>2. GuardExact
      BY <1>1, ChatQueueConstants DEF Init, GuardExact, OutsidePcs
  <1>3. HandNotQueued /\ Triggered /\ RequeueUnseen /\ InOrder /\ Unseen /\ Numbered
      BY <1>1 DEF Init, HandNotQueued, Triggered, RequeueUnseen, InOrder, Unseen, Numbered,
                  InHandSent, Carries, InHand, At
  <1> QED BY <1>2, <1>3, InitType DEF IInv, HandInv

\* Every step keeps the invariant.
LEMMA InvStep == IInv /\ [Next]_vars => IInv'
  <1> SUFFICES ASSUME IInv, [Next]_vars PROVE IInv'
      OBVIOUS
  <1>1. TypeOK'
      BY TypeStep DEF IInv, HandInv, Numbered
  <1>2. GuardExact' /\ HandInv'
      <2>1. CASE UNCHANGED vars
          BY <2>1, AsideInv DEF vars
      <2> QED BY <2>1, UserInv, GoroutineInv, ExecutionInv, FailureInv, DispatcherInv,
                 EnvironmentInv DEF Next
  <1> QED BY <1>1, <1>2 DEF IInv

\* The inductive invariant of the chat: the properties below are parts of it.
LEMMA Invariance == Spec => []IInv
  BY InitInv, InvStep, PTL DEF Spec

-----------------------------------------------------------------------------
(* Theorems *)

\* The stores of a chat stay well formed: parks name generations the runner
\* has had, goroutine counts never go below zero.
THEOREM TypeCorrect == Spec => []TypeOK
  <1>1. IInv => TypeOK
      BY DEF IInv
  <1> QED BY <1>1, Invariance, PTL

\* The guard names exactly the execution inside the guarded section, for any
\* number of handlers, consumers, drains, stops and restarts: releaseExecution,
\* which deletes whatever guard it finds, never deletes another one's.
THEOREM GuardIsExact == Spec => []GuardExact
  <1>1. IInv => GuardExact
      BY DEF IInv
  <1> QED BY <1>1, Invariance, PTL

\* What a consumer has in hand was sent before everything in the queue, also
\* when messages are put back, withdrawn, purged or stopped.
THEOREM RunsInOrder == Spec => []InOrder
  <1>1. IInv => InOrder
      BY DEF IInv, HandInv
  <1> QED BY <1>1, Invariance, PTL

\* A message that reached the runner never is in the queue again.
THEOREM NeverReruns == Spec => []NoRerun
  <1>1. IInv => NoRerun
      BY DEF IInv, HandInv, Unseen, NoRerun
  <1> QED BY <1>1, Invariance, PTL

-----------------------------------------------------------------------------
(* No lost wake-ups *)

\* A park for the return of a runner names a registration that is over.
Stale(p) == p.hard \/ p = Unparked \/ (p.gen <= gen /\ (online => p.gen < gen))

\* So does the one an execution will leave: what it is about to park with, or
\* what it saw of the runner that turned out to be offline.
ExecStale(x) ==
    /\ Stale(x.park) /\ x.gen <= gen
    /\ x.pc = "wait" /\ attempt[x.msg] = "offline" /\ online => x.gen < gen

ParksStale == Stale(park) /\ \A e \in Execs : ExecStale(exec[e])

\* Somebody will look at the queue, or an error has parked it.
Waker ==
    \/ guard # NoExec
    \/ \E s \in GoSteps : gor[s] > 0
    \/ \E g \in Gens : loaded[g] > 0 /\ g < gen
    \/ park.hard

Watched == stage = "serving" /\ queue # {} /\ online => Waker

\* A goroutine that goes on is there.
LEMMA GoesOn ==
    ASSUME TypeOK, NEW from, NEW to \in GoSteps, from # to, Goes(from, to)
    PROVE  \E s \in GoSteps : gor'[s] > 0
  <1>1. gor'[to] = gor[to] + 1 - 0 /\ gor[to] \in Nat
      BY DEF Goes, TypeOK
  <1> QED BY <1>1

\* Whoever looks at the queue still does.
LEMMA StillWatched ==
    ASSUME Watched, UNCHANGED <<guard, gor, loaded, park, gen, online, stage>>, queue' \subseteq queue
    PROVE  Watched'
  BY DEF Watched, Waker

\* An execution inside the guarded section looks at the queue before it is over.
LEMMA InsideWatches ==
    ASSUME GuardExact, NEW e \in Execs, exec[e].pc \notin OutsidePcs, guard' = guard
    PROVE  Watched'
  BY ChatQueueConstants DEF GuardExact, Watched, Waker

\* The handlers.
LEMMA UserWatched == ASSUME IInv, Watched, User PROVE Watched'
  <1> USE DEF runnerVars, stopVars, bootVars, goVars
  <1>1. ASSUME NEW e \in Execs, NEW kind \in Triggers, TriggerMessage(e, kind) PROVE Watched'
      BY <1>1, ChatQueueConstants DEF TriggerMessage, Begin, Watched, Waker
  <1>2. CASE EnqueueMessage
      BY <1>2, GoesOn DEF EnqueueMessage, IInv, Watched, Waker, GoSteps
  <1>3. CASE DeleteQueued
      BY <1>3, StillWatched DEF DeleteQueued
  <1>4. CASE StopCancel
      BY <1>4, StillWatched DEF StopCancel
  <1>5. ASSUME NEW e \in Execs, CallerEnds(e) PROVE Watched'
      BY <1>5, StillWatched DEF CallerEnds
  <1> QED BY <1>1, <1>2, <1>3, <1>4, <1>5 DEF User

\* The goroutines hand the work to each other.
LEMMA GoroutineWatched ==
    ASSUME ~StoreErrors, IInv, ParksStale, Watched, Goroutine
    PROVE  Watched'
  <1> USE DEF runnerVars, stopVars, bootVars, goVars
  <1>0. TypeOK
      BY DEF IInv
  <1>1. CASE DrainLoadsPark
      <2>1. CASE park = Unparked
          BY <1>0, <1>1, <2>1, GoesOn DEF DrainLoadsPark, Watched, Waker, GoSteps, Unparked
      <2>2. CASE park.hard
          BY <1>1, <2>2 DEF DrainLoadsPark, Watched, Waker
      <2>3. CASE park # Unparked /\ ~park.hard
          <3>1. park.gen \in Gens /\ loaded' = [loaded EXCEPT ![park.gen] = @ + 1]
              <4>1. park \in Parks /\ park # Hard
                  BY <1>0, <2>3 DEF TypeOK, Hard
              <4>2. PICK g \in Gens : park = UntilNewer(g)
                  BY <2>3, <4>1 DEF Parks
              <4>3. loaded' = [loaded EXCEPT ![park.gen] = @ + 1]
                  BY <1>1, <2>3 DEF DrainLoadsPark
              <4> QED BY <4>2, <4>3 DEF UntilNewer
          <3>2. loaded'[park.gen] > 0
              <4>1. loaded[park.gen] \in Nat /\ loaded'[park.gen] = loaded[park.gen] + 1
                  BY <1>0, <3>1 DEF TypeOK
              <4> QED BY <4>1
          <3>3. online => park.gen < gen
              BY <2>3 DEF ParksStale, Stale
          <3> QED BY <1>1, <3>1, <3>2, <3>3 DEF DrainLoadsPark, Watched, Waker
      <2> QED BY <2>1, <2>2, <2>3
  <1>2. ASSUME NEW g \in Gens, DrainComparesGen(g) PROVE Watched'
      <2>1. CASE online /\ gen > g
          BY <1>0, <1>2, <2>1, GoesOn DEF DrainComparesGen, Watched, Waker, GoSteps
      <2>2. CASE ~(online /\ gen > g)
          <3>1. Goes("", "") /\ loaded' = [loaded EXCEPT ![g] = @ - 1]
              BY <1>2, <2>2 DEF DrainComparesGen
          <3>2. \A s \in GoSteps : gor'[s] = gor[s] + 0 - 0 /\ gor[s] \in Nat
              BY <1>0, <3>1 DEF Goes, GoSteps, TypeOK
          <3>3. \A h \in Gens : h # g => loaded'[h] = loaded[h]
              BY <1>0, <3>1 DEF TypeOK
          <3>4. ASSUME online, Waker PROVE Waker'
              <4>1. ASSUME NEW s \in GoSteps, gor[s] > 0 PROVE gor'[s] > 0
                  BY <3>2, <4>1
              <4>2. ASSUME NEW h \in Gens, loaded[h] > 0, h < gen PROVE loaded'[h] > 0 /\ h < gen
                  <5>1. h # g
                      BY <2>2, <3>4, <4>2
                  <5> QED BY <3>3, <4>2, <5>1
              <4> QED BY <1>2, <3>4, <4>1, <4>2 DEF DrainComparesGen, Waker
          <3> QED BY <1>2, <3>4 DEF DrainComparesGen, Watched
      <2> QED BY <2>1, <2>2
  <1>3. CASE DrainChecksRunner
      BY <1>0, <1>3, GoesOn DEF DrainChecksRunner, Watched, Waker, GoSteps
  <1>4. CASE DrainPeeks
      BY <1>0, <1>4, GoesOn DEF DrainPeeks, FindsQueued, Watched, Waker, GoSteps
  <1>5. CASE OnNodeOnline
      BY <1>0, <1>5, GoesOn DEF OnNodeOnline, Watched, Waker, GoSteps
  <1>6. CASE RunnerOnline
      BY <1>0, <1>6, GoesOn DEF RunnerOnline, FindsQueued, Watched, Waker, GoSteps
  <1>7. CASE unparkQueue
      BY <1>0, <1>7, GoesOn DEF unparkQueue, Watched, Waker, GoSteps
  <1>8. CASE startQueueConsumerIfIdle
      BY <1>8, ChatQueueConstants DEF startQueueConsumerIfIdle, Begin, Watched, Waker
  <1>9. CASE StopClear
      BY <1>9 DEF StopClear, ClearQueuedMessages, Watched
  <1> QED BY <1>1, <1>2, <1>3, <1>4, <1>5, <1>6, <1>7, <1>8, <1>9 DEF Goroutine

\* An execution keeps the guard until it starts a drain.
LEMMA ExecutionWatched ==
    ASSUME IInv, Watched, NEW e \in Execs, Execution(e) \/ Failure(e)
    PROVE  Watched'
  <1> USE DEF runnerVars, stopVars, bootVars, goVars
  <1>0. TypeOK /\ GuardExact
      BY DEF IInv
  <1>1. CASE \/ BeginUnpark(e) \/ Admit(e) \/ ReadGen(e) \/ LoopTop(e) \/ Pop(e) \/ PopAgain(e)
             \/ ExecuteDispatches(e) \/ Collect(e) \/ Cancelled(e) \/ RequeueFront(e)
             \/ Purge(e) \/ GiveUp(e) \/ PopFails(e) \/ ExecuteFails(e)
      <2>1. exec[e].pc \notin OutsidePcs /\ guard' = guard
          BY <1>1 DEF BeginUnpark, Admit, ReadGen, LoopTop, Pop, PopAgain, ExecuteDispatches, Collect,
                      Cancelled, RequeueFront, Purge, GiveUp, PopFails, ExecuteFails, At, OutsidePcs
      <2> QED BY <1>0, <2>1, InsideWatches
  <1>2. CASE PopNothing(e) \/ Release(e)
      BY <1>0, <1>2, GoesOn DEF PopNothing, Release, releaseExecution, Watched, Waker, GoSteps
  <1>3. CASE Peek(e) \/ PeekFails(e)
      BY <1>3, StillWatched DEF Peek, PeekFails
  <1>4. CASE ParkLate(e)
      BY <1>4 DEF ParkLate, Watched, Waker, Hard
  <1>5. CASE Reacquire(e)
      <2>1. CASE guard = NoExec
          BY <1>5, <2>1, ChatQueueConstants DEF Reacquire, Watched, Waker
      <2>2. CASE guard # NoExec
          BY <1>5, <2>2 DEF Reacquire, Watched, Waker
      <2> QED BY <2>1, <2>2
  <1> QED BY <1>1, <1>2, <1>3, <1>4, <1>5 DEF Execution, Failure

\* A registration and the last step of the start look for queues themselves.
LEMMA EnvironmentWatched ==
    ASSUME TypeOK, Watched, Reconnect \/ Disconnect \/ Booting \/ Shutdown \/ Restart
    PROVE  Watched'
  <1> USE DEF runnerVars, stopVars, bootVars, goVars
  <1>1. CASE Reconnect
      BY <1>1, GoesOn DEF Reconnect, Watched, Waker, GoSteps
  <1>2. CASE Disconnect
      BY <1>2 DEF Disconnect, Watched
  <1>3. CASE RecoverOrphans \/ PublishServer \/ Shutdown \/ Restart
      BY <1>3 DEF RecoverOrphans, PublishServer, Shutdown, Restart, Watched
  <1>4. CASE ResumeQueuesOfOnlineRunners
      BY <1>4, GoesOn DEF ResumeQueuesOfOnlineRunners, Watched, Waker, GoSteps
  <1> QED BY <1>1, <1>2, <1>3, <1>4 DEF Booting

\* Parks that an error or nobody left are of no registration.
LEMMA PlainParks == Stale(Unparked) /\ Stale(Hard)
  BY DEF Stale, Hard

\* A step of one execution, which leaves a park like that.
LEMMA OneStale ==
    ASSUME ParksStale, NEW e \in Execs, Stale(park'), ExecStale(exec'[e]),
           \A f \in Execs : f # e => exec'[f] = exec[f],
           UNCHANGED <<attempt, online, gen>>
    PROVE  ParksStale'
  <1>1. \A f \in Execs : ExecStale(exec'[f])
      BY DEF ParksStale
  <1> QED BY <1>1 DEF ParksStale, ExecStale, Stale

\* Steps of others.
LEMMA NoneStale ==
    ASSUME ParksStale, Stale(park'), UNCHANGED <<exec, attempt, online, gen>>
    PROVE  ParksStale'
  BY DEF ParksStale, ExecStale, Stale

\* An execution that goes to a step with nothing in hand, ...
LEMMA AtStepStale ==
    ASSUME TypeOK, NEW pc, pc # "wait", NEW p, Stale(p)
    PROVE  /\ ExecStale(AtStep(pc, p))
           /\ \A c : ExecStale([AtStep(pc, p) EXCEPT !.cancelled = c])
           /\ \A m : ExecStale([AtStep(pc, p) EXCEPT !.msg = m])
  <1>1. 0 <= gen
      BY ChatQueueConstants DEF TypeOK, Gens
  <1>2. ASSUME NEW x, x.pc = pc, x.gen = 0, x.park = p
        PROVE  ExecStale(x)
      BY <1>1, <1>2 DEF ExecStale
  <1>3. LET x == AtStep(pc, p) IN x.pc = pc /\ x.gen = 0 /\ x.park = p
      BY DEF AtStep, IdleExec
  <1>4. ASSUME NEW c
        PROVE  LET x == [AtStep(pc, p) EXCEPT !.cancelled = c]
               IN  x.pc = pc /\ x.gen = 0 /\ x.park = p
      BY DEF AtStep, IdleExec
  <1>5. ASSUME NEW m
        PROVE  LET x == [AtStep(pc, p) EXCEPT !.msg = m]
               IN  x.pc = pc /\ x.gen = 0 /\ x.park = p
      BY DEF AtStep, IdleExec
  <1> QED BY <1>2, <1>3, <1>4, <1>5

\* ... or ends, ...
LEMMA EndsStale ==
    ASSUME TypeOK, ParksStale, NEW e \in Execs, NEW p, Stale(p), Ends(e, p),
           UNCHANGED <<park, attempt, online, gen>>
    PROVE  ParksStale'
  <1>1. \/ exec'[e] = AtStep("release", Unparked)
        \/ exec'[e] = AtStep("giveup", p)
      BY DEF Ends, TypeOK
  <1>2. \A f \in Execs : f # e => exec'[f] = exec[f]
      BY DEF Ends, TypeOK
  <1>3. ExecStale(exec'[e])
      BY <1>1, AtStepStale, PlainParks
  <1> QED BY <1>2, <1>3, OneStale DEF ParksStale

\* ... or moves on with what it has, and perhaps takes a message or the
\* generation of now.
LEMMA MovesStale ==
    ASSUME TypeOK, ParksStale, NEW e \in Execs, Stale(park'),
           exec'[e].park = exec[e].park, exec'[e].gen \in {exec[e].gen, gen},
           exec'[e].pc # "wait" \/ exec'[e] = exec[e],
           \A f \in Execs : f # e => exec'[f] = exec[f],
           UNCHANGED <<attempt, online, gen>>
    PROVE  ParksStale'
  <1>1. gen \in Nat
      BY ChatQueueConstants DEF TypeOK, Gens
  <1>2. ExecStale(exec'[e])
      BY <1>1 DEF ParksStale, ExecStale
  <1> QED BY <1>2, OneStale

\* What a step does to an execution whose step changes.
LEMMA ToPcEffect ==
    ASSUME TypeOK, NEW e \in Execs, NEW pc, ToPc(e, pc)
    PROVE  /\ exec'[e].pc = pc /\ exec'[e].msg = exec[e].msg
           /\ exec'[e].park = exec[e].park /\ exec'[e].gen = exec[e].gen
           /\ exec'[e].kind = exec[e].kind /\ exec'[e].cancelled = exec[e].cancelled
           /\ \A f \in Execs : f # e => exec'[f] = exec[f]
  BY DEF TypeOK, ToPc

\* Taking a message leaves the rest of an execution alone, ...
LEMMA TakeKeeps ==
    ASSUME TypeOK, NEW e \in Execs, NEW m,
           exec' = [exec EXCEPT ![e].pc = "execute", ![e].msg = m]
    PROVE  exec'[e].park = exec[e].park /\ exec'[e].gen = exec[e].gen
           /\ exec'[e].cancelled = exec[e].cancelled
  <1>1. exec \in [Execs -> ExecRec]
      BY DEF TypeOK, ExecRec
  <1> DEFINE x == [exec[e] EXCEPT !.pc = "execute", !.msg = m]
  <1>2. exec' = [exec EXCEPT ![e] = x]
      OBVIOUS
  <1>3. x.park = exec[e].park /\ x.gen = exec[e].gen /\ x.cancelled = exec[e].cancelled
      BY <1>1, Zenon DEF ExecRec
  <1> HIDE DEF x
  <1> QED BY <1>1, <1>2, <1>3

\* ... so does noting a generation.
LEMMA NoteKeeps ==
    ASSUME TypeOK, NEW e \in Execs, NEW pc, NEW g,
           exec' = [exec EXCEPT ![e].pc = pc, ![e].gen = g]
    PROVE  exec'[e].park = exec[e].park /\ exec'[e].gen = g
           /\ exec'[e].cancelled = exec[e].cancelled
  <1>1. exec \in [Execs -> ExecRec]
      BY DEF TypeOK, ExecRec
  <1> DEFINE x == [exec[e] EXCEPT !.pc = pc, !.gen = g]
  <1>2. exec' = [exec EXCEPT ![e] = x]
      OBVIOUS
  <1>3. x.park = exec[e].park /\ x.gen = g /\ x.cancelled = exec[e].cancelled
      BY <1>1, Zenon DEF ExecRec
  <1> HIDE DEF x
  <1> QED BY <1>1, <1>2, <1>3

\* A new execution has seen nothing yet.
LEMMA BeginStale ==
    ASSUME TypeOK, ParksStale, NEW e \in Execs, NEW kind, NEW m, Begin(e, kind, m),
           UNCHANGED <<park, attempt, online, gen>>
    PROVE  ParksStale'
  <1>1. exec'[e] = [pc |-> "begun", kind |-> kind, msg |-> m, gen |-> 0,
                    park |-> Unparked, cancelled |-> stage = "ending"]
        /\ \A f \in Execs : f # e => exec'[f] = exec[f]
      BY DEF Begin, TypeOK
  <1>2. 0 <= gen
      BY ChatQueueConstants DEF TypeOK, Gens
  <1>3. ExecStale(exec'[e])
      BY <1>1, <1>2, PlainParks DEF ExecStale
  <1> QED BY <1>1, <1>3, OneStale DEF ParksStale

\* Collecting an answer: only the runner that was offline parks until it is
\* back, and then the generation is the one the execution saw.
LEMMA CollectStale ==
    ASSUME TypeOK, ParksStale, NEW e \in Execs, Collect(e)
    PROVE  ParksStale'
  <1> DEFINE x == exec[e]
             p == IF attempt[x.msg] = "offline" THEN UntilNewer(x.gen) ELSE Hard
  <1>1. At(e, "wait") /\ ExecStale(x) /\ UNCHANGED <<park, attempt, online, gen>>
      BY DEF Collect, ParksStale, runnerVars
  <1>2. Stale(p)
      BY <1>1, PlainParks DEF ExecStale, Stale, UntilNewer, At
  <1>3. ASSUME NEW y, exec' = [exec EXCEPT ![e] = y], ExecStale(y)
        PROVE  ParksStale'
      <2>1. exec'[e] = y /\ \A f \in Execs : f # e => exec'[f] = exec[f]
          BY <1>3 DEF TypeOK
      <2>2. Stale(park')
          BY <1>1 DEF ParksStale
      <2> QED BY <1>1, <1>3, <2>1, <2>2, OneStale
  <1>4. ASSUME NEW q, Stale(q), Ends(e, q) PROVE ParksStale'
      BY <1>1, <1>4, EndsStale
  <1>5. CASE exec' = [exec EXCEPT ![e] = [AtStep("top", Unparked) EXCEPT !.cancelled = x.cancelled]]
      BY <1>3, <1>5, AtStepStale, PlainParks
  <1>6. CASE exec' = [exec EXCEPT ![e] = AtStep("purge", Hard)]
      BY <1>3, <1>6, AtStepStale, PlainParks
  <1>7. CASE exec' = [exec EXCEPT ![e] = [AtStep("requeue", p) EXCEPT !.msg = x.msg]]
      <2> HIDE DEF p
      <2> QED BY <1>2, <1>3, <1>7, AtStepStale
  <1>8. CASE ToPc(e, "execute")
      <2>1. Stale(park')
          BY <1>1 DEF ParksStale
      <2>2. exec'[e].pc = "execute" /\ exec'[e].park = exec[e].park
            /\ exec'[e].gen = exec[e].gen /\ \A f \in Execs : f # e => exec'[f] = exec[f]
          BY <1>8, ToPcEffect
      <2>3. ExecStale(exec'[e])
          BY <1>1, <2>2 DEF ExecStale
      <2> QED BY <1>1, <2>1, <2>2, <2>3, OneStale
  <1>9. CASE Ends(e, Unparked) \/ Ends(e, Hard)
      BY <1>4, <1>9, PlainParks
  <1>10. CASE Ends(e, p)
      BY <1>2, <1>4, <1>10
  <1> QED BY <1>5, <1>6, <1>7, <1>8, <1>9, <1>10 DEF Collect

\* A dispatch is of a message that was sent.
LEMMA DispatchStale ==
    ASSUME IInv, ParksStale, NEW e \in Execs, ExecuteDispatches(e)
    PROVE  ParksStale'
  <1> DEFINE m == exec[e].msg
  <1>0. TypeOK
      BY DEF IInv
  <1>1. m \in Msgs
      BY ChatQueueConstants
         DEF ExecuteDispatches, At, IInv, TypeOK, HandInv, Numbered, InHandSent, Carries, Msgs
  <1>2. /\ exec'[e].pc = "wait" /\ exec'[e].msg = m
        /\ exec'[e].park = exec[e].park /\ exec'[e].gen = exec[e].gen
        /\ \A f \in Execs : f # e => exec'[f] = exec[f]
      BY <1>0, ToPcEffect DEF ExecuteDispatches
  <1>3. attempt'[m] # "offline"
      BY <1>0, <1>1 DEF ExecuteDispatches, TypeOK
  <1>4. \A f \in Execs : f # e => exec[f].pc # "wait"
      BY DEF ExecuteDispatches, At, IInv, GuardExact, OutsidePcs
  <1>5. UNCHANGED <<park, online, gen>>
      BY DEF ExecuteDispatches, runnerVars
  <1> QED BY <1>2, <1>3, <1>4, <1>5 DEF ParksStale, ExecStale, Stale

\* An execution parks the queue with what it saw, or for good.
LEMMA ExecutionStale ==
    ASSUME IInv, ParksStale, NEW e \in Execs, Execution(e) \/ Failure(e)
    PROVE  ParksStale'
  <1> USE DEF runnerVars, stopVars, bootVars, goVars
  <1>0. TypeOK /\ ExecStale(exec[e]) /\ Stale(park)
      BY DEF IInv, ParksStale
  <1>a. ASSUME NEW pc, pc # "wait", ToPc(e, pc), Stale(park'), UNCHANGED <<attempt, online, gen>>
        PROVE  ParksStale'
      <2>1. exec'[e].pc = pc /\ exec'[e].park = exec[e].park
            /\ exec'[e].gen = exec[e].gen /\ \A f \in Execs : f # e => exec'[f] = exec[f]
          BY <1>0, <1>a, ToPcEffect
      <2>2. ExecStale(exec'[e])
          BY <1>0, <1>a, <2>1 DEF ExecStale
      <2> QED BY <1>a, <2>1, <2>2, OneStale
  <1>b. ASSUME NEW y, exec' = [exec EXCEPT ![e] = y], ExecStale(y), Stale(park'),
               UNCHANGED <<attempt, online, gen>>
        PROVE  ParksStale'
      <2>1. exec'[e] = y /\ \A f \in Execs : f # e => exec'[f] = exec[f]
          BY <1>0, <1>b DEF TypeOK
      <2> QED BY <1>b, <2>1, OneStale
  <1>c. ExecStale(IdleExec)
      BY <1>0, PlainParks, ChatQueueConstants DEF ExecStale, IdleExec, TypeOK, Gens
  <1>d. ASSUME NEW pc, pc # "wait", exec' = [exec EXCEPT ![e].pc = pc, ![e].gen = gen],
               UNCHANGED <<park, attempt, online, gen>>
        PROVE  ParksStale'
      <2>1. exec'[e].pc = pc /\ exec'[e].park = exec[e].park
            /\ exec'[e].gen = gen /\ \A f \in Execs : f # e => exec'[f] = exec[f]
          <3>1. TypeOK
              BY <1>0
          <3>2. exec' = [exec EXCEPT ![e].pc = pc, ![e].gen = gen]
              BY <1>d
          <3>3. exec'[e].park = exec[e].park /\ exec'[e].gen = gen
              BY <3>1, <3>2, NoteKeeps
          <3>4. exec'[e].pc = pc /\ \A f \in Execs : f # e => exec'[f] = exec[f]
              BY <3>1, <3>2, GenEffect
          <3> QED BY <3>3, <3>4
      <2>2. ExecStale(exec'[e])
          BY <1>0, <1>d, <2>1 DEF ExecStale, TypeOK, Gens
      <2> QED BY <1>0, <1>d, <2>1, <2>2, OneStale
  <1>e. ASSUME NEW m, exec' = [exec EXCEPT ![e].pc = "execute", ![e].msg = m],
               UNCHANGED <<park, attempt, online, gen>>
        PROVE  ParksStale'
      <2>1. exec'[e].pc = "execute" /\ exec'[e].park = exec[e].park
            /\ exec'[e].gen = exec[e].gen /\ \A f \in Execs : f # e => exec'[f] = exec[f]
          BY <1>0, <1>e, TakeKeeps, TakeEffect
      <2>2. ExecStale(exec'[e])
          BY <1>0, <1>e, <2>1 DEF ExecStale
      <2> QED BY <1>0, <1>e, <2>1, <2>2, OneStale
  <1>1. CASE BeginUnpark(e)
      <2> DEFINE pc == IF exec[e].kind = "queue" THEN "top" ELSE "admit"
      <2>1. pc # "wait" /\ ToPc(e, pc) /\ park' = Unparked
          BY <1>1 DEF BeginUnpark
      <2> HIDE DEF pc
      <2> QED BY <1>1, <2>1, <1>a, PlainParks DEF BeginUnpark
  <1>2. CASE Admit(e)
      <2>1. ExecStale(AtStep("release", Unparked))
          BY <1>0, AtStepStale, PlainParks
      <2>2. \A pc \in {"execute", "readgen"} : ExecStale([exec[e] EXCEPT !.pc = pc])
          <3>1. exec[e] \in ExecRec
              BY <1>0 DEF TypeOK, ExecRec
          <3> QED BY <1>0, <3>1 DEF ExecStale, ExecRec
      <2>3. PICK y \in {AtStep("release", Unparked), [exec[e] EXCEPT !.pc = "execute"],
                        [exec[e] EXCEPT !.pc = "readgen"]} : exec' = [exec EXCEPT ![e] = y]
          BY <1>0, <1>2 DEF Admit, TypeOK
      <2> QED BY <1>0, <1>2, <1>b, <2>1, <2>2, <2>3 DEF Admit
  <1>3. CASE ReadGen(e)
      BY <1>3, <1>d DEF ReadGen
  <1>4. CASE LoopTop(e)
      <2>1. CASE online
          BY <1>4, <2>1, <1>d DEF LoopTop
      <2>2. CASE ~online
          <3>1. Stale(UntilNewer(gen))
              BY <1>0, <2>2 DEF Stale, UntilNewer, TypeOK, Gens
          <3> QED BY <1>0, <1>4, <2>2, <3>1, EndsStale DEF LoopTop
      <2> QED BY <2>1, <2>2
  <1>5. CASE Pop(e)
      BY <1>5, <1>e DEF Pop
  <1>6. CASE PopNothing(e)
      BY <1>0, <1>6, <1>a DEF PopNothing, releaseExecution
  <1>7. CASE Peek(e)
      <2>1. ExecStale([exec[e] EXCEPT !.pc = "reacquire"])
          <3>1. exec[e] \in ExecRec
              BY <1>0 DEF TypeOK, ExecRec
          <3> QED BY <1>0, <3>1 DEF ExecStale, ExecRec
      <2>2. PICK y \in {IdleExec, [exec[e] EXCEPT !.pc = "reacquire"]} : exec' = [exec EXCEPT ![e] = y]
          BY <1>0, <1>7 DEF Peek, TypeOK
      <2> QED BY <1>0, <1>7, <1>b, <1>c, <2>1, <2>2 DEF Peek
  <1>8. CASE Reacquire(e)
      BY <1>0, <1>8, <1>a, <1>b, <1>c DEF Reacquire
  <1>9. CASE PopAgain(e)
      <2>1. UNCHANGED <<park, attempt, online, gen>>
          BY <1>9 DEF PopAgain
      <2>2. CASE exec' = [exec EXCEPT ![e].pc = "execute", ![e].msg = Head]
          BY <2>1, <2>2, <1>e
      <2>3. CASE ToPc(e, "top")
          BY <1>0, <2>1, <2>3, <1>a
      <2> QED BY <1>9, <2>2, <2>3 DEF PopAgain
  <1>10. CASE ExecuteDispatches(e)
      BY <1>10, DispatchStale
  <1>11. CASE Collect(e)
      BY <1>0, <1>11, CollectStale
  <1>12. CASE Cancelled(e) \/ Purge(e) \/ PopFails(e) \/ ExecuteFails(e)
      <2>1. Ends(e, Hard) /\ UNCHANGED <<park, attempt, online, gen>>
          BY <1>12 DEF Cancelled, Purge, PopFails, ExecuteFails
      <2> QED BY <1>0, <2>1, PlainParks, EndsStale
  <1>13. CASE RequeueFront(e)
      <2>1. Ends(e, exec[e].park) /\ UNCHANGED <<park, attempt, online, gen>>
          BY <1>13 DEF RequeueFront
      <2>2. Stale(exec[e].park)
          BY <1>0 DEF ExecStale
      <2> QED BY <1>0, <2>1, <2>2, EndsStale
  <1>14. CASE GiveUp(e)
      <2>1. Stale(park')
          BY <1>0, <1>14 DEF GiveUp, ExecStale, Stale
      <2> QED BY <1>0, <1>14, <1>b, <2>1, AtStepStale, PlainParks DEF GiveUp
  <1>15. CASE Release(e)
      BY <1>0, <1>15, <1>b, <1>c DEF Release
  <1>16. CASE PeekFails(e)
      BY <1>0, <1>16, <1>a DEF PeekFails
  <1>17. CASE ParkLate(e)
      <2>1. Stale(park')
          BY <1>17, PlainParks DEF ParkLate, Stale
      <2> QED BY <1>17, <1>b, <1>c, <2>1 DEF ParkLate
  <1> QED BY <1>1, <1>2, <1>3, <1>4, <1>5, <1>6, <1>7, <1>8, <1>9, <1>10, <1>11, <1>12, <1>13,
             <1>14, <1>15, <1>16, <1>17 DEF Execution, Failure

\* Handlers and goroutines at most lift the park or begin an execution.
LEMMA OthersStale ==
    ASSUME IInv, ParksStale, User \/ Goroutine
    PROVE  ParksStale'
  <1> USE DEF runnerVars, stopVars, bootVars, goVars
  <1>0. TypeOK /\ Stale(park)
      BY DEF IInv, ParksStale
  <1>1. ASSUME NEW e \in Execs, NEW kind, NEW m, Begin(e, kind, m),
               UNCHANGED <<park, attempt, online, gen>>
        PROVE  ParksStale'
      BY <1>0, <1>1, BeginStale
  <1>2. ASSUME Stale(park'), UNCHANGED <<exec, attempt, online, gen>> PROVE ParksStale'
      BY <1>2, NoneStale
  <1>3. ASSUME NEW e \in Execs, NEW kind \in Triggers, TriggerMessage(e, kind) PROVE ParksStale'
      BY <1>1, <1>3 DEF TriggerMessage
  <1>c. ASSUME NEW g \in Execs, exec' = [exec EXCEPT ![g].cancelled = TRUE],
               UNCHANGED <<park, attempt, online, gen>>
        PROVE  ParksStale'
      <2>2. exec[g] \in ExecRec
          BY <1>0 DEF TypeOK, ExecRec
      <2>3. ExecStale([exec[g] EXCEPT !.cancelled = TRUE])
          BY <2>2 DEF ParksStale, ExecStale, ExecRec
      <2>4. exec' = [exec EXCEPT ![g] = [exec[g] EXCEPT !.cancelled = TRUE]]
          BY <1>c
      <2>5. exec'[g] = [exec[g] EXCEPT !.cancelled = TRUE]
            /\ \A f \in Execs : f # g => exec'[f] = exec[f]
          BY <1>0, <2>4 DEF TypeOK
      <2>6. ExecStale(exec'[g])
          BY <2>3, <2>5
      <2>7. Stale(park') /\ UNCHANGED <<attempt, online, gen>>
          BY <1>0, <1>c DEF Stale
      <2> QED BY <2>5, <2>6, <2>7, OneStale
  <1>4. CASE StopCancel
      <2>1. guard \in Execs
          BY <1>0, <1>4 DEF StopCancel, TypeOK
      <2> QED BY <1>4, <1>c, <2>1 DEF StopCancel
  <1>9. ASSUME NEW e \in Execs, CallerEnds(e) PROVE ParksStale'
      BY <1>9, <1>c DEF CallerEnds
  <1>5. CASE EnqueueMessage \/ DeleteQueued
      BY <1>0, <1>2, <1>5 DEF EnqueueMessage, DeleteQueued, Stale
  <1>6. CASE unparkQueue
      BY <1>2, <1>6, PlainParks DEF unparkQueue, Stale
  <1>7. CASE startQueueConsumerIfIdle
      <2>1. Stale(park') /\ UNCHANGED <<park, attempt, online, gen>>
          BY <1>0, <1>7 DEF startQueueConsumerIfIdle, Stale
      <2>2. CASE \E e \in Execs : Begin(e, "queue", 0)
          BY <1>1, <2>1, <2>2
      <2>3. CASE UNCHANGED exec
          BY <1>2, <2>1, <2>3
      <2> QED BY <1>7, <2>2, <2>3 DEF startQueueConsumerIfIdle
  <1>8. CASE \/ DrainLoadsPark \/ (\E g \in Gens : DrainComparesGen(g)) \/ DrainChecksRunner
             \/ DrainPeeks \/ OnNodeOnline \/ RunnerOnline \/ StopClear
      <2>1. UNCHANGED <<park, exec, attempt, online, gen>>
          BY <1>8 DEF DrainLoadsPark, DrainComparesGen, DrainChecksRunner, DrainPeeks, OnNodeOnline,
                      RunnerOnline, StopClear
      <2>2. Stale(park')
          BY <1>0, <2>1 DEF Stale
      <2> QED BY <1>2, <2>1, <2>2
  <1> QED BY <1>3, <1>4, <1>5, <1>6, <1>7, <1>8, <1>9 DEF User, Goroutine

\* A dispatch finds the runner offline only while it is, and a registration has
\* a generation of its own.
LEMMA EnvironmentStale ==
    ASSUME IInv, ParksStale,
           (\E m \in Msgs : Dispatcher(m)) \/ Reconnect \/ Disconnect \/ Booting \/ Shutdown \/ Restart
    PROVE  ParksStale'
  <1> USE DEF runnerVars, stopVars, bootVars, goVars
  <1>0. gen \in Nat /\ online \in BOOLEAN /\ Stale(park) /\ \A e \in Execs : ExecStale(exec[e])
      BY ChatQueueConstants DEF IInv, TypeOK, Gens, ParksStale
  <1>1. ASSUME NEW m \in Msgs, Dispatcher(m) PROVE ParksStale'
      <2>1. UNCHANGED <<park, exec, online, gen>>
          BY <1>1 DEF Dispatcher, HubDispatch, AgentEnds
      <2>2. PICK a : attempt' = [attempt EXCEPT ![m] = a] /\ (a = "offline" => ~online)
          BY <1>1 DEF Dispatcher, HubDispatch, AgentEnds
      <2>3. \A n \in Msgs : attempt'[n] = "offline" /\ online => attempt[n] = "offline"
          BY <2>2, Zenon DEF IInv, TypeOK
      <2>4. \A e \in Execs : exec[e].pc = "wait" => exec[e].msg \in Msgs
          BY ChatQueueConstants DEF IInv, TypeOK, HandInv, Numbered, InHandSent, Carries, Msgs
      <2> QED BY <2>1, <2>3, <2>4 DEF ParksStale, ExecStale, Stale
  <1>2. CASE Reconnect
      <2>1. UNCHANGED <<park, exec, attempt>> /\ gen' = gen + 1
          BY <1>2 DEF Reconnect
      <2>2. park \in Parks /\ \A e \in Execs : exec[e].gen \in Gens /\ exec[e].park \in Parks
          BY DEF IInv, TypeOK
      <2>3. \A p \in Parks : Stale(p) => Stale(p)'
          <3>1. \A p \in Parks : p.gen \in Nat
              BY ChatQueueConstants DEF Parks, Unparked, Hard, UntilNewer, Gens
          <3> QED BY <1>0, <2>1, <3>1 DEF Stale
      <2>4. \A e \in Execs : ExecStale(exec[e])'
          BY <1>0, <2>1, <2>2, <2>3 DEF ExecStale, Gens
      <2> QED BY <1>0, <2>1, <2>2, <2>3, <2>4 DEF ParksStale
  <1>3. CASE Disconnect
      BY <1>0, <1>3 DEF Disconnect, ParksStale, ExecStale, Stale
  <1>4. CASE Booting
      BY <1>4, NoneStale, <1>0
         DEF Booting, RecoverOrphans, PublishServer, ResumeQueuesOfOnlineRunners, Stale
  <1>5. CASE Restart
      <2>1. park' = Unparked /\ gen' = 0 /\ exec' = [e \in Execs |-> IdleExec]
          BY <1>5 DEF Restart
      <2>2. IdleExec.gen = 0 /\ IdleExec.park = Unparked /\ IdleExec.pc = "idle"
          BY DEF IdleExec
      <2> QED BY <2>1, <2>2 DEF ParksStale, ExecStale, Stale
  <1>6. CASE Shutdown
      <2>1. \A e \in Execs : /\ exec'[e].pc = exec[e].pc /\ exec'[e].msg = exec[e].msg
                             /\ exec'[e].gen = exec[e].gen /\ exec'[e].park = exec[e].park
          BY <1>6, ShutdownEffect DEF IInv
      <2>2. UNCHANGED <<park, attempt, online, gen>>
          BY <1>6 DEF Shutdown
      <2> QED BY <1>0, <2>1, <2>2 DEF ParksStale, ExecStale, Stale
  <1> QED BY <1>1, <1>2, <1>3, <1>4, <1>5, <1>6

\* The two together, with the invariant of the guard, are inductive.
WakeInv == IInv /\ ParksStale /\ Watched

LEMMA WakeInvariance == ASSUME ~StoreErrors PROVE Spec => []WakeInv
  <1>1. Init => WakeInv
      <2>1. Init => ParksStale
          <3>1. IdleExec.gen = 0 /\ IdleExec.park = Unparked /\ IdleExec.pc = "idle"
              BY DEF IdleExec
          <3> QED BY <3>1 DEF Init, ParksStale, ExecStale, Stale
      <2>2. Init => Watched
          BY DEF Init, Watched
      <2> QED BY <2>1, <2>2, InitInv DEF WakeInv
  <1>2. WakeInv /\ [Next]_vars => WakeInv'
      <2> SUFFICES ASSUME WakeInv, [Next]_vars PROVE WakeInv'
          OBVIOUS
      <2>0. IInv /\ ParksStale /\ Watched /\ TypeOK /\ IInv'
          BY InvStep DEF WakeInv, IInv
      <2>1. CASE UNCHANGED vars
          <3>1. Stale(park') /\ UNCHANGED <<exec, attempt, online, gen>>
              BY <2>0, <2>1 DEF vars, runnerVars, ParksStale, Stale
          <3>2. Watched'
              BY <2>0, <2>1, StillWatched DEF vars, runnerVars, goVars, bootVars
          <3> QED BY <2>0, <3>1, <3>2, NoneStale DEF WakeInv
      <2>2. CASE User \/ Goroutine
          BY <2>0, <2>2, OthersStale, UserWatched, GoroutineWatched DEF WakeInv
      <2>3. ASSUME NEW e \in Execs, Execution(e) \/ Failure(e) PROVE WakeInv'
          BY <2>0, <2>3, ExecutionStale, ExecutionWatched DEF WakeInv
      <2>4. CASE \E m \in Msgs : Dispatcher(m)
          <3>1. Watched'
              BY <2>0, <2>4, StillWatched
                 DEF Dispatcher, HubDispatch, AgentEnds, goVars, runnerVars, bootVars
          <3> QED BY <2>0, <2>4, <3>1, EnvironmentStale DEF WakeInv
      <2>5. CASE Reconnect \/ Disconnect \/ Booting \/ Shutdown \/ Restart
          BY <2>0, <2>5, EnvironmentStale, EnvironmentWatched DEF WakeInv
      <2> QED BY <2>1, <2>2, <2>3, <2>4, <2>5 DEF Next
  <1> QED BY <1>1, <1>2, PTL DEF Spec

\* No lost wake-ups: where no statement on the store fails, a chat that nothing
\* runs for any more, of a runner that is online, has an empty queue or one that
\* an error has parked.  The reconnect may fall between any two steps of a
\* consumer that gives up, of a drain, or of the start of the backend.
THEOREM NoneStranded == ASSUME ~StoreErrors PROVE Spec => []NotStranded
  <1>1. WakeInv => NotStranded
      <2> SUFFICES ASSUME WakeInv, Quiet, queue # {}, online PROVE park.hard
          BY DEF NotStranded
      <2>1. guard = NoExec
          BY DEF WakeInv, IInv, TypeOK, GuardExact, Quiet, At, OutsidePcs
      <2> QED BY <2>1 DEF WakeInv, Watched, Waker, Quiet
  <1> QED BY <1>1, WakeInvariance, PTL

-----------------------------------------------------------------------------
(* Agents run inside executions *)

\* Before the first stop, end of a caller or shutdown, no context has ended, and until the backend
\* starts again, an execution waits for every dispatch that is on its way or running.
Attended ==
    stops = 0 /\ ends = 0 /\ stage # "ending" =>
        /\ \A e \in Execs : ~ exec[e].cancelled
        /\ boots = 1 => \A m \in Msgs : attempt[m] \in {"asked", "live"} =>
               \E e \in Execs : exec[e].pc = "wait" /\ exec[e].msg = m

\* Only one execution waits.
LEMMA OneWaits ==
    ASSUME IInv, NEW e \in Execs, NEW f \in Execs, exec[e].pc \notin OutsidePcs, exec[f].pc = "wait"
    PROVE  f = e
  BY DEF IInv, GuardExact, OutsidePcs

\* A step of an execution that does not wait.
LEMMA OneAttended ==
    ASSUME Attended, NEW e \in Execs, exec[e].pc # "wait",
           stage # "ending" => exec'[e].cancelled \in {FALSE, exec[e].cancelled},
           \A f \in Execs : f # e => exec'[f] = exec[f],
           UNCHANGED <<attempt, stops, ends, boots, stage>>
    PROVE  Attended'
  <1> SUFFICES ASSUME stops = 0, ends = 0, stage # "ending"
               PROVE  /\ \A f \in Execs : ~ exec'[f].cancelled
                      /\ boots = 1 => \A m \in Msgs : attempt[m] \in {"asked", "live"} =>
                             \E f \in Execs : exec'[f].pc = "wait" /\ exec'[f].msg = m
      BY DEF Attended
  <1>1. \A f \in Execs : ~ exec'[f].cancelled
      BY DEF Attended
  <1>2. ASSUME boots = 1, NEW m \in Msgs, attempt[m] \in {"asked", "live"}
        PROVE  \E f \in Execs : exec'[f].pc = "wait" /\ exec'[f].msg = m
      BY <1>2 DEF Attended
  <1> QED BY <1>1, <1>2

\* A step of the execution that waits, once it has its answer.
LEMMA AnsweredAttended ==
    ASSUME IInv, Attended, NEW e \in Execs, exec[e].pc = "wait",
           attempt[exec[e].msg] \notin {"asked", "live"},
           exec'[e].cancelled \in {FALSE, exec[e].cancelled},
           \A f \in Execs : f # e => exec'[f] = exec[f],
           UNCHANGED <<attempt, stops, ends, boots, stage>>
    PROVE  Attended'
  <1>1. \A f \in Execs : exec[f].pc = "wait" => f = e
      BY OneWaits DEF OutsidePcs
  <1> SUFFICES ASSUME stops = 0, ends = 0, stage # "ending"
               PROVE  /\ \A f \in Execs : ~ exec'[f].cancelled
                      /\ boots = 1 => \A m \in Msgs : attempt[m] \in {"asked", "live"} =>
                             \E f \in Execs : exec'[f].pc = "wait" /\ exec'[f].msg = m
      BY DEF Attended
  <1>2. \A f \in Execs : ~ exec'[f].cancelled
      BY DEF Attended
  <1>3. ASSUME boots = 1, NEW m \in Msgs, attempt[m] \in {"asked", "live"}
        PROVE  FALSE
      <2>1. PICK f \in Execs : exec[f].pc = "wait" /\ exec[f].msg = m
          BY <1>3 DEF Attended
      <2> QED BY <1>1, <1>3, <2>1
  <1> QED BY <1>2, <1>3

\* Taking a message, ending and the like never cancel anything.
LEMMA AtStepKeeps ==
    ASSUME NEW pc, NEW p
    PROVE  /\ ~ AtStep(pc, p).cancelled
           /\ \A m : ~ [AtStep(pc, p) EXCEPT !.msg = m].cancelled
           /\ \A c : [AtStep(pc, p) EXCEPT !.cancelled = c].cancelled = c
  BY DEF AtStep, IdleExec

LEMMA EndsKeeps ==
    ASSUME TypeOK, NEW e \in Execs, NEW p, Ends(e, p)
    PROVE  ~ exec'[e].cancelled /\ \A f \in Execs : f # e => exec'[f] = exec[f]
  <1>1. \/ exec'[e] = AtStep("release", Unparked)
        \/ exec'[e] = AtStep("giveup", p)
      BY DEF Ends, TypeOK
  <1>2. \A f \in Execs : f # e => exec'[f] = exec[f]
      BY DEF Ends, TypeOK
  <1> QED BY <1>1, <1>2, AtStepKeeps

\* The answer ends the wait.
LEMMA CollectAttended ==
    ASSUME IInv, Attended, NEW e \in Execs, Collect(e)
    PROVE  Attended'
  <1> DEFINE x == exec[e]
             p == IF attempt[x.msg] = "offline" THEN UntilNewer(x.gen) ELSE Hard
  <1>0. TypeOK
      BY DEF IInv
  <1>1. /\ exec[e].pc = "wait" /\ attempt[exec[e].msg] \notin {"asked", "live"}
        /\ UNCHANGED <<attempt, stops, ends, boots, stage>>
      BY DEF Collect, At, stopVars, bootVars
  <1>3. ASSUME NEW y, exec' = [exec EXCEPT ![e] = y], y.cancelled \in {FALSE, exec[e].cancelled}
        PROVE  Attended'
      <2>1. exec'[e] = y /\ \A f \in Execs : f # e => exec'[f] = exec[f]
          BY <1>0, <1>3 DEF TypeOK
      <2> QED BY <1>1, <1>3, <2>1, AnsweredAttended
  <1>4. ASSUME NEW q, Ends(e, q) PROVE Attended'
      <2>1. ~ exec'[e].cancelled /\ \A f \in Execs : f # e => exec'[f] = exec[f]
          BY <1>0, <1>4, EndsKeeps
      <2>2. exec'[e].cancelled = FALSE
          <3>1. exec'[e] = AtStep("release", Unparked) \/ exec'[e] = AtStep("giveup", q)
              BY <1>0, <1>4 DEF Ends, TypeOK
          <3> QED BY <3>1 DEF AtStep, IdleExec
      <2> QED BY <1>1, <2>1, <2>2, AnsweredAttended
  <1>5. CASE exec' = [exec EXCEPT ![e] = [AtStep("top", Unparked) EXCEPT !.cancelled = x.cancelled]]
      <2>1. [AtStep("top", Unparked) EXCEPT !.cancelled = x.cancelled].cancelled = exec[e].cancelled
          BY AtStepKeeps
      <2> QED BY <1>3, <1>5, <2>1
  <1>6. CASE exec' = [exec EXCEPT ![e] = AtStep("purge", Hard)]
      <2>1. AtStep("purge", Hard).cancelled = FALSE
          BY DEF AtStep, IdleExec
      <2> QED BY <1>3, <1>6, <2>1
  <1>7. CASE exec' = [exec EXCEPT ![e] = [AtStep("requeue", p) EXCEPT !.msg = x.msg]]
      <2> HIDE DEF p
      <2>1. [AtStep("requeue", p) EXCEPT !.msg = x.msg].cancelled = FALSE
          BY DEF AtStep, IdleExec
      <2> QED BY <1>3, <1>7, <2>1
  <1>8. CASE ToPc(e, "execute")
      <2>1. exec'[e].cancelled = exec[e].cancelled /\ \A f \in Execs : f # e => exec'[f] = exec[f]
          BY <1>0, <1>8, ToPcEffect
      <2> QED BY <1>1, <2>1, AnsweredAttended
  <1>9. CASE Ends(e, Unparked) \/ Ends(e, Hard) \/ Ends(e, p)
      BY <1>4, <1>9
  <1> QED BY <1>5, <1>6, <1>7, <1>8, <1>9 DEF Collect

\* Whoever dispatches waits for it.
LEMMA DispatchAttended ==
    ASSUME IInv, Attended, NEW e \in Execs, ExecuteDispatches(e)
    PROVE  Attended'
  <1>0. TypeOK /\ exec[e].pc = "execute" /\ UNCHANGED <<stops, ends, boots, stage>>
      BY DEF IInv, ExecuteDispatches, At, stopVars, bootVars
  <1>1. /\ exec'[e].pc = "wait" /\ exec'[e].msg = exec[e].msg
        /\ exec'[e].cancelled = exec[e].cancelled
        /\ \A f \in Execs : f # e => exec'[f] = exec[f]
      BY <1>0, ToPcEffect DEF ExecuteDispatches
  <1>2. \A m \in Msgs : m # exec[e].msg => attempt'[m] = attempt[m]
      BY <1>0 DEF ExecuteDispatches, TypeOK
  <1>3. \A f \in Execs : exec[f].pc # "wait"
      BY <1>0, OneWaits DEF OutsidePcs
  <1> QED BY <1>0, <1>1, <1>2, <1>3 DEF Attended

\* The other steps of an execution are taken without a dispatch.
LEMMA ExecutionAttended ==
    ASSUME IInv, Attended, NEW e \in Execs, Execution(e) \/ Failure(e)
    PROVE  Attended'
  <1> USE DEF At, runnerVars, stopVars, bootVars, goVars
  <1>0. TypeOK
      BY DEF IInv
  <1>a. ASSUME NEW y, exec' = [exec EXCEPT ![e] = y], y.cancelled \in {FALSE, exec[e].cancelled},
               exec[e].pc # "wait", UNCHANGED <<attempt, stops, ends, boots, stage>>
        PROVE  Attended'
      <2>1. exec'[e] = y /\ \A f \in Execs : f # e => exec'[f] = exec[f]
          BY <1>0, <1>a DEF TypeOK
      <2> QED BY <1>a, <2>1, OneAttended
  <1>b. ASSUME NEW pc, ToPc(e, pc), exec[e].pc # "wait", UNCHANGED <<attempt, stops, ends, boots, stage>>
        PROVE  Attended'
      <2>1. exec'[e].cancelled = exec[e].cancelled /\ \A f \in Execs : f # e => exec'[f] = exec[f]
          BY <1>0, <1>b, ToPcEffect
      <2> QED BY <1>b, <2>1, OneAttended
  <1>c. ASSUME NEW m, exec' = [exec EXCEPT ![e].pc = "execute", ![e].msg = m],
               exec[e].pc # "wait", UNCHANGED <<attempt, stops, ends, boots, stage>>
        PROVE  Attended'
      <2>1. exec'[e].cancelled = exec[e].cancelled /\ \A f \in Execs : f # e => exec'[f] = exec[f]
          BY <1>0, <1>c, TakeEffect, TakeKeeps
      <2> QED BY <1>c, <2>1, OneAttended
  <1>d. ASSUME NEW pc, exec' = [exec EXCEPT ![e].pc = pc, ![e].gen = gen],
               exec[e].pc # "wait", UNCHANGED <<attempt, stops, ends, boots, stage>>
        PROVE  Attended'
      <2>1. exec'[e].cancelled = exec[e].cancelled /\ \A f \in Execs : f # e => exec'[f] = exec[f]
          BY <1>0, <1>d, GenEffect, NoteKeeps
      <2> QED BY <1>d, <2>1, OneAttended
  <1>e. ASSUME NEW p, Ends(e, p), exec[e].pc # "wait", UNCHANGED <<attempt, stops, ends, boots, stage>>
        PROVE  Attended'
      <2>1. exec'[e] = AtStep("release", Unparked) \/ exec'[e] = AtStep("giveup", p)
          BY <1>0, <1>e DEF Ends, TypeOK
      <2>2. exec'[e].cancelled = FALSE
          BY <2>1 DEF AtStep, IdleExec
      <2>3. \A f \in Execs : f # e => exec'[f] = exec[f]
          BY <1>0, <1>e, EndsKeeps
      <2> QED BY <1>e, <2>2, <2>3, OneAttended
  <1>f. IdleExec.cancelled = FALSE
      BY DEF IdleExec
  <1>g. \A pc, p : AtStep(pc, p).cancelled = FALSE
      BY DEF AtStep, IdleExec
  <1>h. \A pc : [exec[e] EXCEPT !.pc = pc].cancelled = exec[e].cancelled
      <2>1. exec[e] \in ExecRec
          BY <1>0 DEF TypeOK, ExecRec
      <2> QED BY <2>1 DEF ExecRec
  <1>1. CASE BeginUnpark(e)
      BY <1>1, <1>b DEF BeginUnpark
  <1>2. CASE Admit(e)
      <2>1. PICK y \in {AtStep("release", Unparked), [exec[e] EXCEPT !.pc = "execute"],
                        [exec[e] EXCEPT !.pc = "readgen"]} : exec' = [exec EXCEPT ![e] = y]
          BY <1>0, <1>2 DEF Admit, TypeOK
      <2>2. AtStep("release", Unparked).cancelled = FALSE
          BY <1>g
      <2>3. /\ [exec[e] EXCEPT !.pc = "execute"].cancelled = exec[e].cancelled
            /\ [exec[e] EXCEPT !.pc = "readgen"].cancelled = exec[e].cancelled
          BY <1>h
      <2>4. y.cancelled \in {FALSE, exec[e].cancelled}
          BY <2>2, <2>3
      <2> QED BY <1>2, <1>a, <2>1, <2>4 DEF Admit
  <1>3. CASE ReadGen(e)
      BY <1>3, <1>d DEF ReadGen
  <1>4. CASE LoopTop(e)
      BY <1>4, <1>d, <1>e DEF LoopTop
  <1>5. CASE Pop(e)
      BY <1>5, <1>c DEF Pop
  <1>6. CASE PopNothing(e)
      BY <1>6, <1>b DEF PopNothing
  <1>7. CASE Peek(e)
      <2>1. PICK y \in {IdleExec, [exec[e] EXCEPT !.pc = "reacquire"]} : exec' = [exec EXCEPT ![e] = y]
          BY <1>0, <1>7 DEF Peek, TypeOK
      <2>2. y.cancelled \in {FALSE, exec[e].cancelled}
          BY <1>f, <1>h
      <2> QED BY <1>7, <1>a, <2>1, <2>2 DEF Peek
  <1>8. CASE Reacquire(e)
      BY <1>8, <1>a, <1>b, <1>f DEF Reacquire
  <1>9. CASE PopAgain(e)
      BY <1>9, <1>b, <1>c DEF PopAgain
  <1>10. CASE ExecuteDispatches(e)
      BY <1>10, DispatchAttended
  <1>11. CASE Collect(e)
      BY <1>11, CollectAttended
  <1>12. CASE Cancelled(e)
      <2>1. exec[e].cancelled /\ Ends(e, Hard) /\ UNCHANGED <<attempt, stops, ends, boots, stage>>
          BY <1>12 DEF Cancelled
      <2> QED BY <2>1 DEF Attended
  <1>13. CASE RequeueFront(e) \/ Purge(e) \/ PopFails(e) \/ ExecuteFails(e)
      <2>1. exec[e].pc # "wait" /\ \E p : Ends(e, p)
          BY <1>13 DEF RequeueFront, Purge, PopFails, ExecuteFails
      <2> QED BY <1>13, <1>e, <2>1 DEF RequeueFront, Purge, PopFails, ExecuteFails
  <1>14. CASE GiveUp(e)
      BY <1>14, <1>a, <1>g DEF GiveUp
  <1>15. CASE Release(e) \/ ParkLate(e)
      BY <1>15, <1>a, <1>f DEF Release, ParkLate
  <1>16. CASE PeekFails(e)
      BY <1>16, <1>b DEF PeekFails
  <1> QED BY <1>1, <1>2, <1>3, <1>4, <1>5, <1>6, <1>7, <1>8, <1>9, <1>10, <1>11, <1>12, <1>13,
             <1>14, <1>15, <1>16 DEF Execution, Failure

\* Nobody else ends a wait.
LEMMA OthersAttended ==
    ASSUME IInv, Attended,
           \/ User \/ Goroutine \/ (\E m \in Msgs : Dispatcher(m))
           \/ Reconnect \/ Disconnect \/ Booting \/ Shutdown \/ Restart
    PROVE  Attended'
  <1> USE DEF At, runnerVars, stopVars, bootVars, goVars
  <1>0. TypeOK /\ stops \in Nat /\ ends \in Nat /\ boots \in Nat /\ boots >= 1
      BY ChatQueueConstants DEF IInv, TypeOK
  <1>1. ASSUME NEW e \in Execs, NEW kind, NEW m, Begin(e, kind, m),
               UNCHANGED <<attempt, stops, ends, boots, stage>>
        PROVE  Attended'
      <2>1. exec[e].pc # "wait" /\ (stage # "ending" => exec'[e].cancelled = FALSE)
            /\ \A f \in Execs : f # e => exec'[f] = exec[f]
          BY <1>0, <1>1 DEF Begin, TypeOK
      <2> QED BY <1>1, <2>1, OneAttended
  <1>2. ASSUME UNCHANGED <<exec, attempt, stops, ends, boots>>, stage = "ending" => stage' = "ending"
        PROVE  Attended'
      BY <1>2 DEF Attended
  <1>3. ASSUME NEW e \in Execs, NEW kind \in Triggers, TriggerMessage(e, kind) PROVE Attended'
      BY <1>1, <1>3 DEF TriggerMessage
  <1>4. CASE StopCancel
      <2>1. stops' # 0
          BY <1>0, <1>4 DEF StopCancel
      <2> QED BY <2>1 DEF Attended
  <1>5. CASE startQueueConsumerIfIdle
      BY <1>1, <1>2, <1>5 DEF startQueueConsumerIfIdle
  <1>6. CASE \/ EnqueueMessage \/ DeleteQueued
             \/ DrainLoadsPark \/ (\E g \in Gens : DrainComparesGen(g)) \/ DrainChecksRunner
             \/ DrainPeeks \/ OnNodeOnline \/ RunnerOnline \/ unparkQueue \/ StopClear
             \/ Reconnect \/ Disconnect \/ Booting
      BY <1>2, <1>6
         DEF EnqueueMessage, DeleteQueued, DrainLoadsPark, DrainComparesGen, DrainChecksRunner,
             DrainPeeks, OnNodeOnline, RunnerOnline, unparkQueue, StopClear, Reconnect, Disconnect,
             Booting, RecoverOrphans, PublishServer, ResumeQueuesOfOnlineRunners
  <1>7. ASSUME NEW m \in Msgs, Dispatcher(m) PROVE Attended'
      <2>1. UNCHANGED <<exec, stops, ends, boots, stage>>
          BY <1>7 DEF Dispatcher, HubDispatch, AgentEnds
      <2>2. attempt[m] \in {"asked", "live"} /\ \E a : attempt' = [attempt EXCEPT ![m] = a]
          BY <1>7 DEF Dispatcher, HubDispatch, AgentEnds
      <2>3. \A n \in Msgs : attempt'[n] \in {"asked", "live"} => attempt[n] \in {"asked", "live"}
          BY <1>0, <2>2 DEF TypeOK
      <2> QED BY <2>1, <2>3 DEF Attended
  <1>8. CASE Restart
      <2>1. \A e \in Execs : exec'[e].cancelled = FALSE
          BY <1>8 DEF Restart, IdleExec
      <2>2. boots' # 1
          BY <1>0, <1>8 DEF Restart
      <2> QED BY <2>1, <2>2 DEF Attended
  <1>9. ASSUME NEW e \in Execs, CallerEnds(e) PROVE Attended'
      <2>1. ends' # 0
          BY <1>0, <1>9 DEF CallerEnds
      <2> QED BY <2>1 DEF Attended
  <1>10. CASE Shutdown
      BY <1>10 DEF Shutdown, Attended
  <1> QED BY <1>3, <1>4, <1>5, <1>6, <1>7, <1>8, <1>9, <1>10 DEF User, Goroutine

\* Between a start of the backend and its shutdown, until somebody stops the chat and while
\* the runs that wait for an answer last (cancelWhenDone), an
\* agent of the chat runs only inside the execution that holds the guard and
\* waits for it, so that there is one agent at a time; whatever fails.
THEOREM AgentsAreGuarded == Spec => []AgentGuardedUnlessStopped
  <1>1. Init => IInv /\ Attended
      <2>1. Init => Attended
          BY DEF Init, Attended, IdleExec
      <2> QED BY <2>1, InitInv
  <1>2. (IInv /\ Attended) /\ [Next]_vars => (IInv /\ Attended)'
      <2> SUFFICES ASSUME IInv, Attended, [Next]_vars PROVE Attended'
          BY InvStep
      <2>1. CASE UNCHANGED vars
          BY <2>1 DEF vars, stopVars, bootVars, Attended
      <2>2. CASE \/ User \/ Goroutine \/ (\E m \in Msgs : Dispatcher(m))
                 \/ Reconnect \/ Disconnect \/ Booting \/ Shutdown \/ Restart
          BY <2>2, OthersAttended
      <2>3. ASSUME NEW e \in Execs, Execution(e) \/ Failure(e) PROVE Attended'
          BY <2>3, ExecutionAttended
      <2> QED BY <2>1, <2>2, <2>3 DEF Next
  <1>3. IInv /\ Attended => AgentGuardedUnlessStopped
      BY DEF IInv, GuardExact, OutsidePcs, Attended, AgentGuardedUnlessStopped, AgentGuarded, At
  <1> QED BY <1>1, <1>2, <1>3, PTL DEF Spec
=============================================================================
