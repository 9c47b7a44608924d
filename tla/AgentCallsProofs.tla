---------------------------- MODULE AgentCallsProofs ----------------------------
(***************************************************************************)
(* What an agent may rely on that calls out while it runs.  A call to the  *)
(* backend has one unfinished execution, however often it is repeated, and *)
(* is answered by what was meant for it; the calls of agents to each other *)
(* nest without a cycle, whatever order callers and callees end in.        *)
(***************************************************************************)
EXTENDS AgentCalls, FiniteSetTheorems, TLAPS

-----------------------------------------------------------------------------
(* The calls to the backend *)

Call == [pc : {"idle", "retry", "sent", "done"}, waitsFor : Nat, got : Int, lost : Int]
Execution == [pc : {"ask", "asked", "registered", "returned"}, chan : Seq(Int),
              done : BOOLEAN, resp : Int]
ReplySent == [chat : Chats, msg : Calls \cup {"none"}]
CallbacksTypeOK ==
    /\ chatOf \in [Calls -> Chats \cup {"unset"}]
    /\ call \in [Calls -> Call]
    /\ kept \in [Calls -> Nat]
    /\ execution \in [Calls -> Seq(Execution)]
    /\ inFlight \in Int
    /\ runEnded \subseteq Calls
    /\ replied \in Seq(ReplySent)

\* An attempt waits for an execution there is, and one that has returned has
\* something to return.
WaitsInv ==
    \A c \in Calls :
        /\ Len(execution[c]) <= MaxExecutions
        /\ call[c].pc = "sent" => call[c].waitsFor \in DOMAIN execution[c]
        /\ call[c].pc = "idle" => execution[c] = <<>> /\ call[c].got = NoReply
        /\ \A k \in DOMAIN execution[c] :
              execution[c][k].pc = "returned" => execution[c][k].chan # <<>>

\* The backend's map holds an execution there is, and each that is not finished.
KeptInv ==
    \A c \in Calls :
        /\ kept[c] # 0 => kept[c] \in DOMAIN execution[c]
        /\ \A k \in DOMAIN execution[c] : ~execution[c][k].done => kept[c] = k

\* The executions that are not finished.
Executing ==
    {x \in Calls \X (1 .. MaxExecutions) :
        x[2] \in DOMAIN execution[x[1]] /\ ~execution[x[1]][x[2]].done}
PlacesInv == IsFiniteSet(Executing) /\ inFlight = Cardinality(Executing)

\* The number n, wherever call c has it from, is no reply or one that is for c.
MeantFor(n, c) ==
    n > 0 => /\ n \in DOMAIN replied
             /\ replied[n].chat = chatOf[c]
             /\ replied[n].msg \in {c, "none"}
RepliesInv ==
    /\ \A c \in Calls :
          /\ MeantFor(call[c].got, c)
          /\ \A k \in DOMAIN execution[c] :
                /\ MeantFor(execution[c][k].resp, c)
                /\ \A i \in DOMAIN execution[c][k].chan : MeantFor(execution[c][k].chan[i], c)
    /\ reply.pc = "stored" =>
          /\ replied # <<>>
          /\ replied[Len(replied)] = [chat |-> reply.chat, msg |-> reply.msg]

CallbacksInv == CallbacksTypeOK /\ WaitsInv /\ KeptInv /\ PlacesInv /\ RepliesInv

-----------------------------------------------------------------------------
LEMMA CallbacksStart == ASSUME CallbacksInit PROVE CallbacksInv
  <1> USE DEF CallbacksInit
  <1>1. CallbacksTypeOK
      BY DEF CallbacksTypeOK, Call, Idle, NoReply
  <1>2. WaitsInv /\ KeptInv
      BY CallbackConstants DEF WaitsInv, KeptInv, Idle
  <1>3. PlacesInv
    <2>1. Executing = {}
        BY DEF Executing
    <2> QED BY <2>1, FS_EmptySet DEF PlacesInv
  <1>4. RepliesInv
      BY DEF RepliesInv, MeantFor, Idle, NoReply, NoneSent
  <1> QED BY <1>1, <1>2, <1>3, <1>4 DEF CallbacksInv

\* What a step does to the executions: none, one begins, or one goes on.
Begun(c) == execution' = [execution EXCEPT ![c] = Append(@, Asking)]
Advanced(c, k, e) ==
    /\ e \in Execution
    /\ execution' = [execution EXCEPT ![c][k] = e]

LEMMA AdvancedAt ==
    ASSUME execution \in [Calls -> Seq(Execution)], NEW c \in Calls, NEW k \in DOMAIN execution[c],
           NEW e, Advanced(c, k, e)
    PROVE  /\ execution' \in [Calls -> Seq(Execution)]
           /\ \A d \in Calls : DOMAIN execution'[d] = DOMAIN execution[d]
                               /\ Len(execution'[d]) = Len(execution[d])
           /\ \A d \in Calls : \A j \in DOMAIN execution[d] :
                 execution'[d][j] = IF d = c /\ j = k THEN e ELSE execution[d][j]
  <1>1. execution' = [execution EXCEPT ![c] = [execution[c] EXCEPT ![k] = e]]
      BY DEF Advanced
  <1>2. execution[c] \in Seq(Execution) /\ e \in Execution
      BY DEF Advanced
  <1>3. /\ [execution[c] EXCEPT ![k] = e] \in Seq(Execution)
        /\ DOMAIN [execution[c] EXCEPT ![k] = e] = DOMAIN execution[c]
        /\ Len([execution[c] EXCEPT ![k] = e]) = Len(execution[c])
      BY <1>2
  <1> QED BY <1>1, <1>2, <1>3

LEMMA BegunAt ==
    ASSUME execution \in [Calls -> Seq(Execution)], NEW c \in Calls, Begun(c)
    PROVE  /\ execution' \in [Calls -> Seq(Execution)]
           /\ \A d \in Calls \ {c} : execution'[d] = execution[d]
           /\ Len(execution'[c]) = Len(execution[c]) + 1
           /\ DOMAIN execution'[c] = DOMAIN execution[c] \cup {Len(execution[c]) + 1}
           /\ Len(execution[c]) + 1 \notin DOMAIN execution[c]
           /\ execution'[c][Len(execution[c]) + 1] = Asking
           /\ \A j \in DOMAIN execution[c] : execution'[c][j] = execution[c][j]
  <1>1. Asking \in Execution
      BY DEF Asking, Execution, NoReply
  <1>2. execution[c] \in Seq(Execution)
      OBVIOUS
  <1>3. execution'[c] = Append(execution[c], Asking)
      BY DEF Begun
  <1>4. /\ Append(execution[c], Asking) \in Seq(Execution)
        /\ Len(Append(execution[c], Asking)) = Len(execution[c]) + 1
        /\ Append(execution[c], Asking)[Len(execution[c]) + 1] = Asking
        /\ \A j \in DOMAIN execution[c] : Append(execution[c], Asking)[j] = execution[c][j]
      BY <1>1, <1>2
  <1>5. \A d \in Calls \ {c} : execution'[d] = execution[d]
      BY DEF Begun
  <1>6. execution' \in [Calls -> Seq(Execution)]
      BY <1>4 DEF Begun
  <1>7. /\ DOMAIN execution[c] = 1 .. Len(execution[c])
        /\ DOMAIN Append(execution[c], Asking) = 1 .. Len(execution[c]) + 1
        /\ Len(execution[c]) \in Nat
      BY <1>2, <1>4
  <1> QED BY <1>3, <1>4, <1>5, <1>6, <1>7

\* A step that leaves the executions alone and only changes the runner's side of
\* the call c.
OnlyCall(c) ==
    /\ \A d \in Calls \ {c} : call'[d] = call[d]
    /\ call' \in [Calls -> Call]
    /\ call'[c].pc # "idle"
    /\ call'[c].pc = "sent" => call'[c].waitsFor \in DOMAIN execution[c]
    /\ MeantFor(call'[c].got, c)
    /\ runEnded' \subseteq Calls
    /\ UNCHANGED <<chatOf, kept, execution, inFlight, reply, replied>>

LEMMA CallerStep ==
    ASSUME CallbacksInv, NEW c \in Calls, OnlyCall(c)
    PROVE  CallbacksInv'
  <1> USE DEF CallbacksInv, OnlyCall
  <1>1. CallbacksTypeOK'
      BY DEF CallbacksTypeOK
  <1>3. WaitsInv'
      BY DEF WaitsInv
  <1>4. KeptInv'
      BY DEF KeptInv
  <1>5. PlacesInv'
      BY DEF PlacesInv, Executing
  <1>6. RepliesInv'
    <2>1. \A m, d : MeantFor(m, d) => MeantFor(m, d)'
        BY DEF MeantFor
    <2>2. \A d \in Calls : MeantFor(call'[d].got, d)
        BY DEF RepliesInv
    <2>3. (\A d \in Calls : MeantFor(call[d].got, d))'
        BY <2>2 DEF MeantFor
    <2> QED BY <2>1, <2>3 DEF RepliesInv
  <1> QED BY <1>1, <1>3, <1>4, <1>5, <1>6

LEMMA EndsCall ==
    ASSUME CallbacksInv, NEW c \in Calls, Fail(c),
           UNCHANGED <<chatOf, kept, execution, inFlight, reply, replied>>, runEnded' \subseteq Calls
    PROVE  CallbacksInv'
  <1>1. call \in [Calls -> Call] /\ call[c] \in Call
      BY DEF CallbacksInv, CallbacksTypeOK
  <1>2. /\ [call[c] EXCEPT !.pc = "done", !.got = AskError] \in Call
        /\ [call[c] EXCEPT !.pc = "done", !.got = AskError].pc = "done"
        /\ [call[c] EXCEPT !.pc = "done", !.got = AskError].got = AskError
    <2>1. AskError \in Int
        BY DEF AskError
    <2> QED BY <1>1, <2>1 DEF Call
  <1>3. call' = [call EXCEPT ![c] = [call[c] EXCEPT !.pc = "done", !.got = AskError]]
      BY <1>1 DEF Fail
  <1>4. MeantFor(AskError, c)
      BY DEF MeantFor, AskError
  <1>5. OnlyCall(c)
      BY <1>1, <1>2, <1>3, <1>4 DEF OnlyCall
  <1> QED BY <1>5, CallerStep

LEMMA LoseConnectionStep ==
    ASSUME CallbacksInv, NEW c \in Calls, LoseConnection(c)
    PROVE  CallbacksInv'
  <1> DEFINE e == [call[c] EXCEPT !.pc = "retry", !.waitsFor = 0, !.lost = @ + 1]
  <1>1. call \in [Calls -> Call] /\ call[c] \in Call
      BY DEF CallbacksInv, CallbacksTypeOK
  <1>2. e \in Call /\ e.pc = "retry" /\ e.got = call[c].got
    <2>1. call[c].lost + 1 \in Int
        BY <1>1 DEF Call
    <2> QED BY <1>1, <2>1 DEF Call
  <1>3. call' = [call EXCEPT ![c] = e]
      BY <1>1 DEF LoseConnection
  <1>4. MeantFor(call[c].got, c)
      BY DEF CallbacksInv, RepliesInv
  <1>5. runEnded' \subseteq Calls /\ UNCHANGED <<chatOf, kept, execution, inFlight, reply, replied>>
      BY DEF LoseConnection, CallbacksInv, CallbacksTypeOK
  <1> HIDE DEF e
  <1>6. OnlyCall(c)
      BY <1>1, <1>2, <1>3, <1>4, <1>5 DEF OnlyCall
  <1> QED BY <1>6, CallerStep

LEMMA RespondStep ==
    ASSUME CallbacksInv, NEW c \in Calls, Respond(c)
    PROVE  CallbacksInv'
  <1> DEFINE ex == execution[c][call[c].waitsFor]
             again == [call[c] EXCEPT !.pc = "retry", !.waitsFor = 0]
             told == [call[c] EXCEPT !.pc = "done", !.got = ex.resp]
  <1>1. /\ call[c].pc = "sent"
        /\ call' = [call EXCEPT ![c] = IF ex.resp = Cancelled THEN again ELSE told]
        /\ UNCHANGED <<chatOf, kept, execution, inFlight, runEnded, reply, replied>>
      BY DEF Respond
  <1>2. call[c].waitsFor \in DOMAIN execution[c]
      BY <1>1 DEF CallbacksInv, WaitsInv
  <1>3. ex.resp \in Int
    <2>1. execution[c] \in Seq(Execution)
        BY DEF CallbacksInv, CallbacksTypeOK
    <2>2. ex \in Execution
        BY <1>2, <2>1
    <2> QED BY <2>2 DEF Execution
  <1>4. MeantFor(ex.resp, c) /\ MeantFor(call[c].got, c)
      BY <1>2 DEF CallbacksInv, RepliesInv
  <1>5. call \in [Calls -> Call] /\ call[c] \in Call /\ runEnded \subseteq Calls
      BY DEF CallbacksInv, CallbacksTypeOK
  <1> HIDE DEF ex
  <1>6. /\ again \in Call /\ again.pc = "retry" /\ again.got = call[c].got
        /\ told \in Call /\ told.pc = "done" /\ told.got = ex.resp
      BY <1>3, <1>5 DEF Call
  <1> HIDE DEF again, told
  <1>7. OnlyCall(c)
      BY <1>1, <1>4, <1>5, <1>6 DEF OnlyCall
  <1> QED BY <1>7, CallerStep

LEMMA EndRunStep ==
    ASSUME CallbacksInv, NEW c \in Calls, EndRun(c)
    PROVE  CallbacksInv'
  <1>1. /\ runEnded' \subseteq Calls
        /\ UNCHANGED <<chatOf, kept, execution, inFlight, reply, replied>>
      BY DEF EndRun, CallbacksInv, CallbacksTypeOK
  <1>4. call \in [Calls -> Call]
      BY DEF CallbacksInv, CallbacksTypeOK
  <1>2. CASE call[c].pc \in {"retry", "sent"}
    <2>1. Fail(c)
        BY <1>2, <1>4 DEF EndRun, Fail
    <2> QED BY <1>1, <2>1, EndsCall
  <1>3. CASE call[c].pc \notin {"retry", "sent"}
    <2>1. call' = call
        BY <1>3, <1>4 DEF EndRun
    <2>2. CallbacksTypeOK' /\ WaitsInv' /\ KeptInv'
        BY <1>1, <2>1 DEF CallbacksInv, CallbacksTypeOK, WaitsInv, KeptInv
    <2>3. PlacesInv'
        BY <1>1 DEF CallbacksInv, PlacesInv, Executing
    <2>4. RepliesInv'
        BY <1>1, <2>1 DEF CallbacksInv, RepliesInv, MeantFor
    <2> QED BY <2>2, <2>3, <2>4 DEF CallbacksInv
  <1> QED BY <1>2, <1>3

LEMMA HandleAskUserStep ==
    ASSUME CallbacksInv, NEW c \in Calls, NEW chat \in Chats, HandleAskUser(c, chat)
    PROVE  CallbacksInv'
  <1> USE DEF CallbacksInv
  <1> DEFINE e == [call[c] EXCEPT !.pc = "retry"]
  <1>1. /\ call[c].pc = "idle"
        /\ chatOf' = [chatOf EXCEPT ![c] = chat]
        /\ call' = [call EXCEPT ![c].pc = "retry"]
        /\ UNCHANGED <<kept, execution, inFlight, runEnded, reply, replied>>
      BY DEF HandleAskUser
  <1>2. call \in [Calls -> Call] /\ call[c] \in Call /\ chatOf \in [Calls -> Chats \cup {"unset"}]
      BY DEF CallbacksTypeOK
  <1>3. e \in Call /\ e.pc = "retry" /\ e.got = call[c].got
      BY <1>2 DEF Call
  <1>4. call' = [call EXCEPT ![c] = e]
      BY <1>1, <1>2
  <1> HIDE DEF e
  <1>5. CallbacksTypeOK'
    <2>1. call' \in [Calls -> Call] /\ chatOf' \in [Calls -> Chats \cup {"unset"}]
        BY <1>1, <1>2, <1>3, <1>4
    <2> QED BY <1>1, <2>1 DEF CallbacksTypeOK
  <1>6. /\ \A d \in Calls \ {c} : call'[d] = call[d] /\ chatOf'[d] = chatOf[d]
        /\ call'[c].pc = "retry" /\ call'[c].got = call[c].got
      BY <1>1, <1>2, <1>3, <1>4
  <1>7. execution[c] = <<>> /\ call[c].got = 0
      BY <1>1 DEF WaitsInv, NoReply
  <1>8. WaitsInv'
      BY <1>1, <1>6 DEF WaitsInv
  <1>9. KeptInv' /\ PlacesInv'
      BY <1>1 DEF KeptInv, PlacesInv, Executing
  <1>10. RepliesInv'
    <2>1. \A m : \A d \in Calls \ {c} : MeantFor(m, d) => MeantFor(m, d)'
        BY <1>1, <1>6 DEF MeantFor
    <2>2. (\A d \in Calls : MeantFor(call[d].got, d))'
        BY <1>1, <1>6, <1>7 DEF RepliesInv, MeantFor
    <2>3. \A d \in Calls : \A k \in DOMAIN execution[d] : d # c
        BY <1>7
    <2> QED BY <1>1, <2>1, <2>2, <2>3 DEF RepliesInv
  <1> QED BY <1>5, <1>8, <1>9, <1>10

\* A step that only moves executions on, and finishes none.
OnlyAdvances ==
    /\ execution' \in [Calls -> Seq(Execution)]
    /\ \A d \in Calls : DOMAIN execution'[d] = DOMAIN execution[d]
                        /\ Len(execution'[d]) = Len(execution[d])
    /\ \A d \in Calls : \A j \in DOMAIN execution[d] :
          /\ execution'[d][j].done = execution[d][j].done
          /\ execution'[d][j].pc = "returned" => execution'[d][j].chan # <<>>
          /\ MeantFor(execution'[d][j].resp, d)
          /\ \A i \in DOMAIN execution'[d][j].chan : MeantFor(execution'[d][j].chan[i], d)
    /\ reply' = reply \/ reply'.pc # "stored"
    /\ UNCHANGED <<chatOf, call, kept, inFlight, runEnded, replied>>

LEMMA AdvanceStep ==
    ASSUME CallbacksInv, OnlyAdvances
    PROVE  CallbacksInv'
  <1> USE DEF CallbacksInv
  <1>1. CallbacksTypeOK'
      BY DEF CallbacksTypeOK, OnlyAdvances
  <1>2. \A d \in Calls : execution[d] = <<>> => execution'[d] = <<>>
    <2> SUFFICES ASSUME NEW d \in Calls, execution[d] = <<>> PROVE execution'[d] = <<>>
        OBVIOUS
    <2>1. execution'[d] \in Seq(Execution) /\ Len(execution'[d]) = 0
        BY DEF OnlyAdvances
    <2> QED BY <2>1
  <1>3. WaitsInv'
      BY <1>2 DEF WaitsInv, OnlyAdvances
  <1>4. KeptInv'
      BY DEF KeptInv, OnlyAdvances
  <1>5. PlacesInv'
    <2>1. Executing' = Executing
        BY DEF Executing, OnlyAdvances
    <2> QED BY <2>1 DEF PlacesInv, OnlyAdvances
  <1>6. RepliesInv'
    <2>1. \A m, d : MeantFor(m, d) => MeantFor(m, d)'
        BY DEF MeantFor, OnlyAdvances
    <2>2. (\A d \in Calls : MeantFor(call[d].got, d))'
        BY DEF RepliesInv, MeantFor, OnlyAdvances
    <2>3. (\A d \in Calls : \A k \in DOMAIN execution[d] :
              /\ MeantFor(execution[d][k].resp, d)
              /\ \A i \in DOMAIN execution[d][k].chan : MeantFor(execution[d][k].chan[i], d))'
        BY DEF OnlyAdvances, MeantFor
    <2>4. (reply.pc = "stored" =>
              /\ replied # <<>>
              /\ replied[Len(replied)] = [chat |-> reply.chat, msg |-> reply.msg])'
        BY DEF OnlyAdvances, RepliesInv
    <2> QED BY <2>2, <2>3, <2>4 DEF RepliesInv
  <1> QED BY <1>1, <1>3, <1>4, <1>5, <1>6

\* The executions of a call, one by one.
LEMMA ExecutionAt ==
    ASSUME CallbacksInv, NEW c \in Calls, NEW k \in DOMAIN execution[c]
    PROVE  /\ execution \in [Calls -> Seq(Execution)]
           /\ execution[c][k] \in Execution
           /\ execution[c][k].chan \in Seq(Int)
           /\ execution[c][k].pc = "returned" => execution[c][k].chan # <<>>
           /\ MeantFor(execution[c][k].resp, c)
           /\ \A i \in DOMAIN execution[c][k].chan : MeantFor(execution[c][k].chan[i], c)
  <1>1. execution \in [Calls -> Seq(Execution)] /\ execution[c] \in Seq(Execution)
      BY DEF CallbacksInv, CallbacksTypeOK
  <1>2. execution[c][k] \in Execution
      BY <1>1
  <1> QED BY <1>1, <1>2 DEF Execution, CallbacksInv, WaitsInv, RepliesInv

LEMMA AdvancedStep ==
    ASSUME CallbacksInv, NEW c \in Calls, NEW k \in DOMAIN execution[c], NEW e, Advanced(c, k, e),
           e.done = execution[c][k].done, e.pc = "returned" => e.chan # <<>>,
           e.resp = execution[c][k].resp,
           \A i \in DOMAIN e.chan : MeantFor(e.chan[i], c),
           UNCHANGED <<chatOf, call, kept, inFlight, runEnded, reply, replied>>
    PROVE  CallbacksInv'
  <1>1. execution \in [Calls -> Seq(Execution)]
      BY DEF CallbacksInv, CallbacksTypeOK
  <1>2. /\ execution' \in [Calls -> Seq(Execution)]
        /\ \A d \in Calls : DOMAIN execution'[d] = DOMAIN execution[d]
                            /\ Len(execution'[d]) = Len(execution[d])
        /\ \A d \in Calls : \A j \in DOMAIN execution[d] :
              execution'[d][j] = IF d = c /\ j = k THEN e ELSE execution[d][j]
      BY <1>1, AdvancedAt
  <1>3. \A d \in Calls : \A j \in DOMAIN execution[d] :
          /\ execution'[d][j].done = execution[d][j].done
          /\ execution'[d][j].pc = "returned" => execution'[d][j].chan # <<>>
          /\ MeantFor(execution'[d][j].resp, d)
          /\ \A i \in DOMAIN execution'[d][j].chan : MeantFor(execution'[d][j].chan[i], d)
    <2> SUFFICES ASSUME NEW d \in Calls, NEW j \in DOMAIN execution[d]
                 PROVE  /\ execution'[d][j].done = execution[d][j].done
                        /\ execution'[d][j].pc = "returned" => execution'[d][j].chan # <<>>
                        /\ MeantFor(execution'[d][j].resp, d)
                        /\ \A i \in DOMAIN execution'[d][j].chan :
                              MeantFor(execution'[d][j].chan[i], d)
        OBVIOUS
    <2>1. CASE d = c /\ j = k
        BY <1>2, <2>1, ExecutionAt
    <2>2. CASE ~(d = c /\ j = k)
      <3>1. execution'[d][j] = execution[d][j]
          BY <1>2, <2>2
      <3> QED BY <3>1, ExecutionAt
    <2> QED BY <2>1, <2>2
  <1>4. OnlyAdvances
      BY <1>2, <1>3 DEF OnlyAdvances
  <1> QED BY <1>4, AdvanceStep

LEMMA AskStep ==
    ASSUME CallbacksInv, NEW c \in Calls, NEW k \in DOMAIN execution[c],
           PublishQuestion(c, k) \/ RegisterAskWaiter(c, k)
    PROVE  CallbacksInv'
  <1>1. PICK p \in {"asked", "registered"} :
            /\ execution' = [execution EXCEPT ![c][k].pc = p]
            /\ UNCHANGED <<chatOf, call, kept, inFlight, runEnded, reply, replied>>
      BY DEF PublishQuestion, RegisterAskWaiter, Goes
  <1> DEFINE e == [execution[c][k] EXCEPT !.pc = p]
  <1>2. execution[c][k] \in Execution /\ execution \in [Calls -> Seq(Execution)]
      BY ExecutionAt
  <1>3. /\ e \in Execution /\ e.pc = p /\ e.done = execution[c][k].done
        /\ e.resp = execution[c][k].resp /\ e.chan = execution[c][k].chan
      BY <1>2 DEF Execution
  <1>4. Advanced(c, k, e)
      BY <1>1, <1>2, <1>3 DEF Advanced
  <1>5. \A i \in DOMAIN e.chan : MeantFor(e.chan[i], c)
      BY <1>3, ExecutionAt
  <1> HIDE DEF e
  <1> QED BY <1>1, <1>3, <1>4, <1>5, AdvancedStep

LEMMA TakeReplyStep ==
    ASSUME CallbacksInv, NEW c \in Calls, NEW k \in DOMAIN execution[c], TakeReply(c, k)
    PROVE  CallbacksInv'
  <1>1. execution[c][k] \in Execution /\ execution \in [Calls -> Seq(Execution)]
        /\ execution[c][k].chan \in Seq(Int)
        /\ \A i \in DOMAIN execution[c][k].chan : MeantFor(execution[c][k].chan[i], c)
      BY ExecutionAt
  <1>2. PICK n \in Int :
            /\ execution' = [execution EXCEPT ![c][k].pc = "returned", ![c][k].chan = <<n>>]
            /\ MeantFor(n, c)
    <2>1. CASE execution[c][k].chan # <<>> /\
               execution' = [execution EXCEPT ![c][k].pc = "returned",
                                              ![c][k].chan = <<Head(execution[c][k].chan)>>]
      <3>1. /\ 1 \in DOMAIN execution[c][k].chan
            /\ Head(execution[c][k].chan) = execution[c][k].chan[1]
            /\ execution[c][k].chan[1] \in Int
          BY <1>1, <2>1
      <3> QED BY <1>1, <2>1, <3>1
    <2>2. CASE execution' = [execution EXCEPT ![c][k].pc = "returned", ![c][k].chan = <<AskError>>]
      <3>1. AskError \in Int /\ MeantFor(AskError, c)
          BY DEF AskError, MeantFor
      <3> QED BY <2>2, <3>1
    <2> QED BY <2>1, <2>2 DEF TakeReply
  <1> DEFINE e == [execution[c][k] EXCEPT !.pc = "returned", !.chan = <<n>>]
  <1>3. /\ e \in Execution /\ e.pc = "returned" /\ e.done = execution[c][k].done
        /\ e.resp = execution[c][k].resp /\ e.chan = <<n>>
    <2>1. <<n>> \in Seq(Int)
        OBVIOUS
    <2> QED BY <1>1, <2>1 DEF Execution
  <1>4. Advanced(c, k, e)
      BY <1>1, <1>2, <1>3 DEF Advanced
  <1>5. \A i \in DOMAIN e.chan : MeantFor(e.chan[i], c)
      BY <1>2, <1>3
  <1>6. UNCHANGED <<chatOf, call, kept, inFlight, runEnded, reply, replied>>
      BY DEF TakeReply
  <1> HIDE DEF e
  <1> QED BY <1>3, <1>4, <1>5, <1>6, AdvancedStep

LEMMA DeliverReplyStep ==
    ASSUME CallbacksInv, DeliverReply
    PROVE  CallbacksInv'
  <1> DEFINE last(d) == Len(execution[d])
             gets(d) == d \in Addressees(reply) /\ execution[d][last(d)].chan = <<>>
             with(d) == [execution[d][last(d)] EXCEPT !.chan = <<Len(replied)>>]
  <1>1. /\ reply.pc = "stored" /\ reply' = NoneSent
        /\ execution' = [d \in Calls |->
              IF gets(d) THEN [execution[d] EXCEPT ![last(d)].chan = <<Len(replied)>>]
              ELSE execution[d]]
        /\ UNCHANGED <<chatOf, call, kept, inFlight, runEnded, replied>>
      BY DEF DeliverReply
  <1>2. /\ execution \in [Calls -> Seq(Execution)] /\ replied \in Seq(ReplySent)
        /\ replied # <<>>
        /\ replied[Len(replied)] = [chat |-> reply.chat, msg |-> reply.msg]
      BY <1>1 DEF CallbacksInv, CallbacksTypeOK, RepliesInv
  <1>3. Len(replied) \in DOMAIN replied /\ Len(replied) \in Int
      BY <1>2
  <1>4. ASSUME NEW d \in Calls, gets(d)
        PROVE  /\ last(d) \in DOMAIN execution[d] /\ execution[d][last(d)] \in Execution
               /\ execution[d][last(d)].pc = "registered"
               /\ MeantFor(Len(replied), d)
    <2>1. Registered(d) /\ chatOf[d] = reply.chat /\ reply.msg \in {d, "none"}
        BY <1>4 DEF Addressees, Waiters
    <2>2. last(d) \in DOMAIN execution[d]
      <3>1. execution[d] \in Seq(Execution) /\ execution[d] # <<>>
          BY <1>2, <2>1 DEF Registered
      <3> QED BY <3>1
    <2>3. execution[d][last(d)] \in Execution
        BY <2>2, ExecutionAt
    <2>4. MeantFor(Len(replied), d)
        BY <1>2, <1>3, <2>1 DEF MeantFor
    <2> QED BY <2>1, <2>2, <2>3, <2>4 DEF Registered
  <1>5. ASSUME NEW d \in Calls, gets(d)
        PROVE  /\ with(d) \in Execution /\ with(d).done = execution[d][last(d)].done
               /\ with(d).pc = "registered" /\ with(d).resp = execution[d][last(d)].resp
               /\ with(d).chan = <<Len(replied)>>
               /\ execution'[d] = [execution[d] EXCEPT ![last(d)] = with(d)]
    <2>1. <<Len(replied)>> \in Seq(Int)
        BY <1>3
    <2>2. execution'[d] = [execution[d] EXCEPT ![last(d)] = with(d)]
        BY <1>1, <1>5
    <2>3. /\ with(d) \in Execution /\ with(d).done = execution[d][last(d)].done
          /\ with(d).pc = execution[d][last(d)].pc /\ with(d).resp = execution[d][last(d)].resp
          /\ with(d).chan = <<Len(replied)>>
        BY <1>4, <1>5, <2>1 DEF Execution
    <2> QED BY <1>4, <1>5, <2>2, <2>3
  <1>6. \A d \in Calls : ~gets(d) => execution'[d] = execution[d]
      BY <1>1
  <1>7. ASSUME NEW d \in Calls
        PROVE  /\ execution'[d] \in Seq(Execution)
               /\ DOMAIN execution'[d] = DOMAIN execution[d] /\ Len(execution'[d]) = Len(execution[d])
    <2>1. CASE gets(d)
      <3>1. execution[d] \in Seq(Execution)
          BY <1>2
      <3>2. with(d) \in Execution /\ execution'[d] = [execution[d] EXCEPT ![last(d)] = with(d)]
          BY <1>5, <2>1
      <3>3. last(d) \in DOMAIN execution[d]
          BY <1>4, <2>1
      <3> HIDE DEF with, last
      <3>4. /\ [execution[d] EXCEPT ![last(d)] = with(d)] \in Seq(Execution)
            /\ DOMAIN [execution[d] EXCEPT ![last(d)] = with(d)] = DOMAIN execution[d]
            /\ Len([execution[d] EXCEPT ![last(d)] = with(d)]) = Len(execution[d])
          BY <3>1, <3>2, <3>3
      <3> QED BY <3>2, <3>4
    <2>2. CASE ~gets(d)
        BY <1>2, <1>6, <2>2
    <2> QED BY <2>1, <2>2
  <1>8. ASSUME NEW d \in Calls, NEW j \in DOMAIN execution[d]
        PROVE  /\ execution'[d][j].done = execution[d][j].done
               /\ execution'[d][j].pc = "returned" => execution'[d][j].chan # <<>>
               /\ MeantFor(execution'[d][j].resp, d)
               /\ \A i \in DOMAIN execution'[d][j].chan : MeantFor(execution'[d][j].chan[i], d)
    <2>1. CASE gets(d) /\ j = last(d)
      <3>1. execution'[d][j] = with(d)
          BY <1>2, <1>5, <2>1
      <3>2. /\ with(d).done = execution[d][j].done /\ with(d).pc = "registered"
            /\ with(d).resp = execution[d][j].resp /\ with(d).chan = <<Len(replied)>>
          BY <1>5, <2>1
      <3>3. MeantFor(Len(replied), d) /\ MeantFor(execution[d][j].resp, d)
          BY <1>4, <2>1, ExecutionAt
      <3>4. \A i \in DOMAIN with(d).chan : with(d).chan[i] = Len(replied)
          BY <3>2
      <3> HIDE DEF with, gets, last
      <3> QED BY <3>1, <3>2, <3>3, <3>4
    <2>2. CASE ~(gets(d) /\ j = last(d))
      <3>1. execution'[d][j] = execution[d][j]
        <4>1. CASE gets(d)
          <5>1. execution[d] \in Seq(Execution) /\ j # last(d)
                /\ execution'[d] = [execution[d] EXCEPT ![last(d)] = with(d)]
              BY <1>2, <1>5, <2>2, <4>1
          <5> HIDE DEF with, last
          <5> QED BY <5>1
        <4> QED BY <1>6, <4>1
      <3> HIDE DEF with, gets, last
      <3> QED BY <3>1, ExecutionAt
    <2> QED BY <2>1, <2>2
  <1>9. reply'.pc # "stored"
      BY <1>1 DEF NoneSent
  <1>10. execution' \in [Calls -> Seq(Execution)]
    <2>1. \E f : execution' = [d \in Calls |-> f[d]]
        BY <1>1
    <2> QED BY <1>1, <1>7
  <1> HIDE DEF with, gets, last
  <1>11. OnlyAdvances
      BY <1>1, <1>7, <1>8, <1>9, <1>10 DEF OnlyAdvances
  <1> QED BY <1>11, AdvanceStep

LEMMA MarkAskUserRepliedStep ==
    ASSUME CallbacksInv, NEW chat \in Chats, NEW m \in Calls \cup {"none"}, MarkAskUserReplied(chat, m)
    PROVE  CallbacksInv'
  <1> DEFINE r == [chat |-> chat, msg |-> m]
  <1>1. /\ reply' = [pc |-> "stored", msg |-> m, chat |-> chat]
        /\ replied' = Append(replied, r)
        /\ UNCHANGED <<chatOf, call, kept, inFlight, runEnded, execution>>
      BY DEF MarkAskUserReplied
  <1>2. replied \in Seq(ReplySent) /\ r \in ReplySent
      BY DEF CallbacksInv, CallbacksTypeOK, ReplySent
  <1>3. /\ replied' \in Seq(ReplySent) /\ Len(replied') = Len(replied) + 1 /\ replied' # <<>>
        /\ replied'[Len(replied')] = r
        /\ \A n \in DOMAIN replied : n \in DOMAIN replied' /\ replied'[n] = replied[n]
      BY <1>1, <1>2
  <1>4. \A n, c : MeantFor(n, c) => MeantFor(n, c)'
      BY <1>1, <1>3 DEF MeantFor
  <1>5. CallbacksTypeOK' /\ WaitsInv' /\ KeptInv'
      BY <1>1, <1>3 DEF CallbacksInv, CallbacksTypeOK, WaitsInv, KeptInv
  <1>6. PlacesInv'
      BY <1>1 DEF CallbacksInv, PlacesInv, Executing
  <1>7. (\A c \in Calls :
          /\ MeantFor(call[c].got, c)
          /\ \A k \in DOMAIN execution[c] :
                /\ MeantFor(execution[c][k].resp, c)
                /\ \A i \in DOMAIN execution[c][k].chan : MeantFor(execution[c][k].chan[i], c))'
      BY <1>1, <1>4 DEF CallbacksInv, RepliesInv
  <1>8. (replied # <<>> /\ replied[Len(replied)] = [chat |-> reply.chat, msg |-> reply.msg])'
      BY <1>1, <1>3
  <1> QED BY <1>5, <1>6, <1>7, <1>8 DEF CallbacksInv, RepliesInv

LEMMA FinishStep ==
    ASSUME CallbacksInv, NEW c \in Calls, NEW k \in DOMAIN execution[c], Finish(c, k)
    PROVE  CallbacksInv'
  <1> DEFINE ex == execution[c][k]
  <1>1. /\ ex \in Execution /\ execution \in [Calls -> Seq(Execution)] /\ execution[c] \in Seq(Execution)
        /\ ex.chan \in Seq(Int) /\ MeantFor(ex.resp, c)
        /\ ex.pc = "returned" => ex.chan # <<>>
        /\ \A i \in DOMAIN ex.chan : MeantFor(ex.chan[i], c)
      BY ExecutionAt
  <1>2. /\ ~ex.done /\ inFlight' = inFlight - 1 /\ kept' \in Evicted(kept)
        /\ UNCHANGED <<chatOf, call, runEnded, reply, replied>>
      BY DEF Finish
  <1>3. PICK n \in Int :
            /\ execution' = [execution EXCEPT ![c][k].done = TRUE, ![c][k].resp = n]
            /\ MeantFor(n, c)
    <2>1. CASE ex.pc = "returned" /\ execution' = [execution EXCEPT ![c][k].done = TRUE,
                                                                   ![c][k].resp = ex.chan[1]]
      <3>1. 1 \in DOMAIN ex.chan /\ ex.chan[1] \in Int
          BY <1>1, <2>1
      <3> QED BY <1>1, <2>1, <3>1
    <2>2. CASE execution' = [execution EXCEPT ![c][k].done = TRUE, ![c][k].resp = Cancelled]
      <3>1. Cancelled \in Int /\ MeantFor(Cancelled, c)
          BY DEF Cancelled, MeantFor
      <3> QED BY <2>2, <3>1
    <2> QED BY <2>1, <2>2 DEF Finish
  <1> DEFINE e == [ex EXCEPT !.done = TRUE, !.resp = n]
  <1>4. /\ e \in Execution /\ e.done = TRUE /\ e.resp = n /\ e.chan = ex.chan /\ e.pc = ex.pc
      BY <1>1 DEF Execution
  <1>5. Advanced(c, k, e)
      BY <1>1, <1>3, <1>4 DEF Advanced
  <1> HIDE DEF e
  <1>6. /\ execution' \in [Calls -> Seq(Execution)]
        /\ \A d \in Calls : DOMAIN execution'[d] = DOMAIN execution[d]
                            /\ Len(execution'[d]) = Len(execution[d])
        /\ \A d \in Calls : \A j \in DOMAIN execution[d] :
              execution'[d][j] = IF d = c /\ j = k THEN e ELSE execution[d][j]
      BY <1>1, <1>5, AdvancedAt
  <1>7. CallbacksTypeOK'
    <2>1. kept' \in [Calls -> Nat]
        BY <1>2, CallbackConstants DEF Evicted
    <2>2. inFlight' \in Int
        BY <1>2 DEF CallbacksInv, CallbacksTypeOK
    <2> QED BY <1>2, <1>6, <2>1, <2>2 DEF CallbacksInv, CallbacksTypeOK
  <1>8. WaitsInv'
    <2>1. \A d \in Calls : execution[d] = <<>> => execution'[d] = <<>>
      <3> SUFFICES ASSUME NEW d \in Calls, execution[d] = <<>> PROVE execution'[d] = <<>>
          OBVIOUS
      <3>1. execution'[d] \in Seq(Execution) /\ Len(execution'[d]) = 0
          BY <1>6
      <3> QED BY <3>1
    <2>2. \A d \in Calls : \A j \in DOMAIN execution[d] :
             execution'[d][j].pc = "returned" => execution'[d][j].chan # <<>>
      <3>1. \A d \in Calls : \A j \in DOMAIN execution[d] :
               execution[d][j].pc = "returned" => execution[d][j].chan # <<>>
          BY DEF CallbacksInv, WaitsInv
      <3> QED BY <1>1, <1>4, <1>6, <3>1
    <2> QED BY <1>2, <1>6, <2>1, <2>2 DEF CallbacksInv, WaitsInv
  <1>9. KeptInv'
    <2>2. \A d \in Calls : kept'[d] # 0 => kept'[d] \in DOMAIN execution[d]
        BY <1>2 DEF Evicted, CallbacksInv, KeptInv
    <2> SUFFICES ASSUME NEW d \in Calls, NEW j \in DOMAIN execution[d], ~execution'[d][j].done
                 PROVE  kept'[d] = j
        BY <1>6, <2>2 DEF KeptInv
    <2>1. ~execution[d][j].done /\ kept[d] = j
        BY <1>4, <1>6 DEF CallbacksInv, KeptInv
    <2> QED BY <1>2, <2>1 DEF Evicted
  <1>10. PlacesInv'
    <2>1. <<c, k>> \in Executing
      <3>1. Len(execution[c]) <= MaxExecutions /\ MaxExecutions \in Nat
          BY CallbackConstants DEF CallbacksInv, WaitsInv
      <3>2. k \in 1 .. MaxExecutions
          BY <1>1, <3>1
      <3> QED BY <1>2, <3>2 DEF Executing
    <2>2. Executing' = Executing \ {<<c, k>>}
        BY <1>4, <1>6 DEF Executing
    <2>3. IsFiniteSet(Executing) /\ inFlight = Cardinality(Executing)
        BY DEF CallbacksInv, PlacesInv
    <2> QED BY <1>2, <2>1, <2>2, <2>3, FS_RemoveElement DEF PlacesInv
  <1>11. RepliesInv'
    <2>1. \A m, d : MeantFor(m, d) => MeantFor(m, d)'
        BY <1>2 DEF MeantFor
    <2>2. \A d \in Calls : \A j \in DOMAIN execution[d] :
              /\ MeantFor(execution'[d][j].resp, d)
              /\ \A i \in DOMAIN execution'[d][j].chan : MeantFor(execution'[d][j].chan[i], d)
      <3> SUFFICES ASSUME NEW d \in Calls, NEW j \in DOMAIN execution[d]
                   PROVE  /\ MeantFor(execution'[d][j].resp, d)
                          /\ \A i \in DOMAIN execution'[d][j].chan :
                                MeantFor(execution'[d][j].chan[i], d)
          OBVIOUS
      <3>1. CASE d = c /\ j = k
        <4>1. execution'[d][j] = e
            BY <1>6, <3>1
        <4> QED BY <1>1, <1>3, <1>4, <3>1, <4>1
      <3>2. CASE ~(d = c /\ j = k)
        <4>1. execution'[d][j] = execution[d][j]
            BY <1>6, <3>2
        <4> QED BY <4>1, ExecutionAt
      <3> QED BY <3>1, <3>2
    <2>3. (\A d \in Calls : MeantFor(call[d].got, d))'
        BY <1>2 DEF CallbacksInv, RepliesInv, MeantFor
    <2>4. (\A d \in Calls : \A j \in DOMAIN execution[d] :
              /\ MeantFor(execution[d][j].resp, d)
              /\ \A i \in DOMAIN execution[d][j].chan : MeantFor(execution[d][j].chan[i], d))'
        BY <1>2, <1>6, <2>2 DEF MeantFor
    <2> QED BY <1>2, <2>3, <2>4 DEF CallbacksInv, RepliesInv
  <1> QED BY <1>7, <1>8, <1>9, <1>10, <1>11 DEF CallbacksInv

\* An execution begins: the map holds the new one, and no other runs.
LEMMA BeginStep ==
    ASSUME CallbacksInv, NEW c \in Calls, call[c].pc = "retry", kept[c] = 0,
           Len(execution[c]) < MaxExecutions, Begun(c),
           kept' = [kept EXCEPT ![c] = Len(execution[c]) + 1], inFlight' = inFlight + 1,
           call' = [call EXCEPT ![c].pc = "sent", ![c].waitsFor = Len(execution[c]) + 1],
           UNCHANGED <<chatOf, runEnded, reply, replied>>
    PROVE  CallbacksInv'
  <1> DEFINE k == Len(execution[c]) + 1
             e == [call[c] EXCEPT !.pc = "sent", !.waitsFor = k]
  <1>1. /\ call \in [Calls -> Call] /\ call[c] \in Call /\ execution \in [Calls -> Seq(Execution)]
        /\ kept \in [Calls -> Nat] /\ execution[c] \in Seq(Execution)
      BY DEF CallbacksInv, CallbacksTypeOK
  <1>2. k \in Nat /\ k \in 1 .. MaxExecutions
      BY <1>1, CallbackConstants
  <1>3. /\ execution' \in [Calls -> Seq(Execution)]
        /\ \A d \in Calls \ {c} : execution'[d] = execution[d]
        /\ Len(execution'[c]) = k
        /\ DOMAIN execution'[c] = DOMAIN execution[c] \cup {k}
        /\ k \notin DOMAIN execution[c]
        /\ execution'[c][k] = Asking
        /\ \A j \in DOMAIN execution[c] : execution'[c][j] = execution[c][j]
      BY <1>1, BegunAt
  <1>4. /\ \A d \in Calls \ {c} : call'[d] = call[d]
        /\ call'[c] = e
        /\ call' \in [Calls -> Call] /\ e.pc = "sent" /\ e.waitsFor = k /\ e.got = call[c].got
    <2>1. e \in Call /\ e.pc = "sent" /\ e.waitsFor = k /\ e.got = call[c].got
        BY <1>1, <1>2 DEF Call
    <2>2. call' = [call EXCEPT ![c] = e]
        BY <1>1
    <2> QED BY <1>1, <2>1, <2>2
  <1>5. kept' \in [Calls -> Nat] /\ kept'[c] = k /\ \A d \in Calls \ {c} : kept'[d] = kept[d]
      BY <1>1, <1>2
  <1> HIDE DEF k, e
  <1>6. \A j \in DOMAIN execution[c] : execution[c][j].done
    <2>1. \A j \in DOMAIN execution[c] : j # 0
        BY <1>1
    <2> QED BY <2>1 DEF CallbacksInv, KeptInv
  <1>7. CallbacksTypeOK'
      BY <1>3, <1>4, <1>5 DEF CallbacksInv, CallbacksTypeOK
  <1>8. WaitsInv'
    <2>1. Asking.pc # "returned"
        BY DEF Asking
    <2>2. k <= MaxExecutions
        BY <1>2
    <2>3. \A d \in Calls :
              /\ Len(execution'[d]) <= MaxExecutions
              /\ call'[d].pc = "sent" => call'[d].waitsFor \in DOMAIN execution'[d]
              /\ call'[d].pc = "idle" => execution'[d] = <<>> /\ call'[d].got = NoReply
        BY <1>3, <1>4, <2>2 DEF CallbacksInv, WaitsInv
    <2>4. \A d \in Calls : \A j \in DOMAIN execution'[d] :
              execution'[d][j].pc = "returned" => execution'[d][j].chan # <<>>
        BY <1>3, <2>1 DEF CallbacksInv, WaitsInv
    <2> QED BY <2>3, <2>4 DEF WaitsInv
  <1>9. KeptInv'
    <2>1. kept'[c] \in DOMAIN execution'[c]
        BY <1>3, <1>5
    <2>2. \A j \in DOMAIN execution'[c] : ~execution'[c][j].done => kept'[c] = j
        BY <1>3, <1>5, <1>6
    <2>3. \A d \in Calls \ {c} :
              /\ kept'[d] # 0 => kept'[d] \in DOMAIN execution'[d]
              /\ \A j \in DOMAIN execution'[d] : ~execution'[d][j].done => kept'[d] = j
        BY <1>3, <1>5 DEF CallbacksInv, KeptInv
    <2> QED BY <2>1, <2>2, <2>3 DEF KeptInv
  <1>10. PlacesInv'
    <2>1. Executing' = Executing \cup {<<c, k>>}
        BY <1>2, <1>3 DEF Executing, Asking
    <2>2. <<c, k>> \notin Executing
        BY <1>3 DEF Executing
    <2>3. IsFiniteSet(Executing) /\ inFlight = Cardinality(Executing)
        BY DEF CallbacksInv, PlacesInv
    <2> QED BY <2>1, <2>2, <2>3, FS_AddElement DEF PlacesInv
  <1>11. RepliesInv'
    <2>1. \A m, d : MeantFor(m, d) => MeantFor(m, d)'
        BY DEF MeantFor
    <2>2. (\A d \in Calls : MeantFor(call[d].got, d))'
        BY <1>4 DEF CallbacksInv, RepliesInv, MeantFor
    <2>3. \A d \in Calls : \A j \in DOMAIN execution'[d] :
              /\ MeantFor(execution'[d][j].resp, d)
              /\ \A i \in DOMAIN execution'[d][j].chan : MeantFor(execution'[d][j].chan[i], d)
      <3>1. MeantFor(Asking.resp, c) /\ Asking.chan = <<>>
          BY DEF MeantFor, Asking, NoReply
      <3>2. \A d \in Calls : \A j \in DOMAIN execution[d] :
                /\ MeantFor(execution[d][j].resp, d)
                /\ \A i \in DOMAIN execution[d][j].chan : MeantFor(execution[d][j].chan[i], d)
          BY DEF CallbacksInv, RepliesInv
      <3>3. \A d \in Calls : \A j \in DOMAIN execution'[d] :
                \/ d = c /\ execution'[d][j] = Asking
                \/ j \in DOMAIN execution[d] /\ execution'[d][j] = execution[d][j]
          BY <1>3
      <3>4. \A i \in DOMAIN Asking.chan : FALSE
          BY <3>1
      <3> HIDE DEF MeantFor
      <3> SUFFICES ASSUME NEW d \in Calls, NEW j \in DOMAIN execution'[d]
                   PROVE  /\ MeantFor(execution'[d][j].resp, d)
                          /\ \A i \in DOMAIN execution'[d][j].chan :
                                MeantFor(execution'[d][j].chan[i], d)
          OBVIOUS
      <3>5. CASE d = c /\ execution'[d][j] = Asking
          BY <3>1, <3>4, <3>5
      <3>6. CASE j \in DOMAIN execution[d] /\ execution'[d][j] = execution[d][j]
          BY <3>2, <3>6
      <3> QED BY <3>3, <3>5, <3>6
    <2>4. (\A d \in Calls : \A j \in DOMAIN execution[d] :
              /\ MeantFor(execution[d][j].resp, d)
              /\ \A i \in DOMAIN execution[d][j].chan : MeantFor(execution[d][j].chan[i], d))'
        BY <2>3 DEF MeantFor
    <2> QED BY <2>2, <2>4 DEF CallbacksInv, RepliesInv
  <1> QED BY <1>7, <1>8, <1>9, <1>10, <1>11 DEF CallbacksInv

LEMMA RunStep ==
    ASSUME CallbacksInv, NEW c \in Calls, Run(c)
    PROVE  CallbacksInv'
  <1>1. /\ call[c].pc = "retry" /\ UNCHANGED <<chatOf, runEnded, reply, replied>>
        /\ runEnded' \subseteq Calls
      BY DEF Run, CallbacksInv, CallbacksTypeOK
  <1>2. CASE Fail(c) /\ UNCHANGED <<kept, execution, inFlight>>
      BY <1>1, <1>2, EndsCall
  <1>3. CASE /\ kept[c] # 0
             /\ call' = [call EXCEPT ![c].pc = "sent", ![c].waitsFor = kept[c]]
             /\ UNCHANGED <<kept, execution, inFlight>>
    <2> DEFINE e == [call[c] EXCEPT !.pc = "sent", !.waitsFor = kept[c]]
    <2>1. call \in [Calls -> Call] /\ call[c] \in Call /\ kept[c] \in Nat
        BY DEF CallbacksInv, CallbacksTypeOK
    <2>2. e \in Call /\ e.pc = "sent" /\ e.waitsFor = kept[c] /\ e.got = call[c].got
        BY <2>1 DEF Call
    <2>3. call' = [call EXCEPT ![c] = e]
        BY <1>3, <2>1
    <2>4. kept[c] \in DOMAIN execution[c]
        BY <1>3 DEF CallbacksInv, KeptInv
    <2>5. MeantFor(call[c].got, c)
        BY DEF CallbacksInv, RepliesInv
    <2> HIDE DEF e
    <2>6. OnlyCall(c)
        BY <1>1, <1>3, <2>1, <2>2, <2>3, <2>4, <2>5 DEF OnlyCall
    <2> QED BY <2>6, CallerStep
  <1>4. CASE /\ kept[c] = 0 /\ Len(execution[c]) < MaxExecutions
             /\ execution' = [execution EXCEPT ![c] = Append(@, Asking)]
             /\ kept' = [kept EXCEPT ![c] = Len(execution[c]) + 1]
             /\ inFlight' = inFlight + 1
             /\ call' = [call EXCEPT ![c].pc = "sent", ![c].waitsFor = Len(execution[c]) + 1]
    <2>1. Begun(c)
        BY <1>4 DEF Begun
    <2> QED BY <1>1, <1>4, <2>1, BeginStep
  <1> QED BY <1>2, <1>3, <1>4 DEF Run, Begin

LEMMA CallbacksStepInv ==
    ASSUME CallbacksInv, [CallbacksNext]_callbackVars
    PROVE  CallbacksInv'
  <1>1. CASE UNCHANGED callbackVars
    <2>1. /\ CallbacksTypeOK' /\ WaitsInv' /\ KeptInv'
        BY <1>1 DEF CallbacksInv, CallbacksTypeOK, WaitsInv, KeptInv, callbackVars
    <2>2. PlacesInv' /\ RepliesInv'
        BY <1>1 DEF CallbacksInv, PlacesInv, Executing, RepliesInv, MeantFor, callbackVars
    <2> QED BY <2>1, <2>2 DEF CallbacksInv
  <1>2. ASSUME NEW c \in Calls, NEW chat \in Chats, HandleAskUser(c, chat)
        PROVE  CallbacksInv'
      BY <1>2, HandleAskUserStep
  <1>3. ASSUME NEW c \in Calls, Run(c) \/ LoseConnection(c) \/ Respond(c) \/ EndRun(c)
        PROVE  CallbacksInv'
      BY <1>3, RunStep, LoseConnectionStep, RespondStep, EndRunStep
  <1>4. ASSUME NEW c \in Calls, NEW k \in DOMAIN execution[c],
               PublishQuestion(c, k) \/ RegisterAskWaiter(c, k) \/ TakeReply(c, k) \/ Finish(c, k)
        PROVE  CallbacksInv'
      BY <1>4, AskStep, TakeReplyStep, FinishStep
  <1>5. ASSUME NEW chat \in Chats, NEW c \in Calls \cup {"none"}, MarkAskUserReplied(chat, c)
        PROVE  CallbacksInv'
      BY <1>5, MarkAskUserRepliedStep
  <1> QED BY <1>1, <1>2, <1>3, <1>4, <1>5, DeliverReplyStep DEF CallbacksNext

LEMMA CallbacksAlways == CallbacksSpec => []CallbacksInv
  <1>1. CallbacksInit => CallbacksInv
      BY CallbacksStart
  <1>2. CallbacksInv /\ [CallbacksNext]_callbackVars => CallbacksInv'
      BY CallbacksStepInv
  <1> QED BY <1>1, <1>2, PTL DEF CallbacksSpec

\* The user is not asked by two executions of one call at a time (run,
\* evictLocked): the map holds each execution that is not finished, and it holds
\* one for each call.
THEOREM AskedOnce == CallbacksSpec => []OneExecution
  <1>1. CallbacksInv => OneExecution
    <2> SUFFICES ASSUME CallbacksInv, NEW c \in Calls
                 PROVE  Cardinality({k \in DOMAIN execution[c] : ~execution[c][k].done}) <= 1
        BY DEF OneExecution
    <2> DEFINE running == {k \in DOMAIN execution[c] : ~execution[c][k].done}
    <2>1. running \subseteq {kept[c]}
        BY DEF CallbacksInv, KeptInv
    <2>2. IsFiniteSet({kept[c]}) /\ Cardinality({kept[c]}) = 1
        BY FS_Singleton
    <2> HIDE DEF running
    <2>3. Cardinality(running) <= 1
        BY <2>1, <2>2, FS_Subset
    <2> QED BY <2>3 DEF running
  <1> QED BY <1>1, CallbacksAlways, PTL

\* Every reply an agent is told was meant for its question or for its chat's
\* (handleAskUserReply).
THEOREM RepliesReachTheirAgent == CallbacksSpec => []ReplyIsForAsker
  <1>1. CallbacksInv => ReplyIsForAsker
      BY DEF CallbacksInv, RepliesInv, MeantFor, ReplyIsForAsker
  <1> QED BY <1>1, CallbacksAlways, PTL

\* The count of executing calls is exact (run, execute).
THEOREM PlacesCounted == CallbacksSpec => []NoPlaceLeaks
  <1>1. CallbacksInv => NoPlaceLeaks
      BY DEF CallbacksInv, PlacesInv, Executing, NoPlaceLeaks
  <1> QED BY <1>1, CallbacksAlways, PTL

\* The three together, as the runs check them (run, execute, handleAskUserReply).
THEOREM CallsAreExact == CallbacksSpec => []CallbacksExact
  <1>1. OneExecution /\ ReplyIsForAsker /\ NoPlaceLeaks => CallbacksExact
      BY DEF CallbacksExact
  <1> QED BY <1>1, AskedOnce, RepliesReachTheirAgent, PlacesCounted, PTL

-----------------------------------------------------------------------------
(* The calls to another agent *)

\* A set of calls that has with a call also the one it was made from.
ClosedUp(S) == \A i \in S : peer[i].parent # 0 => peer[i].parent \in S
Depth(k) == Cardinality(Ancestors(k))

PeerCall == [pc : {"none", "asked", "checked", "in", "done"}, parent : {0} \cup PeerIds,
             caller : PeerAgents \cup {"none"}, target : PeerAgents \cup {"none"},
             holder : Nat, late : BOOLEAN]
PeersTypeOK ==
    /\ held \in [id : Nat, agent : PeerAgents \cup {"none"}]
    /\ executions \in Nat
    /\ chain \in Seq(PeerAgents \cup {"none"})
    /\ peer \in [PeerIds -> PeerCall]

\* The calls are numbered in the order in which they are made.
NoneAfter(k) == \A j \in PeerIds : j > k => peer[j].pc = "none"

\* A call is made from an earlier one that still runs or has run, or by the agent
\* that holds the chat.
CallersInv ==
    /\ held.id <= executions
    /\ \A k \in PeerIds :
          /\ peer[k].pc = "none" => peer[k].parent = 0 /\ NoneAfter(k)
          /\ peer[k].pc # "none" =>
                /\ peer[k].holder \in 1 .. executions
                /\ peer[k].parent < k
                /\ peer[k].parent = 0 /\ peer[k].holder = held.id => peer[k].caller = held.agent
                /\ peer[k].parent # 0 =>
                      /\ peer[peer[k].parent].pc \in {"in", "done"}
                      /\ peer[k].caller = peer[peer[k].parent].target
          /\ peer[k].late => peer[k].pc \in {"in", "done"}
          /\ peer[k].pc = "in" => peer[k].caller # peer[k].target

\* The chain has no agent twice, is no longer than it may be and as long as the
\* calls that run.
ChainInv ==
    /\ \A i, j \in DOMAIN chain : chain[i] = chain[j] => i = j
    /\ Len(chain) <= maxPeerCallDepth
    /\ ChainMatches

\* A nested call with unbroken callers runs, or is about to, in a chain that begins
\* at the agent that holds the chat.
RootInv ==
    \A k, p \in PeerIds : peer[k].parent = p =>
        /\ peer[k].pc = "checked" /\ peer[k].holder = held.id /\ Unbroken(p) =>
              chain[1] = held.agent
        /\ peer[k].pc = "in" /\ Unbroken(k) => chain[1] = held.agent

\* In such a chain a call stands as far down as it has callers.
PlaceInv ==
    \A k \in In : Unbroken(k) /\ chain[1] = held.agent =>
        /\ Len(chain) >= Depth(k) + 1
        /\ chain[Depth(k) + 1] = peer[k].target

\* Without late calls this is so for each call of the execution that holds the chat.
PunctualInv ==
    (\A k \in PeerIds : ~peer[k].late) =>
        \A k \in PeerIds :
            peer[k].pc \in {"checked", "in"} /\ peer[k].holder = held.id =>
                chain = <<>> \/ chain[1] = held.agent

PeersInv ==
    /\ PeersTypeOK /\ CallersInv /\ ChainInv /\ RootInv /\ PlaceInv /\ PunctualInv
    /\ OneCallPerCaller

-----------------------------------------------------------------------------
LEMMA PeersStart == ASSUME PeersInit PROVE PeersInv
  <1> USE PeerConstants DEF PeersInit
  <1>1. PeersTypeOK
      BY DEF PeersTypeOK, PeerCall, NoCall
  <1>2. In = {}
      BY DEF In, NoCall
  <1>3. CallersInv
      BY DEF CallersInv, NoneAfter, NoCall
  <1>4. ChainInv
      BY <1>2 DEF ChainInv, ChainMatches
  <1>5. RootInv /\ PlaceInv /\ PunctualInv /\ OneCallPerCaller
      BY <1>2 DEF RootInv, PlaceInv, PunctualInv, OneCallPerCaller, NoCall
  <1> QED BY <1>1, <1>3, <1>4, <1>5 DEF PeersInv

\* What the callers of a call are.
LEMMA AncestorsClosed ==
    ASSUME NEW k \in PeerIds, NEW S \in SUBSET PeerIds, k \in S, ClosedUp(S)
    PROVE  Ancestors(k) \subseteq S
  BY DEF Ancestors, ClosedUp

LEMMA AncestorsAre ==
    ASSUME PeersTypeOK, CallersInv, NEW k \in PeerIds
    PROVE  /\ k \in Ancestors(k) /\ Ancestors(k) \subseteq 1 .. k /\ ClosedUp(Ancestors(k))
           /\ peer[k].parent = 0 => Ancestors(k) = {k}
           /\ peer[k].parent # 0 =>
                 /\ peer[k].parent \in PeerIds /\ peer[k].parent < k
                 /\ Ancestors(k) = {k} \cup Ancestors(peer[k].parent)
  <1>1. k \in Ancestors(k) /\ ClosedUp(Ancestors(k))
    <2>1. \A i \in PeerIds : peer[i].parent # 0 => peer[i].parent \in PeerIds
        BY DEF PeersTypeOK, PeerCall
    <2> QED BY <2>1 DEF Ancestors, ClosedUp
  <1>2. \A i \in PeerIds : peer[i].parent # 0 => peer[i].parent \in PeerIds /\ peer[i].parent < i
      BY DEF PeersTypeOK, PeerCall, CallersInv
  <1>3. Ancestors(k) \subseteq 1 .. k
    <2>1. 1 .. k \in SUBSET PeerIds /\ k \in 1 .. k
        BY PeerConstants DEF PeerIds
    <2>2. ClosedUp(1 .. k)
        BY <1>2, <2>1, PeerConstants DEF ClosedUp, PeerIds
    <2> QED BY <2>1, <2>2, AncestorsClosed
  <1>4. ASSUME peer[k].parent = 0 PROVE Ancestors(k) = {k}
    <2>1. ClosedUp({k})
        BY <1>4 DEF ClosedUp
    <2> QED BY <1>1, <2>1, AncestorsClosed
  <1>5. ASSUME peer[k].parent # 0 PROVE Ancestors(k) = {k} \cup Ancestors(peer[k].parent)
    <2> DEFINE p == peer[k].parent
    <2>1. p \in PeerIds
        BY <1>2, <1>5
    <2> HIDE DEF p
    <2>2. p \in Ancestors(p) /\ ClosedUp(Ancestors(p)) /\ Ancestors(p) \in SUBSET PeerIds
      <3>1. \A i \in PeerIds : peer[i].parent # 0 => peer[i].parent \in PeerIds
          BY <1>2
      <3> QED BY <2>1, <3>1 DEF Ancestors, ClosedUp
    <2>3. ClosedUp({k} \cup Ancestors(p))
        BY <2>2 DEF ClosedUp, p
    <2>4. Ancestors(k) \subseteq {k} \cup Ancestors(p)
        BY <2>2, <2>3, AncestorsClosed
    <2>5. p \in Ancestors(k) /\ Ancestors(k) \in SUBSET PeerIds
        BY <1>1, <1>5 DEF ClosedUp, p, Ancestors
    <2>6. Ancestors(p) \subseteq Ancestors(k)
        BY <1>1, <2>1, <2>5, AncestorsClosed
    <2> QED BY <1>1, <2>4, <2>6 DEF p
  <1> QED BY <1>1, <1>2, <1>3, <1>4, <1>5

LEMMA AncestorsFinite ==
    ASSUME PeersTypeOK, CallersInv, NEW k \in PeerIds
    PROVE  /\ IsFiniteSet(Ancestors(k)) /\ Depth(k) \in Nat \ {0}
           /\ peer[k].parent = 0 => Depth(k) = 1
           /\ peer[k].parent # 0 => Depth(k) = Depth(peer[k].parent) + 1
  <1>1. ASSUME NEW j \in PeerIds PROVE IsFiniteSet(Ancestors(j)) /\ Depth(j) \in Nat
    <2>1. IsFiniteSet(1 .. j)
        BY FS_Interval, PeerConstants DEF PeerIds
    <2>2. Ancestors(j) \in SUBSET (1 .. j)
        BY AncestorsAre
    <2>3. IsFiniteSet(Ancestors(j))
        BY <2>1, <2>2, FS_Subset
    <2> QED BY <2>3, FS_CardinalityType DEF Depth
  <1>2. Depth(k) # 0
    <2>1. k \in Ancestors(k)
        BY AncestorsAre
    <2> QED BY <1>1, <2>1, FS_EmptySet DEF Depth
  <1>3. ASSUME peer[k].parent = 0 PROVE Depth(k) = 1
      BY <1>3, AncestorsAre, FS_Singleton DEF Depth
  <1>4. ASSUME peer[k].parent # 0 PROVE Depth(k) = Depth(peer[k].parent) + 1
    <2> DEFINE p == peer[k].parent
    <2>1. p \in PeerIds /\ p < k /\ Ancestors(k) = Ancestors(p) \cup {k}
        BY <1>4, AncestorsAre
    <2> HIDE DEF p
    <2>2. Ancestors(p) \subseteq 1 .. p
        BY <2>1, AncestorsAre
    <2>3. k \notin Ancestors(p)
        BY <2>1, <2>2, PeerConstants DEF PeerIds
    <2>4. Depth(k) = Depth(p) + 1
        BY <1>1, <2>1, <2>3, FS_AddElement DEF Depth
    <2> QED BY <2>4 DEF p
  <1> QED BY <1>1, <1>2, <1>3, <1>4

\* Of two callers of a call the one is above the other, and less deep.
LEMMA AncestorsInLine ==
    ASSUME PeersTypeOK, CallersInv, NEW k \in PeerIds,
           NEW i \in Ancestors(k), NEW j \in Ancestors(k), i < j
    PROVE  i \in Ancestors(j) /\ Depth(i) < Depth(j)
  <1>1. Ancestors(k) \in SUBSET PeerIds /\ i \in PeerIds /\ j \in PeerIds
      BY DEF Ancestors
  <1> DEFINE S == {m \in Ancestors(k) : m >= i => i \in Ancestors(m)}
  <1>2. k \in S
      BY AncestorsAre
  <1>3. ClosedUp(S)
    <2> SUFFICES ASSUME NEW m \in S, peer[m].parent # 0 PROVE peer[m].parent \in S
        BY DEF ClosedUp
    <2>1. /\ m \in PeerIds /\ peer[m].parent < m /\ peer[m].parent \in PeerIds
          /\ Ancestors(m) = {m} \cup Ancestors(peer[m].parent)
        BY <1>1, AncestorsAre
    <2>2. peer[m].parent \in Ancestors(k)
        BY AncestorsAre DEF ClosedUp
    <2>3. peer[m].parent >= i => i \in Ancestors(peer[m].parent)
        BY <1>1, <2>1, PeerConstants DEF PeerIds
    <2> QED BY <2>2, <2>3
  <1>4. Ancestors(k) \subseteq S
      BY <1>1, <1>2, <1>3, AncestorsClosed
  <1>5. i \in Ancestors(j)
      BY <1>1, <1>4, PeerConstants DEF PeerIds
  <1>6. Ancestors(i) \subseteq Ancestors(j) /\ j \notin Ancestors(i) /\ j \in Ancestors(j)
    <2>1. ClosedUp(Ancestors(j)) /\ Ancestors(j) \in SUBSET PeerIds /\ j \in Ancestors(j)
        BY <1>1, AncestorsAre DEF Ancestors
    <2>2. Ancestors(i) \subseteq Ancestors(j)
        BY <1>1, <1>5, <2>1, AncestorsClosed
    <2>3. Ancestors(i) \subseteq 1 .. i
        BY <1>1, AncestorsAre
    <2> QED BY <1>1, <2>1, <2>2, <2>3, PeerConstants DEF PeerIds
  <1>7. IsFiniteSet(Ancestors(j)) /\ Depth(i) \in Nat /\ Depth(j) \in Nat
      BY <1>1, AncestorsFinite
  <1>8. Depth(i) <= Depth(j) /\ Depth(i) # Depth(j)
      BY <1>6, <1>7, FS_Subset DEF Depth
  <1> QED BY <1>5, <1>7, <1>8

\* The callers of a call whose callers are unbroken are too.
LEMMA UnbrokenUp ==
    ASSUME PeersTypeOK, CallersInv, NEW k \in PeerIds, Unbroken(k)
    PROVE  \A j \in Ancestors(k) : j \in In /\ peer[j].holder = held.id /\ Unbroken(j)
  <1> SUFFICES ASSUME NEW j \in Ancestors(k)
               PROVE  j \in In /\ peer[j].holder = held.id /\ Unbroken(j)
      OBVIOUS
  <1>1. j \in PeerIds /\ Ancestors(k) \in SUBSET PeerIds
      BY DEF Ancestors
  <1>2. Ancestors(j) \subseteq Ancestors(k)
      BY <1>1, AncestorsAre, AncestorsClosed
  <1> QED BY <1>1, <1>2 DEF Unbroken, In

\* Above a call are calls that run or have run.
LEMMA AncestorsRun ==
    ASSUME PeersTypeOK, CallersInv, NEW k \in PeerIds
    PROVE  \A j \in Ancestors(k) : j # k => peer[j].pc \in {"in", "done"}
  <1> DEFINE S == {k} \cup {j \in PeerIds : peer[j].pc \in {"in", "done"}}
  <1>1. S \in SUBSET PeerIds /\ k \in S
      OBVIOUS
  <1>2. ClosedUp(S)
    <2> SUFFICES ASSUME NEW i \in S, peer[i].parent # 0 PROVE peer[i].parent \in S
        BY DEF ClosedUp
    <2>1. i \in PeerIds /\ peer[i].parent \in PeerIds
        BY DEF PeersTypeOK, PeerCall
    <2> QED BY <2>1 DEF CallersInv
  <1> HIDE DEF S
  <1>3. Ancestors(k) \subseteq S
      BY <1>1, <1>2, AncestorsClosed
  <1> QED BY <1>3 DEF S

\* The callers of a call are the same as long as none of them changes its own.
LEMMA AncestorsKept ==
    ASSUME PeersTypeOK, NEW k \in PeerIds,
           \A i \in Ancestors(k) : peer'[i].parent = peer[i].parent
    PROVE  Ancestors(k)' = Ancestors(k)
  <1> DEFINE Closed(S) == \A i \in S : peer'[i].parent # 0 => peer'[i].parent \in S
  <1>1. /\ k \in Ancestors(k) /\ ClosedUp(Ancestors(k)) /\ Ancestors(k) \in SUBSET PeerIds
    <2>1. \A i \in PeerIds : peer[i].parent # 0 => peer[i].parent \in PeerIds
        BY DEF PeersTypeOK, PeerCall
    <2> QED BY <2>1 DEF Ancestors, ClosedUp
  <1>2. Ancestors(k)' = {j \in PeerIds : \A S \in SUBSET PeerIds : k \in S /\ Closed(S) => j \in S}
      BY DEF Ancestors, PeerIds
  <1>3. Closed(Ancestors(k))
      BY <1>1 DEF ClosedUp
  <1>4. Ancestors(k)' \subseteq Ancestors(k)
      BY <1>1, <1>2, <1>3
  <1>5. ASSUME NEW S \in SUBSET PeerIds, k \in S, Closed(S) PROVE Ancestors(k) \subseteq S
    <2>1. ClosedUp(S \cap Ancestors(k))
        BY <1>1, <1>5 DEF ClosedUp
    <2>2. k \in S \cap Ancestors(k) /\ S \cap Ancestors(k) \in SUBSET PeerIds
        BY <1>1, <1>5
    <2> QED BY <2>1, <2>2, AncestorsClosed
  <1>6. Ancestors(k) \subseteq Ancestors(k)'
      BY <1>1, <1>2, <1>5
  <1> QED BY <1>4, <1>6

LEMMA ChainLength ==
    ASSUME PeersTypeOK, ChainMatches
    PROVE  /\ IsFiniteSet(In) /\ Cardinality(In) \in Nat
           /\ chain = <<>> <=> In = {}
           /\ In # {} => Len(chain) = Cardinality(In) + 1 /\ Len(chain) >= 2
  <1>1. IsFiniteSet(PeerIds)
      BY FS_Interval, PeerConstants DEF PeerIds
  <1>2. In \in SUBSET PeerIds
      BY DEF In
  <1>3. IsFiniteSet(In) /\ Cardinality(In) \in Nat
      BY <1>1, <1>2, FS_Subset, FS_CardinalityType
  <1>4. In # {} => Cardinality(In) # 0
      BY <1>3, FS_EmptySet
  <1>5. chain = <<>> <=> Len(chain) = 0
      BY DEF PeersTypeOK
  <1> QED BY <1>3, <1>4, <1>5 DEF ChainMatches

\* Nobody waits for itself.
LEMMA LineIsDistinct == ASSUME PeersInv PROVE NoWaitCycle
  <1> USE DEF PeersInv
  <1> SUFFICES ASSUME NEW k \in In, Unbroken(k)
               PROVE  LET line == Ancestors(k)
                          agents == {peer[j].target : j \in line} \cup {held.agent}
                      IN  Cardinality(agents) = Cardinality(line) + 1
                          /\ Cardinality(agents) <= maxPeerCallDepth
      BY DEF NoWaitCycle
  <1> DEFINE line == Ancestors(k)
             agents == {peer[j].target : j \in line} \cup {held.agent}
  <1>1. /\ k \in PeerIds /\ In # {} /\ chain \in Seq(PeerAgents \cup {"none"})
        /\ Len(chain) >= 2 /\ Len(chain) <= maxPeerCallDepth
        /\ \A i, j \in DOMAIN chain : chain[i] = chain[j] => i = j
      BY ChainLength DEF In, ChainInv, PeersTypeOK
  <1>2. \A j \in line : j \in In /\ peer[j].holder = held.id /\ Unbroken(j) /\ j \in PeerIds
      BY <1>1, UnbrokenUp DEF In
  <1>3. IsFiniteSet(line) /\ Cardinality(line) = Depth(k) /\ Depth(k) \in Nat \ {0} /\ 0 \notin line
    <2>1. 0 \notin line
        BY PeerConstants DEF Ancestors, PeerIds
    <2>2. IsFiniteSet(line) /\ Depth(k) \in Nat \ {0}
        BY <1>1, AncestorsFinite
    <2> QED BY <2>1, <2>2 DEF Depth
  <1> HIDE DEF line
  <1>4. /\ \A j \in line : peer[j].target # held.agent
        /\ \A i, j \in line : peer[i].target = peer[j].target => i = j
        /\ Cardinality(line) + 1 <= maxPeerCallDepth
    <2>1. CASE peer[k].parent = 0
      <3>1. line = {k} /\ Depth(k) = 1
          BY <1>1, <2>1, AncestorsAre, AncestorsFinite DEF line
      <3>2. peer[k].caller = held.agent /\ peer[k].caller # peer[k].target
          BY <1>1, <1>2, <2>1, <3>1 DEF CallersInv, In
      <3> QED BY <1>1, <1>3, <3>1, <3>2, PeerConstants
    <2>2. CASE peer[k].parent # 0
      <3>1. chain[1] = held.agent
        <4>1. peer[k].parent \in PeerIds
            BY <1>1, <2>2, AncestorsAre
        <4> QED BY <1>1, <4>1 DEF RootInv, In
      <3>2. \A j \in line : /\ Depth(j) \in Nat \ {0} /\ Depth(j) + 1 \in DOMAIN chain
                            /\ chain[Depth(j) + 1] = peer[j].target /\ Len(chain) >= Depth(j) + 1
        <4> SUFFICES ASSUME NEW j \in line
                     PROVE  /\ Depth(j) \in Nat \ {0} /\ Depth(j) + 1 \in DOMAIN chain
                            /\ chain[Depth(j) + 1] = peer[j].target /\ Len(chain) >= Depth(j) + 1
            OBVIOUS
        <4>1. Depth(j) \in Nat \ {0}
            BY <1>2, AncestorsFinite
        <4>2. Len(chain) >= Depth(j) + 1 /\ chain[Depth(j) + 1] = peer[j].target
            BY <1>2, <3>1 DEF PlaceInv
        <4> QED BY <1>1, <4>1, <4>2
      <3>3. \A i, j \in line : Depth(i) = Depth(j) => i = j
        <4> SUFFICES ASSUME NEW i \in line, NEW j \in line, i < j PROVE Depth(i) # Depth(j)
            BY <1>2, PeerConstants DEF PeerIds
        <4> QED BY <1>1, <3>2, AncestorsInLine DEF line
      <3>4. k \in line
          BY <1>1, AncestorsAre DEF line
      <3>5. 1 \in DOMAIN chain
          BY <1>1
      <3>6. \A j \in line : peer[j].target # held.agent
          BY <1>1, <3>1, <3>2, <3>5
      <3>7. \A i, j \in line : peer[i].target = peer[j].target => i = j
          BY <1>1, <3>2, <3>3
      <3>8. Cardinality(line) + 1 <= maxPeerCallDepth
          BY <1>1, <1>3, <3>2, <3>4, PeerConstants
      <3> QED BY <3>6, <3>7, <3>8
    <2> QED BY <2>1, <2>2
  <1>5. Cardinality(agents) = Cardinality(line) + 1
    <2> DEFINE agent == [j \in line \cup {0} |-> IF j = 0 THEN held.agent ELSE peer[j].target]
    <2>1. agent \in Bijection(line \cup {0}, agents)
      <3>1. agent \in [line \cup {0} -> agents]
          BY <1>3
      <3>2. \A i, j \in line \cup {0} : agent[i] = agent[j] => i = j
          BY <1>3, <1>4
      <3>3. \A a \in agents : \E j \in line \cup {0} : agent[j] = a
          BY <1>3
      <3> HIDE DEF agent, agents
      <3> QED BY <3>1, <3>2, <3>3 DEF Bijection, Injection, Surjection, IsInjective
    <2>2. IsFiniteSet(line \cup {0}) /\ Cardinality(line \cup {0}) = Cardinality(line) + 1
        BY <1>3, FS_AddElement
    <2>3. ExistsBijection(line \cup {0}, agents)
        BY <2>1 DEF ExistsBijection
    <2> HIDE DEF agents
    <2> QED BY <2>2, <2>3, FS_Bijection
  <1> QED BY <1>4, <1>5 DEF line

-----------------------------------------------------------------------------
\* The chat changes hands: no call is of the execution that holds it now.
LEMMA HandoverStep ==
    ASSUME PeersInv, EndExecution \/ \E a \in PeerAgents : Execute(a)
    PROVE  PeersInv'
  <1> USE DEF PeersInv
  <1>1. /\ UNCHANGED <<chain, peer>>
        /\ held' \in [id : Nat, agent : PeerAgents \cup {"none"}]
        /\ executions' \in Nat /\ executions <= executions' /\ held'.id <= executions'
        /\ held'.id \notin 1 .. executions
      BY DEF EndExecution, Execute, PeersTypeOK, CallersInv
  <1>2. PeersTypeOK'
      BY <1>1 DEF PeersTypeOK
  <1>3. \A k \in PeerIds : peer[k].pc # "none" => peer[k].holder # held'.id
      BY <1>1 DEF CallersInv
  <1>4. CallersInv'
    <2>1. \A k \in PeerIds : peer[k].holder \in 1 .. executions => peer[k].holder \in 1 .. executions'
        BY <1>1 DEF PeersTypeOK
    <2> QED BY <1>1, <1>3, <2>1 DEF CallersInv, NoneAfter, PeerIds
  <1>5. ChainInv'
      BY <1>1 DEF ChainInv, ChainMatches, In
  <1>6. \A k \in PeerIds : ~Unbroken(k)'
    <2> SUFFICES ASSUME NEW k \in PeerIds, Unbroken(k)' PROVE FALSE
        OBVIOUS
    <2>1. Ancestors(k)' = Ancestors(k) /\ k \in Ancestors(k)
        BY <1>1, AncestorsKept, AncestorsAre
    <2>2. peer[k].pc = "in" /\ peer[k].holder = held'.id
        BY <1>1, <2>1 DEF Unbroken
    <2> QED BY <1>3, <2>2
  <1>7. RootInv'
    <2>1. \A k \in PeerIds : peer[k].parent # 0 => peer[k].parent \in PeerIds
        BY DEF PeersTypeOK, PeerCall
    <2> QED BY <1>1, <1>6, <2>1 DEF RootInv
  <1>8. PlaceInv' /\ OneCallPerCaller'
      BY <1>6 DEF PlaceInv, OneCallPerCaller, In, PeerIds
  <1>9. PunctualInv'
      BY <1>1, <1>3 DEF PunctualInv
  <1> QED BY <1>2, <1>4, <1>5, <1>7, <1>8, <1>9

\* A step of a call that does not run, before it or after.
QuietStep(k) ==
    /\ UNCHANGED <<held, executions, chain>>
    /\ \A j \in PeerIds \ {k} : peer'[j] = peer[j]
    /\ peer' \in [PeerIds -> PeerCall]
    /\ peer[k].pc \in {"none", "asked", "checked"} /\ peer'[k].pc \in {"asked", "checked", "done"}
    /\ ~peer'[k].late
    /\ peer'[k].holder \in 1 .. executions /\ peer'[k].parent < k
    /\ peer'[k].parent = 0 /\ peer'[k].holder = held.id => peer'[k].caller = held.agent
    /\ peer'[k].parent # 0 =>
          /\ peer[peer'[k].parent].pc \in {"in", "done"}
          /\ peer'[k].caller = peer[peer'[k].parent].target
    /\ peer[k].pc # "none" => peer'[k].parent = peer[k].parent
    /\ peer[k].pc = "none" => \A j \in PeerIds : j < k => peer[j].pc # "none"
    /\ peer'[k].pc = "checked" /\ peer'[k].holder = held.id =>
          held.agent = peerChainRoot(peer'[k].caller)

LEMMA QuietStepInv ==
    ASSUME PeersInv, NEW k \in PeerIds, QuietStep(k)
    PROVE  PeersInv'
  <1> USE DEF PeersInv
  <1>1. PeersTypeOK'
      BY DEF PeersTypeOK, QuietStep, PeerIds
  <1>2. \A j \in PeerIds : /\ peer[j].parent # 0 => peer[j].parent \in PeerIds
                           /\ peer'[j].parent # 0 => peer'[j].parent \in PeerIds
      BY <1>1 DEF PeersTypeOK, PeerCall, PeerIds
  <1>3. In' = In /\ k \notin In
      BY DEF In, QuietStep, PeerIds
  <1>4. CallersInv'
    <2>1. \A j \in PeerIds : peer'[j].pc \in {"in", "done"} \/ peer[j].pc \notin {"in", "done"}
        BY DEF QuietStep
    <2>2. \A j \in PeerIds \ {k} :
              peer[j].parent # 0 => peer'[peer[j].parent].pc \in {"in", "done"}
                                    /\ peer'[peer[j].parent].target = peer[peer[j].parent].target
        BY <1>2 DEF QuietStep, CallersInv
    <2>3. peer'[k].parent # 0 => peer'[k].parent # k
                                 /\ peer'[peer'[k].parent] = peer[peer'[k].parent]
        BY <1>2 DEF QuietStep, PeerIds
    <2>4. \A j \in PeerIds \ {k} :
          /\ peer'[j].pc = "none" => peer'[j].parent = 0 /\ NoneAfter(j)'
          /\ peer'[j].pc # "none" =>
                /\ peer'[j].holder \in 1 .. executions'
                /\ peer'[j].parent < j
                /\ peer'[j].parent = 0 /\ peer'[j].holder = held'.id => peer'[j].caller = held'.agent
                /\ peer'[j].parent # 0 =>
                      /\ peer'[peer'[j].parent].pc \in {"in", "done"}
                      /\ peer'[j].caller = peer'[peer'[j].parent].target
          /\ peer'[j].late => peer'[j].pc \in {"in", "done"}
          /\ peer'[j].pc = "in" => peer'[j].caller # peer'[j].target
      <3>1. \A j \in PeerIds \ {k} : peer'[j].pc = "none" => NoneAfter(j)'
        <4> SUFFICES ASSUME NEW j \in PeerIds \ {k}, peer'[j].pc = "none", NEW i \in PeerIds, i > j
                     PROVE  peer'[i].pc = "none"
            BY DEF NoneAfter, PeerIds
        <4>1. peer[j].pc = "none" /\ peer[i].pc = "none"
            BY DEF QuietStep, CallersInv, NoneAfter
        <4>2. i # k
            BY <4>1, PeerConstants DEF QuietStep, PeerIds
        <4> QED BY <4>1, <4>2 DEF QuietStep
      <3> QED BY <2>2, <3>1 DEF QuietStep, CallersInv
    <2>5. /\ peer'[k].pc # "none" /\ peer'[k].pc # "in" /\ ~peer'[k].late
          /\ peer'[k].holder \in 1 .. executions'
          /\ peer'[k].parent < k
          /\ peer'[k].parent = 0 /\ peer'[k].holder = held'.id => peer'[k].caller = held'.agent
          /\ peer'[k].parent # 0 =>
                      /\ peer'[peer'[k].parent].pc \in {"in", "done"}
                      /\ peer'[k].caller = peer'[peer'[k].parent].target
        BY <2>3 DEF QuietStep
    <2>6. held'.id <= executions'
        BY DEF QuietStep, CallersInv
    <2>7. PeerIds' = PeerIds
        BY DEF PeerIds
    <2> QED BY <2>4, <2>5, <2>6, <2>7 DEF CallersInv
  <1>5. ChainInv'
      BY <1>3 DEF ChainInv, ChainMatches, QuietStep
  <1>6. \A j \in PeerIds : peer[j].pc \in {"in", "done"} =>
            /\ Ancestors(j)' = Ancestors(j) /\ Depth(j)' = Depth(j)
            /\ (Unbroken(j)' <=> Unbroken(j))
    <2> SUFFICES ASSUME NEW j \in PeerIds, peer[j].pc \in {"in", "done"}
                 PROVE  /\ Ancestors(j)' = Ancestors(j) /\ Depth(j)' = Depth(j)
                        /\ (Unbroken(j)' <=> Unbroken(j))
        OBVIOUS
    <2>1. \A i \in Ancestors(j) : i \in PeerIds /\ i # k
        BY AncestorsRun DEF Ancestors, QuietStep
    <2>2. \A i \in Ancestors(j) : peer'[i] = peer[i]
        BY <2>1 DEF QuietStep
    <2>3. Ancestors(j)' = Ancestors(j)
        BY <2>2, AncestorsKept
    <2> QED BY <2>2, <2>3 DEF Depth, Unbroken, QuietStep
  <1>7. \A j \in In : j \in PeerIds /\ peer[j].pc \in {"in", "done"} /\ peer'[j] = peer[j]
      BY <1>3 DEF In, QuietStep
  <1>8. RootInv'
    <2> SUFFICES ASSUME NEW j \in PeerIds, NEW p \in PeerIds, peer'[j].parent = p
                 PROVE  /\ peer'[j].pc = "checked" /\ peer'[j].holder = held.id
                           /\ Unbroken(p)' => chain[1] = held.agent
                        /\ peer'[j].pc = "in" /\ Unbroken(j)' => chain[1] = held.agent
      <3>1. UNCHANGED <<held, chain>> /\ PeerIds' = PeerIds
          BY DEF QuietStep, PeerIds
      <3> QED BY <3>1 DEF RootInv
    <2>1. peer[p].pc \in {"in", "done"}
      <3>1. p # 0
          BY DEF PeerIds
      <3> QED BY <1>2, <3>1 DEF QuietStep, CallersInv
    <2>2. Unbroken(p)' <=> Unbroken(p)
        BY <1>6, <2>1
    <2>3. Unbroken(p) => In # {}
        BY <2>1, AncestorsAre DEF Unbroken, In
    <2>4. Unbroken(p) => chain # <<>>
        BY <2>3, ChainLength DEF ChainInv
    <2>5. CASE j = k
        BY <2>2, <2>4, <2>5 DEF QuietStep, peerChainRoot
    <2>6. CASE j # k
      <3>1. peer'[j] = peer[j]
          BY <2>6 DEF QuietStep
      <3>2. peer[j].pc = "in" => (Unbroken(j)' <=> Unbroken(j))
          BY <1>6
      <3> QED BY <2>2, <3>1, <3>2 DEF RootInv
    <2> QED BY <2>5, <2>6
  <1>9. PlaceInv'
    <2>1. \A j \in In : /\ (Unbroken(j)' <=> Unbroken(j)) /\ Depth(j)' = Depth(j)
                        /\ peer'[j].target = peer[j].target
        BY <1>6, <1>7
    <2>2. UNCHANGED <<held, chain>>
        BY DEF QuietStep
    <2> QED BY <1>3, <2>1, <2>2 DEF PlaceInv
  <1>10. (\A j \in PeerIds : ~peer'[j].late) => \A j \in PeerIds : ~peer[j].late
      BY DEF QuietStep, CallersInv
  <1>11. PunctualInv'
    <2>1. PeerIds' = PeerIds
        BY DEF PeerIds
    <2> QED BY <1>10, <2>1 DEF PunctualInv, QuietStep, peerChainRoot
  <1>12. OneCallPerCaller'
    <2>1. \A j \in In : (Unbroken(j)' <=> Unbroken(j)) /\ peer'[j].parent = peer[j].parent
        BY <1>6, <1>7
    <2>2. PeerIds' = PeerIds
        BY DEF PeerIds
    <2> QED BY <1>3, <1>10, <2>1, <2>2 DEF OneCallPerCaller
  <1> QED BY <1>1, <1>4, <1>5, <1>8, <1>9, <1>11, <1>12

LEMMA CallPeerStep ==
    ASSUME PeersInv, NEW k \in PeerIds, NEW parent \in {0} \cup PeerIds,
           NEW target \in PeerAgents, CallPeer(k, parent, target)
    PROVE  PeersInv'
  <1> USE DEF PeersInv
  <1> DEFINE e == [pc |-> "asked", parent |-> parent, caller |-> RunsAgent(parent),
                   target |-> target, holder |-> held.id, late |-> FALSE]
  <1>1. /\ peer[k].pc = "none" /\ \A j \in 1 .. k - 1 : peer[j].pc # "none"
        /\ held.id # 0 /\ Alive(parent, held.id)
        /\ peer' = [peer EXCEPT ![k] = e]
        /\ UNCHANGED <<held, executions, chain>>
      BY DEF CallPeer
  <1>2. /\ held.id \in Nat /\ held.agent \in PeerAgents \cup {"none"} /\ executions \in Nat
        /\ peer \in [PeerIds -> PeerCall]
      BY DEF PeersTypeOK
  <1>3. parent # 0 => parent \in PeerIds /\ peer[parent].pc = "in" /\ peer[parent] \in PeerCall
      BY <1>1, <1>2 DEF Alive
  <1>4. RunsAgent(parent) \in PeerAgents \cup {"none"}
      BY <1>2, <1>3 DEF RunsAgent, PeerCall
  <1>5. e \in PeerCall
      BY <1>2, <1>4 DEF PeerCall
  <1>6. parent # 0 => parent < k
    <2> SUFFICES ASSUME parent # 0, ~(parent < k) PROVE FALSE
        BY <1>3, PeerConstants DEF PeerIds
    <2>1. \A j \in PeerIds : j >= k => peer[j].pc = "none"
      <3>1. NoneAfter(k)
          BY <1>1 DEF CallersInv
      <3> QED BY <1>1, <3>1, PeerConstants DEF NoneAfter, PeerIds
    <2>2. parent >= k
        BY <1>3, PeerConstants DEF PeerIds
    <2> QED BY <1>3, <2>1, <2>2
  <1>7. 0 < k
      BY PeerConstants DEF PeerIds
  <1>13. \A j \in PeerIds : j < k => peer[j].pc # "none"
      BY <1>1, PeerConstants DEF PeerIds
  <1>8. held.id \in 1 .. executions
      BY <1>1, <1>2 DEF CallersInv
  <1>9. peer'[k] = e /\ \A j \in PeerIds \ {k} : peer'[j] = peer[j]
      BY <1>1, <1>2
  <1>10. /\ e.pc = "asked" /\ e.parent = parent /\ e.caller = RunsAgent(parent) /\ e.holder = held.id
         /\ e.late = FALSE
      OBVIOUS
  <1>11. peer' \in [PeerIds -> PeerCall]
      BY <1>1, <1>2, <1>5
  <1> HIDE DEF e
  <1>12. QuietStep(k)
      BY <1>1, <1>3, <1>6, <1>7, <1>8, <1>9, <1>10, <1>11, <1>13 DEF QuietStep, RunsAgent
  <1> QED BY <1>12, QuietStepInv

\* Only pc changes, outside a run.
LEMMA DecideStep ==
    ASSUME PeersInv, NEW k \in PeerIds, NEW p \in {"checked", "done"},
           peer[k].pc \in {"asked", "checked"},
           peer' = [peer EXCEPT ![k].pc = p], UNCHANGED <<held, executions, chain>>,
           p = "checked" => held.id = peer[k].holder /\ held.agent = peerChainRoot(peer[k].caller)
    PROVE  PeersInv'
  <1> USE DEF PeersInv
  <1> DEFINE e == [peer[k] EXCEPT !.pc = p]
  <1>1. peer \in [PeerIds -> PeerCall] /\ peer[k] \in PeerCall
      BY DEF PeersTypeOK
  <1>2. /\ e \in PeerCall /\ e.pc = p /\ e.parent = peer[k].parent /\ e.caller = peer[k].caller
        /\ e.holder = peer[k].holder /\ e.late = peer[k].late
      BY <1>1 DEF PeerCall
  <1>3. peer' = [peer EXCEPT ![k] = e]
      BY <1>1
  <1> HIDE DEF e
  <1>4. peer'[k] = e /\ (\A j \in PeerIds \ {k} : peer'[j] = peer[j]) /\ peer' \in [PeerIds -> PeerCall]
      BY <1>1, <1>2, <1>3
  <1>5. /\ ~peer[k].late /\ peer[k].holder \in 1 .. executions /\ peer[k].parent < k
        /\ peer[k].parent = 0 /\ peer[k].holder = held.id => peer[k].caller = held.agent
        /\ peer[k].parent # 0 =>
              /\ peer[peer[k].parent].pc \in {"in", "done"}
              /\ peer[k].caller = peer[peer[k].parent].target
      BY DEF CallersInv
  <1>6. QuietStep(k)
      BY <1>2, <1>4, <1>5 DEF QuietStep
  <1> QED BY <1>6, QuietStepInv

LEMMA TriggerNestedPeerStep ==
    ASSUME PeersInv, NEW k \in PeerIds, TriggerNestedPeer(k)
    PROVE  PeersInv'
  <1>1. PICK p \in {"checked", "done"} :
            /\ peer' = [peer EXCEPT ![k].pc = p] /\ UNCHANGED <<held, executions, chain>>
            /\ p = "checked" => held.id = peer[k].holder /\ held.agent = peerChainRoot(peer[k].caller)
      BY DEF TriggerNestedPeer, Refused
  <1>2. peer[k].pc \in {"asked", "checked"}
      BY DEF TriggerNestedPeer
  <1> QED BY <1>1, <1>2, DecideStep

LEMMA EnterStep ==
    ASSUME PeersInv, NEW k \in PeerIds, enterPeerCall(k),
           MayEnter(peer[k].caller, peer[k].target)
    PROVE  PeersInv'
  <1> USE DEF PeersInv
  <1> DEFINE base == IF chain = <<>> THEN <<peer[k].caller>> ELSE chain
             e == [peer[k] EXCEPT !.pc = "in", !.late = ~Alive(peer[k].parent, peer[k].holder)]
  <1>1. /\ peer[k].pc = "checked"
        /\ base[Len(base)] = peer[k].caller /\ (\A i \in DOMAIN base : base[i] # peer[k].target)
        /\ Len(base) < maxPeerCallDepth
        /\ chain' = Append(base, peer[k].target)
        /\ UNCHANGED <<held, executions>>
      BY DEF enterPeerCall, MayEnter
  <1>2. peer \in [PeerIds -> PeerCall] /\ peer[k] \in PeerCall /\ chain \in Seq(PeerAgents \cup {"none"})
      BY DEF PeersTypeOK
  <1>3. /\ e \in PeerCall /\ e.pc = "in" /\ e.parent = peer[k].parent /\ e.caller = peer[k].caller
        /\ e.holder = peer[k].holder /\ e.target = peer[k].target
        /\ e.late = ~Alive(peer[k].parent, peer[k].holder)
      BY <1>2 DEF PeerCall, Alive
  <1>4. peer' = [peer EXCEPT ![k] = e]
      BY <1>2 DEF enterPeerCall
  <1> HIDE DEF e
  <1>5. /\ peer'[k] = e /\ (\A j \in PeerIds \ {k} : peer'[j] = peer[j])
        /\ peer' \in [PeerIds -> PeerCall] /\ PeerIds' = PeerIds
      BY <1>2, <1>3, <1>4 DEF PeerIds
  <1>6. /\ base \in Seq(PeerAgents \cup {"none"}) /\ Len(base) >= 1
        /\ chain # <<>> => base = chain
        /\ chain = <<>> => Len(base) = 1 /\ base[1] = peer[k].caller
        /\ peer[k].target \in PeerAgents \cup {"none"}
    <2>1. /\ peer[k].target \in PeerAgents \cup {"none"}
          /\ <<peer[k].caller>> \in Seq(PeerAgents \cup {"none"})
          /\ Len(<<peer[k].caller>>) = 1 /\ <<peer[k].caller>>[1] = peer[k].caller
        BY <1>2 DEF PeerCall
    <2>2. chain # <<>> => Len(chain) >= 1
        BY <1>2
    <2>3. CASE chain = <<>>
      <3>1. base = <<peer[k].caller>>
          BY <2>3
      <3> HIDE DEF base
      <3> QED BY <2>1, <2>3, <3>1
    <2>4. CASE chain # <<>>
      <3>1. base = chain
          BY <2>4
      <3> HIDE DEF base
      <3> QED BY <1>2, <2>1, <2>2, <2>4, <3>1
    <2> QED BY <2>3, <2>4
  <1>7. /\ In' = In \cup {k} /\ k \notin In /\ k \in In' /\ IsFiniteSet(In)
        /\ Cardinality(In') = Cardinality(In) + 1 /\ Cardinality(In) \in Nat
    <2>1. In' = In \cup {k} /\ k \notin In
        BY <1>1, <1>3, <1>5 DEF In
    <2> QED BY <2>1, ChainLength, FS_AddElement DEF ChainInv
  <1>8. /\ chain = <<>> <=> In = {}
        /\ In # {} => Len(chain) = Cardinality(In) + 1 /\ Len(chain) >= 2
      BY ChainLength DEF ChainInv
  <1> HIDE DEF base
  <1>9. /\ chain' \in Seq(PeerAgents \cup {"none"}) /\ Len(chain') = Len(base) + 1
        /\ chain'[Len(base) + 1] = peer[k].target
        /\ (\A i \in 1 .. Len(base) : chain'[i] = base[i]) /\ chain'[1] = base[1]
        /\ DOMAIN chain' = 1 .. Len(base) + 1 /\ DOMAIN base = 1 .. Len(base)
      BY <1>1, <1>6
  <1>10. PeersTypeOK'
      BY <1>1, <1>5, <1>9 DEF PeersTypeOK
  <1>11. \A i, j \in DOMAIN base : base[i] = base[j] => i = j
      BY <1>6, <1>9 DEF ChainInv
  <1>12. ChainInv'
    <2>1. \A i, j \in DOMAIN chain' : chain'[i] = chain'[j] => i = j
        BY <1>1, <1>6, <1>9, <1>11
    <2>2. Len(chain') <= maxPeerCallDepth
        BY <1>1, <1>6, <1>9, PeerConstants
    <2>3. Len(chain') = Cardinality(In') + 1
      <3>1. CASE chain = <<>>
        <4>1. Cardinality(In) = 0
            BY <1>8, <3>1, FS_EmptySet
        <4> QED BY <1>6, <1>7, <1>9, <3>1, <4>1
      <3>2. CASE chain # <<>>
          BY <1>6, <1>7, <1>8, <1>9, <3>2
      <3> QED BY <3>1, <3>2
    <2> QED BY <1>7, <2>1, <2>2, <2>3 DEF ChainInv, ChainMatches
  <1>13. \A j \in PeerIds : peer[j].parent # 0 => peer[j].parent \in PeerIds /\ peer[j].parent # k
      BY <1>1, <1>2 DEF PeerCall, CallersInv
  <1>14. peer[k].caller # peer[k].target
      BY <1>1, <1>6, <1>9
  <1>15. CallersInv'
    <2>1. \A j \in PeerIds : peer[j].parent # 0 =>
              peer'[peer[j].parent] = peer[peer[j].parent]
        BY <1>5, <1>13
    <2>2. \A j \in PeerIds :
              /\ peer'[j].parent = peer[j].parent /\ peer'[j].caller = peer[j].caller
              /\ peer'[j].holder = peer[j].holder /\ peer'[j].target = peer[j].target
              /\ peer'[j].pc = "none" <=> peer[j].pc = "none"
              /\ peer'[j].late => peer'[j].pc \in {"in", "done"}
              /\ peer'[j].pc = "in" => peer'[j].caller # peer'[j].target
        BY <1>1, <1>3, <1>5, <1>14 DEF CallersInv
    <2>3. \A j \in PeerIds : peer[j].pc # "none" /\ peer[j].parent # 0 =>
              /\ peer'[peer[j].parent].pc \in {"in", "done"}
              /\ peer[j].caller = peer'[peer[j].parent].target
        BY <2>1 DEF CallersInv
    <2>4. UNCHANGED <<held, executions>> /\ PeerIds' = PeerIds
        BY <1>1, <1>5
    <2>5. \A j \in PeerIds : NoneAfter(j) => NoneAfter(j)'
        BY <2>2, <2>4 DEF NoneAfter
    <2> QED BY <2>2, <2>3, <2>4, <2>5 DEF CallersInv
  <1>16. \A j \in PeerIds : /\ Ancestors(j)' = Ancestors(j) /\ Depth(j)' = Depth(j)
                            /\ peer'[j].parent = peer[j].parent /\ peer'[j].holder = peer[j].holder
    <2>1. \A j \in PeerIds : peer'[j].parent = peer[j].parent /\ peer'[j].holder = peer[j].holder
        BY <1>3, <1>5
    <2> SUFFICES ASSUME NEW j \in PeerIds
                 PROVE  Ancestors(j)' = Ancestors(j) /\ Depth(j)' = Depth(j)
        BY <2>1
    <2>2. Ancestors(j)' = Ancestors(j)
        BY <2>1, AncestorsKept DEF Ancestors
    <2> QED BY <2>2 DEF Depth
  <1>17. \A j \in PeerIds \ {k} : Unbroken(j)' <=> Unbroken(j)
    <2> SUFFICES ASSUME NEW j \in PeerIds \ {k} PROVE Unbroken(j)' <=> Unbroken(j)
        OBVIOUS
    <2>1. \A i \in Ancestors(j) : i \in PeerIds /\ i # k
        BY <1>1, AncestorsRun DEF Ancestors
    <2>2. \A i \in Ancestors(j) : peer'[i] = peer[i]
        BY <1>5, <2>1
    <2> QED BY <1>1, <1>16, <2>2 DEF Unbroken
  <1>18. Unbroken(k)' =>
            /\ peer[k].holder = held.id
            /\ peer[k].parent # 0 =>
                  /\ Unbroken(peer[k].parent) /\ peer[k].parent \in In
                  /\ peer[peer[k].parent].target = peer[k].caller
                  /\ Depth(k) = Depth(peer[k].parent) + 1
    <2> SUFFICES ASSUME Unbroken(k)'
                 PROVE  /\ peer[k].holder = held.id
                        /\ peer[k].parent # 0 =>
                              /\ Unbroken(peer[k].parent) /\ peer[k].parent \in In
                              /\ peer[peer[k].parent].target = peer[k].caller
                              /\ Depth(k) = Depth(peer[k].parent) + 1
        OBVIOUS
    <2>1. \A i \in Ancestors(k) : peer'[i].pc = "in" /\ peer'[i].holder = held.id
        BY <1>1, <1>16 DEF Unbroken
    <2>2. peer[k].holder = held.id
        BY <1>16, <2>1, AncestorsAre
    <2> SUFFICES ASSUME peer[k].parent # 0
                 PROVE  /\ Unbroken(peer[k].parent) /\ peer[k].parent \in In
                        /\ peer[peer[k].parent].target = peer[k].caller
                        /\ Depth(k) = Depth(peer[k].parent) + 1
        BY <2>2
    <2> DEFINE p == peer[k].parent
    <2>3. p \in PeerIds \ {k} /\ Ancestors(p) \subseteq Ancestors(k) /\ p \in Ancestors(p)
        BY <1>13, AncestorsAre
    <2>4. \A i \in Ancestors(p) : i \in PeerIds /\ i # k
        BY <1>1, <2>3, AncestorsRun DEF Ancestors
    <2> HIDE DEF p
    <2>5. Unbroken(p) /\ p \in In
        BY <1>5, <2>1, <2>3, <2>4 DEF Unbroken, In
    <2>6. peer[p].target = peer[k].caller
        BY <1>1, <2>3 DEF CallersInv, p, PeerIds
    <2>7. Depth(k) = Depth(p) + 1
        BY AncestorsFinite DEF p
    <2> QED BY <2>5, <2>6, <2>7 DEF p
  <1>19. In # {} => chain # <<>> /\ base = chain /\ chain'[1] = chain[1]
      BY <1>6, <1>8, <1>9
  <1>20. \A j \in PeerIds : Unbroken(j) => In # {}
      BY AncestorsAre DEF Unbroken, In
  <1>21. RootInv'
    <2> SUFFICES ASSUME NEW j \in PeerIds, NEW p \in PeerIds, peer'[j].parent = p
                 PROVE  /\ peer'[j].pc = "checked" /\ peer'[j].holder = held.id
                           /\ Unbroken(p)' => chain'[1] = held.agent
                        /\ peer'[j].pc = "in" /\ Unbroken(j)' => chain'[1] = held.agent
        BY <1>1, <1>5 DEF RootInv
    <2>1. p # 0 /\ peer[j].parent = p /\ p # k
        BY <1>13, <1>16 DEF PeerIds
    <2>2. Unbroken(p)' <=> Unbroken(p)
        BY <1>17, <2>1
    <2>3. Unbroken(p) => chain'[1] = chain[1]
        BY <1>19, <1>20
    <2>4. CASE j = k
      <3>1. Unbroken(k)' => Unbroken(p) /\ peer[k].holder = held.id
          BY <1>18, <2>1, <2>4
      <3>2. Unbroken(p) /\ peer[k].holder = held.id => chain[1] = held.agent
          BY <1>1, <2>1, <2>4 DEF RootInv
      <3> QED BY <1>3, <1>5, <2>3, <2>4, <3>1, <3>2
    <2>5. CASE j # k
      <3>1. peer'[j] = peer[j] /\ (Unbroken(j)' <=> Unbroken(j))
          BY <1>5, <1>17, <2>5
      <3>2. Unbroken(j) => chain'[1] = chain[1]
          BY <1>19, <1>20
      <3> QED BY <2>1, <2>2, <2>3, <3>1, <3>2 DEF RootInv
    <2> QED BY <2>4, <2>5
  \* Where the caller is the agent of an unbroken call of the chain, or its root,
  \* the chain ends there.
  <1>22. ASSUME chain # <<>>, Unbroken(k)', chain[1] = held.agent
         PROVE  /\ peer[k].parent # 0 /\ Len(chain) = Depth(k)
    <2>1. /\ Len(chain) >= 2 /\ chain[Len(chain)] = peer[k].caller /\ In # {}
          /\ 1 \in DOMAIN chain /\ Len(chain) \in DOMAIN chain /\ base = chain
        BY <1>1, <1>2, <1>6, <1>8, <1>22
    <2>2. \A i, j \in DOMAIN chain : chain[i] = chain[j] => i = j
        BY DEF ChainInv
    <2>3. ASSUME peer[k].parent = 0 PROVE FALSE
      <3>1. peer[k].caller = held.agent
          BY <1>1, <1>18, <1>22, <2>3 DEF CallersInv
      <3>2. Len(chain) = 1
          BY <1>22, <2>1, <2>2, <3>1
      <3> QED BY <2>1, <3>2
    <2> DEFINE p == peer[k].parent
    <2>4. /\ Unbroken(p) /\ p \in In /\ peer[p].target = peer[k].caller
          /\ Depth(k) = Depth(p) + 1 /\ p \in PeerIds
        BY <1>18, <1>22, <2>3 DEF In
    <2> HIDE DEF p
    <2>5. Len(chain) >= Depth(p) + 1 /\ chain[Depth(p) + 1] = peer[p].target
        BY <1>22, <2>4 DEF PlaceInv
    <2>6. Depth(p) \in Nat \ {0}
        BY <2>4, AncestorsFinite
    <2>7. Depth(p) + 1 \in DOMAIN chain
        BY <1>2, <2>5, <2>6
    <2>8. Depth(p) + 1 = Len(chain)
        BY <2>1, <2>2, <2>4, <2>5, <2>7
    <2> QED BY <2>3, <2>4, <2>8
  <1>23. PlaceInv'
    <2> SUFFICES ASSUME NEW j \in In', Unbroken(j)', chain'[1] = held.agent
                 PROVE  /\ Len(chain') >= Depth(j) + 1
                        /\ chain'[Depth(j) + 1] = peer[j].target
      <3>1. \A j \in In' : j \in PeerIds /\ peer'[j].target = peer[j].target /\ Depth(j)' = Depth(j)
          BY <1>3, <1>5, <1>16 DEF In
      <3> QED BY <1>1, <3>1 DEF PlaceInv
    <2>1. CASE j = k
      <3>1. CASE chain = <<>>
        <4>1. peer[k].parent = 0
          <5>1. In = {}
              BY <1>8, <3>1
          <5> QED BY <1>18, <2>1, <5>1
        <4>2. Depth(k) = 1
            BY <4>1, AncestorsFinite
        <4> QED BY <1>6, <1>9, <2>1, <3>1, <4>2
      <3>2. CASE chain # <<>>
        <4>1. Len(chain) = Depth(k) /\ base = chain
            BY <1>6, <1>8, <1>19, <1>22, <2>1, <3>2
        <4> QED BY <1>9, <2>1, <4>1
      <3> QED BY <3>1, <3>2
    <2>2. CASE j # k
      <3>1. j \in In /\ j \in PeerIds /\ Unbroken(j)
          BY <1>7, <1>17, <2>2 DEF In
      <3>2. chain[1] = held.agent /\ base = chain
          BY <1>19, <3>1
      <3>3. Len(chain) >= Depth(j) + 1 /\ chain[Depth(j) + 1] = peer[j].target
          BY <3>1, <3>2 DEF PlaceInv
      <3>4. Depth(j) \in Nat \ {0} /\ Len(chain) \in Nat
          BY <1>2, <3>1, AncestorsFinite
      <3> QED BY <1>9, <3>2, <3>3, <3>4
    <2> QED BY <2>1, <2>2
  <1>24. ASSUME \A j \in PeerIds : ~peer'[j].late
         PROVE  (\A j \in PeerIds : ~peer[j].late) /\ Alive(peer[k].parent, peer[k].holder)
      BY <1>1, <1>3, <1>5, <1>24 DEF CallersInv
  <1>25. PunctualInv'
    <2> SUFFICES ASSUME \A j \in PeerIds : ~peer'[j].late, NEW j \in PeerIds,
                        peer'[j].pc \in {"checked", "in"}, peer'[j].holder = held.id
                 PROVE  chain'[1] = held.agent
        BY <1>1, <1>5 DEF PunctualInv
    <2>1. CASE chain = <<>>
      <3>1. peer[k].parent = 0
        <4> SUFFICES ASSUME peer[k].parent # 0 PROVE FALSE
            OBVIOUS
        <4>1. peer[k].parent \in In
            BY <1>13, <1>24 DEF Alive, In
        <4> QED BY <1>8, <2>1, <4>1
      <3>2. held.id = peer[k].holder
          BY <1>24, <3>1 DEF Alive
      <3>3. peer[k].caller = held.agent
          BY <1>1, <3>1, <3>2 DEF CallersInv
      <3> QED BY <1>6, <1>9, <2>1, <3>3
    <2>2. CASE chain # <<>>
      <3>1. peer[j].pc \in {"checked", "in"} /\ peer[j].holder = held.id
          BY <1>1, <1>5, <1>16
      <3>2. chain[1] = held.agent
          BY <1>24, <2>2, <3>1 DEF PunctualInv
      <3> QED BY <1>6, <1>9, <2>2, <3>2
    <2> QED BY <2>1, <2>2
  <1>26. OneCallPerCaller'
    <2>1. ASSUME \A j \in PeerIds : ~peer'[j].late, NEW j \in In, Unbroken(j), Unbroken(k)',
                 peer[j].parent = peer[k].parent
          PROVE  FALSE
      <3>1. chain # <<>> /\ peer[k].holder = held.id
          BY <1>8, <1>18, <2>1
      <3>2. chain[1] = held.agent
          BY <1>1, <1>24, <2>1, <3>1 DEF PunctualInv
      <3>3. peer[k].parent # 0 /\ Len(chain) = Depth(k)
          BY <1>22, <2>1, <3>1, <3>2
      <3>4. j \in PeerIds /\ Len(chain) >= Depth(j) + 1
          BY <2>1, <3>2 DEF PlaceInv, In
      <3>5. Depth(j) = Depth(peer[j].parent) + 1 /\ Depth(k) = Depth(peer[k].parent) + 1
          BY <2>1, <3>3, <3>4, AncestorsFinite
      <3>6. Depth(j) = Depth(k) /\ Depth(j) \in Nat
          BY <2>1, <3>4, <3>5, AncestorsFinite
      <3> QED BY <3>3, <3>4, <3>6
    <2> SUFFICES ASSUME \A j \in PeerIds : ~peer'[j].late, NEW i \in In', NEW j \in In', i # j,
                        Unbroken(i)', Unbroken(j)', peer'[i].parent = peer'[j].parent
                 PROVE  FALSE
        BY <1>5 DEF OneCallPerCaller
    <2>2. peer[i].parent = peer[j].parent
        BY <1>16 DEF In
    <2>3. CASE i = k
      <3>1. j \in In /\ j \in PeerIds \ {k}
          BY <1>7, <2>3 DEF In
      <3>2. Unbroken(j)
          BY <1>17, <3>1
      <3> QED BY <2>1, <2>2, <2>3, <3>1, <3>2
    <2>4. CASE j = k
      <3>1. i \in In /\ i \in PeerIds \ {k}
          BY <1>7, <2>4 DEF In
      <3>2. Unbroken(i)
          BY <1>17, <3>1
      <3> QED BY <2>1, <2>2, <2>4, <3>1, <3>2
    <2>5. CASE i # k /\ j # k
      <3>1. i \in In /\ j \in In /\ i \in PeerIds \ {k} /\ j \in PeerIds \ {k}
          BY <1>7, <2>5 DEF In
      <3>2. Unbroken(i) /\ Unbroken(j)
          BY <1>17, <3>1
      <3> QED BY <1>24, <2>2, <3>1, <3>2 DEF OneCallPerCaller
    <2> QED BY <2>3, <2>4, <2>5
  <1> QED BY <1>10, <1>12, <1>15, <1>21, <1>23, <1>25, <1>26

LEMMA EnterPeerCallStep ==
    ASSUME PeersInv, NEW k \in PeerIds, enterPeerCall(k)
    PROVE  PeersInv'
  <1>1. CASE MayEnter(peer[k].caller, peer[k].target)
      BY <1>1, EnterStep
  <1>2. CASE ~MayEnter(peer[k].caller, peer[k].target)
    <2>1. /\ peer[k].pc \in {"asked", "checked"}
          /\ peer' = [peer EXCEPT ![k].pc = "done"] /\ UNCHANGED <<held, executions, chain>>
        BY <1>2 DEF enterPeerCall, Refused
    <2> QED BY <2>1, DecideStep
  <1> QED BY <1>1, <1>2

LEMMA ReturnStep ==
    ASSUME PeersInv, NEW k \in PeerIds, Return(k)
    PROVE  PeersInv'
  <1> USE DEF PeersInv
  <1> DEFINE e == [peer[k] EXCEPT !.pc = "done"]
  <1>1. /\ peer[k].pc = "in" /\ peer' = [peer EXCEPT ![k].pc = "done"]
        /\ chain' = IF Len(chain) <= 2 THEN <<>> ELSE SubSeq(chain, 1, Len(chain) - 1)
        /\ UNCHANGED <<held, executions>>
      BY DEF Return, leavePeerCall
  <1>2. peer \in [PeerIds -> PeerCall] /\ peer[k] \in PeerCall /\ chain \in Seq(PeerAgents \cup {"none"})
      BY DEF PeersTypeOK
  <1>3. /\ e \in PeerCall /\ e.pc = "done" /\ e.parent = peer[k].parent /\ e.caller = peer[k].caller
        /\ e.holder = peer[k].holder /\ e.target = peer[k].target /\ e.late = peer[k].late
      BY <1>2 DEF PeerCall
  <1>4. peer' = [peer EXCEPT ![k] = e]
      BY <1>1, <1>2
  <1> HIDE DEF e
  <1>5. /\ peer'[k] = e /\ (\A j \in PeerIds \ {k} : peer'[j] = peer[j])
        /\ peer' \in [PeerIds -> PeerCall] /\ PeerIds' = PeerIds
      BY <1>2, <1>3, <1>4 DEF PeerIds
  <1>6. /\ In' = In \ {k} /\ k \in In /\ IsFiniteSet(In) /\ IsFiniteSet(In')
        /\ Cardinality(In') = Cardinality(In) - 1 /\ Cardinality(In) \in Nat
    <2>1. In' = In \ {k} /\ k \in In
        BY <1>1, <1>3, <1>5 DEF In
    <2> QED BY <2>1, ChainLength, FS_RemoveElement DEF ChainInv
  <1>7. Len(chain) = Cardinality(In) + 1 /\ Len(chain) >= 2 /\ Len(chain) \in Nat
      BY <1>2, <1>6, ChainLength DEF ChainInv
  <1>8. /\ chain' \in Seq(PeerAgents \cup {"none"})
        /\ Len(chain) = 2 => chain' = <<>>
        /\ Len(chain) > 2 => Len(chain') = Len(chain) - 1
        /\ \A i \in DOMAIN chain' : i \in DOMAIN chain /\ chain'[i] = chain[i]
    <2>1. CASE Len(chain) <= 2
        BY <1>1, <1>7, <2>1
    <2>2. CASE Len(chain) > 2
        BY <1>1, <1>2, <1>7, <2>2
    <2> QED BY <1>7, <2>1, <2>2
  <1>9. Len(chain) = 2 <=> In' = {}
    <2>1. Cardinality(In') = 0 <=> In' = {}
        BY <1>6, FS_EmptySet
    <2>2. Len(chain) = 2 <=> Cardinality(In') = 0
        BY <1>6, <1>7
    <2> QED BY <2>1, <2>2
  <1>10. PeersTypeOK'
      BY <1>1, <1>5, <1>8 DEF PeersTypeOK
  <1>11. ChainInv'
    <2>1. \A i, j \in DOMAIN chain' : chain'[i] = chain'[j] => i = j
        BY <1>8 DEF ChainInv
    <2>2. Len(chain') <= maxPeerCallDepth
        BY <1>7, <1>8, PeerConstants DEF ChainInv
    <2>3. Len(chain') = IF In' = {} THEN 0 ELSE Cardinality(In') + 1
        BY <1>6, <1>7, <1>8, <1>9
    <2> QED BY <2>1, <2>2, <2>3 DEF ChainInv, ChainMatches
  <1>12. \A j \in PeerIds :
              /\ peer'[j].parent = peer[j].parent /\ peer'[j].caller = peer[j].caller
              /\ peer'[j].holder = peer[j].holder /\ peer'[j].target = peer[j].target
              /\ peer'[j].late = peer[j].late
              /\ peer'[j].pc = "none" <=> peer[j].pc = "none"
              /\ peer[j].pc \in {"in", "done"} => peer'[j].pc \in {"in", "done"}
              /\ peer'[j].pc \in {"in", "checked"} => peer'[j] = peer[j]
      BY <1>1, <1>3, <1>5
  <1>13. CallersInv'
    <2>1. \A j \in PeerIds : peer[j].parent # 0 => peer[j].parent \in PeerIds
        BY <1>2 DEF PeerCall
    <2>2. \A j \in PeerIds : peer[j].pc # "none" /\ peer[j].parent # 0 =>
              /\ peer'[peer[j].parent].pc \in {"in", "done"}
              /\ peer[j].caller = peer'[peer[j].parent].target
        BY <1>12, <2>1 DEF CallersInv
    <2>3. \A j \in PeerIds : NoneAfter(j) => NoneAfter(j)'
        BY <1>5, <1>12 DEF NoneAfter
    <2> QED BY <1>1, <1>5, <1>12, <2>2, <2>3 DEF CallersInv
  <1>14. \A j \in PeerIds : Ancestors(j)' = Ancestors(j) /\ Depth(j)' = Depth(j)
    <2> SUFFICES ASSUME NEW j \in PeerIds
                 PROVE  Ancestors(j)' = Ancestors(j) /\ Depth(j)' = Depth(j)
        OBVIOUS
    <2>1. Ancestors(j)' = Ancestors(j)
        BY <1>12, AncestorsKept DEF Ancestors
    <2> QED BY <2>1 DEF Depth
  <1>15. \A j \in PeerIds : Unbroken(j)' => Unbroken(j) /\ Ancestors(j) \subseteq In'
    <2> SUFFICES ASSUME NEW j \in PeerIds, Unbroken(j)'
                 PROVE  Unbroken(j) /\ Ancestors(j) \subseteq In'
        OBVIOUS
    <2>1. \A i \in Ancestors(j) : i \in PeerIds /\ peer'[i].pc = "in" /\ peer'[i].holder = held.id
        BY <1>1, <1>14 DEF Unbroken, Ancestors
    <2>2. \A i \in Ancestors(j) : peer'[i] = peer[i]
        BY <1>12, <2>1
    <2> QED BY <1>5, <2>1, <2>2 DEF Unbroken, In
  <1>16. In' # {} => chain'[1] = chain[1]
    <2>1. In' # {} => 1 \in DOMAIN chain'
        BY <1>7, <1>8, <1>9
    <2> QED BY <1>8, <2>1
  <1>17. \A j \in PeerIds : Unbroken(j)' => chain'[1] = chain[1]
      BY <1>15, <1>16, AncestorsAre
  <1>18. RootInv'
    <2> SUFFICES ASSUME NEW j \in PeerIds, NEW p \in PeerIds, peer'[j].parent = p
                 PROVE  /\ peer'[j].pc = "checked" /\ peer'[j].holder = held.id
                           /\ Unbroken(p)' => chain'[1] = held.agent
                        /\ peer'[j].pc = "in" /\ Unbroken(j)' => chain'[1] = held.agent
        BY <1>1, <1>5 DEF RootInv
    <2>1. /\ Unbroken(p)' => Unbroken(p) /\ chain'[1] = chain[1]
          /\ Unbroken(j)' => Unbroken(j) /\ chain'[1] = chain[1]
        BY <1>15, <1>17
    <2> QED BY <1>12, <2>1 DEF RootInv
  <1>19. PlaceInv'
    <2> SUFFICES ASSUME NEW j \in In', Unbroken(j)', chain'[1] = held.agent
                 PROVE  /\ Len(chain') >= Depth(j) + 1
                        /\ chain'[Depth(j) + 1] = peer[j].target
      <3>1. \A j \in In' : j \in PeerIds /\ peer'[j].target = peer[j].target /\ Depth(j)' = Depth(j)
          BY <1>5, <1>12, <1>14 DEF In
      <3> QED BY <1>1, <3>1 DEF PlaceInv
    <2>1. j \in In /\ j \in PeerIds /\ Unbroken(j) /\ Ancestors(j) \subseteq In'
        BY <1>6, <1>15 DEF In
    <2>2. chain[1] = held.agent
        BY <1>16
    <2>3. Len(chain) >= Depth(j) + 1 /\ chain[Depth(j) + 1] = peer[j].target
        BY <2>1, <2>2 DEF PlaceInv
    <2>4. Depth(j) \in Nat \ {0} /\ Depth(j) <= Cardinality(In')
        BY <1>6, <2>1, AncestorsFinite, FS_Subset DEF Depth
    <2>5. Len(chain') = Len(chain) - 1 /\ Len(chain') >= Depth(j) + 1
        BY <1>6, <1>7, <1>8, <1>9, <2>4
    <2>6. Depth(j) + 1 \in DOMAIN chain'
        BY <1>7, <1>8, <2>4, <2>5
    <2> QED BY <1>8, <2>3, <2>5, <2>6
  <1>20. PunctualInv'
    <2> SUFFICES ASSUME \A j \in PeerIds : ~peer'[j].late, NEW j \in PeerIds,
                        peer'[j].pc \in {"checked", "in"}, peer'[j].holder = held.id, chain' # <<>>
                 PROVE  chain'[1] = held.agent
        BY <1>1, <1>5 DEF PunctualInv
    <2>1. (\A i \in PeerIds : ~peer[i].late) /\ peer[j] = peer'[j]
        BY <1>12
    <2>2. In' # {} /\ chain # <<>>
        BY <1>7, <1>8, <1>9
    <2> QED BY <1>16, <2>1, <2>2 DEF PunctualInv
  <1>21. OneCallPerCaller'
    <2> SUFFICES ASSUME \A j \in PeerIds : ~peer'[j].late, NEW i \in In', NEW j \in In', i # j,
                        Unbroken(i)', Unbroken(j)', peer'[i].parent = peer'[j].parent
                 PROVE  FALSE
        BY <1>5 DEF OneCallPerCaller
    <2>1. i \in In /\ j \in In /\ i \in PeerIds /\ j \in PeerIds
        BY <1>6 DEF In
    <2>2. Unbroken(i) /\ Unbroken(j)
        BY <1>15, <2>1
    <2>3. peer[i].parent = peer[j].parent /\ \A m \in PeerIds : ~peer[m].late
        BY <1>12, <2>1
    <2> QED BY <2>1, <2>2, <2>3 DEF OneCallPerCaller
  <1> QED BY <1>10, <1>11, <1>13, <1>18, <1>19, <1>20, <1>21

LEMMA PeersStepInv ==
    ASSUME PeersInv, [PeersNext]_peerVars
    PROVE  PeersInv'
  <1>1. CASE UNCHANGED peerVars
    <2>1. UNCHANGED <<held, executions, chain, peer>> /\ In' = In /\ PeerIds' = PeerIds
        BY <1>1 DEF peerVars, In, PeerIds
    <2>2. \A k \in PeerIds : /\ Ancestors(k)' = Ancestors(k) /\ Depth(k)' = Depth(k)
                             /\ (Unbroken(k)' <=> Unbroken(k)) /\ (NoneAfter(k)' <=> NoneAfter(k))
        BY <2>1 DEF Ancestors, Depth, Unbroken, NoneAfter
    <2>3. \A k \in In : k \in PeerIds
        BY DEF In
    <2>4. PeersTypeOK' /\ CallersInv'
        BY <2>1, <2>2 DEF PeersInv, PeersTypeOK, CallersInv
    <2>5. ChainInv' /\ RootInv'
        BY <2>1, <2>2 DEF PeersInv, ChainInv, ChainMatches, RootInv
    <2>6. PlaceInv' /\ PunctualInv' /\ OneCallPerCaller'
        BY <2>1, <2>2, <2>3 DEF PeersInv, PlaceInv, PunctualInv, OneCallPerCaller
    <2> QED BY <2>4, <2>5, <2>6 DEF PeersInv
  <1>2. CASE EndExecution \/ \E a \in PeerAgents : Execute(a)
      BY <1>2, HandoverStep
  <1>3. ASSUME NEW k \in PeerIds, NEW parent \in {0} \cup PeerIds, NEW target \in PeerAgents,
               CallPeer(k, parent, target)
        PROVE  PeersInv'
      BY <1>3, CallPeerStep
  <1>4. ASSUME NEW k \in PeerIds, TriggerNestedPeer(k) \/ enterPeerCall(k) \/ Return(k)
        PROVE  PeersInv'
      BY <1>4, TriggerNestedPeerStep, EnterPeerCallStep, ReturnStep
  <1> QED BY <1>1, <1>2, <1>3, <1>4 DEF PeersNext

LEMMA PeersAlways == PeersSpec => []PeersInv
  <1>1. PeersInit => PeersInv
      BY PeersStart
  <1>2. PeersInv /\ [PeersNext]_peerVars => PeersInv'
      BY PeersStepInv
  <1> QED BY <1>1, <1>2, PTL DEF PeersSpec

\* The chain of a chat has an entry for each call that runs (leavePeerCall).
THEOREM ChainIsExact == PeersSpec => []ChainMatches
  <1>1. PeersInv => ChainMatches
      BY DEF PeersInv, ChainInv
  <1> QED BY <1>1, PeersAlways, PTL

\* No agent waits for itself, and no line of waiting agents is too long
\* (enterPeerCall).
THEOREM NobodyWaitsForItself == PeersSpec => []NoWaitCycle
  <1>1. PeersInv => NoWaitCycle
      BY LineIsDistinct
  <1> QED BY <1>1, PeersAlways, PTL

\* While no call is entered late, an agent has one call at a time (enterPeerCall).
THEOREM CallersWait == PeersSpec => []OneCallPerCaller
  <1>1. PeersInv => OneCallPerCaller
      BY DEF PeersInv
  <1> QED BY <1>1, PeersAlways, PTL

\* The three together, as the runs check them (enterPeerCall, leavePeerCall).
THEOREM CallsNest == PeersSpec => []PeerCallsNest
  <1>1. ChainMatches /\ NoWaitCycle /\ OneCallPerCaller => PeerCallsNest
      BY DEF PeerCallsNest
  <1> QED BY <1>1, ChainIsExact, NobodyWaitsForItself, CallersWait, PTL
=================================================================================
