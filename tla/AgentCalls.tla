----------------------------- MODULE AgentCalls -----------------------------
(***************************************************************************)
(* The calls an agent makes while it runs: to the backend, on the example  *)
(* of ask-user, and to another agent of its chat.                          *)
(***************************************************************************)
EXTENDS Integers, Sequences, FiniteSets

-----------------------------------------------------------------------------
(***************************************************************************)
(* The calls that an agent in a sandbox makes to the backend, on the       *)
(* example of ask-user: the runner repeats a call over lost connections    *)
(* under the sequence number it drew for it, the backend runs each         *)
(* (run, sequence number) once and keeps the outcome for a while, and the  *)
(* question waits for a reply from the web interface.                      *)
(***************************************************************************)

CONSTANTS Calls,        \* the ask-user calls; each belongs to a run of its own
          Chats,
          MaxInFlight,  \* callback calls that may execute at once (maxInFlightTotal)
          MaxLost,      \* how often a connection is lost during a call
          MaxExecutions,\* how often one call is executed
          MaxReplies
ASSUME CallbackConstants == MaxExecutions \in Nat

VARIABLES
    chatOf,     \* the chat of each call
    call,       \* the runner's side of each call
    kept,       \* the execution the backend's map holds for each call, 0 for none
    execution,  \* the executions of each call, oldest first
    inFlight,   \* how many calls the backend counts as executing
    runEnded,   \* the calls whose run is over
    reply,      \* the reply the web interface is sending
    replied     \* the replies sent so far: the chat and the call each was for
callbackVars == <<chatOf, call, kept, execution, inFlight, runEnded, reply, replied>>

NoReply == 0
Cancelled == -1   \* "call cancelled: run ended", code Canceled
AskError == -2    \* an AskUserResponse that carries an error
Idle == [pc |-> "idle", waitsFor |-> 0, got |-> NoReply, lost |-> 0]
Asking == [pc |-> "ask", chan |-> <<>>, done |-> FALSE, resp |-> NoReply]
NoneSent == [pc |-> "idle", msg |-> "none", chat |-> "none"]

CallbacksInit ==
    /\ chatOf = [c \in Calls |-> "unset"]
    /\ call = [c \in Calls |-> Idle]
    /\ kept = [c \in Calls |-> 0]
    /\ execution = [c \in Calls |-> <<>>]
    /\ inFlight = 0 /\ runEnded = {}
    /\ reply = NoneSent /\ replied = <<>>

\* The agent asks; the sequence number is drawn once, before the first attempt.
HandleAskUser(c, chat) ==
    /\ call[c].pc = "idle" /\ chatOf[c] = "unset" /\ c \notin runEnded
    /\ chatOf' = [chatOf EXCEPT ![c] = chat]
    /\ call' = [call EXCEPT ![c].pc = "retry"]
    /\ UNCHANGED <<kept, execution, inFlight, runEnded, reply, replied>>

Fail(c) == call' = [call EXCEPT ![c].pc = "done", ![c].got = AskError]

\* Mutant: an attempt that comes again starts the call again.
BeginAlways(c) ==
    /\ Len(execution[c]) < MaxExecutions
    /\ execution' = [execution EXCEPT ![c] = Append(@, Asking)]
    /\ kept' = [kept EXCEPT ![c] = Len(execution[c]) + 1]
    /\ inFlight' = inFlight + 1
    /\ call' = [call EXCEPT ![c].pc = "sent", ![c].waitsFor = Len(execution[c]) + 1]

\* The call joins the execution of an earlier attempt, or starts one.
Begin(c) ==
    IF kept[c] # 0
    THEN /\ call' = [call EXCEPT ![c].pc = "sent", ![c].waitsFor = kept[c]]
         /\ UNCHANGED <<kept, execution, inFlight>>
    ELSE IF inFlight >= MaxInFlight
    THEN Fail(c) /\ UNCHANGED <<kept, execution, inFlight>>
    ELSE /\ Len(execution[c]) < MaxExecutions
         /\ execution' = [execution EXCEPT ![c] = Append(@, Asking)]
         /\ kept' = [kept EXCEPT ![c] = Len(execution[c]) + 1]
         /\ inFlight' = inFlight + 1
         /\ call' = [call EXCEPT ![c].pc = "sent", ![c].waitsFor = Len(execution[c]) + 1]

\* callbackService.run: a call of a run that is over is refused, and a refusal is
\* not repeated.
Run(c) ==
    /\ call[c].pc = "retry"
    /\ IF c \in runEnded THEN Fail(c) /\ UNCHANGED <<kept, execution, inFlight>> ELSE Begin(c)
    /\ UNCHANGED <<chatOf, runEnded, reply, replied>>

\* The connection breaks while the call waits; Unavailable is repeated.
LoseConnection(c) ==
    /\ call[c].pc = "sent" /\ call[c].lost < MaxLost
    /\ call' = [call EXCEPT ![c].pc = "retry", ![c].waitsFor = 0, ![c].lost = @ + 1]
    /\ UNCHANGED <<chatOf, kept, execution, inFlight, runEnded, reply, replied>>

\* The outcome of the execution the attempt waits for reaches the runner; a
\* cancelled one is repeated like a broken connection.
Respond(c) ==
    LET ex == execution[c][call[c].waitsFor]
    IN  /\ call[c].pc = "sent" /\ ex.done
        /\ call' = [call EXCEPT ![c] =
                IF ex.resp = Cancelled THEN [@ EXCEPT !.pc = "retry", !.waitsFor = 0]
                ELSE [@ EXCEPT !.pc = "done", !.got = ex.resp]]
        /\ UNCHANGED <<chatOf, kept, execution, inFlight, runEnded, reply, replied>>

\* The run of the agent ends: the context of the runner's call ends with it, and
\* so does the execution's once the backend has seen it.
EndRun(c) ==
    /\ c \notin runEnded
    /\ runEnded' = runEnded \cup {c}
    /\ call' = [call EXCEPT ![c] = IF @.pc \in {"retry", "sent"}
                                   THEN [@ EXCEPT !.pc = "done", !.got = AskError] ELSE @]
    /\ UNCHANGED <<chatOf, kept, execution, inFlight, reply, replied>>

Goes(c, k, pc) == execution' = [execution EXCEPT ![c][k].pc = pc]

\* askUser stores and publishes the question, and registers for the reply after it.
PublishQuestion(c, k) ==
    /\ execution[c][k].pc = "ask" /\ Goes(c, k, "asked")
    /\ UNCHANGED <<chatOf, call, kept, inFlight, runEnded, reply, replied>>
RegisterAskWaiter(c, k) ==
    /\ execution[c][k].pc = "asked" /\ Goes(c, k, "registered")
    /\ UNCHANGED <<chatOf, call, kept, inFlight, runEnded, reply, replied>>

\* The select of askUser: a reply, or the end of the run; then unregister.
TakeReply(c, k) ==
    /\ execution[c][k].pc = "registered"
    /\ \/ /\ execution[c][k].chan # <<>>
          /\ execution' = [execution EXCEPT ![c][k].pc = "returned",
                                            ![c][k].chan = <<Head(execution[c][k].chan)>>]
       \/ /\ c \in runEnded
          /\ execution' = [execution EXCEPT ![c][k].pc = "returned", ![c][k].chan = <<AskError>>]
    /\ UNCHANGED <<chatOf, call, kept, inFlight, runEnded, reply, replied>>

\* The entries that may be gone after a sweep: those that are finished, once they
\* are old or there are too many.
Evicted(m) ==
    {f \in [Calls -> 0 .. MaxExecutions] :
        \A c \in Calls : f[c] = m[c] \/ (f[c] = 0 /\ execution[c][m[c]].done)}

\* execute: the outcome is what the call returned, or Cancelled when the run ended
\* first; it is stored, counted out, and old outcomes are swept.
Finish(c, k) ==
    LET ex == execution[c][k]
    IN  /\ ~ex.done
        /\ \/ ex.pc = "returned" /\ execution' = [execution EXCEPT ![c][k].done = TRUE,
                                                                   ![c][k].resp = ex.chan[1]]
           \/ c \in runEnded /\ execution' = [execution EXCEPT ![c][k].done = TRUE,
                                                               ![c][k].resp = Cancelled]
        /\ inFlight' = inFlight - 1
        /\ kept' \in Evicted(kept)
        /\ UNCHANGED <<chatOf, call, runEnded, reply, replied>>

Registered(c) == execution[c] # <<>> /\ execution[c][Len(execution[c])].pc = "registered"
Waiters(chat) == {c \in Calls : Registered(c) /\ chatOf[c] = chat}
Visible(c) == \E k \in DOMAIN execution[c] : execution[c][k].pc # "ask"

\* The user answers a question that is on the screen, by its id or without one; the
\* answer is stored first.
MarkAskUserReplied(chat, c) ==
    /\ reply.pc = "idle" /\ Len(replied) < MaxReplies
    /\ \E d \in Calls : chatOf[d] = chat /\ Visible(d)
    /\ c # "none" => Visible(c)
    /\ reply' = [pc |-> "stored", msg |-> c, chat |-> chat]
    /\ replied' = Append(replied, [chat |-> chat, msg |-> c])
    /\ UNCHANGED <<chatOf, call, kept, execution, inFlight, runEnded>>

\* Whom a reply goes to: the waiter of its message, if it is of the chat; without a
\* message id, the only waiter of the chat.
Addressees(r) ==
    IF r.msg # "none" THEN {c \in {r.msg} : Registered(c) /\ chatOf[c] = r.chat}
    ELSE IF Cardinality(Waiters(r.chat)) = 1 THEN Waiters(r.chat) ELSE {}

\* The reply is put in the waiter's channel, which holds one.
DeliverReply ==
    /\ reply.pc = "stored" /\ reply' = NoneSent
    /\ execution' = [c \in Calls |->
            IF c \in Addressees(reply) /\ execution[c][Len(execution[c])].chan = <<>>
            THEN [execution[c] EXCEPT ![Len(execution[c])].chan = <<Len(replied)>>]
            ELSE execution[c]]
    /\ UNCHANGED <<chatOf, call, kept, inFlight, runEnded, replied>>

CallbacksNext ==
    \/ \E c \in Calls :
        \/ \E chat \in Chats : HandleAskUser(c, chat)
        \/ Run(c) \/ LoseConnection(c) \/ Respond(c) \/ EndRun(c)
        \/ \E k \in DOMAIN execution[c] :
              PublishQuestion(c, k) \/ RegisterAskWaiter(c, k) \/ TakeReply(c, k) \/ Finish(c, k)
    \/ \E chat \in Chats, c \in Calls \cup {"none"} : MarkAskUserReplied(chat, c)
    \/ DeliverReply

---------------------------------------------------------------------------
\* However often the connection is lost, the user is asked again only after an
\* outcome was there and has been forgotten: two executions of one call never
\* run side by side, so that a reply cannot go to the one while the agent waits
\* for the other (run, evictLocked).
OneExecution ==
    \A c \in Calls : Cardinality({k \in DOMAIN execution[c] : ~execution[c][k].done}) <= 1

\* What an agent is told was meant for it: the reply named the agent's question,
\* or named no question, and in either case was sent in the agent's own chat
\* (handleAskUserReply).
ReplyIsForAsker ==
    \A c \in Calls :
        call[c].got > 0 => /\ replied[call[c].got].chat = chatOf[c]
                           /\ replied[call[c].got].msg \in {c, "none"}

\* The backend's count of executing calls, which it refuses new ones by, is the
\* number that are executing: no outcome, cancellation or repetition leaks a place
\* (run, execute).
NoPlaceLeaks ==
    inFlight = Cardinality({x \in Calls \X (1 .. MaxExecutions) :
                    x[2] \in DOMAIN execution[x[1]] /\ ~execution[x[1]][x[2]].done})

\* What an agent may rely on that calls the backend over connections that break
\* (run, execute, evictLocked, handleAskUserReply).
CallbacksExact == OneExecution /\ ReplyIsForAsker /\ NoPlaceLeaks

CallbacksSpec == CallbacksInit /\ [][CallbacksNext]_callbackVars

-----------------------------------------------------------------------------
(***************************************************************************)
(* call-peer inside a chat: an agent that runs in the chat calls another   *)
(* one, which runs nested in the same execution while its caller waits,    *)
(* and may call a third.  The chain of the agents that wait is kept per    *)
(* chat; a call is checked, entered and left in separate steps, and a      *)
(* caller may end before the agent it called.                              *)
(***************************************************************************)

CONSTANTS PeerAgents, MaxPeerCalls,
          maxPeerCallDepth,
          MaxPeerExecutions
ASSUME PeerConstants == MaxPeerCalls \in Nat /\ maxPeerCallDepth \in Nat

VARIABLES
    held,       \* the execution that holds the chat: its number, 0 for none, and agent
    executions, \* how many there have been
    chain,      \* peerChains of the chat, empty when it has no entry
    peer        \* the calls
peerVars == <<held, executions, chain, peer>>

PeerIds == 1 .. MaxPeerCalls
NoCall == [pc |-> "none", parent |-> 0, caller |-> "none", target |-> "none", holder |-> 0,
           late |-> FALSE]  \* history: entered after its caller had ended
In == {k \in PeerIds : peer[k].pc = "in"}

PeersInit ==
    /\ held = [id |-> 0, agent |-> "none"] /\ executions = 0
    /\ chain = <<>> /\ peer = [k \in PeerIds |-> NoCall]

\* The chat starts to run an agent, or ends to; nested runs may outlive it.
Execute(a) ==
    /\ held.id = 0 /\ executions < MaxPeerExecutions
    /\ held' = [id |-> executions + 1, agent |-> a] /\ executions' = executions + 1
    /\ UNCHANGED <<chain, peer>>
EndExecution ==
    /\ held.id # 0
    /\ held' = [id |-> 0, agent |-> "none"]
    /\ UNCHANGED <<executions, chain, peer>>

\* The runs that may call: the one that holds the chat (parent 0) and nested ones.
Alive(parent, holder) == IF parent = 0 THEN held.id = holder ELSE peer[parent].pc = "in"
RunsAgent(parent) == IF parent = 0 THEN held.agent ELSE peer[parent].target

\* The callback is accepted while its run is active, and remembers who held the chat.
CallPeer(k, parent, target) ==
    /\ peer[k].pc = "none" /\ \A j \in 1 .. k - 1 : peer[j].pc # "none"
    /\ held.id # 0 /\ Alive(parent, held.id)
    /\ peer' = [peer EXCEPT ![k] = [pc |-> "asked", parent |-> parent, caller |-> RunsAgent(parent),
                                    target |-> target, holder |-> held.id, late |-> FALSE]]
    /\ UNCHANGED <<held, executions, chain>>

peerChainRoot(caller) == IF chain = <<>> THEN caller ELSE chain[1]

Refused(k) == peer' = [peer EXCEPT ![k].pc = "done"] /\ UNCHANGED <<held, executions, chain>>

\* The holder of the chat must still be the one of the call, and its agent the root
\* of the chain; otherwise the call is refused, or, when the chat is free, runs as a
\* message of its own.
TriggerNestedPeer(k) ==
    /\ peer[k].pc = "asked"
    /\ IF held.id = peer[k].holder /\ held.agent = peerChainRoot(peer[k].caller)
       THEN peer' = [peer EXCEPT ![k].pc = "checked"] /\ UNCHANGED <<held, executions, chain>>
       ELSE Refused(k)

\* The caller is the last of the chain, the target is not on it, and it is not full.
MayEnter(caller, target) ==
    LET c == IF chain = <<>> THEN <<caller>> ELSE chain
    IN  /\ c[Len(c)] = caller
        /\ \A i \in DOMAIN c : c[i] # target
        /\ Len(c) < maxPeerCallDepth

enterPeerCall(k) ==
    /\ peer[k].pc = "checked"
    /\ IF MayEnter(peer[k].caller, peer[k].target)
       THEN /\ chain' = Append(IF chain = <<>> THEN <<peer[k].caller>> ELSE chain, peer[k].target)
            /\ peer' = [peer EXCEPT ![k].pc = "in", ![k].late = ~Alive(peer[k].parent, peer[k].holder)]
            /\ UNCHANGED <<held, executions>>
       ELSE Refused(k)

\* Mutant: the root of the chain stays when the last call is left.
leavePeerCallRoot == IF Len(chain) <= 1 THEN <<>> ELSE SubSeq(chain, 1, Len(chain) - 1)

leavePeerCall == IF Len(chain) <= 2 THEN <<>> ELSE SubSeq(chain, 1, Len(chain) - 1)

\* The nested agent finishes, or is stopped because its caller is gone.
Return(k) ==
    /\ peer[k].pc = "in"
    /\ peer' = [peer EXCEPT ![k].pc = "done"]
    /\ chain' = leavePeerCall
    /\ UNCHANGED <<held, executions>>

PeersNext ==
    \/ \E a \in PeerAgents : Execute(a)
    \/ EndExecution
    \/ \E k \in PeerIds :
        \/ \E parent \in {0} \cup PeerIds, target \in PeerAgents : CallPeer(k, parent, target)
        \/ TriggerNestedPeer(k) \/ enterPeerCall(k) \/ Return(k)

---------------------------------------------------------------------------
\* The chain is as long as the calls that run, and gone when none does, in
\* whatever order callers and callees end: a chain that is left behind would
\* refuse every later call of the chat (leavePeerCall).
ChainMatches == Len(chain) = IF In = {} THEN 0 ELSE Cardinality(In) + 1

\* The call, the one whose run made it, and so on up.
Ancestors(k) ==
    {j \in PeerIds :
        \A S \in SUBSET PeerIds :
            k \in S /\ (\A i \in S : peer[i].parent # 0 => peer[i].parent \in S) => j \in S}
Unbroken(k) == \A j \in Ancestors(k) : peer[j].pc = "in" /\ peer[j].holder = held.id

\* Nobody waits for itself: the agents from the one that holds the chat down to a
\* nested one are all different, and there are at most maxPeerCallDepth of them
\* (enterPeerCall).
NoWaitCycle ==
    \A k \in In :
        Unbroken(k) =>
            LET line == Ancestors(k)
                agents == {peer[j].target : j \in line} \cup {held.agent}
            IN  Cardinality(agents) = Cardinality(line) + 1 /\ Cardinality(agents) <= maxPeerCallDepth

\* An agent makes one call at a time: two calls that both run, with their callers
\* still there, have different callers.  A call that is entered after its caller
\* has ended, between the check of the holder and enterPeerCall, can break this, so
\* that the property is about the behaviours without one.
OneCallPerCaller ==
    (\A k \in PeerIds : ~peer[k].late) =>
        \A j, k \in In : j # k /\ Unbroken(j) /\ Unbroken(k) => peer[j].parent # peer[k].parent

\* What the agents of a chat may rely on that call each other (enterPeerCall,
\* leavePeerCall).
PeerCallsNest == ChainMatches /\ NoWaitCycle /\ OneCallPerCaller

PeersSpec == PeersInit /\ [][PeersNext]_peerVars
=============================================================================
