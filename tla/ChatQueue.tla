----------------------------- MODULE ChatQueue -----------------------------
(***************************************************************************)
(* The executions of one chat (backend/lib/api): the guard that admits one *)
(* execution at a time, the queue of messages that wait for it, the parks  *)
(* that keep a queue from being restarted in vain, and the runner whose    *)
(* connection comes and goes underneath.                                   *)
(*                                                                         *)
(* The guard (Server.activeExecutions), the parks (Server.queueParks) and  *)
(* the queue (a table) are three stores without a common lock: every       *)
(* access to one of them is a step of its own, and HTTP handlers, queue    *)
(* consumers, the drain after a release and the hub's online notification  *)
(* interleave between any two.  The chat is bound to a runner and its      *)
(* current agent is a single agent (no workflow) that the runner offers.   *)
(***************************************************************************)
EXTENDS Naturals, FiniteSets

CONSTANTS
    Execs,        \* slots for executions: handles with their goroutine
    NoExec,       \* the guard is free
    Triggers,     \* bound: the kinds of trigger in use, of "initial" and "sync"
    MaxMsgs,      \* bound: messages the users send
    MaxQueue,     \* MaxQueuedMessagesPerSession
    MaxGen,       \* bound: registrations of the runner
    Withdrawals,  \* bound: do users withdraw queued messages?
    MaxStops,     \* bound: uses of the stop button
    MaxEnds,      \* bound: callers whose own run ends before their answer
    MaxBoots,     \* bound: starts of the backend
    Shutdowns,    \* bound: is the server shut down?
    AgentFailures,\* may a run fail, or be refused before it is dispatched?
    StoreErrors,  \* may a statement on the queue's table, or the transcript, fail?
    Quota         \* may a run come back without quota?

ASSUME ChatQueueConstants ==
    /\ NoExec \notin Execs
    /\ Triggers \subseteq {"initial", "sync"}
    /\ MaxMsgs \in Nat /\ MaxQueue \in Nat \ {0} /\ MaxGen \in Nat
    /\ MaxStops \in Nat /\ MaxEnds \in Nat /\ MaxBoots \in Nat \ {0}
    /\ AgentFailures \in BOOLEAN /\ StoreErrors \in BOOLEAN /\ Quota \in BOOLEAN
    /\ Withdrawals \in BOOLEAN /\ Shutdowns \in BOOLEAN

Msgs == 1..MaxMsgs
Gens == 0..MaxGen

VARIABLES
    sent,      \* how many messages were sent, their numbers give their order
    queue,     \* the queued messages; the smallest is the head
    guard,     \* the execution registered for the chat, or NoExec
    park,      \* why the queue is not restarted
    exec,      \* the executions
    attempt,   \* each message's latest dispatch, up to its result
    gor,       \* other goroutines, counted by the step they are about to take
    loaded,    \* drains that loaded a park, counted by its generation
    online, gen, \* the runner as the hub's registry shows it
    stops, clearing,  \* stop requests so far, and those that have yet to clear
    ends,             \* callers whose run ended so far
    boots, stage      \* starts of the backend; how far the latest one got

goVars == <<gor, loaded>>
runnerVars == <<online, gen>>
stopVars == <<stops, clearing, ends>>
bootVars == <<boots, stage>>
vars == <<sent, queue, guard, park, exec, attempt, goVars, runnerVars, stopVars, bootVars>>

Unparked == [hard |-> FALSE, gen |-> MaxGen + 1]
Hard == [hard |-> TRUE, gen |-> 0]
UntilNewer(g) == [hard |-> FALSE, gen |-> g]
Parks == {Unparked, Hard} \cup {UntilNewer(g) : g \in Gens}

\* msg is the message in hand (0: none), gen the generation it was taken at,
\* park how the queue is left when the execution gives up.
IdleExec == [pc |-> "idle", kind |-> "queue", msg |-> 0, gen |-> 0,
             park |-> Unparked, cancelled |-> FALSE]

GoSteps == {"parked", "online", "peek", "start", "notify", "list", "unpark"}

\* A goroutine moves from one step to the next; "" is where none is.
Goes(from, to) ==
    gor' = [s \in GoSteps |->
               gor[s] + (IF s = to THEN 1 ELSE 0) - (IF s = from THEN 1 ELSE 0)]

At(e, pc) == exec[e].pc = pc

ToPc(e, pc) == exec' = [exec EXCEPT ![e].pc = pc]

\* An execution with nothing in hand at step pc.
AtStep(pc, p) == [IdleExec EXCEPT !.pc = pc, !.park = p]

\* The execution is over: it parks the queue, unless a caller waits for it,
\* and releases the guard.
Ends(e, p) ==
    exec' = [exec EXCEPT ![e] = IF @.kind = "sync" THEN AtStep("release", Unparked)
                                ELSE AtStep("giveup", p)]

Head == CHOOSE m \in queue : \A n \in queue : m <= n

-----------------------------------------------------------------------------
(* The guard *)

\* The first half of beginExecution, LoadOrStore found nothing.  The context is one of the
\* server's and ends with it.
Begin(e, kind, m) ==
    /\ guard = NoExec
    /\ At(e, "idle")
    /\ guard' = e
    /\ exec' = [exec EXCEPT ![e] = [pc |-> "begun", kind |-> kind, msg |-> m, gen |-> 0,
                                    park |-> Unparked, cancelled |-> stage = "ending"]]

\* Its second half: the park goes.
BeginUnpark(e) ==
    /\ At(e, "begun")
    /\ park' = Unparked
    /\ ToPc(e, IF exec[e].kind = "queue" THEN "top" ELSE "admit")
    /\ UNCHANGED <<sent, queue, guard, attempt, goVars, runnerVars, stopVars, bootVars>>

\* releaseExecution removes whatever guard there is and starts a drain.
releaseExecution ==
    /\ guard' = NoExec
    /\ Goes("", "parked")

Release(e) ==
    /\ At(e, "release")
    /\ releaseExecution
    /\ exec' = [exec EXCEPT ![e] = IdleExec]
    /\ UNCHANGED <<sent, queue, park, attempt, loaded, runnerVars, stopVars, bootVars>>

-----------------------------------------------------------------------------
(* HTTP handlers *)

\* A server that is shutting down lets the handlers finish that it has begun.
Serving == stage \in {"serving", "ending"}

\* A message for an idle chat, with (sync) or without (initial) a caller that
\* waits for the answer.
TriggerMessage(e, kind) ==
    /\ Serving /\ sent < MaxMsgs
    /\ sent' = sent + 1
    /\ Begin(e, kind, sent')
    /\ UNCHANGED <<queue, park, attempt, goVars, runnerVars, stopVars, bootVars>>

\* A message for the queue: from the queue endpoint, or a trigger that found the
\* guard taken.  The handler goes on to lift the park and start a consumer.
EnqueueMessage ==
    /\ Serving /\ sent < MaxMsgs
    /\ Cardinality(queue) < MaxQueue
    /\ sent' = sent + 1
    /\ queue' = queue \cup {sent'}
    /\ Goes("", "unpark")
    /\ UNCHANGED <<guard, park, exec, attempt, loaded, runnerVars, stopVars, bootVars>>

\* The user withdraws one queued message or all of them.
DeleteQueued ==
    /\ Serving /\ Withdrawals
    /\ \E gone \in {queue} \cup {{m} : m \in queue} :
          gone # {} /\ queue' = queue \ gone
    /\ UNCHANGED <<sent, guard, park, exec, attempt, goVars, runnerVars, stopVars, bootVars>>

\* stopSessionExecution cancels the context of the registered execution ...
StopCancel ==
    /\ Serving /\ stops < MaxStops
    /\ guard # NoExec
    /\ exec' = [exec EXCEPT ![guard].cancelled = TRUE]
    /\ stops' = stops + 1
    /\ clearing' = clearing + 1
    /\ UNCHANGED <<sent, queue, guard, park, attempt, goVars, runnerVars, ends, bootVars>>

\* cancelWhenDone: whoever waits for the answer may be a run itself (callPeer).
\* When that run ends, the execution is cancelled like by the stop button.
CallerEnds(e) ==
    /\ exec[e].kind = "sync" /\ ends < MaxEnds
    /\ exec' = [exec EXCEPT ![e].cancelled = TRUE]
    /\ ends' = ends + 1
    /\ UNCHANGED <<sent, queue, guard, park, attempt, goVars, runnerVars, stops, clearing, bootVars>>

\* ClearQueuedMessages; its error is ignored.
ClearQueuedMessages == queue' = {} \/ (StoreErrors /\ UNCHANGED queue)

\* ... and then clears the queue.
StopClear ==
    /\ clearing > 0
    /\ clearing' = clearing - 1
    /\ ClearQueuedMessages
    /\ UNCHANGED <<sent, guard, park, exec, attempt, goVars, runnerVars, stops, ends, bootVars>>

-----------------------------------------------------------------------------
(* Goroutines that may start a consumer *)

\* drainQueueAfterRelease: queueParkedNow loads the park ...
DrainLoadsPark ==
    /\ gor["parked"] > 0
    /\ \/ park = Unparked /\ Goes("parked", "online") /\ UNCHANGED loaded
       \/ park.hard /\ Goes("parked", "") /\ UNCHANGED loaded
       \/ /\ park # Unparked /\ ~park.hard
          /\ loaded' = [loaded EXCEPT ![park.gen] = @ + 1]
          /\ Goes("parked", "")
    /\ UNCHANGED <<sent, queue, guard, park, exec, attempt, runnerVars, stopVars, bootVars>>

\* Mutant: off by one, the first reconnect does not count.
DrainSkipsGen(g) ==
    /\ loaded[g] > 0
    /\ loaded' = [loaded EXCEPT ![g] = @ - 1]
    /\ Goes("", IF online /\ gen > g + 1 THEN "online" ELSE "")
    /\ UNCHANGED <<sent, queue, guard, park, exec, attempt, runnerVars, stopVars, bootVars>>

\* ... and compares its generation with the runner's ...
DrainComparesGen(g) ==
    /\ loaded[g] > 0
    /\ loaded' = [loaded EXCEPT ![g] = @ - 1]
    /\ Goes("", IF online /\ gen > g THEN "online" ELSE "")
    /\ UNCHANGED <<sent, queue, guard, park, exec, attempt, runnerVars, stopVars, bootVars>>

\* ... then the runner has to be online ...
DrainChecksRunner ==
    /\ gor["online"] > 0
    /\ Goes("online", IF online THEN "peek" ELSE "")
    /\ UNCHANGED <<sent, queue, guard, park, exec, attempt, loaded, runnerVars, stopVars, bootVars>>

\* A goroutine that finds messages in the queue goes on; one that does not, or
\* cannot look, is done.
FindsQueued(from, to) ==
    \/ Goes(from, IF queue # {} THEN to ELSE "")
    \/ StoreErrors /\ Goes(from, "")

\* ... and the queue not empty.
DrainPeeks ==
    /\ gor["peek"] > 0
    /\ FindsQueued("peek", "start")
    /\ UNCHANGED <<sent, queue, guard, park, exec, attempt, loaded, runnerVars, stopVars, bootVars>>

\* The hub tells the server, once there is one, that the runner is online.
OnNodeOnline ==
    /\ gor["notify"] > 0
    /\ Goes("notify", IF stage \in {"published", "serving", "ending"} THEN "list" ELSE "")
    /\ UNCHANGED <<sent, queue, guard, park, exec, attempt, loaded, runnerVars, stopVars, bootVars>>

\* RunnerOnline looks for chats with queued messages ...
RunnerOnline ==
    /\ gor["list"] > 0
    /\ FindsQueued("list", "unpark")
    /\ UNCHANGED <<sent, queue, guard, park, exec, attempt, loaded, runnerVars, stopVars, bootVars>>

\* ... and, like the enqueuing handlers, lifts the park before it starts a
\* consumer.
unparkQueue ==
    /\ gor["unpark"] > 0
    /\ park' = Unparked
    /\ Goes("unpark", "start")
    /\ UNCHANGED <<sent, queue, guard, exec, attempt, loaded, runnerVars, stopVars, bootVars>>

startQueueConsumerIfIdle ==
    /\ gor["start"] > 0
    /\ Goes("start", "")
    /\ \/ \E e \in Execs : Begin(e, "queue", 0)
       \/ guard # NoExec /\ UNCHANGED <<guard, exec>>
    /\ UNCHANGED <<sent, queue, park, attempt, loaded, runnerVars, stopVars, bootVars>>

-----------------------------------------------------------------------------
(* An execution: runSingleAgentWithQueue, the sync branch of triggerMessage *)
(* and runQueueConsumerLoop                                                 *)

\* requireRunnerOnline: a trigger for an offline runner is refused.
Admit(e) ==
    /\ At(e, "admit")
    /\ exec' = [exec EXCEPT ![e] = CASE ~online -> AtStep("release", Unparked)
                                    [] online /\ @.kind = "sync" -> [@ EXCEPT !.pc = "execute"]
                                    [] OTHER -> [@ EXCEPT !.pc = "readgen"]]
    /\ UNCHANGED <<sent, queue, guard, park, attempt, goVars, runnerVars, stopVars, bootVars>>

ReadGen(e) ==
    /\ At(e, "readgen")
    /\ exec' = [exec EXCEPT ![e].pc = "execute", ![e].gen = gen]
    /\ UNCHANGED <<sent, queue, guard, park, attempt, goVars, runnerVars, stopVars, bootVars>>

\* The top of the loop: an offline runner ends it.
LoopTop(e) ==
    /\ At(e, "top")
    /\ IF online THEN exec' = [exec EXCEPT ![e].pc = "pop", ![e].gen = gen]
       ELSE Ends(e, UntilNewer(gen))
    /\ UNCHANGED <<sent, queue, guard, park, attempt, goVars, runnerVars, stopVars, bootVars>>

\* Mutant: any queued message will do.
PopAny(e) ==
    /\ At(e, "pop")
    /\ \E m \in queue : /\ queue' = queue \ {m}
                        /\ exec' = [exec EXCEPT ![e].pc = "execute", ![e].msg = m]
    /\ UNCHANGED <<sent, guard, park, attempt, goVars, runnerVars, stopVars, bootVars>>

Pop(e) ==
    /\ At(e, "pop")
    /\ queue # {}
    /\ queue' = queue \ {Head}
    /\ exec' = [exec EXCEPT ![e].pc = "execute", ![e].msg = Head]
    /\ UNCHANGED <<sent, guard, park, attempt, goVars, runnerVars, stopVars, bootVars>>

PopFails(e) ==
    /\ StoreErrors
    /\ At(e, "pop")
    /\ Ends(e, Hard)
    /\ UNCHANGED <<sent, queue, guard, park, attempt, goVars, runnerVars, stopVars, bootVars>>

\* The queue is empty: the guard goes first, then the queue is looked at again.
PopNothing(e) ==
    /\ At(e, "pop")
    /\ queue = {}
    /\ releaseExecution
    /\ ToPc(e, "peek")
    /\ UNCHANGED <<sent, queue, park, attempt, loaded, runnerVars, stopVars, bootVars>>

Peek(e) ==
    /\ At(e, "peek")
    /\ exec' = [exec EXCEPT ![e] = IF queue = {} THEN IdleExec ELSE [@ EXCEPT !.pc = "reacquire"]]
    /\ UNCHANGED <<sent, queue, guard, park, attempt, goVars, runnerVars, stopVars, bootVars>>

\* The park a failed Peek leaves is stored without the guard.
PeekFails(e) ==
    /\ StoreErrors
    /\ At(e, "peek")
    /\ ToPc(e, "parklate")
    /\ UNCHANGED <<sent, queue, guard, park, attempt, goVars, runnerVars, stopVars, bootVars>>

ParkLate(e) ==
    /\ At(e, "parklate")
    /\ park' = Hard
    /\ exec' = [exec EXCEPT ![e] = IdleExec]
    /\ UNCHANGED <<sent, queue, guard, attempt, goVars, runnerVars, stopVars, bootVars>>

\* Mutant: a guard that is taken does not stop it.
ReacquireAnyway(e) ==
    /\ At(e, "reacquire")
    /\ guard' = e /\ ToPc(e, "popagain")
    /\ UNCHANGED <<sent, queue, park, attempt, goVars, runnerVars, stopVars, bootVars>>

\* With the guard back the message may be popped; otherwise whoever has the
\* guard takes care of it.
Reacquire(e) ==
    /\ At(e, "reacquire")
    /\ IF guard = NoExec
       THEN guard' = e /\ ToPc(e, "popagain")
       ELSE exec' = [exec EXCEPT ![e] = IdleExec] /\ UNCHANGED guard
    /\ UNCHANGED <<sent, queue, park, attempt, goVars, runnerVars, stopVars, bootVars>>

\* Mutant: with nothing to pop the guard is released on the way to the top.
PopAgainReleases(e) ==
    /\ At(e, "popagain")
    /\ \/ /\ queue # {}
          /\ queue' = queue \ {Head}
          /\ exec' = [exec EXCEPT ![e].pc = "execute", ![e].msg = Head]
          /\ UNCHANGED <<guard, gor>>
       \/ /\ queue = {}
          /\ releaseExecution
          /\ ToPc(e, "top")
          /\ UNCHANGED queue
    /\ UNCHANGED <<sent, park, attempt, loaded, runnerVars, stopVars, bootVars>>

\* A message withdrawn meanwhile, or a failing table, sends it back to the top.
PopAgain(e) ==
    /\ At(e, "popagain")
    /\ \/ /\ queue # {}
          /\ queue' = queue \ {Head}
          /\ exec' = [exec EXCEPT ![e].pc = "execute", ![e].msg = Head]
       \/ /\ queue = {} \/ StoreErrors
          /\ ToPc(e, "top")
          /\ UNCHANGED queue
    /\ UNCHANGED <<sent, guard, park, attempt, goVars, runnerVars, stopVars, bootVars>>

\* Execute up to the dispatch: a refused directory, a lock it cannot have, a
\* context that ends while it waits for one.
ExecuteFails(e) ==
    /\ At(e, "execute")
    /\ AgentFailures \/ exec[e].cancelled
    /\ Ends(e, Hard)
    /\ UNCHANGED <<sent, queue, guard, park, attempt, goVars, runnerVars, stopVars, bootVars>>

\* The dispatcher runs in a goroutine of its own; a context that has already
\* ended is refused.
ExecuteDispatches(e) ==
    /\ At(e, "execute")
    /\ attempt' = [attempt EXCEPT ![exec[e].msg] =
                      IF exec[e].cancelled THEN "undispatched" ELSE "asked"]
    /\ ToPc(e, "wait")
    /\ UNCHANGED <<sent, queue, guard, park, goVars, runnerVars, stopVars, bootVars>>

\* The context of the dispatch of m has ended.
CtxEnded(m) ==
    \A e \in Execs : At(e, "wait") /\ exec[e].msg = m => exec[e].cancelled

\* Remote.Run and Hub.Dispatch: a context that ends now may or may not be
\* noticed, depending on whether it was looked at before.
HubDispatch(m) ==
    /\ attempt[m] = "asked"
    /\ \E a \in {"live", "offline", "undispatched", "failed"} :
          /\ a = "live" => online
          /\ a = "offline" => ~online
          /\ a = "undispatched" => AgentFailures \/ CtxEnded(m)
          /\ a = "failed" => AgentFailures
          /\ attempt' = [attempt EXCEPT ![m] = a]
    /\ UNCHANGED <<sent, queue, guard, park, exec, goVars, runnerVars, stopVars, bootVars>>

\* The agent's run ends and the hub has its result.
AgentEnds(m) ==
    /\ attempt[m] = "live" /\ online
    /\ \E a \in {"ok", "failed", "noquota"} :
          /\ a = "failed" => AgentFailures \/ CtxEnded(m)
          /\ a = "noquota" => Quota
          /\ attempt' = [attempt EXCEPT ![m] = a]
    /\ UNCHANGED <<sent, queue, guard, park, exec, goVars, runnerVars, stopVars, bootVars>>

\* Mutant: a message whose run failed goes back to the queue too.
CollectRetries(e) ==
    LET x == exec[e]
    IN  /\ At(e, "wait")
        /\ attempt[x.msg] \in {"failed", "offline", "undispatched"}
        /\ exec' = [exec EXCEPT ![e] = [AtStep("requeue", Hard) EXCEPT !.msg = x.msg]]
        /\ UNCHANGED <<sent, queue, guard, park, attempt, goVars, runnerVars, stopVars, bootVars>>

\* drainUntilResult has the result.
Collect(e) ==
    LET x == exec[e]
        p == IF attempt[x.msg] = "offline" THEN UntilNewer(x.gen) ELSE Hard
    IN  /\ At(e, "wait")
        /\ \/ /\ attempt[x.msg] = "ok"
              /\ IF x.kind = "sync" THEN Ends(e, Unparked)
                 ELSE exec' = [exec EXCEPT ![e] = [AtStep("top", Unparked)
                                                     EXCEPT !.cancelled = x.cancelled]]
           \/ attempt[x.msg] = "ok" /\ StoreErrors /\ Ends(e, Hard)
           \/ /\ attempt[x.msg] = "failed"
              /\ IF x.kind = "sync" THEN Ends(e, Hard)
                 ELSE exec' = [exec EXCEPT ![e] = AtStep("purge", Hard)]
           \/ /\ attempt[x.msg] \in {"offline", "undispatched"}
              /\ IF x.kind # "queue" THEN Ends(e, p)
                 ELSE exec' = [exec EXCEPT ![e] = [AtStep("requeue", p) EXCEPT !.msg = x.msg]]
           \/ attempt[x.msg] = "noquota" /\ (ToPc(e, "execute") \/ Ends(e, Hard))
        /\ UNCHANGED <<sent, queue, guard, park, attempt, goVars, runnerVars, stopVars, bootVars>>

\* drainUntilResult has the end of the context, whatever the dispatcher does.
Cancelled(e) ==
    /\ At(e, "wait") /\ exec[e].cancelled
    /\ Ends(e, Hard)
    /\ UNCHANGED <<sent, queue, guard, park, attempt, goVars, runnerVars, stopVars, bootVars>>

\* A message that reached no runner goes back to its place.
RequeueFront(e) ==
    /\ At(e, "requeue")
    /\ \/ queue' = queue \cup {exec[e].msg}
       \/ StoreErrors /\ UNCHANGED queue
    /\ Ends(e, exec[e].park)
    /\ UNCHANGED <<sent, guard, park, attempt, goVars, runnerVars, stopVars, bootVars>>

\* handleQueuedTaskError: a failed agent takes the queue with it.
Purge(e) ==
    /\ At(e, "purge")
    /\ ClearQueuedMessages
    /\ Ends(e, Hard)
    /\ UNCHANGED <<sent, guard, park, attempt, goVars, runnerVars, stopVars, bootVars>>

\* Mutant: the park takes the generation of now, not of what the execution saw.
GiveUpLate(e) ==
    /\ At(e, "giveup")
    /\ park' = IF exec[e].park.hard THEN Hard ELSE UntilNewer(gen)
    /\ exec' = [exec EXCEPT ![e] = AtStep("release", Unparked)]
    /\ UNCHANGED <<sent, queue, guard, attempt, goVars, runnerVars, stopVars, bootVars>>

\* The execution parks the queue before it releases the guard.
GiveUp(e) ==
    /\ At(e, "giveup")
    /\ park' = exec[e].park
    /\ exec' = [exec EXCEPT ![e] = AtStep("release", Unparked)]
    /\ UNCHANGED <<sent, queue, guard, attempt, goVars, runnerVars, stopVars, bootVars>>

-----------------------------------------------------------------------------
(* The runner and the backend come and go *)

\* A registration, of a runner that was offline or whose old connection the
\* hub still had.
Reconnect ==
    /\ gen < MaxGen
    /\ online' = TRUE /\ gen' = gen + 1
    /\ Goes("", "notify")
    /\ UNCHANGED <<sent, queue, guard, park, exec, attempt, loaded, stopVars, bootVars>>

Disconnect ==
    /\ online /\ online' = FALSE
    /\ UNCHANGED <<sent, queue, guard, park, exec, attempt, goVars, gen, stopVars, bootVars>>

\* recoverOrphanQueuedSessions, while the hub already takes registrations.
RecoverOrphans ==
    /\ stage = "hub" /\ stage' = "recovered"
    /\ FindsQueued("", "start")
    /\ UNCHANGED <<sent, queue, guard, park, exec, attempt, loaded, runnerVars, stopVars, boots>>

\* The hub's notifications reach the server from here on ...
PublishServer ==
    /\ stage = "recovered" /\ stage' = "published"
    /\ UNCHANGED <<sent, queue, guard, park, exec, attempt, goVars, runnerVars, stopVars, boots>>

\* ... and those it missed are made up for.
ResumeQueuesOfOnlineRunners ==
    /\ stage = "published" /\ stage' = "serving"
    /\ Goes("", IF online THEN "list" ELSE "")
    /\ UNCHANGED <<sent, queue, guard, park, exec, attempt, loaded, runnerVars, stopVars, boots>>

\* Server.Shutdown ends the context of all executions; the process goes on until its handlers have
\* returned or the time for that is over.
Shutdown ==
    /\ Shutdowns /\ stage = "serving" /\ stage' = "ending"
    /\ exec' = [e \in Execs |-> IF At(e, "idle") THEN exec[e] ELSE [exec[e] EXCEPT !.cancelled = TRUE]]
    /\ UNCHANGED <<sent, queue, guard, park, attempt, goVars, runnerVars, stopVars, boots>>

\* Only the queue's table survives the backend, and the agents on the runner.
Restart ==
    /\ boots < MaxBoots
    /\ boots' = boots + 1 /\ stage' = "hub"
    /\ guard' = NoExec /\ park' = Unparked
    /\ exec' = [e \in Execs |-> IdleExec]
    /\ attempt' = [m \in Msgs |-> IF attempt[m] = "asked" THEN "none" ELSE attempt[m]]
    /\ gor' = [s \in GoSteps |-> 0] /\ loaded' = [g \in Gens |-> 0]
    /\ online' = FALSE /\ gen' = 0 /\ clearing' = 0
    /\ UNCHANGED <<sent, queue, stops, ends>>

-----------------------------------------------------------------------------

Init ==
    /\ sent = 0 /\ queue = {} /\ guard = NoExec /\ park = Unparked
    /\ exec = [e \in Execs |-> IdleExec]
    /\ attempt = [m \in Msgs |-> "none"]
    /\ gor = [s \in GoSteps |-> 0] /\ loaded = [g \in Gens |-> 0]
    /\ online = FALSE /\ gen = 0 /\ stops = 0 /\ clearing = 0 /\ ends = 0
    /\ boots = 1 /\ stage = "hub"

User ==
    \/ \E e \in Execs, kind \in Triggers : TriggerMessage(e, kind)
    \/ EnqueueMessage \/ DeleteQueued \/ StopCancel \/ (\E e \in Execs : CallerEnds(e))

Goroutine ==
    \/ DrainLoadsPark \/ (\E g \in Gens : DrainComparesGen(g)) \/ DrainChecksRunner
    \/ DrainPeeks \/ OnNodeOnline \/ RunnerOnline \/ unparkQueue
    \/ startQueueConsumerIfIdle \/ StopClear

Execution(e) ==
    \/ BeginUnpark(e) \/ Admit(e) \/ ReadGen(e) \/ LoopTop(e)
    \/ Pop(e) \/ PopNothing(e) \/ Peek(e) \/ Reacquire(e) \/ PopAgain(e)
    \/ ExecuteDispatches(e) \/ Collect(e) \/ Cancelled(e)
    \/ RequeueFront(e) \/ Purge(e) \/ GiveUp(e) \/ Release(e)

Failure(e) == PopFails(e) \/ PeekFails(e) \/ ParkLate(e) \/ ExecuteFails(e)

Dispatcher(m) == HubDispatch(m) \/ AgentEnds(m)

Booting == RecoverOrphans \/ PublishServer \/ ResumeQueuesOfOnlineRunners

Next ==
    \/ User \/ Goroutine
    \/ \E e \in Execs : Execution(e) \/ Failure(e)
    \/ \E m \in Msgs : Dispatcher(m)
    \/ Reconnect \/ Disconnect \/ Booting \/ Shutdown \/ Restart

Spec == Init /\ [][Next]_vars

\* Goroutines run, and an agent's run ends; users and the runner's connection
\* owe nothing.
Progress ==
    \/ Goroutine \/ Booting
    \/ \E e \in Execs : Execution(e) \/ ParkLate(e)
    \/ \E m \in Msgs : Dispatcher(m)

FairSpec == Spec /\ WF_vars(Progress)

-----------------------------------------------------------------------------
(* What the chat promises *)

Pcs == {"idle", "begun", "admit", "readgen", "top", "pop", "peek", "parklate", "reacquire",
        "popagain", "execute", "wait", "requeue", "purge", "giveup", "release"}

TypeOK ==
    /\ sent \in 0..MaxMsgs /\ queue \in SUBSET Msgs
    /\ guard \in Execs \cup {NoExec}
    /\ park \in Parks
    /\ exec \in [Execs -> [pc : Pcs, kind : {"initial", "sync", "queue"}, msg : 0..MaxMsgs,
                           gen : Gens, park : Parks, cancelled : BOOLEAN]]
    /\ attempt \in [Msgs -> {"none", "asked", "live", "offline", "undispatched",
                             "ok", "failed", "noquota"}]
    /\ gor \in [GoSteps -> Nat] /\ loaded \in [Gens -> Nat]
    /\ online \in BOOLEAN /\ gen \in Gens
    /\ stops \in 0..MaxStops /\ clearing \in Nat /\ ends \in 0..MaxEnds
    /\ boots \in 1..MaxBoots /\ stage \in {"hub", "recovered", "published", "serving", "ending"}

\* Steps an execution takes without the guard.
OutsidePcs == {"idle", "peek", "parklate", "reacquire"}

\* The guard is exact: the execution it names is the one inside the guarded
\* section, and nobody else is.  The consumer's release and re-acquisition at
\* the drain boundary, and the release that deletes whatever guard it finds,
\* neither let a second execution in nor leave a guard behind.
GuardExact == \A e \in Execs : exec[e].pc \notin OutsidePcs <=> guard = e

\* An agent of the chat runs only inside an execution that waits for it: at
\* most one at a time, and none once the guard is released.
AgentGuarded ==
    \A m \in Msgs : attempt[m] = "live" => \E e \in Execs :
        guard = e /\ At(e, "wait") /\ exec[e].msg = m

\* It is so until an execution is cancelled, by the stop button, because the
\* run that waits for its answer has ended or the server shuts down, or the backend starts
\* again: each leaves an agent running with nobody to wait for it.
AgentGuardedUnlessStopped ==
    stops = 0 /\ ends = 0 /\ boots = 1 /\ stage # "ending" => AgentGuarded

\* A message that reached the runner is never queued again: what comes back
\* after an error is only what no runner has seen.
NoRerun == \A m \in Msgs : attempt[m] \in {"live", "ok", "failed"} => m \notin queue

\* Queued messages run in the order they were sent, also after one of them was
\* put back: whatever a consumer has in hand was sent before what is queued.
InHand(e) == exec[e].kind = "queue" /\ exec[e].pc \in {"execute", "wait", "requeue"}
InOrder == \A e \in Execs : InHand(e) => \A n \in queue : exec[e].msg < n

Quiet ==
    /\ stage = "serving"
    /\ \A e \in Execs : At(e, "idle")
    /\ \A s \in GoSteps : gor[s] = 0
    /\ \A g \in Gens : loaded[g] = 0
    /\ clearing = 0

\* No lost wake-up: when every goroutine of the chat is gone, messages are left
\* in the queue only if the runner is offline, so that its return will start a
\* consumer, or if an error parked the queue.  The reconnect may fall between
\* any two steps of a consumer that gives up.
NotStranded == Quiet /\ queue # {} /\ online => park.hard

\* What parks a queue for good is an error that a retry would repeat: without
\* one, no message is left in the queue of an online runner.
OnlyErrorsPark == Quiet /\ online => queue = {}

\* Queued messages are not forgotten: while the runner stays online, and the backend is not
\* left shut down, the queue runs empty, or an error parks it.
QueueDrains == (<>[](online /\ stage # "ending")) => ([]<>(queue = {} \/ park.hard))
=============================================================================
