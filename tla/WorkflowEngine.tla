-------------------------- MODULE WorkflowEngine --------------------------
(***************************************************************************)
(* The pure part of the workflow engine: what Execute computes under its   *)
(* lock mu when a node settles, when a restored run replays its seeds and  *)
(* when the run ends.                                                      *)
(*                                                                         *)
(* A definition d is a record                                              *)
(*   nodes : the node ids in definition order                              *)
(*   spec  : node id -> [type, depends, join, onFail, onSkip]              *)
(*   loops : a sequence of [id, nodes, parent, max, onExhausted]           *)
(*   cap   : max_node_executions                                           *)
(* and a dependency is [node, when, counts, resets].  A `when' is NoWhen   *)
(* or [about, field, loop, op, lit]: nodes.<about>.<field> <op> <lit>,     *)
(* where the field may be the iteration of a loop.                         *)
(*                                                                         *)
(* The locals of Execute guarded by mu are one record e:                   *)
(*   results, readyQueue, running, executionCount, loopIter,               *)
(*   exhaustedNoFallback, replaying.                                       *)
(***************************************************************************)
EXTENDS Integers, Sequences, FiniteSets, SequencesExt

\* An edge without a condition, and a node without a result.
NoWhen == [about |-> "", field |-> "", loop |-> "", op |-> "", lit |-> ""]
NoIters == <<>>
Unsettled == [status |-> "", reason |-> "", exit |-> 0, out |-> "", iters |-> NoIters]

Result(status, reason, exit, out, iters) ==
    [status |-> status, reason |-> reason, exit |-> exit, out |-> out, iters |-> iters]
Skipped(reason) == Result("SKIPPED", reason, 0, "", NoIters)

NodeSet(d) == ToSet(d.nodes)
Depends(d, n) == d.spec[n].depends
LoopIds(d) == {d.loops[i].id : i \in DOMAIN d.loops}
LoopOf(d, id) == d.loops[CHOOSE i \in DOMAIN d.loops : d.loops[i].id = id]
OnExhaustedTargets(d) == {d.loops[i].onExhausted : i \in DOMAIN d.loops} \ {""}

IsConditional(dep) == dep.when # NoWhen
Unconditional(d, n) == SelectSeq(Depends(d, n), LAMBDA dep : ~IsConditional(dep))
Conditional(d, n) == SelectSeq(Depends(d, n), IsConditional)

\* One entry per dependency edge, in definition order, as the map of dependents.
RECURSIVE DependentsFrom(_, _, _)
DependentsFrom(d, n, i) ==
    IF i > Len(d.nodes) THEN <<>>
    ELSE LET from(dep) == dep.node = n
             edges == SelectSeq(Depends(d, d.nodes[i]), from)
         IN  [j \in DOMAIN edges |-> d.nodes[i]] \o DependentsFrom(d, n, i + 1)
Dependents(d, n) == DependentsFrom(d, n, 1)

AllowsFail(d, n) == d.spec[n].onFail = "run" \/ d.spec[n].join = "always"
AllowsSkip(d, n) == d.spec[n].onSkip = "run" \/ d.spec[n].join = "always"

---------------------------------------------------------------------------
(* Conditions. *)

\* The value a dot-notation path resolves to; an unsettled node and a node
\* with no loop snapshot are errors.
ResolveNodeValue(w, results) ==
    IF w.loop # "" THEN results[w.about].iters[w.loop] ELSE results[w.about][w.field]
Resolvable(w, results) ==
    /\ results[w.about] # Unsettled
    /\ w.loop # "" => w.loop \in DOMAIN results[w.about].iters

\* A condition that cannot be evaluated counts as false.
EvaluateSimpleExpr(w, results) ==
    /\ Resolvable(w, results)
    /\ CASE w.op = "==" -> ResolveNodeValue(w, results) = w.lit
         [] w.op = "!=" -> ResolveNodeValue(w, results) # w.lit
         [] w.op = ">=" -> ResolveNodeValue(w, results) >= w.lit

IsStatusQuery(w) == w.field \in {"status", "reason"}

\* The edge fires: a skipped parent satisfies only a query of its status.
Fires(dep, parent, results) ==
    /\ parent.status = "SKIPPED" => IsStatusQuery(dep.when)
    /\ EvaluateSimpleExpr(dep.when, results)
Matches(dep, results) == Fires(dep, results[dep.node], results)

\* "run", or the reason for which the node is skipped.
EvaluateNodeReadiness(d, n, results) ==
    LET edges == ToSet(Depends(d, n))
        parent(dep) == results[dep.node]
        failed == \E dep \in edges :
            /\ ~IsConditional(dep)
            /\ \/ parent(dep).status = "FAILED"
               \/ parent(dep).status = "SKIPPED" /\ parent(dep).reason = "cascaded_failure"
        conditionFalse == \E dep \in edges :
            IF IsConditional(dep)
            THEN ~Matches(dep, results)
            ELSE parent(dep).status = "SKIPPED" /\ parent(dep).reason # "cascaded_failure"
    IN  CASE failed /\ ~AllowsFail(d, n) -> "cascaded_failure"
          [] conditionFalse /\ ~AllowsSkip(d, n) -> "condition_false"
          [] OTHER -> "run"

---------------------------------------------------------------------------
(* Admission. *)

IsPending(e, n) == n \in e.running \/ n \in ToSet(e.readyQueue)

\* A node already queued or running, or at the execution cap, is not admitted.
CanEnqueue(d, e, n) == ~IsPending(e, n) /\ e.executionCount[n] < d.cap
Enqueue(d, e, n) ==
    IF CanEnqueue(d, e, n) THEN [e EXCEPT !.readyQueue = Append(@, n)] ELSE e

RECURSIVE Descendants(_, _)
Descendants(d, id) ==
    LET children == {l \in LoopIds(d) : LoopOf(d, l).parent = id}
    IN  children \cup UNION {Descendants(d, c) : c \in children}

ResetLoops(e, ids) ==
    [e EXCEPT !.loopIter = [l \in DOMAIN @ |-> IF l \in ids THEN 0 ELSE @[l]]]
ResetDescendantLoops(d, e, id) == ResetLoops(e, Descendants(d, id))

RECURSIVE EvaluateDownstream(_, _, _), EvaluateDependents(_, _, _, _, _), AdmitViaEdge(_, _, _, _)

\* The quota of a loop without fallback is breached: the target fails, and the
\* results its conditional successors hold from the last iteration are dropped.
FailExhausted(d, e, n) ==
    LET wasSettled == e.results[n] # Unsettled
        failed == [e EXCEPT !.results[n] = Result("FAILED", "", 0, "", NoIters),
                            !.exhaustedNoFallback = TRUE]
        stale == {m \in NodeSet(d) :
                    \E i \in DOMAIN Depends(d, m) :
                        Depends(d, m)[i].node = n /\ IsConditional(Depends(d, m)[i])}
    IN  IF ~wasSettled
        THEN EvaluateDownstream(d, failed, n)
        ELSE [failed EXCEPT !.results =
                [m \in DOMAIN @ |-> IF m \in stale THEN Unsettled ELSE @[m]]]

\* The circuit breaker of a loop.
Exhausted(e, loop) == loop.max > 0 /\ e.loopIter[loop.id] >= loop.max

\* The replay of a restored run does not run again what its row holds.
HeldByReplay(e, n) == e.replaying /\ e.results[n] # Unsettled

AdmitViaEdge(d, e, dep, n) ==
    LET loop == LoopOf(d, dep.counts)
        counted == [Enqueue(d, e, n) EXCEPT !.loopIter[loop.id] = @ + 1]
    IN  IF HeldByReplay(e, n) THEN e
        ELSE IF dep.resets # ""
             THEN Enqueue(d, ResetDescendantLoops(d, ResetLoops(e, {dep.resets}), dep.resets), n)
        ELSE IF dep.counts = "" THEN Enqueue(d, e, n)
        ELSE IF IsPending(e, n) THEN e
        ELSE IF Exhausted(e, loop) /\ loop.onExhausted # "" THEN Enqueue(d, e, loop.onExhausted)
        ELSE IF Exhausted(e, loop) THEN FailExhausted(d, e, n)
        ELSE IF CanEnqueue(d, e, n) THEN ResetDescendantLoops(d, counted, loop.id)
        ELSE e

\* A node is skipped, once, and its dependents are evaluated in turn.
SkipNode(d, e, n, reason) ==
    IF e.results[n].status = "SKIPPED"
    THEN e
    ELSE EvaluateDownstream(d, [e EXCEPT !.results[n] = Skipped(reason)], n)

ParentsSettled(e, deps) == \A i \in DOMAIN deps : e.results[deps[i].node] # Unsettled

\* Mutant: any parent that settles starts the node.
JoinsAny(d, e, n, m) == TRUE

\* An unconditional edge waits for the others, unless m joins always and n
\* succeeded.
Joins(d, e, n, m) ==
    \/ ParentsSettled(e, Unconditional(d, m))
    \/ d.spec[m].join = "always" /\ e.results[n].status = "SUCCEEDED"

\* One dependent m of the node n, which settled as the result `settled'.  A
\* branch skipped by its condition does not trigger again what has already
\* settled; an edge whose condition matches admits m at once; and m is skipped when it has only conditional edges, all its parents have settled and
\* none matched.
EvaluateDependent(d, e, n, settled, m) ==
    LET from == SelectSeq(Depends(d, m), LAMBDA dep : dep.node = n)
        matching == SelectSeq(from, LAMBDA dep : IsConditional(dep) /\ Fires(dep, settled, e.results))
        plain == SelectSeq(from, LAMBDA dep : ~IsConditional(dep))
        deadBranch == settled.status = "SKIPPED" /\ settled.reason = "condition_false"
        joins == Joins(d, e, n, m)
        ready == EvaluateNodeReadiness(d, m, e.results)
    IN  IF deadBranch /\ e.results[m] # Unsettled THEN e
        ELSE IF matching # <<>> THEN AdmitViaEdge(d, e, Head(matching), m)
        ELSE IF plain # <<>> /\ joins /\ ready = "run" THEN AdmitViaEdge(d, e, Head(plain), m)
        ELSE IF plain # <<>> /\ joins THEN SkipNode(d, e, m, ready)
        ELSE IF Unconditional(d, m) = <<>> /\ ParentsSettled(e, Conditional(d, m))
             THEN SkipNode(d, e, m, "condition_false")
        ELSE e

EvaluateDependents(d, e, n, settled, rest) ==
    IF rest = <<>> THEN e
    ELSE EvaluateDependents(d, EvaluateDependent(d, e, n, settled, Head(rest)), n, settled, Tail(rest))
EvaluateDownstream(d, e, n) == EvaluateDependents(d, e, n, e.results[n], Dependents(d, n))

---------------------------------------------------------------------------
(* The start and the end of an execution. *)

Roots(d) == SelectSeq(d.nodes, LAMBDA n : Depends(d, n) = <<>> /\ n \notin OnExhaustedTargets(d))

\* The seeds of a restored run are replayed in the order of a map iteration;
\* then the suspended nodes of the snapshot are activated.
SeedOrders(seeds) == SetToSeqs(seeds)
RECURSIVE EvaluateSeeds(_, _, _), EnqueueAll(_, _, _)
EvaluateSeeds(d, e, seeds) ==
    IF seeds = <<>> THEN e ELSE EvaluateSeeds(d, EvaluateDownstream(d, e, Head(seeds)), Tail(seeds))
EnqueueAll(d, e, ns) == IF ns = <<>> THEN e ELSE EnqueueAll(d, Enqueue(d, e, Head(ns)), Tail(ns))
ReplaySeeds(d, e, order, activate) ==
    LET replayed == EvaluateSeeds(d, [e EXCEPT !.replaying = TRUE], order)
        woken == ToSet(activate)
    IN  EnqueueAll(d, [replayed EXCEPT !.replaying = FALSE,
                                       !.results = [n \in DOMAIN @ |->
                                           IF n \in woken THEN Unsettled ELSE @[n]]], activate)
EnqueueRoots(d, e) == EnqueueAll(d, e, Roots(d))

RECURSIVE MarkNeverActivated(_, _, _)
MarkNeverActivated(d, results, queue) ==
    IF queue = <<>> THEN results
    ELSE IF results[Head(queue)] # Unsettled THEN MarkNeverActivated(d, results, Tail(queue))
    ELSE MarkNeverActivated(d, [results EXCEPT ![Head(queue)] = Skipped("never_activated")],
                            Dependents(d, Head(queue)) \o Tail(queue))

\* The fallbacks that never fired, and what leads on from them.
SweepDormantOrphans(d, results) ==
    MarkNeverActivated(d, results, SetToSeq(OnExhaustedTargets(d)))

FailureHandled(d, results, n) ==
    \E m \in NodeSet(d) :
        /\ \E i \in DOMAIN Conditional(d, m) : Conditional(d, m)[i].node = n
        /\ results[m].status = "SUCCEEDED"

SettleGlobalStatus(d, results) ==
    IF \E n \in NodeSet(d) :
        \/ results[n] = Unsettled
        \/ results[n].status = "SKIPPED" /\ results[n].reason = "cascaded_failure"
        \/ results[n].status = "FAILED" /\ ~FailureHandled(d, results, n)
    THEN "FAILED" ELSE "COMPLETED"

IsHumanAbortReply(out) == out = "abort"
HumanAborted(d, results) ==
    \E n \in OnExhaustedTargets(d) :
        d.spec[n].type = "human" /\ IsHumanAbortReply(results[n].out)

\* The status of the run, from the results after the sweep.
FinalStatus(d, e, results, cancelled) ==
    CASE cancelled -> "CANCELLED"
      [] HumanAborted(d, results) -> "CANCELLED"
      [] e.exhaustedNoFallback -> "FAILED"
      [] OTHER -> SettleGlobalStatus(d, results)
============================================================================
