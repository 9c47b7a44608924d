----------------------------- MODULE Definition -----------------------------
(***************************************************************************)
(* The checks on a workflow definition that relate its nodes: dependencies *)
(* without a cycle, loops that nest, pairings in which nobody reviews      *)
(* itself.  Each check is run on every small definition.                   *)
(*                                                                         *)
(* The order in which Go walks a map, and the order of a list in the file, *)
(* are choices.                                                            *)
(***************************************************************************)
EXTENDS Integers, Sequences, FiniteSets

CONSTANTS MaxNode, MaxLoop

VARIABLES
    check,      \* the check that is run, and its verdict
    edges,      \* for each dependency, whether it has a condition
    indegree, queue, done, color, stack,
    loops, counting, exhausted,
    groups
defVars == <<check, edges, indegree, queue, done, color, stack, loops, counting, exhausted, groups>>

Nodes == 1..MaxNode
Loops == 1..MaxLoop
NoEdge == "none"
NoLoop == 0
graphVars == <<indegree, queue, done, color, stack>>

\* The definitions.  A node that depends on itself without a condition is refused first.
Graphs == {g \in [Nodes \X Nodes -> {NoEdge, "always", "when"}] : \A n \in Nodes : g[n, n] # "always"}
NoGraph == [e \in Nodes \X Nodes |-> NoEdge]
LoopNodes == (SUBSET {1, 2}) \ {{}}
LoopSets == [Loops -> [nodes : LoopNodes, parent : {NoLoop} \cup Loops]]
NoLoops == [l \in Loops |-> [nodes |-> {1}, parent |-> NoLoop]]
Groups == [1..2 -> [actors : (SUBSET Nodes) \ {{}}, reviewer : Nodes]]
NoGroups == [g \in 1..2 |-> [actors |-> {1}, reviewer |-> 1]]

Depends(n) == {m \in Nodes : edges[n, m] # NoEdge}

\* Mutant: a dependency with a condition counts as well.
UnconditionalAny(n) == Depends(n)

\* The dependencies without a condition; a node named twice counts once.
Unconditional(n) == {m \in Nodes : edges[n, m] = "always"}

Init ==
    /\ \/ check = "graph" /\ edges \in Graphs /\ loops = NoLoops /\ counting = <<1, 1>> /\ exhausted = 0 /\ groups = NoGroups
       \/ /\ check = "loops" /\ edges = NoGraph /\ loops \in LoopSets /\ groups = NoGroups
          /\ counting \in {<<0, 0>>, <<1, 1>>, <<1, 2>>, <<2, 3>>} /\ exhausted \in {0, 2, 3}
       \/ check = "groups" /\ edges = NoGraph /\ loops = NoLoops /\ counting = <<1, 1>> /\ exhausted = 0 /\ groups \in Groups
    /\ indegree = [n \in Nodes |-> Cardinality(Unconditional(n))]
    /\ queue = {n \in Nodes : Unconditional(n) = {}} /\ done = 0
    /\ color = [n \in Nodes |-> "white"] /\ stack = <<>>

-----------------------------------------------------------------------------
\* detectCycle: one node is taken from the queue.
Process(n) ==
    LET next == {m \in Nodes : n \in Unconditional(m)} IN
    /\ check = "graph" /\ n \in queue
    /\ indegree' = [m \in Nodes |-> IF m \in next THEN indegree[m] - 1 ELSE indegree[m]]
    /\ queue' = (queue \ {n}) \cup {m \in next : indegree[m] = 1}
    /\ done' = done + 1
    /\ UNCHANGED <<check, edges, color, stack, loops, counting, exhausted, groups>>

\* The queue is empty: all nodes were processed, or a cycle is looked for in the rest.
Processed ==
    /\ check = "graph" /\ queue = {}
    /\ check' = IF done = MaxNode THEN "accepted" ELSE "search"
    /\ UNCHANGED <<edges, graphVars, loops, counting, exhausted, groups>>

Remaining == {n \in Nodes : indegree[n] > 0}
Top == stack[Len(stack)]

\* findCyclePath: a search begins at a node; it goes on to a dependency, ends at one that
\* is on the stack, or goes back.
Visit(n) ==
    /\ check = "search" /\ n \in Remaining /\ color[n] = "white"
    /\ IF stack = <<>> THEN TRUE ELSE n \in Depends(Top)
    /\ color' = [color EXCEPT ![n] = "grey"] /\ stack' = Append(stack, n)
    /\ UNCHANGED <<check, edges, indegree, queue, done, loops, counting, exhausted, groups>>
\* The stack from a node on, and the node again.
From(n) == Append(SubSeq(stack, CHOOSE i \in 1..Len(stack) : stack[i] = n, Len(stack)), n)

Report(n) ==
    /\ check = "search" /\ stack # <<>> /\ n \in Depends(Top) /\ color[n] = "grey"
    /\ check' = "cycle"
    /\ stack' = From(n)
    /\ UNCHANGED <<edges, indegree, queue, done, color, loops, counting, exhausted, groups>>
Leave ==
    /\ check = "search" /\ stack # <<>> /\ \A n \in Depends(Top) \cap Remaining : color[n] = "black"
    /\ color' = [color EXCEPT ![Top] = "black"] /\ stack' = SubSeq(stack, 1, Len(stack) - 1)
    /\ UNCHANGED <<check, edges, indegree, queue, done, loops, counting, exhausted, groups>>

-----------------------------------------------------------------------------
\* The loops above a loop; the walk along the parents ends where one is met again.
Above == [l \in Loops |->
    LET p1 == loops[l].parent
        p2 == IF p1 = NoLoop THEN NoLoop ELSE loops[p1].parent
        p3 == IF p2 = NoLoop THEN NoLoop ELSE loops[p2].parent
    IN  {p1, p2, p3} \ {NoLoop}]

\* Two loops share a node only when one is above the other.
MayShare(a, b) == a \in Above[b] \/ b \in Above[a] \/ loops[a].nodes \cap loops[b].nodes = {}

WithinParent(l) == loops[l].parent # NoLoop => loops[l].nodes \subseteq loops[loops[l].parent].nodes

\* The dependency that counts a loop has both ends in it.  The first loop is counted by
\* the dependency given, the others by one within them; 0 is no dependency.
Counted(l) == l = 1 => counting # <<0, 0>> /\ counting[1] \in loops[l].nodes /\ counting[2] \in loops[l].nodes

\* validateLoops.
ValidateLoops ==
    /\ check = "loops"
    /\ check' = IF /\ \A l \in Loops : l \notin Above[l]
                   /\ \A l \in Loops : WithinParent(l) /\ Counted(l)
                   /\ \A a, b \in Loops : a < b => MayShare(a, b)
                   /\ exhausted \notin UNION {loops[l].nodes : l \in Loops}
                THEN "nested" ELSE "refused"
    /\ UNCHANGED <<edges, graphVars, loops, counting, exhausted, groups>>

\* An actor reviews in no group: the first group with it as its reviewer is another one.
MayAct(a, g) == a # groups[g].reviewer /\ \A h \in 1..2 : groups[h].reviewer = a => h = g

OneGroup == groups[1].reviewer # groups[2].reviewer

\* validateModelPairings.
ValidatePairings ==
    /\ check = "groups"
    /\ check' = IF OneGroup /\ \A g \in 1..2 : \A a \in groups[g].actors : MayAct(a, g) THEN "paired" ELSE "refused"
    /\ UNCHANGED <<edges, graphVars, loops, counting, exhausted, groups>>

Next ==
    \/ \E n \in Nodes : Process(n) \/ Visit(n) \/ Report(n)
    \/ Processed \/ Leave \/ ValidateLoops \/ ValidatePairings

Spec == Init /\ [][Next]_defVars

-----------------------------------------------------------------------------
Paths == UNION {[1..k -> Nodes] : k \in 2..(MaxNode + 1)}
Cycle(p, rel(_)) == p[1] = p[Len(p)] /\ \A i \in 1..Len(p)-1 : p[i+1] \in rel(p[i])
Always(n) == {m \in Nodes : edges[n, m] = "always"}

\* In whatever order the nodes are processed, a definition is accepted just when no
\* dependencies without a condition form a cycle (detectCycle).
AcceptsAcyclic ==
    /\ check = "accepted" => ~\E p \in Paths : Cycle(p, Always)
    /\ check \in {"search", "cycle"} => \E p \in Paths : Cycle(p, Always)

\* The search always ends at a cycle, whatever it tries first, and what it reports is one:
\* the message without a path (definition.go:713) is never reached (findCyclePath).
ReportIsCycle ==
    /\ check = "search" /\ stack = <<>> => \E n \in Remaining : color[n] = "white"
    /\ check = "cycle" => Len(stack) > 1 /\ Cycle(stack, Depends)

\* Loops that are accepted nest: of two that share a node one lies within the other, and
\* the loops around a node form one chain of parents (validateLoops).
LoopsNest ==
    check = "nested" => \A a, b \in Loops : a # b /\ loops[a].nodes \cap loops[b].nodes # {} =>
        \/ a \in Above[b] /\ loops[b].nodes \subseteq loops[a].nodes
        \/ b \in Above[a] /\ loops[a].nodes \subseteq loops[b].nodes

\* In pairings that are accepted no node waits for the choice of a node that waits for its
\* own: a reviewer is never an actor, and has one group (validateModelPairings).
ReviewersDoNotAct ==
    check = "paired" =>
        /\ \A g, h \in 1..2 : groups[g].reviewer \notin groups[h].actors
        /\ \A n \in Nodes : Cardinality({g \in 1..2 : groups[g].reviewer = n}) <= 1

\* "circular dependency detected": the report names dependencies that are circular.
ReportIsCircular == check = "cycle" => Len(stack) > 1 /\ Cycle(stack, Always)
=============================================================================
