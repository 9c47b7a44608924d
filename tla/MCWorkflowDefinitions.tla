---------------------- MODULE MCWorkflowDefinitions ----------------------
(***************************************************************************)
(* The definitions the runs use, after examples/workflows and the          *)
(* definitions of dynamic_loop_test.go.                                    *)
(***************************************************************************)
EXTENDS WorkflowEngine

After(n) == [node |-> n, when |-> NoWhen, counts |-> "", resets |-> ""]
Cond(n, field, loop, op, lit) ==
    [After(n) EXCEPT !.when = [about |-> n, field |-> field, loop |-> loop, op |-> op, lit |-> lit]]
Failing(n) == Cond(n, "exit", "", "!=", 0)
Passing(n) == Cond(n, "exit", "", "==", 0)
Counting(dep, l) == [dep EXCEPT !.counts = l]

Node(type, depends) ==
    [type |-> type, depends |-> depends, join |-> "", onFail |-> "", onSkip |-> ""]
Joining(node) == [node EXCEPT !.join = "always"]
Loop(id, parent, nodes, max, fallback) ==
    [id |-> id, parent |-> parent, nodes |-> nodes, max |-> max, onExhausted |-> fallback]

Definition(nodes, depends, loops) ==
    [nodes |-> nodes, spec |-> depends, loops |-> loops, cap |-> 100]

\* examples/workflows/build-and-fix.yaml
BuildAndFix ==
    Definition(<<"a", "b", "c", "d">>,
        [a |-> Node("agent", <<>>),
         b |-> Node("command", <<After("a")>>),
         c |-> Node("agent", <<Failing("b")>>),
         d |-> Joining(Node("llm", <<After("b"), After("c")>>))], <<>>)

\* examples/workflows/parallel-review.yaml
ParallelReview ==
    Definition(<<"a", "b", "c">>,
        [a |-> Node("agent", <<>>),
         b |-> Node("agent", <<>>),
         c |-> Joining(Node("llm", <<After("a"), After("b")>>))], <<>>)

\* A diamond whose join waits for both sides.
Diamond ==
    Definition(<<"a", "b", "c", "d">>,
        [a |-> Node("agent", <<>>),
         b |-> Node("command", <<After("a")>>),
         c |-> Node("command", <<After("a")>>),
         d |-> Node("llm", <<After("b"), After("c")>>)], <<>>)

\* A node with a conditional and an unconditional edge: the condition may admit
\* it although the other parent has failed, and its worker then skips it.
Mixed ==
    Definition(<<"a", "b", "c">>,
        [a |-> Node("command", <<>>),
         b |-> Node("command", <<>>),
         c |-> Node("command", <<After("a"), Passing("b")>>)], <<>>)

\* fixLoopYAML: coding, review, verdict, fixer; the fallback e takes over after
\* two iterations, and without it the run fails.
FixLoop(fallback) ==
    Definition(IF fallback = "" THEN <<"a", "b", "c", "d">> ELSE <<"a", "b", "c", "d", "e">>,
        [a |-> Node("command", <<>>),
         b |-> Joining(Node("command", <<After("a"), After("d")>>)),
         c |-> Node("command", <<After("b")>>),
         d |-> Node("command", <<Counting(Passing("c"), "l")>>),
         e |-> Node("command", <<>>)],
        <<Loop("l", "", {"b", "c", "d"}, 2, fallback)>>)

\* nested-loops: kickoff, step, check, fixer, pend and the inner fallback.
NestedLoops ==
    Definition(<<"a", "b", "c", "d", "e", "f">>,
        [a |-> Node("command", <<>>),
         b |-> Joining(Node("command", <<After("a"), Counting(Passing("e"), "l")>>)),
         c |-> Joining(Node("command", <<After("b"), After("d")>>)),
         d |-> Node("command", <<Counting(Passing("c"), "k")>>),
         e |-> Joining(Node("command", <<Failing("c"), After("f")>>)),
         f |-> Node("command", <<>>)],
        <<Loop("l", "", {"b", "c", "d", "e"}, 1, ""), Loop("k", "l", {"c", "d"}, 1, "f")>>)

ScheduleDefinitions ==
    [build |-> BuildAndFix, review |-> ParallelReview, diamond |-> Diamond, mixed |-> Mixed,
     fix |-> FixLoop(""), fallback |-> FixLoop("e"), nested |-> NestedLoops]

\* Two humans side by side, a human and an agent, and one human after another.
HumanPair ==
    Definition(<<"a", "b">>, [a |-> Node("human", <<>>), b |-> Node("human", <<>>)], <<>>)
HumanAndAgent ==
    Definition(<<"a", "b">>, [a |-> Node("human", <<>>), b |-> Node("agent", <<>>)], <<>>)
HumanChain ==
    Definition(<<"a", "b", "c">>,
        [a |-> Node("agent", <<>>), b |-> Node("human", <<After("a")>>),
         c |-> Node("human", <<After("b")>>)], <<>>)

\* A human who sends the work back, once.
HumanGate ==
    Definition(<<"a", "b", "c">>,
        [a |-> Node("command", <<>>),
         b |-> Joining(Node("human", <<After("a"), After("c")>>)),
         c |-> Node("command", <<Counting(Cond("b", "out", "", "==", "ok"), "l")>>)],
        <<Loop("l", "", {"b", "c"}, 1, "")>>)

ResumeDefinitions == [pair |-> HumanPair, mixed |-> HumanAndAgent, chain |-> HumanChain,
                      gate |-> HumanGate]
============================================================================
