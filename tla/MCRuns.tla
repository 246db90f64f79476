------------------------------- MODULE MCRuns -------------------------------
(***************************************************************************)
(* The run engine and the run's surroundings on small instances.  The two   *)
(* share no variable, so a behaviour of the pair shows nothing that the two *)
(* alone do not: part chooses which one moves, and the other keeps its      *)
(* initial state.                                                          *)
(***************************************************************************)
EXTENDS WorkflowGraph, RunSession

CONSTANTS n1, n2, n3, n4, n5   \* node ids

VARIABLE part

allVars == <<part, graphVars, sessionVars>>

\* Every graph over three nodes without self-loops, cyclic ones included, the
\* edges numbered so that each decision has a "yes" and a "no" side.
Pairs == <<<<n1, n2>>, <<n1, n3>>, <<n2, n1>>, <<n2, n3>>, <<n3, n1>>, <<n3, n2>>>>
YesPairs == {<<n1, n2>>, <<n2, n3>>, <<n3, n1>>}
EdgesOf(S) ==
    LET ps == SelectSeq(Pairs, LAMBDA p : p \in S)
    IN  [k \in DOMAIN ps |-> [src |-> ps[k][1], dst |-> ps[k][2],
                              handle |-> IF ps[k] \in YesPairs THEN "yes" ELSE "no"]]
Canvas(nodes, edges, kind) ==
    [nodes |-> nodes, edges |-> edges, kind |-> kind, entry |-> NoNode, only |-> NoNode,
     tools |-> {}, cached |-> {}, refs |-> {}]
SmallGraphs ==
    {Canvas(<<n1, n2, n3>>, EdgesOf(S), k) :
        S \in SUBSET ToSet(Pairs), k \in [{n1, n2, n3} -> {"model", "approval", "loop", "branch"}]}

Yes(x, y) == [src |-> x, dst |-> y, handle |-> "yes"]
No(x, y) == [src |-> x, dst |-> y, handle |-> "no"]
Kinds(ka, kb, kc, kd, ke) ==
    [n \in {n1, n2, n3, n4, n5} |-> CASE n = n1 -> ka [] n = n2 -> kb [] n = n3 -> kc
                                  [] n = n4 -> kd [] n = n5 -> ke]
Five == <<n1, n2, n3, n4, n5>>

\* A gate with both of its outcomes; a gate inside a loop; two gates on one
\* source; a diamond behind a branch; a loop whose body is also fed from outside.
GateGraph == Canvas(Five, <<Yes(n1, n2), Yes(n2, n3), Yes(n3, n4), No(n3, n5)>>,
                    Kinds("step", "model", "approval", "step", "step"))
LoopGate == Canvas(Five, <<Yes(n1, n2), Yes(n2, n3), Yes(n3, n4), No(n3, n5)>>,
                   Kinds("loop", "model", "approval", "step", "step"))
TwoGates == Canvas(Five, <<Yes(n1, n2), Yes(n1, n3), Yes(n2, n4), Yes(n3, n5)>>,
                   Kinds("model", "approval", "approval", "step", "step"))
Diamond == Canvas(Five, <<Yes(n1, n2), No(n1, n3), Yes(n2, n4), Yes(n3, n4), Yes(n4, n5)>>,
                  Kinds("branch", "step", "model", "approval", "step"))
FedLoop == Canvas(Five, <<Yes(n2, n3), Yes(n3, n4), Yes(n1, n4), Yes(n4, n5)>>,
                  Kinds("step", "step", "loop", "branch", "step"))
Islands == Canvas(Five, <<Yes(n1, n2), Yes(n3, n4), Yes(n4, n5)>>,
                  Kinds("step", "step", "step", "step", "step"))
NamedGraphs ==
    {GateGraph, LoopGate, TwoGates, Diamond, FedLoop, Islands,
     [Islands EXCEPT !.entry = n2], [Islands EXCEPT !.edges = <<Yes(n1, n2), Yes(n4, n5)>>],
     [GateGraph EXCEPT !.tools = {n1, n4}]}
    \cup {[GateGraph EXCEPT !.only = n, !.cached = x, !.refs = r] :
            n \in {n2, n3, n4}, x \in SUBSET {n1, n2}, r \in {{}, {n1}}}
    \cup {[Diamond EXCEPT !.only = n, !.cached = x] : n \in {n1, n4}, x \in {{}, {n2}, {n2, n3}}}

OneNode == Canvas(<<n1>>, << >>, [n \in {n1} |-> "step"])
\* The last tests a node that is no longer on the canvas.
AllGraphs == {OneNode, [OneNode EXCEPT !.only = n2]} \cup SmallGraphs \cup NamedGraphs

Init ==
    \/ part = "graph" /\ InitGraph /\ InitSession /\ manual = FALSE
    \/ part = "session" /\ InitSession /\ InitGraph /\ graph = OneNode
GraphPart == part = "graph" /\ UNCHANGED <<part, sessionVars>>
SessionPart == part = "session" /\ UNCHANGED <<part, graphVars>>
Next == (GraphPart /\ NextGraph) \/ (SessionPart /\ NextSession)

Fairness ==
    /\ WF_allVars(SessionPart /\ EngineSteps) /\ WF_allVars(SessionPart /\ ApprovalTimeout)
    /\ \A v \in Viewers : /\ WF_allVars(SessionPart /\ ViewerSteps(v))
                          /\ WF_allVars(SessionPart /\ Tick(v))

\* The state of both is well formed (executor.go, hub.go, fire.go).
RunsTypeOK == GraphTypeOK /\ SessionTypeOK

Spec == Init /\ [][Next]_allVars /\ Fairness
=============================================================================
