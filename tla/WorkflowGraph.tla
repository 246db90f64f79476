--------------------------- MODULE WorkflowGraph ---------------------------
(***************************************************************************)
(* The execution of one workflow run: executor.RunWorkflow and the parts   *)
(* of the node dispatch that decide control (internal/executor/executor.go *)
(* and graphselect.go).  The graph is chosen initially and never changes.  *)
(* Execution is sequential, one goroutine per run, so a node that needs no *)
(* person is one step; a human approval gate is left open between steps.   *)
(*                                                                         *)
(* What a node computes is abstracted to the number of the execution that  *)
(* produced it: two outputs are equal exactly when the same execution      *)
(* wrote them.  No caller of RunWorkflow passes a context that anything    *)
(* cancels (all derive from context.Background or WithoutCancel), so the   *)
(* cancellation branches are not modelled.                                 *)
(***************************************************************************)
EXTENDS Naturals, FiniteSets, Sequences, SequencesExt

CONSTANTS Graphs,            \* the graphs a run may be given
          NoNode,            \* "no node" where a node id is optional
          MaxItems,          \* bound: items a loop iterates over
          MaxApprovalRetries,
          MaxRunEvents

ASSUME GraphBounds == /\ MaxItems \in Nat
                      /\ MaxApprovalRetries \in Nat
                      /\ MaxRunEvents \in Nat \ {0}

VARIABLES graph,        \* the graph of this run, tools of coding agents removed
          order,        \* its topological order
          bodyOrder,    \* loop node -> topological order of its body
          runStatus,    \* "running", "completed" or "error"
          cursor,       \* how far the main loop has come in order
          enabled, executed, rejected, loopHandled,
          outputs,      \* node -> execution that produced its output, 0 if none
          iter,         \* the loop iteration in progress, or NoIter
          gate,         \* the open approval gate, or NoGate
          execs,        \* executions so far
          runLog,       \* the emitted events and the event ceiling's counters
          \* what happened, for the properties
          ran,          \* nodes the main loop finished, in order
          decided,      \* node -> the handle a branch or gate chose, or "open"
          reviewed,     \* gate -> the execution its reviewer approved
          stale         \* gates whose successor read another execution

graphVars == <<graph, order, bodyOrder, runStatus, cursor, enabled, executed, rejected,
               loopHandled, outputs, iter, gate, execs, runLog, ran, decided,
               reviewed, stale>>

NoIter == [loop |-> NoNode]
NoGate == [node |-> NoNode]
LoopMarker == 1000000   \* the text "[loop iteration]": no execution's output

-----------------------------------------------------------------------------
(* Graphs: [nodes, edges: sequences; kind: node -> kind; entry, only: an   *)
(* optional node; tools: nodes granted to coding agents; cached: nodes with *)
(* an output of an earlier run; refs: nodes named in templates of only].    *)

NodeSet(g) == ToSet(g.nodes)
\* FoldLeft of SequencesExt; the set makes TLC evaluate each step once.
Fold(Op(_, _), base, s) ==
    LET f[k \in 0 .. Len(s)] ==
            IF k = 0 THEN base
            ELSE CHOOSE r \in {Op(acc, s[k]) : acc \in {f[k - 1]}} : TRUE
    IN  f[Len(s)]
\* SelectSeq, which no prover knows: what of s is in T, in the order of s.
Among(s, T) ==
    LET f[k \in 0 .. Len(s)] == IF k = 0 THEN << >>
                                ELSE IF s[k] \in T THEN Append(f[k - 1], s[k])
                                ELSE f[k - 1]
    IN  f[Len(s)]
EdgeSet(g) == ToSet(g.edges)
InEdges(g, n) == Among(g.edges, {e \in EdgeSet(g) : e.dst = n})
OutEdges(g, n) == Among(g.edges, {e \in EdgeSet(g) : e.src = n})

\* What the edges es lead to from S.
Grow(es, S) == S \cup {e.dst : e \in {x \in es : x.src \in S}}
Closure(g, S, es) == Fold(LAMBDA s, n : Grow(es, s), S, g.nodes)
Reversed(es) == {[e EXCEPT !.src = e.dst, !.dst = e.src] : e \in es}

ReachableFrom(g, n) == Closure(g, {e.dst : e \in ToSet(OutEdges(g, n))}, EdgeSet(g))
UpstreamSet(g, n) ==
    Closure(g, {e.src : e \in ToSet(InEdges(g, n))}, Reversed(EdgeSet(g))) \ {n}
ConnectedComponent(g, n) == Closure(g, {n}, EdgeSet(g) \cup Reversed(EdgeSet(g)))

\* BugRunnableNodes takes every root of the canvas.
BugRunnableNodes(g) == NodeSet(g)
\* The graph a run executes: the entry's, otherwise the largest, and of equals
\* the one that appears first on the canvas.
RunnableNodes(g) ==
    LET comps == {ConnectedComponent(g, n) : n \in NodeSet(g)}
        first(c) == CHOOSE k \in DOMAIN g.nodes :
                       g.nodes[k] \in c /\ \A j \in 1 .. k - 1 : g.nodes[j] \notin c
    IN  IF g.entry \in NodeSet(g) THEN ConnectedComponent(g, g.entry)
        ELSE CHOOSE c \in comps : \A d \in comps \ {c} :
                \/ Cardinality(c) > Cardinality(d)
                \/ Cardinality(c) = Cardinality(d) /\ first(c) < first(d)

\* BugTopoSort keeps the order of the canvas.
BugTopoSort(nodes, edges) == nodes
\* Kahn's algorithm in canvas order; nodes on or behind a cycle come last.
Degree(edges, n) == Len(Among(edges, {e \in ToSet(edges) : e.dst = n}))
Relax(s, e) ==
    LET d == s.deg[e.dst] - 1
    IN  [s EXCEPT !.deg[e.dst] = d, !.q = IF d = 0 THEN Append(@, e.dst) ELSE @]
Visit(edges, s) ==
    IF s.q = << >> THEN s
    ELSE Fold(Relax, [s EXCEPT !.q = Tail(@), !.out = Append(@, Head(s.q))],
              Among(edges, {e \in ToSet(edges) : e.src = Head(s.q)}))
Acyclic(nodes, edges) ==
    LET start == [deg |-> [n \in ToSet(nodes) |-> Degree(edges, n)],
                  q   |-> Among(nodes, {n \in ToSet(nodes) : Degree(edges, n) = 0}),
                  out |-> << >>]
    IN  Fold(LAMBDA s, n : Visit(edges, s), start, nodes).out
TopoSort(nodes, edges) ==
    LET sorted == Acyclic(nodes, edges)
    IN  sorted \o Among(nodes, ToSet(nodes) \ ToSet(sorted))

BodySort(g, body) ==
    TopoSort(Among(g.nodes, body),
             Among(g.edges, {e \in EdgeSet(g) : {e.src, e.dst} \subseteq body}))

\* A tool of a coding agent is called by the agent, never by the graph.
WithoutCodingAgentTools(g) ==
    IF g.only # NoNode THEN g
    ELSE [g EXCEPT !.nodes = Among(@, NodeSet(g) \ g.tools),
                   !.edges = Among(@, {e \in EdgeSet(g) : {e.src, e.dst} \cap g.tools = {}})]

\* Outputs a node tested alone needs before it may run.
RequiredOutputs(g, n) ==
    (g.refs \cup (IF g.kind[n] \in {"branch", "loop"} /\ InEdges(g, n) # << >>
                  THEN {InEdges(g, n)[1].src} ELSE {})) \ {n}

\* A canvas holds every node once and draws edges between nodes it holds.
WellFormed(g) ==
    /\ {"nodes", "edges"} \subseteq DOMAIN g
    /\ g.nodes \in Seq(NodeSet(g)) /\ IsInjective(g.nodes)
    /\ g.edges \in Seq([src : NodeSet(g), dst : NodeSet(g), handle : STRING])
    /\ NoNode \notin NodeSet(g)
ASSUME GraphsWellFormed == \A g \in Graphs : WellFormed(g)

-----------------------------------------------------------------------------
(* Events.                                                                 *)

Ev(type, n) == [type |-> type, node |-> n]
TerminalTypes == {"run_completed", "run_error"}

\* BugEmit drops the terminal pair as well.
BugEmit(l, ev) ==
    LET n == l.count + 1 IN
    IF n <= MaxRunEvents THEN [l EXCEPT !.count = n, !.sent = Append(@, ev)]
    ELSE IF l.truncated THEN [l EXCEPT !.count = n]
    ELSE [count |-> n, truncated |-> TRUE,
          sent |-> Append(l.sent, Ev("truncated", NoNode))]
\* Past the ceiling only the terminal pair is kept, after one notice.
Emit(l, ev) ==
    LET n == l.count + 1 IN
    IF n <= MaxRunEvents \/ ev.type \in TerminalTypes
    THEN [l EXCEPT !.count = n, !.sent = Append(@, ev)]
    ELSE IF l.truncated THEN [l EXCEPT !.count = n]
    ELSE [count |-> n, truncated |-> TRUE,
          sent |-> Append(l.sent, Ev("truncated", NoNode))]
EmitAll(l, evs) == Fold(Emit, l, evs)

\* BugSkips reports every node.
BugSkips(done) == [k \in DOMAIN graph.nodes |-> Ev("skipped", graph.nodes[k])]
Skips(done) == LET left == Among(graph.nodes, NodeSet(graph) \ done)
               IN [k \in DOMAIN left |-> Ev("skipped", left[k])]

-----------------------------------------------------------------------------
(* Where the run stands.                                                   *)

InBody == iter # NoIter
Single == graph.only # NoNode
CurrentOutputs == IF InBody THEN iter.outputs ELSE outputs
BodyOrder == bodyOrder[iter.loop]
Body == ToSet(BodyOrder)
CurrentDecided == IF InBody THEN iter.decided ELSE decided

Remaining == {k \in cursor .. Len(order) : order[k] \in enabled \ loopHandled}
NextIndex == CHOOSE k \in Remaining : \A j \in Remaining : k <= j
Idle == runStatus = "running" /\ gate = NoGate /\ ~InBody

\* The node about to run: of the main loop, of the iteration, or the tested one.
Due(n) ==
    /\ runStatus = "running" /\ gate = NoGate
    /\ \/ Single /\ execs = 0 /\ n = graph.only
       \/ ~Single /\ ~InBody /\ Remaining # {} /\ n = order[NextIndex]
       \/ /\ InBody /\ iter.item <= iter.items
          /\ iter.pos <= Len(BodyOrder) /\ n = BodyOrder[iter.pos]

Decides(n) == graph.kind[n] \in {"branch", "approval"}
IteratesHere(n) == graph.kind[n] = "loop" /\ ~Single /\ ~InBody

\* What an execution of n reads: gates that let it through and whose reviewed
\* value is no longer what their source holds.
StaleGates(n) ==
    {g \in {e.src : e \in ToSet(InEdges(graph, n))} :
        /\ graph.kind[g] = "approval" /\ CurrentDecided[g] = "yes" /\ InEdges(graph, g) # << >>
        /\ CurrentOutputs[InEdges(graph, g)[1].src] # reviewed[g]}

-----------------------------------------------------------------------------
(* The end of a node's execution, in each of the three places it may run.   *)

\* BugFollow ignores which handle the decision chose.
BugFollow(n, out, l) ==
    /\ enabled' = enabled \cup {e.dst : e \in ToSet(OutEdges(graph, n))}
    /\ rejected' = rejected
    /\ runLog' = l
\* The edges a finished node enables: all, or those its decision selected.
Follow(n, out, l) ==
    LET taken == Among(OutEdges(graph, n), {e \in EdgeSet(graph) : Decides(n) => e.handle = out})
    IN  /\ enabled' = enabled \cup {e.dst : e \in ToSet(taken)}
        /\ rejected' = rejected \cup
             {e.dst : e \in ToSet(OutEdges(graph, n)) \ ToSet(taken)}
        /\ runLog' = EmitAll(l, [k \in DOMAIN taken |-> Ev("edge", taken[k].dst)])

\* Node n finished with the result out; outs is the output map it leaves.
Succeed(n, out, outs, l0) ==
    LET l == EmitAll(l0, <<Ev("output", n), Ev("completed", n)>>)
    IN  /\ execs' = execs + 1
        /\ stale' = stale \cup StaleGates(n)
        /\ gate' = NoGate
        /\ IF InBody
           THEN /\ iter' = [iter EXCEPT !.outputs[n] = execs', !.pos = @ + 1,
                                        !.ran = @ \cup {n}, !.decided[n] = out]
                /\ outputs' = outs
                /\ runLog' = l
                /\ decided' = decided
                /\ UNCHANGED <<runStatus, cursor, enabled, executed, rejected, ran>>
           ELSE /\ executed' = executed \cup {n}
                /\ outputs' = [outs EXCEPT ![n] = execs']
                /\ ran' = Append(ran, n)
                /\ decided' = [decided EXCEPT ![n] = out]
                /\ iter' = iter
                /\ IF Single
                   THEN /\ runLog' = Emit(l, Ev("run_completed", NoNode))
                        /\ runStatus' = "completed"
                        /\ UNCHANGED <<cursor, enabled, rejected>>
                   ELSE /\ Follow(n, out, l)
                        /\ cursor' = NextIndex + 1
                        /\ UNCHANGED runStatus
        /\ UNCHANGED <<graph, order, bodyOrder, loopHandled>>

\* Node n failed.  In a loop that ends the iteration, elsewhere the run.
Fail(n, l0) ==
    LET l == Emit(l0, Ev("error", n))
        ended == Emit(l, Ev("run_error", NoNode))
    IN  /\ gate' = NoGate
        /\ IF InBody
           THEN /\ iter' = [iter EXCEPT !.pos = Len(BodyOrder) + 1, !.ran = @ \cup {n}]
                /\ runLog' = l
                /\ runStatus' = runStatus
           ELSE /\ iter' = iter
                /\ runStatus' = "error"
                /\ runLog' = IF Single THEN ended ELSE EmitAll(ended, Skips(executed))
        /\ execs' = execs + 1
        /\ UNCHANGED <<graph, order, bodyOrder, cursor, enabled, executed, rejected, loopHandled,
                       ran, decided, stale>>

-----------------------------------------------------------------------------
(* The main loop.                                                          *)

InitGraph ==
    /\ graph \in {WithoutCodingAgentTools(g) : g \in Graphs}
    /\ order = TopoSort(graph.nodes, graph.edges)
    /\ bodyOrder = [n \in {m \in NodeSet(graph) : graph.kind[m] = "loop"} |->
                      BodySort(graph, ReachableFrom(graph, n))]
    /\ runStatus = "running" /\ cursor = 1
    /\ enabled = {n \in NodeSet(graph) : InEdges(graph, n) = << >> /\ n \in RunnableNodes(graph)}
    /\ executed = {} /\ rejected = {} /\ loopHandled = {}
    /\ outputs = [n \in NodeSet(graph) |->
                    IF Single /\ n \in graph.cached \cap UpstreamSet(graph, graph.only)
                    THEN LoopMarker + 1 ELSE 0]
    /\ iter = NoIter /\ gate = NoGate /\ execs = 0
    /\ runLog = [count |-> 1, truncated |-> FALSE,
                 sent |-> <<Ev("run_started", NoNode)>>]
    /\ ran = << >> /\ stale = {}
    /\ decided = [n \in NodeSet(graph) |-> "open"]
    /\ reviewed = [n \in NodeSet(graph) |-> 0]

\* A test of one node that is not on the canvas, or that lacks an upstream
\* output it needs, ends at once.
MissingInput ==
    /\ Single /\ runStatus = "running" /\ gate = NoGate /\ execs = 0
    /\ graph.only \in NodeSet(graph) =>
          \E n \in RequiredOutputs(graph, graph.only) : n \notin NodeSet(graph) \/ outputs[n] = 0
    /\ runStatus' = "error"
    /\ runLog' = Emit(runLog, Ev("run_error", NoNode))
    /\ UNCHANGED <<graph, order, bodyOrder, cursor, enabled, executed, rejected, loopHandled,
                   outputs, iter, gate, execs, ran, decided, reviewed, stale>>
InputsPresent ==
    Single => \A n \in RequiredOutputs(graph, graph.only) :
                 n \in NodeSet(graph) /\ outputs[n] # 0

\* A node that needs no person.
RunNode(n) ==
    /\ Due(n) /\ InputsPresent
    /\ graph.kind[n] # "approval" /\ ~IteratesHere(n)
    /\ UNCHANGED reviewed
    /\ LET l == Emit(runLog, Ev("started", n)) IN
       \/ \E out \in IF graph.kind[n] = "branch" THEN {"yes", "no"} ELSE {"none"} :
            Succeed(n, out, outputs, l)
       \/ Fail(n, l) /\ UNCHANGED outputs

-----------------------------------------------------------------------------
(* The human approval gate: it shows the output of its first parent and     *)
(* waits; a retry re-runs that parent and asks again.                      *)

GateSource(n) == IF InEdges(graph, n) = << >> THEN NoNode ELSE InEdges(graph, n)[1].src
CanRetry(n) == GateSource(n) # NoNode /\ graph.kind[GateSource(n)] = "model"
Waiting(n) == Ev("waiting", n)

OpenGate(n) ==
    /\ Due(n) /\ InputsPresent /\ graph.kind[n] = "approval"
    /\ gate' = [node |-> n, attempt |-> 1,
                shown |-> IF GateSource(n) = NoNode THEN 0
                          ELSE CurrentOutputs[GateSource(n)]]
    /\ runLog' = EmitAll(runLog, <<Ev("started", n), Waiting(n)>>)
    /\ UNCHANGED <<graph, order, bodyOrder, runStatus, cursor, enabled, executed, rejected,
                   loopHandled, outputs, iter, execs, ran, decided, reviewed, stale>>

GateApprove ==
    /\ gate # NoGate
    /\ reviewed' = [reviewed EXCEPT ![gate.node] = gate.shown]
    /\ Succeed(gate.node, "yes", outputs, runLog)

\* A plain rejection, or a retry the gate cannot grant any more.
GateReject ==
    /\ gate # NoGate
    /\ UNCHANGED reviewed
    /\ Succeed(gate.node, "no", outputs, runLog)

GateTimeout ==
    /\ gate # NoGate
    /\ Fail(gate.node, runLog)
    /\ UNCHANGED <<outputs, reviewed>>

\* BugPublish leaves the new output to the gate, which holds a copy.
BugPublish(src, n) == UNCHANGED <<outputs, iter>>
\* The retrier writes the run's output map.  The gate also writes the map it
\* was given, which is the iteration's own only if no parent has an output:
\* otherwise it is a copy (outputsForNode).
Publish(src, n) ==
    /\ outputs' = [outputs EXCEPT ![src] = execs + 1]
    /\ iter' = IF InBody /\ \A e \in ToSet(InEdges(graph, n)) : iter.outputs[e.src] = 0
               THEN [iter EXCEPT !.outputs[src] = execs + 1] ELSE iter

\* BugRetryLeft counts one attempt too many.
BugRetryLeft == gate.attempt <= MaxApprovalRetries + 1
RetryLeft == gate.attempt <= MaxApprovalRetries

GateRetry ==
    /\ gate # NoGate /\ CanRetry(gate.node) /\ RetryLeft
    /\ LET src == GateSource(gate.node)
           l == EmitAll(runLog, <<Ev("feedback", gate.node), Ev("started", src)>>)
       IN  \/ /\ execs' = execs + 1
              /\ Publish(src, gate.node)
              /\ gate' = [gate EXCEPT !.attempt = @ + 1, !.shown = execs']
              /\ runLog' = EmitAll(l, <<Ev("output", src), Ev("completed", src),
                                       Waiting(gate.node)>>)
              /\ UNCHANGED <<graph, order, bodyOrder, runStatus, cursor, enabled, executed,
                             rejected, loopHandled, ran, decided, reviewed, stale>>
           \/ /\ Fail(gate.node, Emit(l, Ev("error", src)))
              /\ UNCHANGED <<outputs, reviewed>>

-----------------------------------------------------------------------------
(* Loops: every node reachable from the loop node runs once per item.      *)

Iteration(n, k, items, outs) ==
    [loop |-> n, items |-> items, item |-> k, pos |-> 1, ran |-> {},
     decided |-> [m \in NodeSet(graph) |-> IF m \in ToSet(bodyOrder[n]) THEN "open"
                                          ELSE decided[m]],
     outputs |-> [outs EXCEPT ![n] = execs + 1]]
IterationStart(n, k, items) == IF k <= items THEN <<Ev("iteration", n)>> ELSE << >>

StartLoop(n) ==
    /\ Due(n) /\ IteratesHere(n)
    /\ \E items \in 0 .. MaxItems :
          /\ iter' = Iteration(n, 1, items, outputs)
          /\ runLog' = EmitAll(runLog, <<Ev("started", n)>> \o IterationStart(n, 1, items))
    /\ execs' = execs + 1
    /\ UNCHANGED <<graph, order, bodyOrder, runStatus, cursor, enabled, executed, rejected,
                   loopHandled, outputs, gate, ran, decided, reviewed, stale>>

EndIteration ==
    /\ InBody /\ gate = NoGate
    /\ iter.item <= iter.items /\ iter.pos > Len(BodyOrder)
    /\ iter' = Iteration(iter.loop, iter.item + 1, iter.items, outputs)
    /\ execs' = execs + 1
    /\ runLog' = EmitAll(runLog, <<Ev("iteration_done", iter.loop)>> \o
                                 IterationStart(iter.loop, iter.item + 1, iter.items))
    /\ UNCHANGED <<graph, order, bodyOrder, runStatus, cursor, enabled, executed, rejected,
                   loopHandled, outputs, gate, ran, decided, reviewed, stale>>

\* The body is closed under edges, so nothing outside it is enabled here.
FinishLoop ==
    /\ InBody /\ iter.item > iter.items
    /\ loopHandled' = loopHandled \cup Body
    /\ executed' = executed \cup Body \cup {iter.loop}
    /\ outputs' = [n \in NodeSet(graph) |->
                     IF n = iter.loop THEN execs + 1
                     ELSE IF n \in Body THEN LoopMarker ELSE outputs[n]]
    /\ execs' = execs + 1
    /\ cursor' = NextIndex + 1
    /\ ran' = Append(ran, iter.loop)
    /\ iter' = NoIter
    /\ runLog' = EmitAll(runLog, <<Ev("output", iter.loop), Ev("completed", iter.loop)>>)
    /\ UNCHANGED <<graph, order, bodyOrder, runStatus, enabled, rejected, gate, decided,
                   reviewed, stale>>

\* No node is left to run.
FinishRun ==
    /\ Idle /\ ~Single /\ Remaining = {}
    /\ runStatus' = "completed"
    /\ runLog' = EmitAll(runLog, Append(Skips(executed), Ev("run_completed", NoNode)))
    /\ UNCHANGED <<graph, order, bodyOrder, cursor, enabled, executed, rejected, loopHandled,
                   outputs, iter, gate, execs, ran, decided, reviewed, stale>>

GraphSteps ==
    \/ MissingInput
    \/ \E n \in NodeSet(graph) : RunNode(n) \/ OpenGate(n) \/ StartLoop(n)
    \/ EndIteration \/ FinishLoop \/ FinishRun
GateSteps == GateApprove \/ GateReject \/ GateRetry
NextGraph == GraphSteps \/ GateSteps \/ GateTimeout

SpecGraph == InitGraph /\ [][NextGraph]_graphVars
-----------------------------------------------------------------------------
(* Properties.                                                             *)

Events == ToSet(runLog.sent)
NodesWith(type) == {e.node : e \in {x \in Events : x.type = type}}

GraphTypeOK ==
    /\ runStatus \in {"running", "completed", "error"}
    /\ cursor \in 1 .. Len(order) + 1
    /\ ToSet(order) = NodeSet(graph) /\ Len(order) = Len(graph.nodes)
    /\ UNION {enabled, executed, rejected, loopHandled, ToSet(ran), stale}
          \subseteq NodeSet(graph)
    /\ DOMAIN outputs = NodeSet(graph)
    /\ InBody => iter.loop \in NodeSet(graph) /\ iter.item \in 1 .. iter.items + 1
    /\ gate # NoGate => gate.attempt \in 1 .. MaxApprovalRetries + 1

\* A canvas holds several graphs; a run executes nodes of one of them only, the
\* one its trigger belongs to, or one that no other outgrows (graphselect.go;
\* loops and a reviewer's retries included).
OneGraphRuns ==
    ~Single => \A n \in NodesWith("started") :
       LET own == ConnectedComponent(graph, n) IN
       /\ NodesWith("started") \subseteq own
       /\ IF graph.entry \in NodeSet(graph) THEN graph.entry \in own
          ELSE \A m \in NodeSet(graph) :
                  Cardinality(ConnectedComponent(graph, m)) <= Cardinality(own)

\* Outside loops a node ran only because it is a root, or because a node that
\* finished before it led there: if that was a branch or a gate, by the edge of
\* the decision taken (executor.go, the enabling loop).
PathTaken ==
    \A j \in DOMAIN ran :
       \/ InEdges(graph, ran[j]) = << >> \/ Single
       \/ \E i \in 1 .. j - 1, e \in ToSet(InEdges(graph, ran[j])) :
             /\ e.src = ran[i]
             /\ Decides(ran[i]) => decided[ran[i]] = e.handle

\* A node whose output others read runs before them, unless a cycle makes that
\* impossible (topoSort): neither the main loop nor one iteration of a loop runs
\* a node before a parent that it also runs.  The two are ordered apart: a body
\* node that is also fed from outside its loop may run before that parent.
BehindCycle(n) ==
    \E m \in NodeSet(graph) : /\ m \in ReachableFrom(graph, m)
                              /\ n \in ReachableFrom(graph, m)
ParentsFirst ==
    /\ \A i, j \in DOMAIN ran :
          i < j /\ (\E e \in EdgeSet(graph) : e.src = ran[j] /\ e.dst = ran[i])
            => BehindCycle(ran[i])
    /\ InBody =>
          \A n \in iter.ran, e \in EdgeSet(graph) :
             e.dst = n /\ e.src \in Body \ iter.ran => BehindCycle(n)

\* What a completed run's log says of each node: outside the bodies of the loops
\* that started, every node started or was reported skipped, and none both, a
\* parent that only a reviewer's retry ran apart.  The body of a loop without
\* items is neither run nor reported.
InStartedLoop(n) == \E m \in NodesWith("started") :
                       graph.kind[m] = "loop" /\ n \in ReachableFrom(graph, m)
RetriedOnly(n) == \E g \in NodesWith("feedback") : GateSource(g) = n
EveryNodeAccounted ==
    runStatus = "completed" /\ ~runLog.truncated /\ ~Single =>
       \A n \in NodeSet(graph) :
          /\ n \in NodesWith("started") \cup NodesWith("skipped") \/ InStartedLoop(n)
          /\ n \in NodesWith("started") \cap NodesWith("skipped") => RetriedOnly(n)

\* A log ends with exactly one report of how the run ended, whatever the event
\* ceiling cut, and only skip reports of a failed run may follow it.
OneEnding ==
    LET ends == {k \in DOMAIN runLog.sent : runLog.sent[k].type \in TerminalTypes}
    IN  /\ Cardinality(ends) = IF runStatus = "running" THEN 0 ELSE 1
        /\ \A k \in ends, j \in DOMAIN runLog.sent :
              j > k => runLog.sent[j].type \in {"skipped", "truncated"}
        /\ Len(runLog.sent) <= MaxRunEvents + 2

\* Outside loops, a node that an approval let through reads the very output the
\* reviewer saw, not a later one; two gates that show the same parent may still
\* revise it under each other, and a cycle may run the parent again.
InSomeBody(n) == \E m \in NodeSet(graph) :
                    graph.kind[m] = "loop" /\ n \in ReachableFrom(graph, m)
ApprovedIsRead ==
    \A g \in stale :
       \/ InSomeBody(g) \/ BehindCycle(g)
       \/ \E h \in NodeSet(graph) \ {g} :
             graph.kind[h] = "approval" /\ GateSource(h) = GateSource(g)

\* "Approve and reject are terminal and select the node's outgoing edge": no
\* node runs when every edge into it comes from a gate that chose another edge.
\* A loop body runs all of its nodes, whatever a gate in it decided.
ApprovalSelectsEdge ==
    \A n \in IF InBody THEN iter.ran ELSE ToSet(ran) :
       InEdges(graph, n) # << >> =>
          \E e \in ToSet(InEdges(graph, n)) :
             graph.kind[e.src] = "approval" => CurrentDecided[e.src] \in {"open", e.handle}
=============================================================================
