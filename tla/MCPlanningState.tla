---- MODULE MCPlanningState ----
(* Instances of PlanningState for TLC. *)
EXTENDS PlanningState, Sequences, TLC

CONSTANTS p1, p2, p3, n1, b1

MCProcs == {p1, p2, p3}

(* Phase 2 of 2 is being executed, its first plan of two; one decision is   *)
(* old enough to be pruned.                                                 *)
Executing2 ==
  [phase |-> 2, plan |-> 1, total |-> 2, status |-> Executing(2), progress |-> 33,
   decisions |-> {<<1, n1>>}, blockers |-> {}, metrics |-> {}, rows |-> {1},
   velocity |-> 1, session |-> FALSE, completed |-> 1, phases |-> 2]
MCStarts == {Executing2}
MCDisks == {<<[plans |-> 2, done |-> 2], [plans |-> 1, done |-> 1]>>}

Op1(name) == [op |-> name]
Every ==
  {Op1(name) : name \in {"advance-plan", "update-progress", "record-session", "prune", "sync",
                         "milestone-switch", "milestone-complete", "phase-remove"}}
    \cup {[op |-> "patch", phase |-> 1], [op |-> "record-metric", phase |-> 2],
          [op |-> "complete-phase", phase |-> 0],
          [op |-> "begin-phase", phase |-> 2, count |-> 2],
          [op |-> "planned-phase", phase |-> 2, count |-> 1],
          [op |-> "phase-complete", phase |-> 2, next |-> 0, count |-> 1],
          [op |-> "add-decision", phase |-> 2, note |-> n1],
          [op |-> "add-blocker", blocker |-> b1],
          [op |-> "resolve-blocker", matches |-> {b1}]}

MCMenu == (p1 :> Every @@ p2 :> {[op |-> "phase-complete", phase |-> 2, next |-> 0, count |-> 1],
                                 [op |-> "add-decision", phase |-> 2, note |-> n1],
                                 Op1("sync")}
           @@ p3 :> {})

(* Queries and differences of the knowledge graph are evaluated on graphs of at   *)
(* most three edges over three nodes and one end that is none, every node and     *)
(* edge of the result costing one token.                                          *)
Count(nodes, edges) == Cardinality(nodes) + Cardinality(edges)
Graph == INSTANCE KnowledgeGraph WITH EstimateTokens <- Count

MCNodes == UNION {[ids -> {"one"}] : ids \in {{"a", "b", "c"}, {"a", "b"}}}
MCEdges == [source : {"a", "c"}, target : {"b", "z"}, label : {Graph!NoLabel}, relation : {"r", "s"},
            confidence : {"AMBIGUOUS", "EXTRACTED", "none"}]
Weak(edge) == edge.relation = "r"
MCTriples == {<<e, f, g>> : e \in MCEdges, f \in {e \in MCEdges : Weak(e)},
                            g \in {e \in MCEdges : ~Weak(e) /\ e.confidence = "EXTRACTED"}}
MCGraphs == [nodes : MCNodes, edges : UNION {[1..n -> MCEdges] : n \in 0..1}]
              \cup [nodes : {[n \in {"a", "b", "c"} |-> "one"]}, edges : MCTriples]

ASSUME GraphChecked ==
    /\ \A graph \in MCGraphs, seeds \in {{}, {"a"}, {"a", "b"}}, hops \in 0..3 :
          seeds \subseteq DOMAIN graph.nodes => Graph!ExpandsToNeighbourhood(graph, seeds, hops)
    /\ \A graph \in MCGraphs, seeds \in {{"a"}, {"a", "b"}}, budget \in 0..6 :
          LET result == Graph!SeedAndExpand(graph, seeds, 2)
          IN  /\ Graph!FittingBudget(graph, seeds, 2, budget)
              /\ Graph!CutIsClosed(graph, result, budget)
              /\ Graph!CutIsSpent(graph, result, budget)
    /\ \A graph, other \in {g \in MCGraphs : Len(g.edges) < 2} : Graph!DiffIsExact(graph, other)
====
