--------------------------- MODULE KnowledgeGraph ---------------------------
(***************************************************************************)
(* Queries of the knowledge graph (graphify.cjs): the neighbourhood of the *)
(* nodes that match a term, cut down to a budget of tokens, and the        *)
(* difference between the graph and the last snapshot.                     *)
(*                                                                         *)
(* A graph is the data of each node by its id, and the sequence of its     *)
(* edges, whose ends need not be nodes.  A query has its own notion of     *)
(* which edges are the same: KeyOfQuery ignores the relation.  Edges of a  *)
(* query are places in the sequence.                                       *)
(***************************************************************************)
EXTENDS Integers, Sequences, FiniteSets

\* The tokens that some nodes and edges take up when printed.
CONSTANT EstimateTokens(_, _)

NoLabel == ""
Ends(edge) == {edge.source, edge.target}
KeyOfQuery(edge) == <<edge.source, edge.target, edge.label>>
KeyOfDiff(edge) ==
    <<edge.source, edge.target, IF edge.relation # NoLabel THEN edge.relation ELSE edge.label>>

-----------------------------------------------------------------------------
Touching(graph, nodes) == {i \in DOMAIN graph.edges : Ends(graph.edges[i]) \cap nodes # {}}

\* One hop: of edges with the same key only the first is collected.
Hop(graph, found) ==
    LET touched == Touching(graph, found.frontier)
        reached == (UNION {Ends(graph.edges[i]) : i \in touched}) \ found.visited
        repeated == {i \in touched : \E j \in found.edges \cup touched :
                        (j \in found.edges \/ j < i)
                            /\ KeyOfQuery(graph.edges[j]) = KeyOfQuery(graph.edges[i])}
    IN  [visited  |-> found.visited \cup reached,
         frontier |-> reached,
         edges    |-> found.edges \cup (touched \ repeated)]

Seeded(seeds) == [visited |-> seeds, frontier |-> seeds, edges |-> {}]

SeedAndExpand(graph, seeds, maxHops) ==
    LET after[hop \in 0..maxHops] == IF hop = 0 THEN Seeded(seeds) ELSE Hop(graph, after[hop - 1])
    IN  [nodes |-> after[maxHops].visited \cap DOMAIN graph.nodes,
         edges |-> after[maxHops].edges, seeds |-> seeds]

-----------------------------------------------------------------------------
ConfidenceOrder == <<"AMBIGUOUS", "INFERRED", "EXTRACTED">>

\* What is left of the edges without the first so many tiers.
Without(graph, edges, tiers) ==
    {i \in edges : \A t \in 1..tiers : graph.edges[i].confidence # ConfidenceOrder[t]}

TiersDropped(graph, result, budget) ==
    CHOOSE tiers \in 0..3 :
        /\ tiers = 3 \/ EstimateTokens(result.nodes, Without(graph, result.edges, tiers)) <= budget
        /\ \A less \in 0..(tiers - 1) :
              EstimateTokens(result.nodes, Without(graph, result.edges, less)) > budget

ApplyBudget(graph, result, budget) ==
    IF budget = 0 THEN result
    ELSE LET left == Without(graph, result.edges, TiersDropped(graph, result, budget))
             reachable == UNION {Ends(graph.edges[i]) : i \in left}
         IN  [nodes |-> result.nodes \cap (reachable \cup result.seeds),
              edges |-> left, seeds |-> result.seeds]

-----------------------------------------------------------------------------
\* What was added, removed and changed between two functions.
DiffOf(current, snapshot) ==
    [added   |-> DOMAIN current \ DOMAIN snapshot,
     removed |-> DOMAIN snapshot \ DOMAIN current,
     changed |-> {key \in DOMAIN current \cap DOMAIN snapshot : current[key] # snapshot[key]}]

\* Edges by key: of several with one key, the last.
EdgeMap(edges) ==
    [key \in {KeyOfDiff(edges[i]) : i \in DOMAIN edges} |->
        LET same == {i \in DOMAIN edges : KeyOfDiff(edges[i]) = key}
        IN  edges[CHOOSE i \in same : \A j \in same : j <= i]]

WriteSnapshot(graph) == [nodes |-> graph.nodes, edges |-> graph.edges]

GraphifyDiff(graph, snapshot) ==
    [nodes |-> DiffOf(graph.nodes, snapshot.nodes),
     edges |-> DiffOf(EdgeMap(graph.edges), EdgeMap(snapshot.edges))]

-----------------------------------------------------------------------------
(* Properties, for one graph, and the definition a query is compared with. *)

\* The nodes a walk of at most so many edges leads to.
Within(graph, seeds, hops) ==
    {n \in seeds \cup UNION {Ends(graph.edges[i]) : i \in DOMAIN graph.edges} :
        \E length \in 0..hops : \E walk \in [0..length -> seeds \cup
                UNION {Ends(graph.edges[i]) : i \in DOMAIN graph.edges}] :
            /\ walk[0] \in seeds /\ walk[length] = n
            /\ \A s \in 1..length : \E i \in DOMAIN graph.edges :
                  Ends(graph.edges[i]) = {walk[s - 1], walk[s]}}

\* A query returns the nodes at most so many edges away from a match, and of every
\* edge that such a walk can take, one with the same ends and the same label.
ExpandsToNeighbourhood(graph, seeds, hops) ==
    LET result == SeedAndExpand(graph, seeds, hops)
        inner  == IF hops = 0 THEN {} ELSE Within(graph, seeds, hops - 1)
    IN  /\ result.nodes = Within(graph, seeds, hops) \cap DOMAIN graph.nodes
        /\ result.edges \subseteq Touching(graph, inner)
        /\ \A i \in Touching(graph, inner) : \E j \in result.edges :
              KeyOfQuery(graph.edges[j]) = KeyOfQuery(graph.edges[i])

\* A budget that the neighbourhood fits in takes nothing away: no node is returned
\* without an edge that leads to it.
FittingBudget(graph, seeds, hops, budget) ==
    LET result == SeedAndExpand(graph, seeds, hops)
    IN  EstimateTokens(result.nodes, result.edges) <= budget
            => ApplyBudget(graph, result, budget) = result

\* Cutting down keeps the matches and both ends of every edge it keeps, and gives up
\* an edge only together with all the edges of the weaker tiers.
CutIsClosed(graph, result, budget) ==
    LET cut == ApplyBudget(graph, result, budget)
    IN  /\ result.seeds \cap result.nodes \subseteq cut.nodes
        /\ \A i \in cut.edges : Ends(graph.edges[i]) \cap result.nodes \subseteq cut.nodes
        /\ \A i \in result.edges \ cut.edges : \A j \in cut.edges :
              /\ graph.edges[j].confidence # "AMBIGUOUS"
              /\ graph.edges[i].confidence = "EXTRACTED" => graph.edges[j].confidence # "INFERRED"

\* What still exceeds the budget has no edge left that could be given up.
CutIsSpent(graph, result, budget) ==
    LET cut == ApplyBudget(graph, result, budget)
    IN  budget # 0 /\ EstimateTokens(result.nodes, cut.edges) > budget
            => \A i \in cut.edges : \A t \in 1..3 : graph.edges[i].confidence # ConfidenceOrder[t]

\* Nothing differs right after a snapshot, and what one order of two graphs calls
\* added the other calls removed.
DiffIsExact(graph, other) ==
    LET diff == GraphifyDiff(graph, WriteSnapshot(other))
        back == GraphifyDiff(other, WriteSnapshot(graph))
    IN  /\ graph = other => diff.nodes.added \cup diff.nodes.removed \cup diff.nodes.changed = {}
        /\ graph = other => diff.edges.added \cup diff.edges.removed \cup diff.edges.changed = {}
        /\ diff.nodes.added = back.nodes.removed /\ diff.edges.added = back.edges.removed
        /\ diff.nodes.changed = back.nodes.changed /\ diff.edges.changed = back.edges.changed
=============================================================================
