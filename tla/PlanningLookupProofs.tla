------------------------ MODULE PlanningLookupProofs ------------------------
(***************************************************************************)
(* What the planning tool looks up without changing anything: the model of *)
(* an agent, the root of a project and the neighbourhood in the knowledge  *)
(* graph.  Theorems for every configuration, for paths of every length and *)
(* for every graph.                                                        *)
(***************************************************************************)
EXTENDS ModelRouting, ProjectRoot, KnowledgeGraph, SequenceTheorems, WellFoundedInduction, TLAPS

-----------------------------------------------------------------------------
(* ModelRouting, for every configuration. *)

\* What a configuration holds, as far as the functions look at it.
IsRouting(routing) ==
    /\ routing.enabled \in BOOLEAN /\ routing.escalate \in BOOLEAN
    /\ routing.most \in Nat \cup {Unset}
IsConfig(config) ==
    /\ config.own \in BOOLEAN /\ IsRouting(config.routing)
    /\ config.tuned.model = Unset \/ config.tuned.model[1] # "slot"

\* codex has a model for every tier, so the user's fields cannot leave one without.
LEMMA CodexHasModels ==
    ASSUME NEW config, NEW tier \in Tiers, config.runtime = "codex"
    PROVE  TierEntry(config, tier).model # Unset
<1>1. Builtin("codex", tier).model = <<"codex", tier>>
    BY DEF Builtin, Runtimes
<1>2. <<"codex", tier>> # Unset
    BY UnsetAssumption DEF Runtimes
<1> QED BY <1>1, <1>2 DEF TierEntry

\* Model and effort are read from the same tier of the same runtime, whatever the
\* configuration says (resolveModelInternal, resolveReasoningEffortInternal).
THEOREM EffortFitsModel ==
    ASSUME NEW config, NEW agent, IsConfig(config)
    PROVE  EffortFits(config, agent)
<1> SUFFICES ASSUME ResolveEffort(config, agent) # Unset
             PROVE  \E tier \in Tiers :
                        TierEntry(config, tier) = [model |-> ResolveModel(config, agent),
                                                   effort |-> ResolveEffort(config, agent)]
    BY DEF EffortFits
<1> DEFINE tier == TierFor(config, agent)
<1>1. config.runtime = "codex" /\ ~config.own /\ tier \in Tiers
    BY DEF ResolveEffort, IsConfig
<1>2. TierEntry(config, tier).model # Unset
    BY <1>1, CodexHasModels
<1>3. "codex" \notin {Unset, "claude"}
    BY UnsetAssumption DEF Runtimes
<1>4. ResolveModel(config, agent) = TierEntry(config, tier).model
    BY <1>1, <1>2, <1>3 DEF ResolveModel
<1>5. ResolveEffort(config, agent) = TierEntry(config, tier).effort
    BY <1>1 DEF ResolveEffort
<1>6. TierEntry(config, tier) = [model |-> TierEntry(config, tier).model,
                                 effort |-> TierEntry(config, tier).effort]
    BY DEF TierEntry
<1> QED BY <1>1, <1>4, <1>5, <1>6

\* Climbing further never leads down, and one step leads up by one tier at most.
LEMMA ClimbedIsMonotone ==
    ASSUME NEW tier \in 1..3, NEW low \in Nat, NEW high \in Nat, low <= high
    PROVE  /\ Climbed(tier, low) \in 1..3
           /\ Climbed(tier, low) <= Climbed(tier, high)
           /\ Climbed(tier, high) - Climbed(tier, low) <= high - low
BY DEF Climbed

\* Later attempts take at least as many steps, and at most one more each.
LEMMA StepsGrow ==
    ASSUME NEW routing, IsRouting(routing), NEW k \in Nat, NEW n \in Nat, k <= n
    PROVE  /\ Steps(routing, k) \in Nat /\ Steps(routing, n) \in Nat
           /\ Steps(routing, k) <= Steps(routing, n)
           /\ Steps(routing, n) - Steps(routing, k) <= n - k
           /\ routing.most # Unset => Steps(routing, n) <= routing.most
           /\ ~routing.escalate => Steps(routing, k) = Steps(routing, n)
BY UnsetAssumption DEF Steps, IsRouting

LEMMA DefaultTiers ==
    ASSUME NEW agent
    PROVE  AGENT_DEFAULT_TIERS(agent) \in 1..3
BY DEF AGENT_DEFAULT_TIERS

\* The profile never yields a slot.
LEMMA ProfileIsNoSlot ==
    ASSUME NEW config, NEW agent, IsConfig(config)
    PROVE  ResolveModel(config, agent)[1] # "slot"
<1> DEFINE tier == TierFor(config, agent)
           entry == TierEntry(config, tier)
<1>1. entry.model # Unset => entry.model[1] # "slot"
  <2>1. CASE tier = config.tuned.tier /\ config.tuned.model # Unset
    <3>1. entry.model = config.tuned.model
        BY <2>1 DEF TierEntry
    <3> QED BY <2>1, <3>1 DEF IsConfig
  <2>2. CASE ~(tier = config.tuned.tier /\ config.tuned.model # Unset)
    <3>1. entry.model = Builtin(config.runtime, tier).model
        BY <2>2 DEF TierEntry
    <3>2. CASE config.runtime \in Runtimes
        BY <3>1, <3>2 DEF Builtin, Runtimes
    <3>3. CASE config.runtime \notin Runtimes
        BY <3>1, <3>3 DEF Builtin
    <3> QED BY <3>2, <3>3
  <2> QED BY <2>1, <2>2
<1> QED BY <1>1 DEF ResolveModel, Own, Inherit, Empty

\* A model that has the form of a slot is the slot of the tier that was reached.
LEMMA SlotIsReached ==
    ASSUME NEW config, NEW agent, NEW n, IsConfig(config),
           ResolveForAttempt(config, agent, n)[1] = "slot"
    PROVE  ResolveForAttempt(config, agent, n) =
               <<"slot", Climbed(AGENT_DEFAULT_TIERS(agent), Steps(config.routing, n))>>
BY ProfileIsNoSlot DEF ResolveForAttempt, IsConfig, Own

\* Attempts that are routed climb, one tier at a time and no further than the
\* maximum; with escalation off they stay (resolveModelForTier).
THEOREM LaterAttemptsClimb ==
    ASSUME NEW config, NEW agent, IsConfig(config), NEW k \in Nat, NEW n \in Nat
    PROVE  AttemptsClimb(config, agent, k, n)
<1> DEFINE earlier == ResolveForAttempt(config, agent, k)
           now == ResolveForAttempt(config, agent, n)
           tier == AGENT_DEFAULT_TIERS(agent)
           low == Steps(config.routing, k)
           high == Steps(config.routing, n)
<1> SUFFICES ASSUME k <= n, earlier[1] = "slot", now[1] = "slot"
             PROVE  /\ earlier[2] <= now[2] /\ now[2] - earlier[2] <= n - k
                    /\ config.routing.most # Unset => now[2] - earlier[2] <= config.routing.most
                    /\ ~config.routing.escalate => earlier = now
    BY DEF AttemptsClimb
<1>1. earlier = <<"slot", Climbed(tier, low)>> /\ now = <<"slot", Climbed(tier, high)>>
    BY SlotIsReached
<1>2. tier \in 1..3
    BY DefaultTiers
<1>3. /\ low \in Nat /\ high \in Nat /\ low <= high /\ high - low <= n - k
      /\ config.routing.most # Unset => high <= config.routing.most
      /\ ~config.routing.escalate => low = high
    BY StepsGrow DEF IsConfig
<1>4. /\ Climbed(tier, low) \in 1..3 /\ Climbed(tier, low) <= Climbed(tier, high)
      /\ Climbed(tier, high) - Climbed(tier, low) <= high - low
    BY <1>2, <1>3, ClimbedIsMonotone
<1>5. Climbed(tier, high) \in 1..3
    BY <1>2, <1>3, ClimbedIsMonotone
<1>6. config.routing.most # Unset => config.routing.most \in Nat
    BY DEF IsConfig, IsRouting
<1> HIDE DEF tier, low, high
<1>7. earlier[2] = Climbed(tier, low) /\ now[2] = Climbed(tier, high)
    BY <1>1
<1> QED BY <1>1, <1>3, <1>4, <1>5, <1>6, <1>7

\* Without routing every attempt has the model of the profile.
THEOREM RoutingOffIsProfile ==
    ASSUME NEW config, NEW agent, NEW n, IsConfig(config)
    PROVE  RoutingOff(config, agent, n)
BY DEF RoutingOff, ResolveForAttempt, ResolveModel, IsConfig, IsRouting

-----------------------------------------------------------------------------
(* ProjectRoot, for paths of every length. *)

\* What lies above a directory of a path is a path with the same directories.
LEMMA AboveIsPath ==
    ASSUME NEW path, IsPath(path), NEW k \in 1..Len(path)
    PROVE  /\ Len(path) \in Nat /\ IsPath(Above(path, k))
           /\ Len(Above(path, k)) = Len(path) - k + 1
           /\ \A i \in 1..(Len(path) - k + 1) : Above(path, k)[i] = path[k + i - 1]
<1>1. path \in Seq(Folders) /\ Len(path) \in Nat
    BY DEF IsPath
<1>2. \A i \in k..Len(path) : path[i] \in Folders
    BY <1>1
<1>3. /\ Above(path, k) \in Seq(Folders)
      /\ Len(Above(path, k)) = IF k <= Len(path) THEN Len(path) - k + 1 ELSE 0
      /\ \A i \in 1..(Len(path) - k + 1) : Above(path, k)[i] = path[k + i - 1]
    BY <1>1, <1>2, SubSeqProperties DEF Above
<1>4. Len(Above(path, k)) >= 1
    BY <1>1, <1>3
<1> QED BY <1>1, <1>3, <1>4 DEF IsPath

\* The root is the start directory, or the nearest of its owners.
LEMMA RootIsNearestOwner ==
    ASSUME NEW path, IsPath(path), ~path[1].planning, Owners(path) # {}
    PROVE  /\ FindProjectRoot(path) \in Owners(path)
           /\ \A other \in Owners(path) : FindProjectRoot(path) <= other
<1> DEFINE Below == OpToRel(<, Nat)
<1>1. Owners(path) \subseteq Nat
    BY DEF Owners, IsPath
<1>2. \E owner \in Owners(path) : \A other \in Owners(path) : <<other, owner>> \notin Below
    <2>1. IsWellFoundedOn(Below, Nat)
        BY NatLessThanWellFounded, Zenon
    <2> HIDE DEF Below
    <2> QED BY <1>1, <2>1, WFMin
<1>3. ASSUME NEW m \in Nat, NEW n \in Nat, <<m, n>> \notin Below
      PROVE  n <= m
    BY <1>3 DEF OpToRel
<1>4. \E owner \in Owners(path) : \A other \in Owners(path) : owner <= other
    <2> HIDE DEF Below
    <2> QED BY <1>1, <1>2, <1>3
<1> QED BY <1>4 DEF FindProjectRoot

\* So it is a place on the path, and beyond the start directory it has a .planning.
LEMMA RootOnPath ==
    ASSUME NEW path, IsPath(path)
    PROVE  /\ FindProjectRoot(path) \in 1..Len(path)
           /\ FindProjectRoot(path) # 1 =>
                /\ FindProjectRoot(path) \in Owners(path)
                /\ path[FindProjectRoot(path)].planning
<1>1. Len(path) \in Nat /\ Len(path) >= 1
    BY DEF IsPath
<1>2. CASE path[1].planning \/ Owners(path) = {}
    BY <1>1, <1>2 DEF FindProjectRoot
<1>3. CASE ~path[1].planning /\ Owners(path) # {}
    <2>1. FindProjectRoot(path) \in Owners(path)
        BY <1>3, RootIsNearestOwner
    <2> QED BY <1>1, <2>1 DEF Owners, Owns
<1> QED BY <1>2, <1>3

\* An owner of a directory owns everything below it on the path as well.
LEMMA OwnsBelow ==
    ASSUME NEW path, IsPath(path), NEW k \in 1..Len(path), NEW c \in Owners(Above(path, k))
    PROVE  k - 1 + c \in Owners(path)
<1>1. /\ c \in 2..(Len(path) - k + 1) /\ Len(path) \in Nat
      /\ Above(path, k)[c] = path[k + c - 1]
    <2>1. /\ Len(path) \in Nat /\ Len(Above(path, k)) = Len(path) - k + 1
          /\ \A i \in 1..(Len(path) - k + 1) : Above(path, k)[i] = path[k + i - 1]
        BY AboveIsPath
    <2>2. c \in 2..(Len(path) - k + 1)
        BY <2>1 DEF Owners
    <2> QED BY <2>1, <2>2
<1>2. k - 1 + c \in 2..Len(path) /\ k - 1 + c = k + c - 1
    BY <1>1
<1>3. InsideGitRepo(Above(path, k), c) => InsideGitRepo(path, k - 1 + c)
    <2> SUFFICES ASSUME NEW i \in 1..c, Above(path, k)[i].git
                 PROVE  InsideGitRepo(path, k - 1 + c)
        BY DEF InsideGitRepo
    <2>1. i \in 1..(Len(path) - k + 1) /\ k + i - 1 \in 1..(k - 1 + c)
        BY <1>1
    <2>2. path[k + i - 1].git
        BY <2>1, AboveIsPath
    <2> QED BY <2>1, <2>2 DEF InsideGitRepo
<1> QED BY <1>1, <1>2, <1>3 DEF Owners, Owns

-----------------------------------------------------------------------------
\* A project's root is its own root (findProjectRoot returns a directory with a
\* .planning at once), so all commands that are led to it share its lock.
THEOREM RootsAreStable ==
    ASSUME NEW path, IsPath(path)
    PROVE  RootIsOwnRoot(path)
<1> DEFINE r == FindProjectRoot(path)
           above == Above(path, r)
<1>1. r \in 1..Len(path) /\ (r # 1 => path[r].planning)
    BY RootOnPath
<1>2. Len(path) \in Nat /\ Len(path) >= 1
    BY DEF IsPath
<1>3. above[1] = path[r]
    <2> HIDE DEF r
    <2>1. 1 \in 1..(Len(path) - r + 1)
        BY <1>1, <1>2
    <2>2. above[1] = path[r + 1 - 1]
        BY <1>1, <2>1, AboveIsPath
    <2> QED BY <1>1, <2>2
<1>4. CASE r # 1
    BY <1>1, <1>3, <1>4 DEF FindProjectRoot, RootIsOwnRoot
<1>5. CASE r = 1
    <2>1. above = path
        BY <1>5, SubSeqFull DEF Above, IsPath
    <2> QED BY <1>5, <2>1 DEF RootIsOwnRoot
<1> QED BY <1>4, <1>5

\* No command that is started below a directory owned by a project makes a planning
\* directory there: it is led to a project, that one or a nearer one.
THEOREM NothingIsPlannedInside ==
    ASSUME NEW path, IsPath(path), NEW k \in 1..Len(path)
    PROVE  NoPlanningInside(path, k)
<1> DEFINE above == Above(path, k)
           r == FindProjectRoot(above)
<1> SUFFICES ASSUME r > 1
             PROVE  path[FindProjectRoot(path)].planning /\ FindProjectRoot(path) <= k - 1 + r
    BY DEF NoPlanningInside
<1>1. IsPath(above)
    BY AboveIsPath
<1>2. r \in Owners(above) /\ r \in Nat
    BY <1>1, RootOnPath
<1>3. k - 1 + r \in Owners(path) /\ k - 1 + r >= 1
    BY <1>2, OwnsBelow
<1>4. CASE path[1].planning
    BY <1>3, <1>4 DEF FindProjectRoot
<1>5. CASE ~path[1].planning
    <2>1. FindProjectRoot(path) \in Owners(path) /\ FindProjectRoot(path) <= k - 1 + r
        BY <1>3, <1>5, RootIsNearestOwner
    <2> QED BY <2>1 DEF Owners, Owns
<1> QED BY <1>4, <1>5

\* A command that is started in a plain subdirectory is led where one that is started
\* in the directory above is led: they share files and lock.
THEOREM SubdirectoriesShareRoot ==
    ASSUME NEW path, IsPath(path), NEW k \in 1..Len(path)
    PROVE  SameRootBelow(path, k)
<1> DEFINE above == Above(path, k)
           r == FindProjectRoot(above)
<1> SUFFICES ASSUME \A i \in 1..k : ~path[i].planning, \A i \in 1..(k - 1) : ~path[i].git, r > 1
             PROVE  FindProjectRoot(path) = k - 1 + r
    BY DEF SameRootBelow
<1>1. /\ IsPath(above) /\ Len(path) \in Nat /\ Len(above) = Len(path) - k + 1
      /\ \A i \in 1..(Len(path) - k + 1) : above[i] = path[k + i - 1]
    BY AboveIsPath
<1>2. ~path[1].planning /\ ~above[1].planning
    <2>1. 1 \in 1..(Len(path) - k + 1) /\ k + 1 - 1 = k /\ k \in 1..k /\ 1 \in 1..k
        BY <1>1
    <2>2. above[1] = path[k]
        BY <1>1, <2>1
    <2> QED BY <2>1, <2>2
<1>3. r \in Owners(above) /\ r \in Nat
    BY <1>1, RootOnPath
<1>4. k - 1 + r \in Owners(path)
    BY <1>3, OwnsBelow
<1>5. ASSUME NEW o \in Owners(path)
      PROVE  o - k + 1 \in Owners(above)
    <2>1. o \in 2..Len(path) /\ path[o].planning /\ (path[o].lists \/ InsideGitRepo(path, o))
        BY DEF Owners, Owns
    <2>2. o > k
        BY <1>1, <2>1
    <2>3. o - k + 1 \in 2..Len(above) /\ o - k + 1 \in 1..(Len(path) - k + 1) /\ k + (o - k + 1) - 1 = o
        BY <1>1, <2>1, <2>2
    <2>4. above[o - k + 1] = path[o]
        BY <1>1, <2>3
    <2>5. ASSUME NEW i \in 1..o, path[i].git
          PROVE  InsideGitRepo(above, o - k + 1)
        <3>1. i >= k
            BY <2>1, <2>5
        <3>2. /\ i - k + 1 \in 1..(o - k + 1) /\ i - k + 1 \in 1..(Len(path) - k + 1)
              /\ k + (i - k + 1) - 1 = i
            BY <1>1, <2>1, <2>2, <3>1
        <3>3. above[i - k + 1] = path[i]
            BY <1>1, <3>2
        <3> QED BY <2>5, <3>2, <3>3 DEF InsideGitRepo
    <2>6. InsideGitRepo(path, o) => InsideGitRepo(above, o - k + 1)
        BY <2>5 DEF InsideGitRepo
    <2> QED BY <2>1, <2>3, <2>4, <2>6 DEF Owners, Owns
<1>6. FindProjectRoot(path) \in Owners(path) /\ FindProjectRoot(path) <= k - 1 + r
    BY <1>2, <1>4, RootIsNearestOwner
<1>7. r <= FindProjectRoot(path) - k + 1
    BY <1>1, <1>2, <1>5, <1>6, RootIsNearestOwner
<1>8. FindProjectRoot(path) \in Nat
    BY <1>1, <1>6 DEF Owners
<1>9. k \in Nat
    BY <1>1
<1>10. \A f, m, n \in Nat : f <= n - 1 + m /\ m <= f - n + 1 => f = n - 1 + m
    OBVIOUS
<1> QED BY <1>3, <1>6, <1>7, <1>8, <1>9, <1>10

\* main() reads the workstream pointer before it searches the root: led to a root from
\* below, a command works in the flat layout whatever workstream is active there.
THEOREM PointerIsReadBeforeTheSearch ==
    ASSUME NEW start, IsPath(start.path), start.main = <<>> \/ IsPath(start.main)
    PROVE  PointerOfStart(start)
<1> DEFINE path == ResolveWorktreeRoot(start)
<1>1. IsPath(path)
    BY DEF ResolveWorktreeRoot
<1>2. 1 \in DOMAIN path
    BY <1>1 DEF IsPath
<1>3. PlanningDir(start, NoWorkstream).root # 1 => ~path[1].planning
    BY DEF PlanningDir, FindProjectRoot
<1> QED BY <1>2, <1>3 DEF PointerOfStart, PlanningDir, ActiveWorkstream

-----------------------------------------------------------------------------
(* KnowledgeGraph, for every graph and estimate of tokens. *)

\* What a query hands over: its edges are places in the sequence.
IsResult(graph, result) ==
    /\ result = [nodes |-> result.nodes, edges |-> result.edges, seeds |-> result.seeds]
    /\ result.edges \subseteq DOMAIN graph.edges
Estimated(graph, result) ==
    \A t \in 0..3 : EstimateTokens(result.nodes, Without(graph, result.edges, t)) \in Nat

\* Every node that was visited matched or is the end of an edge that was collected.
Led(graph, seeds, found) ==
    \A n \in found.visited : n \in seeds \/ \E i \in found.edges : n \in Ends(graph.edges[i])

-----------------------------------------------------------------------------
\* As many tiers are given up as it takes, at most all.
LEMMA TiersChosen ==
    ASSUME NEW graph, NEW result, NEW budget \in Nat, Estimated(graph, result)
    PROVE  LET k == TiersDropped(graph, result, budget)
           IN  /\ k \in 0..3
               /\ k = 3 \/ EstimateTokens(result.nodes, Without(graph, result.edges, k)) <= budget
               /\ \A less \in 0..(k - 1) :
                    EstimateTokens(result.nodes, Without(graph, result.edges, less)) > budget
<1> DEFINE Cost(t) == EstimateTokens(result.nodes, Without(graph, result.edges, t))
           Right(t) == /\ t = 3 \/ Cost(t) <= budget
                       /\ \A less \in 0..(t - 1) : Cost(less) > budget
<1>1. \A t \in 0..3 : Cost(t) \in Nat
  BY DEF Estimated
<1> HIDE DEF Cost
<1>2. \E t \in 0..3 : Right(t)
  <2>1. CASE Cost(0) <= budget
    <3>1. Right(0)
      BY <2>1
    <3> QED  BY <3>1
  <2>2. CASE Cost(0) > budget /\ Cost(1) <= budget
    <3>1. Right(1)
      BY <2>2
    <3> QED  BY <3>1
  <2>3. CASE Cost(0) > budget /\ Cost(1) > budget /\ Cost(2) <= budget
    <3>1. \A less \in 0..(2 - 1) : less = 0 \/ less = 1
      OBVIOUS
    <3>2. Right(2)
      BY <2>3, <3>1
    <3> QED  BY <3>2
  <2>4. CASE Cost(0) > budget /\ Cost(1) > budget /\ Cost(2) > budget
    <3>1. \A less \in 0..(3 - 1) : less = 0 \/ less = 1 \/ less = 2
      OBVIOUS
    <3>2. Right(3)
      BY <2>4, <3>1
    <3> QED  BY <3>2
  <2> QED
    BY <1>1, <2>1, <2>2, <2>3, <2>4
<1>3. TiersDropped(graph, result, budget) = CHOOSE t \in 0..3 : Right(t)
  BY DEF TiersDropped, Cost
<1> DEFINE k == TiersDropped(graph, result, budget)
<1>4. k \in 0..3 /\ Right(k)
  <2> HIDE DEF Right
  <2> QED  BY <1>2, <1>3
<1> QED
  BY <1>4 DEF Cost

\* A result that is cut down keeps its matches, keeps both ends of every edge it keeps,
\* and gives up an edge only with all the edges of the weaker tiers (applyBudget).
THEOREM CutsAreClosed ==
    ASSUME NEW graph, NEW result, NEW budget \in Nat,
           IsResult(graph, result), Estimated(graph, result)
    PROVE  CutIsClosed(graph, result, budget)
<1> DEFINE cut == ApplyBudget(graph, result, budget)
            k == TiersDropped(graph, result, budget)
            left == Without(graph, result.edges, k)
            reachable == UNION {Ends(graph.edges[i]) : i \in left}
<1>1. CASE budget = 0
  BY <1>1 DEF CutIsClosed, ApplyBudget
<1>2. CASE budget # 0
  <2>1. /\ cut.nodes = result.nodes \cap (reachable \cup result.seeds)
        /\ cut.edges = left
    BY <1>2 DEF ApplyBudget
  <2>2. k \in 0..3
    BY TiersChosen
  <2>3. \A i \in left : Ends(graph.edges[i]) \subseteq reachable
    OBVIOUS
  <2>4. ASSUME NEW i \in result.edges \ left, NEW j \in left
        PROVE  /\ graph.edges[j].confidence # "AMBIGUOUS"
               /\ graph.edges[i].confidence = "EXTRACTED" => graph.edges[j].confidence # "INFERRED"
    <3>1. PICK u \in 1..k : graph.edges[i].confidence = ConfidenceOrder[u]
      BY DEF Without
    <3>2. \A t \in 1..k : graph.edges[j].confidence # ConfidenceOrder[t]
      BY DEF Without
    <3>3. 1 \in 1..k
      BY <2>2, <3>1
    <3>4. graph.edges[i].confidence = "EXTRACTED" => 2 \in 1..k
      BY <2>2, <3>1 DEF ConfidenceOrder
    <3> QED  BY <3>2, <3>3, <3>4 DEF ConfidenceOrder
  <2> QED
    BY <2>1, <2>3, <2>4 DEF CutIsClosed
<1> QED
  BY <1>1, <1>2

\* What exceeds the budget after cutting down has given up all it could.
THEOREM CutsAreSpent ==
    ASSUME NEW graph, NEW result, NEW budget \in Nat,
           IsResult(graph, result), Estimated(graph, result)
    PROVE  CutIsSpent(graph, result, budget)
<1> DEFINE k == TiersDropped(graph, result, budget)
            left == Without(graph, result.edges, k)
<1>1. SUFFICES ASSUME budget # 0, EstimateTokens(result.nodes, left) > budget,
                      NEW i \in left, NEW t \in 1..3
               PROVE  graph.edges[i].confidence # ConfidenceOrder[t]
  BY DEF CutIsSpent, ApplyBudget
<1>2. k \in 0..3 /\ (k = 3 \/ EstimateTokens(result.nodes, left) <= budget)
  BY TiersChosen
<1>3. EstimateTokens(result.nodes, left) \in Nat
  BY <1>2 DEF Estimated
<1>4. k = 3
  BY <1>1, <1>2, <1>3
<1> QED
  BY <1>4 DEF Without
-----------------------------------------------------------------------------
\* Of the places in a sequence that some set has, one comes first.
LEMMA FirstPlace ==
    ASSUME NEW S \in SUBSET Nat, S # {}
    PROVE  \E i \in S : \A j \in S : ~(j < i)
<1> DEFINE Below == OpToRel(<, Nat)
<1>1. IsWellFoundedOn(Below, Nat)
    BY NatLessThanWellFounded, Zenon
<1>2. \E i \in S : \A j \in S : <<j, i>> \notin Below
    <2> HIDE DEF Below
    <2> QED BY <1>1, WFMin
<1>3. ASSUME NEW i \in Nat, NEW j \in Nat, <<j, i>> \notin Below
      PROVE  ~(j < i)
    BY <1>3 DEF OpToRel
<1> HIDE DEF Below
<1> QED BY <1>2, <1>3

\* A hop of the breadth-first search collects an edge for every node that it reaches,
\* though it drops the edges it has seen with the same ends and label (seedAndExpand).
THEOREM EveryHopLeads ==
    ASSUME NEW graph, NEW seeds, NEW found, NEW Edge, graph.edges \in Seq(Edge),
           found.edges \subseteq DOMAIN graph.edges, found.frontier \subseteq found.visited,
           Led(graph, seeds, found)
    PROVE  /\ Led(graph, seeds, Hop(graph, found))
           /\ Hop(graph, found).edges \subseteq DOMAIN graph.edges
           /\ Hop(graph, found).frontier \subseteq Hop(graph, found).visited
<1> DEFINE touched == Touching(graph, found.frontier)
           Same(i, j) == KeyOfQuery(graph.edges[j]) = KeyOfQuery(graph.edges[i])
           repeated == {i \in touched : \E j \in found.edges \cup touched :
                            (j \in found.edges \/ j < i) /\ Same(i, j)}
           reached == (UNION {Ends(graph.edges[i]) : i \in touched}) \ found.visited
<1>1. /\ Hop(graph, found).visited = found.visited \cup reached
      /\ Hop(graph, found).frontier = reached
      /\ Hop(graph, found).edges = found.edges \cup (touched \ repeated)
    BY DEF Hop
<1>2. touched \subseteq DOMAIN graph.edges /\ DOMAIN graph.edges \subseteq Nat
    BY DEF Touching
<1>3. ASSUME NEW i \in touched
      PROVE  \E j \in found.edges \cup (touched \ repeated) : Same(i, j)
    <2> DEFINE alike == {j \in touched : Same(i, j)}
    <2>1. PICK first \in alike : \A j \in alike : ~(j < first)
        <3>1. i \in alike /\ alike \in SUBSET Nat
            BY <1>2
        <3> QED BY <3>1, FirstPlace
    <2>2. CASE first \notin repeated
        BY <2>1, <2>2
    <2>3. CASE first \in repeated
        <3>1. PICK j \in found.edges \cup touched :
                  (j \in found.edges \/ j < first) /\ Same(first, j)
            BY <2>3
        <3>2. Same(i, j)
            BY <2>1, <3>1
        <3>3. CASE j \in found.edges
            BY <3>2, <3>3
        <3>4. CASE j \notin found.edges
            <4>1. j \in alike /\ j < first
                BY <3>1, <3>2, <3>4
            <4> QED BY <2>1, <4>1
        <3> QED BY <3>3, <3>4
    <2> QED BY <2>2, <2>3
<1>4. ASSUME NEW i, NEW j, Same(i, j)
      PROVE  Ends(graph.edges[i]) = Ends(graph.edges[j])
    BY <1>4 DEF KeyOfQuery, Ends
<1>5. ASSUME NEW n \in reached
      PROVE  \E j \in found.edges \cup (touched \ repeated) : n \in Ends(graph.edges[j])
    <2>1. PICK i \in touched : n \in Ends(graph.edges[i])
        OBVIOUS
    <2>2. PICK j \in found.edges \cup (touched \ repeated) : Same(i, j)
        BY <1>3
    <2> HIDE DEF Same, touched, repeated
    <2> QED BY <1>4, <2>1, <2>2
<1> HIDE DEF touched, repeated, reached
<1>6. Led(graph, seeds, Hop(graph, found))
    BY <1>1, <1>5 DEF Led
<1> QED BY <1>1, <1>2, <1>6

\* Where every node has such an edge, a budget that is not exceeded takes nothing away.
THEOREM FittingResultsAreKept ==
    ASSUME NEW graph, NEW seeds, NEW found, NEW budget \in Nat,
           Led(graph, seeds, found), found.edges \subseteq DOMAIN graph.edges,
           NEW result, result = [nodes |-> found.visited \cap DOMAIN graph.nodes,
                                 edges |-> found.edges, seeds |-> seeds],
           Estimated(graph, result),
           EstimateTokens(result.nodes, result.edges) <= budget
    PROVE  ApplyBudget(graph, result, budget) = result
<1> DEFINE k == TiersDropped(graph, result, budget)
<1>1. Without(graph, result.edges, 0) = result.edges
    BY DEF Without
<1>2. EstimateTokens(result.nodes, result.edges) \in Nat
    BY <1>1 DEF Estimated
<1>3. k = 0
    <2>1. k \in 0..3 /\ \A less \in 0..(k - 1) :
              EstimateTokens(result.nodes, Without(graph, result.edges, less)) > budget
        BY TiersChosen
    <2> HIDE DEF k
    <2>2. ASSUME 0 \in 0..(k - 1)
          PROVE  FALSE
        <3> DEFINE cost == EstimateTokens(result.nodes, result.edges)
        <3>1. EstimateTokens(result.nodes, Without(graph, result.edges, 0)) > budget
            BY <2>1, <2>2
        <3>2. cost > budget
            BY <1>1, <3>1, Zenon
        <3>3. cost \in Nat /\ cost <= budget
            BY <1>2
        <3> HIDE DEF cost
        <3> QED BY <3>2, <3>3
    <2> QED BY <2>1, <2>2
<1>4. result.nodes \cap ((UNION {Ends(graph.edges[i]) : i \in result.edges}) \cup result.seeds) = result.nodes
    BY DEF Led
<1>5. result = [nodes |-> result.nodes, edges |-> result.edges, seeds |-> result.seeds]
    OBVIOUS
<1> QED BY <1>1, <1>3, <1>4, <1>5 DEF ApplyBudget

\* Differences are taken in both directions alike, and there are none to what has just
\* been stored (graphifyDiff, writeSnapshot).
THEOREM DiffsAreExact ==
    ASSUME NEW graph, NEW other
    PROVE  DiffIsExact(graph, other)
<1>1. \A f, g : /\ DiffOf(f, g).added = DiffOf(g, f).removed
                /\ DiffOf(f, g).changed = DiffOf(g, f).changed
    BY DEF DiffOf
<1>2. \A f : DiffOf(f, f).added \cup DiffOf(f, f).removed \cup DiffOf(f, f).changed = {}
    BY DEF DiffOf
<1>3. ASSUME NEW g, NEW h
      PROVE  /\ GraphifyDiff(g, WriteSnapshot(h)).nodes = DiffOf(g.nodes, h.nodes)
             /\ GraphifyDiff(g, WriteSnapshot(h)).edges = DiffOf(EdgeMap(g.edges), EdgeMap(h.edges))
    BY DEF GraphifyDiff, WriteSnapshot
<1> QED BY <1>1, <1>2, <1>3 DEF DiffIsExact

=============================================================================
