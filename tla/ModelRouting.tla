---------------------------- MODULE ModelRouting ----------------------------
(***************************************************************************)
(* Which model an agent is started with, and with how much reasoning: a    *)
(* function of the agent, the configuration and the number of attempts     *)
(* that have failed.  Three functions of core.cjs answer that, each from   *)
(* its own reading of the configuration.                                   *)
(*                                                                         *)
(* A model is a pair: a tier of a runtime, an alias of Claude's, a slot of *)
(* the dynamic routing, the user's own identifier, or nothing.             *)
(***************************************************************************)
EXTENDS Integers

CONSTANT Unset              \* a key that the configuration does not have

Tiers == {"haiku", "sonnet", "opus"}
Runtimes == {"claude", "codex", "gemini", "qwen", "opencode", "copilot", "hermes"}

Own == <<"own", "model">>           \* the identifier in model_overrides
Inherit == <<"inherit", "">>
Empty == <<"", "">>                 \* the runtime's configured default

ASSUME UnsetAssumption ==
    /\ Unset \notin Runtimes /\ Unset \notin Nat
    /\ \A runtime \in Runtimes, tier \in Tiers : <<runtime, tier>> # Unset

-----------------------------------------------------------------------------
(* The tables of model-profiles.cjs; the names of the agents without `gsd-`. *)

Row(quality, balanced, budget, adaptive) ==
    [quality |-> quality, balanced |-> balanced, budget |-> budget, adaptive |-> adaptive]
MODEL_PROFILES(agent) ==
    CASE agent = "planner" -> Row("opus", "opus", "sonnet", "opus")
      [] agent \in {"roadmapper", "executor"} -> Row("opus", "sonnet", "sonnet", "sonnet")
      [] agent = "debugger" -> Row("opus", "sonnet", "sonnet", "opus")
      [] agent \in {"phase-researcher", "project-researcher", "ui-researcher", "doc-writer"} ->
            Row("opus", "sonnet", "haiku", "sonnet")
      [] agent = "codebase-mapper" -> Row("sonnet", "haiku", "haiku", "haiku")
      [] agent = "verifier" -> Row("sonnet", "sonnet", "haiku", "sonnet")
      [] OTHER -> Row("sonnet", "sonnet", "haiku", "haiku")

AGENT_TO_PHASE_TYPE ==
    [planning |-> {"planner", "roadmapper", "pattern-mapper"},
     research |-> {"phase-researcher", "project-researcher", "research-synthesizer",
                   "codebase-mapper", "ui-researcher"},
     execution |-> {"executor", "debugger", "doc-writer"},
     verification |-> {"verifier", "plan-checker", "integration-checker", "nyquist-auditor",
                       "ui-checker", "ui-auditor", "doc-verifier"}]
Agents == UNION {AGENT_TO_PHASE_TYPE[type] : type \in DOMAIN AGENT_TO_PHASE_TYPE}

\* light, standard and heavy are 1, 2 and 3.
AGENT_DEFAULT_TIERS(agent) ==
    CASE agent \in {"planner", "roadmapper", "debugger"} -> 3
      [] agent \in {"executor", "phase-researcher", "project-researcher", "verifier",
                    "doc-writer", "ui-researcher"} -> 2
      [] OTHER -> 1

-----------------------------------------------------------------------------
\* What a runtime calls a tier, if it is a known one; only codex has efforts.
Builtin(runtime, tier) ==
    IF runtime \notin Runtimes THEN [model |-> Unset, effort |-> Unset]
    ELSE [model |-> <<runtime, tier>>,
          effort |-> IF runtime # "codex" THEN Unset ELSE IF tier = "opus" THEN "xhigh" ELSE "medium"]

\* The user's fields win, the built-in ones fill the gaps.
TierEntry(config, tier) ==
    LET builtin == Builtin(config.runtime, tier)
        user == IF tier = config.tuned.tier THEN config.tuned ELSE [model |-> Unset, effort |-> Unset]
        Merged(field) == IF user[field] # Unset THEN user[field] ELSE builtin[field]
    IN  [model |-> Merged("model"), effort |-> Merged("effort")]

\* The slot of the agent's phase type, or else the profile; an unknown profile is
\* `balanced`, an unknown agent has no tier.
ProfileTier(config, agent) ==
    CASE config.profile = "inherit" -> "inherit"
      [] config.profile # "inherit" /\ agent \notin Agents -> Unset
      [] config.profile \in DOMAIN Row("", "", "", "") /\ agent \in Agents ->
            MODEL_PROFILES(agent)[config.profile]
      [] OTHER -> MODEL_PROFILES(agent)["balanced"]
Slot(config, agent) == IF agent \in Agents THEN config.slot ELSE Unset
TierFor(config, agent) ==
    IF Slot(config, agent) \in Tiers \cup {"inherit"} THEN Slot(config, agent)
    ELSE ProfileTier(config, agent)

\* resolveModelInternal
ResolveModel(config, agent) ==
    LET tier == TierFor(config, agent)
        native == config.runtime \notin {Unset, "claude"} /\ tier \in Tiers
                    /\ TierEntry(config, tier).model # Unset
    IN  IF config.own THEN Own
        ELSE IF native THEN TierEntry(config, tier).model
        ELSE IF config.ids = "omit" THEN Empty
        ELSE IF agent \notin Agents THEN <<"alias", "sonnet">>
        ELSE IF tier = "inherit" THEN Inherit
        ELSE <<IF config.ids = "true" THEN "claude" ELSE "alias", tier>>

\* resolveReasoningEffortInternal
ResolveEffort(config, agent) ==
    LET tier == TierFor(config, agent)
    IN  IF config.runtime # "codex" \/ config.own \/ agent \notin Agents \/ tier \notin Tiers THEN Unset
        ELSE TierEntry(config, tier).effort

\* How many steps up an attempt takes; a maximum that is no number counts as 1.
Steps(routing, attempt) ==
    LET most == IF routing.most = Unset THEN 1 ELSE routing.most
    IN  IF ~routing.escalate THEN 0 ELSE IF attempt < most THEN attempt ELSE most

\* nextTier, so many times: nothing is above heavy.
Climbed(tier, steps) == IF tier + steps < 3 THEN tier + steps ELSE 3

\* resolveModelForTier
ResolveForAttempt(config, agent, attempt) ==
    LET tier == Climbed(AGENT_DEFAULT_TIERS(agent), Steps(config.routing, attempt))
    IN  IF config.own THEN Own
        ELSE IF config.routing.enabled /\ agent \in Agents /\ tier \in config.routing.slots
        THEN <<"slot", tier>>
        ELSE ResolveModel(config, agent)

-----------------------------------------------------------------------------
(* Properties, for one configuration; the theorems are in PlanningLookupProofs. *)

\* An effort is only given with the model of the same tier of the same runtime,
\* however the tier was chosen.
EffortFits(config, agent) ==
    ResolveEffort(config, agent) # Unset =>
        \E tier \in Tiers :
            TierEntry(config, tier) = [model |-> ResolveModel(config, agent),
                                       effort |-> ResolveEffort(config, agent)]

\* Of two attempts that are routed, the later one has a tier that is not below the
\* earlier one's, and no more steps above it than lie between them or than the
\* maximum; with escalation switched off it has the same.
AttemptsClimb(config, agent, k, n) ==
    LET earlier == ResolveForAttempt(config, agent, k)
        now == ResolveForAttempt(config, agent, n)
        Routed(model) == model[1] = "slot"
    IN  k <= n /\ Routed(earlier) /\ Routed(now) =>
            /\ earlier[2] <= now[2] /\ now[2] - earlier[2] <= n - k
            /\ config.routing.most # Unset => now[2] - earlier[2] <= config.routing.most
            /\ ~config.routing.escalate => earlier = now

\* Routing that is switched off changes nothing.
RoutingOff(config, agent, n) ==
    ~config.routing.enabled => ResolveForAttempt(config, agent, n) = ResolveModel(config, agent)
=============================================================================
