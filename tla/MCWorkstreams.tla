---------------------------- MODULE MCWorkstreams ----------------------------
(* Instances of Workstreams for TLC. *)
EXTENDS PlanningViews, ModelRouting, ProjectRoot

CONSTANTS p1, p2, p3, flat, n1, n2, n3, n4, n5, main, alpha, r1, r2, r3

Planned(n, name, dep, req, ticked, plans, done) ==
    [id |-> <<n, 0>>, name |-> name, dep |-> dep, reqs |-> {req}, listed |-> TRUE, box |-> <<n, 0>>,
     ticked |-> ticked, tally |-> [plans |-> plans, done |-> done], waves |-> FALSE]
Holding(n, name, plans, done) == [Directory(<<n, 0>>, name) EXCEPT !.plans = plans, !.done = done]

\* Phase 1 is executed but not completed, phase 2 is planned and depends on it.
Pair ==
    [road |-> << Planned(1, n1, None, r1, FALSE, 1, 0), Planned(2, n2, <<1, 0>>, r2, FALSE, 1, 0) >>,
     dirs |-> {Holding(1, n1, 1, 1), Holding(2, n2, 1, 0)},
     reqs |-> {}, state |-> [phase |-> <<1, 0>>, refs |-> {}, closed |-> FALSE],
     config |-> Config(Defaults)]
\* STATE.md is lost, config.json is not JSON.
Damaged == [Pair EXCEPT !.state = None, !.config = Corrupt, !.road[1].ticked = TRUE]
\* config.json lacks the keys that health looks for.
Bare == [Pair EXCEPT !.config = Config({"subagent_timeout"})]
\* A third phase, to be removed from under.
Triple ==
    [Pair EXCEPT !.road = @ \o <<Planned(3, n3, <<2, 0>>, r3, FALSE, 0, 0)>>,
                 !.dirs = @ \cup {Holding(3, n3, 0, 0)}]

From(at, tree_, dead, own) == [at |-> at, tree |-> tree_, dead |-> dead, own |-> own]
\* Flat after a dead process left its lock, flat and damaged, and a workstream; with
\* the pointer shared, or a session's own.
MCStarts ==
    {From(flat, Pair, p3, {}), From(flat, Damaged, None, {p1}), From(main, Bare, None, {p1})}
RemovalStarts == {From(flat, Triple, None, {})}

Cmd(op) == [op |-> op, ws |-> None]
Adding(names) == [op |-> "add", ws |-> None, names |-> names]
AddingOn(ws, names) == [op |-> "add", ws |-> ws, names |-> names]
Inserting(n, name) == [op |-> "insert", ws |-> None, base |-> <<n, 0>>, names |-> <<name>>]
Removing(n, force) == [op |-> "remove", ws |-> None, id |-> <<n, 0>>, force |-> force]
OnPhase(op, n) == [op |-> op, ws |-> None, id |-> <<n, 0>>]
Marking(req) == [op |-> "mark", ws |-> None, req |-> req]
Setting(key) == [op |-> "set", ws |-> None, key |-> key]
Creating(name, into) == [op |-> "ws-create", ws |-> None, name |-> name, into |-> into]
OnWorkstream(op, name) == [op |-> op, ws |-> None, name |-> name]

Everything ==
    {Adding(<<n3, n4>>), Inserting(1, n3), Removing(1, TRUE), Removing(2, FALSE), OnPhase("complete", 1),
     OnPhase("complete", 2), OnPhase("annotate", 2), Marking(r2), Cmd("milestone"), Cmd("clear"),
     Setting("use_worktrees"), Cmd("ensure"), Cmd("repair"), Creating(alpha, main),
     OnWorkstream("ws-complete", main), OnWorkstream("ws-set", alpha), OnWorkstream("ws-clear", alpha)}
\* The same with other names and values, less what meets itself as it meets the rest.
Likewise ==
    {Adding(<<n5>>), Inserting(1, n5), Removing(1, TRUE), OnPhase("complete", 1),
     OnPhase("progress", 1), Marking(r1), Cmd("milestone"), Setting("subagent_timeout"),
     Cmd("ensure"), Cmd("repair"), Creating(main, alpha), OnWorkstream("ws-complete", main),
     AddingOn(alpha, <<n5>>), OnWorkstream("ws-set", main), OnWorkstream("ws-clear", main)}

MCMenu == p1 :> Everything @@ p2 :> Likewise @@ p3 :> {}
RemovalMenu == p1 :> {Removing(1, TRUE)} @@ p2 :> {Adding(<<n5>>)}

(* The functions of model routing are evaluated once, over small configurations. *)

Tunings == [tier : Tiers, model : {Unset, Own}, effort : {Unset, "high"}]
Routings == [enabled : BOOLEAN, escalate : BOOLEAN, most : {Unset, 0, 1, 2},
             slots : {{}, {2}, {1, 3}, {1, 2, 3}}]
Unrouted == [enabled |-> FALSE, escalate |-> TRUE, most |-> Unset, slots |-> {}]
Configured(tunings, routings) ==
    [own : BOOLEAN, profile : {"quality", "inherit", "misspelt"},
     slot : {"opus", "inherit", "misspelt", Unset}, runtime : {"claude", "codex", "misspelt", Unset},
     tuned : tunings, ids : {"omit", "true", "false"}, routing : routings]
MCAgents == {"planner", "executor", "verifier", "codebase-mapper", "unknown"}

ASSUME RoutingChecked ==
    \A agent \in MCAgents :
        /\ \A config \in Configured(Tunings, {Unrouted}) : EffortFits(config, agent)
        /\ \A config \in Configured({[tier |-> "opus", model |-> Own, effort |-> Unset]}, Routings),
             n \in 0..3 :
              /\ RoutingOff(config, agent, n)
              /\ \A k \in 0..n : AttemptsClimb(config, agent, k, n)
(* So is the search of the project's root, over short paths. *)

Paths == UNION {[1..n -> {dir \in [planning : BOOLEAN, git : BOOLEAN, lists : BOOLEAN, active : {"", "alpha"}] :
                              dir.active # "" \/ dir.lists => dir.planning}] : n \in 1..4}
ASSUME RootChecked ==
    \A path \in Paths :
        /\ RootIsOwnRoot(path)
        /\ PointerOfStart([path |-> path, main |-> <<>>])
        /\ \A k \in DOMAIN path : NoPlanningInside(path, k) /\ SameRootBelow(path, k)
=============================================================================
