--------------------------- MODULE PlanningViews ---------------------------
(***************************************************************************)
(* What the commands that change nothing answer, from the files as they    *)
(* find them: which directory work on a phase starts in, how far a phase,  *)
(* a workstream and the milestone are, which settings are in force.  The   *)
(* agents act on these answers, and each command computes its own.         *)
(*                                                                         *)
(* A VERIFICATION.md that says `passed` is a parameter (verified, a set of *)
(* phases), as the times of the files are in PlanningTree.  A summary      *)
(* belongs to one of the plans of its directory.                           *)
(***************************************************************************)
EXTENDS Workstreams

-----------------------------------------------------------------------------
(* Which directory a phase number leads to. *)

\* A heading of ROADMAP.md names the phase (getRoadmapPhaseInternal).
Listed(at, id) == tree[at].road # None /\ SectionOf(tree[at].road, id) # 0

Open(d) == d.plans - d.done
Inventory(d) == [dir |-> d, plans |-> d.plans, open |-> Open(d), notes |-> d.notes]
\* A phase of the roadmap that has no directory yet.
Undrawn == [dir |-> None, plans |-> 0, open |-> 0, notes |-> FALSE]

\* An archived directory counts only if the roadmap does not name the phase: it
\* may be an earlier milestone's with the same number.
Located(at, id) ==
    IF Listed(at, id) /\ id \notin DirIds(tree[at].dirs) THEN {Undrawn}
    ELSE {Inventory(d) : d \in Findable(at, id)}

Wanted(at, id) == IF Listed(at, id) THEN RequirementsOf(tree[at].road, id) ELSE {}

\* init execute-phase, plan-phase, verify-work and phase-op; {} is "not found".
ForExecution(at, id) ==
    {[dir |-> x.dir, plans |-> x.plans, open |-> x.open, reqs |-> Wanted(at, id)] : x \in Located(at, id)}
ForPlanning(at, id) ==
    {[dir |-> x.dir, plans |-> x.plans, notes |-> x.notes, reqs |-> Wanted(at, id)] : x \in Located(at, id)}
ForVerification(at, id) == {[dir |-> x.dir] : x \in Located(at, id)}
\* Mutant of ForDiscussion: an archived directory always counts.
ForDiscussionArchived(at, id) ==
    {[dir |-> d, plans |-> d.plans, notes |-> d.notes] : d \in Findable(at, id)}
ForDiscussion(at, id) ==
    {[dir |-> x.dir, plans |-> x.plans, notes |-> x.notes] : x \in Located(at, id)}

\* find-phase: only .planning has an archive of its own.
FindPhase(at, id) ==
    IF at = Flat \/ id \in DirIds(tree[at].dirs) THEN Findable(at, id) ELSE {}

\* phase-plan-index: the directories only.
PlanIndex(at, id) ==
    {[plans |-> d.plans, open |-> Open(d)] : d \in {DirOf(tree[at].dirs, id)} \ {None}}

\* verify phase-completeness: archived directories as well.
Completeness(at, id) == {[dir |-> d, complete |-> Open(d) = 0] : d \in Findable(at, id)}

\* phases list --type plans: how many there are; the listing with the archive fails
\* as soon as there is one, its entries are no directories of phases/.
PlansListed(at, archived) ==
    IF archived /\ \E v \in Places : shelf.dirs[v] # {} THEN None
    ELSE MapThenSumSet(LAMBDA d : d.plans, tree[at].dirs)

\* phase next-decimal.
OfferedDecimal(at, id) ==
    [found |-> id \in DirIds(tree[at].dirs), next |-> NextDecimal(tree[at].road, tree[at].dirs, id)]

-----------------------------------------------------------------------------
(* How far the work is. *)

\* Math.round(part / whole * 100)
Percentage(part, whole) == (200 * part + whole) \div (2 * whole)

\* determinePhaseStatus
StatusOf(d, verified, pending) ==
    CASE d.plans = 0 -> pending
      [] d.plans > 0 /\ d.done < d.plans /\ d.done > 0 -> "In Progress"
      [] d.plans > 0 /\ d.done < d.plans /\ d.done = 0 -> "Planned"
      [] d.plans > 0 /\ d.done >= d.plans -> IF d.id \in verified THEN "Complete" ELSE "Executed"

PlansIn(dirs) == MapThenSumSet(LAMBDA d : d.plans, dirs)
DoneIn(dirs) == MapThenSumSet(LAMBDA d : d.done, dirs)
Capped(part, whole) == IF whole = 0 THEN 0 ELSE Min({100, Percentage(part, whole)})

\* progress: all directories, whatever the roadmap says.
Progress(at) ==
    LET dirs == tree[at].dirs
    IN  [plans |-> PlansIn(dirs), done |-> DoneIn(dirs), percent |-> Capped(DoneIn(dirs), PlansIn(dirs))]

\* stats: the sections of the roadmap and the milestone's directories, by number.
Stats(at, verified) ==
    LET ids == RoadIds(tree[at].road)
        dirs == {d \in tree[at].dirs : InMilestone(ids, d)}
        complete == {d.id : d \in {e \in dirs : StatusOf(e, verified, "Not Started") = "Complete"}}
    IN  [plans |-> PlansIn(dirs), done |-> DoneIn(dirs), planPercent |-> Capped(DoneIn(dirs), PlansIn(dirs)),
         complete |-> complete, total |-> Cardinality(ids \cup DirIds(dirs)),
         percent |-> Capped(Cardinality(complete), Cardinality(ids \cup DirIds(dirs)))]

Executed(d) == d.plans > 0 /\ d.done >= d.plans

\* workstream list, status and progress.
ListedWorkstream(at) ==
    [phases |-> Cardinality(tree[at].dirs), complete |-> Cardinality({d \in tree[at].dirs : Executed(d)})]
WorkstreamStatus(at) ==
    [d \in tree[at].dirs |-> IF Executed(d) THEN "complete" ELSE IF d.plans > 0 THEN "in_progress" ELSE "pending"]
WorkstreamProgress(at) ==
    LET dirs == tree[at].dirs
        complete == Cardinality({d \in dirs : Executed(d)})
        phases == IF RoadIds(tree[at].road) = {} THEN Cardinality(dirs) ELSE Len(tree[at].road)
    IN  [complete |-> complete, phases |-> phases, plans |-> PlansIn(dirs),
         done |-> MapThenSumSet(LAMBDA d : Min({d.done, d.plans}), dirs),
         percent |-> IF phases = 0 THEN 0 ELSE Percentage(complete, phases)]

\* Mutant of MilestoneOp: the directories are counted, not the sections.
MilestoneOpOfDirs(at) ==
    [phases |-> Cardinality(tree[at].dirs), complete |-> Cardinality({d \in tree[at].dirs : d.done > 0}),
     all |-> tree[at].dirs # {} /\ \A d \in tree[at].dirs : d.done > 0]

\* init milestone-op: a section is complete if its directory has a summary; only
\* without a roadmap are the directories counted.
MilestoneOp(at) ==
    LET dirs == tree[at].dirs
        started == {d.id : d \in {e \in dirs : e.done > 0}}
        bare == RoadIds(tree[at].road) = {}
        phases == IF bare THEN Cardinality(dirs) ELSE Len(tree[at].road)
        complete == IF bare THEN Cardinality({d \in dirs : d.done > 0})
                    ELSE Cardinality({i \in DOMAIN tree[at].road : tree[at].road[i].id \in started})
    IN  [phases |-> phases, complete |-> complete, all |-> phases > 0 /\ phases = complete]

\* init manager: all_complete.
ManagerDone(at) ==
    tree[at].road # <<>> /\ \A i \in DOMAIN tree[at].road : Managed(tree[at], i) = "complete"

-----------------------------------------------------------------------------
(* Settings: a workstream inherits those of .planning/config.json. *)

\* loadConfig; what is not JSON counts as nothing.  The migrations of old keys that
\* loading may write back are left out.
Effective(at) == tree[at].config.keys \cup tree[Flat].config.keys

-----------------------------------------------------------------------------
(* Properties. *)

\* Work on a phase starts where it belongs: the four commands that start it hand out
\* the same directory, one of this planning directory with the name of the section,
\* never an archived one of the same number, and they, the plan index, find-phase
\* and the completeness check count the same open plans in it.  Only removals, stolen
\* locks and, with three processes, phases added before and after a migration that
\* fails spoil that.
WorkStartsOnOwnPhase ==
    ~robbed /\ ~Ran({"remove"}) =>
        \A at \in Places : tree[at].road # None => \A i \in DOMAIN tree[at].road :
            LET id == tree[at].road[i].id
                started == ForExecution(at, id)
                Dirs(answers) == {a.dir : a \in answers}
            IN  /\ Dirs(ForPlanning(at, id)) = Dirs(started)
                /\ Dirs(ForVerification(at, id)) = Dirs(started)
                /\ Dirs(ForDiscussion(at, id)) = Dirs(started)
                /\ Cardinality(started) = 1
                /\ \A x \in started : OfferedDecimal(at, id).found <=> x.dir # None
                /\ \A x \in started :
                     \/ x.dir = None /\ x.plans = 0 /\ PlanIndex(at, id) = {}
                     \/ /\ x.dir \in tree[at].dirs /\ x.dir.name = tree[at].road[i].name
                        /\ PlanIndex(at, id) = {[plans |-> x.plans, open |-> x.open]}
                        /\ FindPhase(at, id) = {x.dir}
                        /\ Completeness(at, id) = {[dir |-> x.dir, complete |-> x.open = 0]}

\* The views that give a phase a status agree: `roadmap analyze` and the manager
\* never differ, and what progress, stats or workstream status call complete is
\* complete for them.
StatusesAgree(at, verified) ==
    LET t == tree[at]
        complete == ProgressComplete(t) \cup Stats(at, verified).complete
        listed == WorkstreamStatus(at)
    IN  \A i \in DOMAIN t.road :
            LET analyzed == Analyzed(t, i)
                d == DirOf(t.dirs, t.road[i].id)
            IN  /\ analyzed = Managed(t, i)
                /\ t.road[i].id \in complete => analyzed = "complete"
                /\ d # None /\ listed[d] = "complete" => analyzed = "complete"

\* The counts agree: progress, stats, workstream progress and the listing see the
\* same plans; a phase that is verified is executed, and one that is executed has
\* begun, so the three notions of a complete phase are counted in that order;
\* no percentage exceeds 100; the milestone is not finished before every phase of the
\* roadmap has a directory of its own.
CountsAgree(at, verified) ==
    LET stats == Stats(at, verified)
        work == WorkstreamProgress(at)
        progress == Progress(at)
        milestone == MilestoneOp(at)
    IN  /\ progress.plans = stats.plans /\ progress.done = stats.done
        /\ work.plans = stats.plans /\ work.done = stats.done
        /\ PlansListed(at, FALSE) = stats.plans
        /\ Cardinality(stats.complete) <= work.complete /\ work.complete = ListedWorkstream(at).complete
        /\ work.complete <= milestone.complete /\ work.percent <= 100
        /\ milestone.all => RoadIds(tree[at].road) \subseteq DirIds(tree[at].dirs)
        /\ RoadIds(tree[at].road) \subseteq ProgressComplete(tree[at]) /\ tree[at].road # <<>>
             => ManagerDone(at)

\* The views agree on every phase and on every count, also when all phases are
\* verified (with fewer, stats calls fewer complete), unless phases are removed or a
\* lock is stolen.
ViewsAgree ==
    ~robbed /\ ~Ran({"remove"}) =>
        \A at \in Places : tree[at].road # None =>
            LET verified == DirIds(tree[at].dirs)
            IN  StatusesAgree(at, verified) /\ CountsAgree(at, verified)

\* A setting that was acknowledged stays, unless config.json is created by another
\* command that had found none, repaired, or written under a stolen lock; one made in
\* .planning/config.json is in force in every workstream, also in one that the
\* project is migrated to later.
SettingsKept ==
    \A p \in Procs :
        Acknowledged(p, {"set"}) /\ ~robbed /\ ~Ran({"ensure", "repair"}) =>
            LET at == proc[p].at
                key == proc[p].cmd.key
            IN  /\ ~Ran(Taking) => key \in tree[at].config.keys
                /\ at = Flat => \A v \in Places \cap made : key \in Effective(v)
===========================================================================
