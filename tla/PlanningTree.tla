--------------------------- MODULE PlanningTree ---------------------------
(***************************************************************************)
(* The files of one planning directory as the commands read and rewrite    *)
(* them: ROADMAP.md, the directories of phases/, STATE.md and config.json. *)
(* Everything here is a function of a tree's contents; the order in which  *)
(* commands touch the files is in PlanningPhases.                          *)
(*                                                                         *)
(* A phase number is <<n, d>>, d = 0 for an integer phase.  Phases are     *)
(* named in commands as ROADMAP.md writes them; letter suffixes, project   *)
(* codes, custom identifiers, the 999.x backlog and a roadmap of several   *)
(* milestones are left out.  A checkbox is the checklist line of a section *)
(* (listed) or the line `- [ ] TBD (run /gsd-plan-phase N ...)` that the   *)
(* commands write into the sections they add, which the code's patterns    *)
(* take for a checkbox of phase N as well.                                 *)
(***************************************************************************)
EXTENDS Integers, FiniteSets, Sequences, SequencesExt

CONSTANTS
    None,
    Titles,             \* the names phases are given
    Requirements,       \* the requirements of a project
    Settings            \* the keys of config.json

Numbers == Nat \X Nat

\* comparePhaseNum, as a strict order.
Before(a, b) == a[1] < b[1] \/ (a[1] = b[1] /\ a[2] < b[2])

(* What the files can hold. *)
Tallies == [plans : Nat, done : Nat]
Sections ==
    [id : Numbers, name : Titles, dep : Numbers \cup {None}, reqs : SUBSET Requirements,
     listed : BOOLEAN, box : Numbers \cup {None}, ticked : BOOLEAN, tally : Tallies, waves : BOOLEAN]
Roadmaps == Seq(Sections) \cup {None}
Directories == [id : Numbers, name : Titles, plans : Nat, done : Nat, notes : BOOLEAN]
States == [phase : Numbers \cup {None}, refs : SUBSET Numbers, closed : BOOLEAN]
Configs == [kind : {"none", "corrupt", "keys"}, keys : SUBSET Settings]
Trees ==
    [road : Roadmaps, dirs : SUBSET Directories, reqs : (SUBSET Requirements) \cup {None},
     state : States \cup {None}, config : Configs]

Directory(id, name) == [id |-> id, name |-> name, plans |-> 0, done |-> 0, notes |-> FALSE]

RoadIds(road) == IF road = None THEN {} ELSE {road[i].id : i \in DOMAIN road}
DirIds(dirs) == {d.id : d \in dirs}

\* The first section headed with a number, 0 if there is none.
SectionOf(road, id) == SelectInSeq(road, LAMBDA s : s.id = id)

\* The directory a number is found in (searchPhaseInDir); None without one.
DirOf(dirs, id) == IF \E d \in dirs : d.id = id THEN CHOOSE d \in dirs : d.id = id ELSE None

-----------------------------------------------------------------------------
(* Checkboxes: the checklist comes first in the document, then the sections. *)

BoxesNaming(road, id) == {i \in DOMAIN road : road[i].box = id}

FirstOf(road, boxes) ==
    LET listed == {i \in boxes : road[i].listed} IN Min(IF listed # {} THEN listed ELSE boxes)
LastOf(road, boxes) ==
    LET inside == {i \in boxes : ~road[i].listed} IN Max(IF inside # {} THEN inside ELSE boxes)

\* One pattern takes the first box of a number, another the last, a third any.
FirstBoxTicked(road, id) ==
    LET boxes == BoxesNaming(road, id) IN boxes # {} /\ road[FirstOf(road, boxes)].ticked
LastBoxTicked(road, id) ==
    LET boxes == BoxesNaming(road, id) IN boxes # {} /\ road[LastOf(road, boxes)].ticked
SomeBoxTicked(road, id) == \E i \in DOMAIN road : road[i].box = id /\ road[i].ticked

-----------------------------------------------------------------------------
(* Adding phases. *)

\* Mutant of NextInteger: the directories are not looked at.
NextIntegerOfRoadmap(road, dirs) == 1 + Max({0} \cup {id[1] : id \in RoadIds(road)})

\* One more than the highest number of the roadmap and of the directories.
NextInteger(road, dirs) == 1 + Max({0} \cup {id[1] : id \in RoadIds(road) \cup DirIds(dirs)})

NextDecimal(road, dirs, base) ==
    1 + Max({0} \cup {id[2] : id \in {x \in RoadIds(road) \cup DirIds(dirs) : x[1] = base[1]}})

NewSection(id, name, dep) ==
    [id |-> id, name |-> name, dep |-> dep, reqs |-> {}, listed |-> FALSE, box |-> id,
     ticked |-> FALSE, tally |-> [plans |-> 0, done |-> 0], waves |-> FALSE]

\* Mutant of Appended: the dependency is on the phase itself.
AppendedOnItself(road, n, name) == Append(road, NewSection(<<n, 0>>, name, <<n, 0>>))

\* A phase that is added depends on the number before its own, whatever that is.
Appended(road, n, name) == Append(road, NewSection(<<n, 0>>, name, <<n - 1, 0>>))

\* A phase that is inserted follows the section of the phase it depends on.
InsertedAfter(road, base, d, name) ==
    InsertAt(road, SectionOf(road, base) + 1, NewSection(<<base[1], d>>, name, base))

-----------------------------------------------------------------------------
(* Removing a phase. *)

\* The pass that lowers 99, 98, ... applies to what it has just rewritten: every
\* integer above the removed one ends up as the removed one.
Lowered(id, gone) == IF id # None /\ id[2] = 0 /\ id[1] > gone THEN <<gone, 0>> ELSE id

Renumbered(road, gone) ==
    [i \in DOMAIN road |->
        [road[i] EXCEPT !.id = Lowered(@, gone), !.dep = Lowered(@, gone),
                        !.box = IF road[i].listed THEN Lowered(@, gone) ELSE @]]

WithoutPhase(road, id) ==
    LET rest == RemoveFirstMatch(road, LAMBDA s : s.id = id)
    IN  [i \in DOMAIN rest |->
            IF rest[i].box = id THEN [rest[i] EXCEPT !.box = None, !.ticked = FALSE] ELSE rest[i]]

Removed(road, id) ==
    IF id[2] = 0 THEN Renumbered(WithoutPhase(road, id), id[1]) ELSE WithoutPhase(road, id)

\* The directories that are renamed after a removal, the highest first ...
Later(dirs, gone) ==
    {d \in dirs : IF gone[2] = 0 THEN d.id[1] > gone[1]
                  ELSE d.id[1] = gone[1] /\ d.id[2] > gone[2]}
Highest(dirs) == CHOOSE d \in dirs : \A e \in dirs : ~Before(d.id, e.id)

\* ... and the number each one gets.
Shifted(id, gone) == IF gone[2] = 0 THEN <<id[1] - 1, id[2]>> ELSE <<id[1], id[2] - 1>>

-----------------------------------------------------------------------------
(* Completing a phase. *)

Counts(dir) == [plans |-> dir.plans, done |-> dir.done]

\* The first box of the phase that is still open is ticked.
Ticked(road, id) ==
    LET open == {i \in BoxesNaming(road, id) : ~road[i].ticked}
    IN  IF open = {} THEN road ELSE [road EXCEPT ![FirstOf(road, open)].ticked = TRUE]

Tallied(road, id, counts) ==
    LET i == SectionOf(road, id) IN IF i = 0 THEN road ELSE [road EXCEPT ![i].tally = counts]

Completed(road, id, counts) == Tallied(Ticked(road, id), id, counts)

PlanProgressed(road, id, counts) ==
    IF counts.done >= counts.plans THEN Ticked(Tallied(road, id, counts), id)
    ELSE Tallied(road, id, counts)

\* Wave headers go into a section that has a plan list and no headers yet.
Annotated(road, id) ==
    LET i == SectionOf(road, id)
    IN  IF i # 0 /\ road[i].listed THEN [road EXCEPT ![i].waves = TRUE] ELSE road

RequirementsOf(road, id) ==
    LET i == SectionOf(road, id) IN IF i = 0 THEN {} ELSE road[i].reqs

\* getMilestonePhaseFilter: the numbers that pass, given those of the roadmap.
InMilestone(ids, d) == ids = {} \/ d.id \in ids

\* Mutant of NextPhase: the next number, declared or not.
NextNumber(road, dirs, id) == <<id[1] + 1, 0>>

\* The phase after the completed one: a directory of the milestone, or else the
\* first section, in document order, with a higher number.
NextPhase(road, dirs, id) ==
    LET ahead == {d.id : d \in {e \in dirs : InMilestone(RoadIds(road), e) /\ Before(id, e.id)}}
        later == IF road = None THEN 0 ELSE SelectInSeq(road, LAMBDA s : Before(id, s.id))
    IN  IF ahead # {} THEN CHOOSE a \in ahead : \A b \in ahead : ~Before(b, a)
        ELSE IF later # 0 THEN road[later].id ELSE None

\* STATE.md moves on.  refs are the phases its text mentions; its counters are
\* the subject of StateCommands.
Advanced(state, id, next) ==
    [phase |-> IF next = None THEN id ELSE next, refs |-> {id, next} \ {None},
     closed |-> next = None]

-----------------------------------------------------------------------------
(* What the views report. *)

DiskStatus(dirs, id) ==
    LET d == DirOf(dirs, id)
    IN  CASE d = None -> "no_directory"
          [] d # None /\ d.done >= d.plans /\ d.plans > 0 -> "complete"
          [] d # None /\ d.done > 0 /\ (d.done < d.plans \/ d.plans = 0) -> "partial"
          [] d # None /\ d.done = 0 /\ d.plans > 0 -> "planned"
          [] d # None /\ d.done = 0 /\ d.plans = 0 /\ d.notes -> "discussed"
          [] OTHER -> "empty"

\* `roadmap analyze`: the status of the i-th section.
Analyzed(tree, i) ==
    LET id == tree.road[i].id
    IN  IF FirstBoxTicked(tree.road, id) THEN "complete" ELSE DiskStatus(tree.dirs, id)

\* `init manager`: the same with the last box.
Managed(tree, i) ==
    LET id == tree.road[i].id
    IN  IF LastBoxTicked(tree.road, id) THEN "complete" ELSE DiskStatus(tree.dirs, id)

DepsSatisfied(tree, i) ==
    LET dep == tree.road[i].dep
    IN  \/ dep = None
        \/ \E j \in DOMAIN tree.road : tree.road[j].id = dep /\ Managed(tree, j) = "complete"
        \/ SomeBoxTicked(tree.road, dep)

Recommended(tree) ==
    {[phase |-> tree.road[i].id, action |-> "execute"] :
        i \in {j \in DOMAIN tree.road : Managed(tree, j) = "planned" /\ DepsSatisfied(tree, j)}}
    \cup {[phase |-> tree.road[i].id, action |-> "plan"] :
        i \in {j \in DOMAIN tree.road : Managed(tree, j) = "discussed"}}
    \cup {[phase |-> tree.road[i].id, action |-> "discuss"] :
        i \in {j \in DOMAIN tree.road :
                 Managed(tree, j) \in {"empty", "no_directory"} /\ DepsSatisfied(tree, j)}}

\* Following the (single) dependencies from one phase leads to another.
Reaches(road, from, to) ==
    LET DepOf(id) == LET i == SelectLastInSeq(road, LAMBDA s : s.id = id)
                     IN  IF i = 0 THEN None ELSE road[i].dep
        Hop[k \in 0..Len(road)] == IF k = 0 THEN from
                                   ELSE IF Hop[k - 1] = None THEN None ELSE DepOf(Hop[k - 1])
    IN  \E k \in 1..Len(road) : Hop[k] = to

\* Work in progress, given the phases whose files were touched a moment ago ...
Executing(tree, active) ==
    {tree.road[i].id : i \in {j \in DOMAIN tree.road :
        \/ Managed(tree, j) = "partial"
        \/ Managed(tree, j) = "planned" /\ tree.road[j].id \in active}}
Planning(tree, active) ==
    {tree.road[i].id : i \in {j \in DOMAIN tree.road :
        Managed(tree, j) = "discussed" /\ tree.road[j].id \in active}}

\* ... holds back the recommendations that are not independent of it.
Offered(tree, active) ==
    LET Related(a, b) == Reaches(tree.road, a, b) \/ Reaches(tree.road, b, a)
        Free(a, busy) == \A b \in busy : ~Related(a, b)
    IN  {r \in Recommended(tree) :
            CASE r.action = "execute" -> Free(r.phase, Executing(tree, active))
              [] r.action = "plan" -> Free(r.phase, Planning(tree, active))
              [] r.action = "discuss" -> TRUE}

\* `init progress`: the phases of the milestone's directories, and the sections
\* without a directory.
ProgressComplete(tree) ==
    {d.id : d \in {e \in tree.dirs : InMilestone(RoadIds(tree.road), e)
                                      /\ e.done >= e.plans /\ e.plans > 0}}
    \cup {id \in RoadIds(tree.road) \ DirIds(tree.dirs) : LastBoxTicked(tree.road, id)}

-----------------------------------------------------------------------------
(* `validate health`: checks 3 to 12 and the repairs. *)

\* What config.json holds: nothing, something that is not JSON, or an object with
\* these keys in its workflow section.
NoConfig == [kind |-> "none", keys |-> {}]
Corrupt == [kind |-> "corrupt", keys |-> {}]
Config(keys) == [kind |-> "keys", keys |-> keys]

Defaults == {"nyquist", "ai"}           \* buildNewProjectConfig, the keys health looks for
RepairDefaultsSwapped == {"ai"}        \* Mutant of RepairDefaults: the other key
RepairDefaults == {"nyquist"}           \* what createConfig and resetConfig write

Base(id) == <<id[1], 0>>

\* A STATE.md that mentions a phase nobody declares.
UnknownReference(tree, found) ==
    LET valid == found \cup RoadIds(tree.road)
    IN  tree.state # None /\ valid # {} /\ \E r \in tree.state.refs : r \notin valid

\* A section without a directory, unless the checklist says it has not begun.
MissingDirectory(tree, found) ==
    LET open == {tree.road[i].box : i \in {j \in DOMAIN tree.road :
                    tree.road[j].listed /\ ~tree.road[j].ticked /\ tree.road[j].box # None}}
        begun(id) == {id, Base(id)} \cap (open \cup {Base(b) : b \in open}) = {}
    IN  \E id \in RoadIds(tree.road) : {id, Base(id)} \cap found = {} /\ begun(id)

UnknownDirectory(tree, found) ==
    tree.road # None /\ \E id \in found : {id, Base(id)} \cap RoadIds(tree.road) = {}

StateOutOfSync(tree) ==
    /\ tree.road # None /\ tree.state # None /\ tree.state.phase # None
    /\ SomeBoxTicked(tree.road, tree.state.phase)

\* shelved are the phases of the directory's own archive, unlisted says that an
\* archived roadmap has no entry in MILESTONES.md.
Diagnosis(tree, shelved, unlisted) ==
    LET found == DirIds(tree.dirs) \cup shelved
        keyed == tree.config.kind = "keys" /\ tree.config.keys # {}
        Code(code, fires) == IF fires THEN {code} ELSE {}
    IN  Code("E003", tree.road = None) \cup Code("E004", tree.state = None)
        \cup Code("W002", UnknownReference(tree, found))
        \cup Code("W003", tree.config = NoConfig) \cup Code("E005", tree.config = Corrupt)
        \cup Code("W008", keyed /\ "nyquist" \notin tree.config.keys)
        \cup Code("W016", keyed /\ "ai" \notin tree.config.keys)
        \cup Code("W006", tree.road # None /\ MissingDirectory(tree, found))
        \cup Code("W007", UnknownDirectory(tree, found))
        \cup Code("W011", StateOutOfSync(tree)) \cup Code("W018", unlisted)

Repairable == {"E004", "W003", "E005", "W008", "W016", "W018"}

\* The repairs are made in the order of the checks that ask for them.
RepairOrder == <<"E004", "W003", "E005", "W008", "W016", "W018">>
FirstRepair(codes) ==
    RepairOrder[Min({k \in DOMAIN RepairOrder : RepairOrder[k] \in codes})]

\* `validate consistency`: the numbers of the directories have no gap.
Dense(found) ==
    LET ints == {id[1] : id \in {x \in found : x[2] = 0}}
    IN  \A n \in ints : n = Min(ints) \/ n - 1 \in ints
===========================================================================
