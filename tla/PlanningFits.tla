---------------------------- MODULE PlanningFits ----------------------------
(***************************************************************************)
(* Roadmap, directories and STATE.md fit together, for any number of       *)
(* processes and commands: what is completed stays recorded, the manager   *)
(* never runs out of phases to offer, the health check finds nothing when  *)
(* all is done, work on a phase starts in its own directory, and the views *)
(* of a project agree.  No workstream is created or completed meanwhile,   *)
(* and no phase removed; the first three also exclude that directories are *)
(* cleared.  Each theorem says what the project is like at the start.      *)
(***************************************************************************)
EXTENDS WorkstreamsOutcomes, PlanningViews

-----------------------------------------------------------------------------
(* Roadmaps as sets of sections. *)

\* Every section has a checkbox of its own number.
OwnBoxes(road) == \A s \in Range(road) : s.box = s.id
\* The sections of this number are ticked; their requirements are among these.
Recorded(road, id) == \A s \in Range(road) : s.id = id => s.ticked
Covered(road, id, reqs) == reqs # None => \A s \in Range(road) : s.id = id => s.reqs \subseteq reqs

\* A decimal phase lies under an integer one, and dependencies lead to lower numbers
\* that there are.
Rooted(ids) == \A id \in ids : Base(id) \in ids
Led(road) == \A s \in Range(road) : s.dep = None \/ (Before(s.dep, s.id) /\ s.dep \in RoadIds(road))
Fits(road) == Rooted(RoadIds(road)) /\ Led(road)

LEMMA RoadIdsOf ==
    ASSUME NEW road \in Seq(Sections)
    PROVE  /\ road # None /\ RoadIds(road) = {s.id : s \in Range(road)} /\ RoadIds(road) \subseteq Numbers
           /\ Range(road) \subseteq Sections /\ RoadIds(road) = Numbered(road)
           /\ road # <<>> <=> RoadIds(road) # {}
<1>1. road # None
    BY FilesAssumption
<1>2. RoadIds(road) = {s.id : s \in Range(road)} /\ RoadIds(road) = Numbered(road)
    BY <1>1 DEF RoadIds, Range, Numbered
<1>3. Range(road) \subseteq Sections
    BY DEF Range
<1>4. RoadIds(road) \subseteq Numbers
    BY <1>2, <1>3 DEF Sections
<1>5. road # <<>> <=> Range(road) # {}
    <2>1. DOMAIN road = 1..Len(road) /\ Len(road) \in Nat
        OBVIOUS
    <2>2. CASE road = <<>>
        <3>1. DOMAIN road = {}
            BY <2>2
        <3> QED BY <2>2, <3>1 DEF Range
    <2>3. CASE road # <<>>
        <3>1. 1 \in DOMAIN road
            BY <2>1, <2>3
        <3> QED BY <2>3, <3>1 DEF Range
    <2> QED BY <2>2, <2>3
<1> QED BY <1>1, <1>2, <1>3, <1>4, <1>5

LEMMA EditedSections ==
    ASSUME NEW road \in Seq(Sections), NEW new, Edited(road, new)
    PROVE  /\ new \in Seq(Sections)
           /\ \A t \in Range(new) : \E s \in Range(road) : SameSection(s, t)
           /\ \A s \in Range(road) : \E t \in Range(new) : SameSection(s, t)
<1>1. new \in Seq(Sections) /\ DOMAIN new = 1..Len(road) /\ DOMAIN road = 1..Len(road)
    BY DEF Edited
<1>2. \A i \in 1..Len(road) : SameSection(road[i], new[i])
    BY DEF Edited
<1> QED BY <1>1, <1>2 DEF Range

LEMMA EditedFits ==
    ASSUME NEW road \in Seq(Sections), NEW new, Edited(road, new)
    PROVE  /\ RoadIds(new) = RoadIds(road)
           /\ OwnBoxes(road) => OwnBoxes(new)
           /\ Fits(road) => Fits(new)
           /\ \A id : Recorded(road, id) => Recorded(new, id)
           /\ \A id, reqs : Covered(road, id, reqs) => Covered(new, id, reqs)
<1>1. /\ new \in Seq(Sections)
      /\ \A t \in Range(new) : \E s \in Range(road) : SameSection(s, t)
      /\ \A s \in Range(road) : \E t \in Range(new) : SameSection(s, t)
    BY EditedSections
<1>2. RoadIds(new) = RoadIds(road)
    <2>1. RoadIds(new) = {s.id : s \in Range(new)} /\ RoadIds(road) = {s.id : s \in Range(road)}
        BY <1>1, RoadIdsOf
    <2> QED BY <1>1, <2>1 DEF SameSection
<1>3. OwnBoxes(road) => OwnBoxes(new)
    BY <1>1 DEF OwnBoxes, SameSection
<1>4. Fits(road) => Fits(new)
    BY <1>1, <1>2 DEF Fits, Led, SameSection
<1>5. \A id : Recorded(road, id) => Recorded(new, id)
    BY <1>1 DEF Recorded, SameSection
<1>6. \A id, reqs : Covered(road, id, reqs) => Covered(new, id, reqs)
    BY <1>1 DEF Covered, SameSection
<1> QED BY <1>2, <1>3, <1>4, <1>5, <1>6

\* Adding and inserting put one section among those there are.
LEMMA LongerSections ==
    ASSUME NEW road \in Seq(Sections), NEW new \in Seq(Sections), NEW k \in 1..Len(new),
           Len(new) = Len(road) + 1,
           \A i \in 1..(k - 1) : new[i] = road[i], \A i \in k..Len(road) : new[i + 1] = road[i]
    PROVE  Range(new) = Range(road) \cup {new[k]}
<1>1. DOMAIN new = 1..Len(new) /\ DOMAIN road = 1..Len(road) /\ Len(road) \in Nat
    OBVIOUS
<1>2. ASSUME NEW i \in 1..Len(new), i # k
      PROVE  \E j \in 1..Len(road) : new[i] = road[j]
    <2>1. CASE i < k
        BY <1>1, <2>1
    <2>2. CASE i > k
        <3> DEFINE j == i - 1
        <3>1. j \in k..Len(road) /\ i = j + 1 /\ j \in 1..Len(road)
            BY <1>1, <2>2
        <3> HIDE DEF j
        <3> QED BY <3>1
    <2> QED BY <1>1, <1>2, <2>1, <2>2
<1>3. ASSUME NEW i \in 1..Len(road)
      PROVE  \E j \in 1..Len(new) : new[j] = road[i]
    <2>1. CASE i < k
        BY <1>1, <2>1
    <2>2. CASE i >= k
        <3>1. i \in k..Len(road) /\ i + 1 \in 1..Len(new)
            BY <1>1, <2>2
        <3> QED BY <3>1
    <2> QED BY <1>1, <2>1, <2>2
<1>4. Range(new) \subseteq Range(road) \cup {new[k]}
    BY <1>1, <1>2 DEF Range
<1>5. Range(road) \subseteq Range(new)
    BY <1>1, <1>3 DEF Range
<1>6. new[k] \in Range(new)
    BY <1>1 DEF Range
<1> QED BY <1>4, <1>5, <1>6

LEMMA AddedSections ==
    ASSUME NEW road \in Seq(Sections), NEW name \in Titles
    PROVE  /\ \A n \in Nat \ {0} :
                /\ Appended(road, n, name) \in Seq(Sections)
                /\ Range(Appended(road, n, name)) = Range(road) \cup {NewSection(<<n, 0>>, name, <<n - 1, 0>>)}
           /\ \A base \in Numbers, n \in Nat : SectionOf(road, base) # 0 =>
                /\ InsertedAfter(road, base, n, name) \in Seq(Sections)
                /\ Range(InsertedAfter(road, base, n, name))
                     = Range(road) \cup {NewSection(<<base[1], n>>, name, base)}
<1>1. ASSUME NEW n \in Nat \ {0}
      PROVE  /\ Appended(road, n, name) \in Seq(Sections)
             /\ Range(Appended(road, n, name)) = Range(road) \cup {NewSection(<<n, 0>>, name, <<n - 1, 0>>)}
    <2> DEFINE new == Appended(road, n, name)
               k == Len(road) + 1
    <2>1. /\ new \in Seq(Sections) /\ Len(new) = Len(road) + 1
          /\ \A i \in 1..Len(road) : new[i] = road[i]
          /\ new[Len(new)] = NewSection(<<n, 0>>, name, <<n - 1, 0>>)
        BY AppendedSection
    <2> HIDE DEF new
    <2>2. /\ k \in 1..Len(new) /\ new[k] = NewSection(<<n, 0>>, name, <<n - 1, 0>>)
          /\ (\A i \in 1..(k - 1) : new[i] = road[i]) /\ (\A i \in k..Len(road) : new[i + 1] = road[i])
        BY <2>1
    <2> HIDE DEF k
    <2>3. Range(new) = Range(road) \cup {new[k]}
        BY <2>1, <2>2, LongerSections
    <2> QED BY <2>1, <2>2, <2>3 DEF new
<1>2. ASSUME NEW base \in Numbers, NEW n \in Nat, SectionOf(road, base) # 0
      PROVE  /\ InsertedAfter(road, base, n, name) \in Seq(Sections)
             /\ Range(InsertedAfter(road, base, n, name))
                  = Range(road) \cup {NewSection(<<base[1], n>>, name, base)}
    <2> DEFINE new == InsertedAfter(road, base, n, name)
               k == SectionOf(road, base) + 1
    <2>1. /\ new \in Seq(Sections) /\ Len(new) = Len(road) + 1 /\ k \in 2..Len(new)
          /\ \A i \in 1..(k - 1) : new[i] = road[i]
          /\ \A i \in k..Len(road) : new[i + 1] = road[i]
          /\ new[k] = NewSection(<<base[1], n>>, name, base)
        BY <1>2, InsertedSection
    <2> HIDE DEF new, k
    <2>2. k \in 1..Len(new)
        BY <2>1
    <2>3. Range(new) = Range(road) \cup {new[k]}
        BY <2>1, <2>2, LongerSections
    <2> QED BY <2>1, <2>3 DEF new
<1> QED BY <1>1, <1>2

\* What a section more does to a roadmap.
LEMMA LongerFits ==
    ASSUME NEW road \in Seq(Sections), NEW new \in Seq(Sections), NEW id \in Numbers, NEW name, NEW dep,
           Range(new) = Range(road) \cup {NewSection(id, name, dep)}
    PROVE  /\ RoadIds(new) = RoadIds(road) \cup {id}
           /\ OwnBoxes(road) => OwnBoxes(new)
           /\ Fits(road) /\ Base(id) \in RoadIds(road) \cup {id} /\ dep \in RoadIds(road) /\ Before(dep, id) => Fits(new)
           /\ \A other \in Numbers \ {id} : Recorded(road, other) => Recorded(new, other)
           /\ \A other, reqs : Covered(road, other, reqs) => Covered(new, other, reqs)
<1> DEFINE s == NewSection(id, name, dep)
<1>1. s.id = id /\ s.box = id /\ s.dep = dep /\ s.reqs = {}
    BY DEF NewSection
<1>2. Range(new) = Range(road) \cup {s}
    OBVIOUS
<1> HIDE DEF s
<1>3. RoadIds(new) = RoadIds(road) \cup {id}
    <2>1. RoadIds(new) = {t.id : t \in Range(new)} /\ RoadIds(road) = {t.id : t \in Range(road)}
        BY RoadIdsOf
    <2> QED BY <1>1, <1>2, <2>1
<1>4. OwnBoxes(road) => OwnBoxes(new)
    BY <1>1, <1>2 DEF OwnBoxes
<1>5. Fits(road) /\ Base(id) \in RoadIds(road) \cup {id} /\ dep \in RoadIds(road) /\ Before(dep, id) => Fits(new)
    <2> SUFFICES ASSUME Fits(road), Base(id) \in RoadIds(road) \cup {id}, dep \in RoadIds(road), Before(dep, id)
                 PROVE  Rooted(RoadIds(new)) /\ Led(new)
        BY DEF Fits
    <2>1. Rooted(RoadIds(new))
        BY <1>3 DEF Fits, Rooted
    <2>2. Led(new)
        BY <1>1, <1>2, <1>3 DEF Fits, Led
    <2> QED BY <2>1, <2>2
<1>6. \A other \in Numbers \ {id} : Recorded(road, other) => Recorded(new, other)
    BY <1>1, <1>2 DEF Recorded
<1>7. \A other, reqs : Covered(road, other, reqs) => Covered(new, other, reqs)
    BY <1>1, <1>2 DEF Covered
<1> QED BY <1>3, <1>4, <1>5, <1>6, <1>7

\* Completing a phase ticks its section, when each section has its own checkbox.
LEMMA CompletionTicks ==
    ASSUME NEW road \in Seq(Sections), Distinct(road), OwnBoxes(road), NEW id, NEW counts \in Tallies
    PROVE  Recorded(Completed(road, id, counts), id)
<1> DEFINE open == {i \in BoxesNaming(road, id) : ~road[i].ticked}
           new == Ticked(road, id)
<1>1. /\ DOMAIN road = 1..Len(road) /\ Len(road) \in Nat
      /\ \A i \in DOMAIN road : road[i] \in Sections /\ road[i].box = road[i].id
    BY DEF OwnBoxes, Range
<1>2. BoxesNaming(road, id) = {i \in DOMAIN road : road[i].id = id}
    BY <1>1 DEF BoxesNaming
<1>3. Recorded(new, id)
    <2>1. CASE open = {}
        <3>1. \A i \in DOMAIN road : road[i].id = id => road[i].ticked
            BY <1>1, <1>2, <2>1 DEF Sections
        <3>2. new = road
            BY <2>1 DEF Ticked
        <3> QED BY <3>1, <3>2 DEF Recorded, Range
    <2>2. CASE open # {}
        <3>1. PICK k \in DOMAIN road : road[k].id = id /\ open = {k}
            BY <1>2, <2>2 DEF Distinct
        <3>2. Min({k}) = k
            <4>1. {k} \in SUBSET Nat /\ {k} # {}
                BY <1>1
            <4> QED BY <4>1, LeastNumber
        <3>3. FirstOf(road, open) = k
            <4>1. {i \in open : road[i].listed} \in {{}, {k}}
                BY <3>1
            <4> HIDE DEF open
            <4> QED BY <3>1, <3>2, <4>1 DEF FirstOf
        <3>4. new = [road EXCEPT ![k] = [road[k] EXCEPT !.ticked = TRUE]]
            BY <2>2, <3>3 DEF Ticked
        <3> HIDE DEF new
        <3>5. DOMAIN new = DOMAIN road /\ new[k].ticked /\ \A i \in DOMAIN road \ {k} : new[i] = road[i]
            BY <1>1, <3>4 DEF Sections
        <3>6. \A i \in DOMAIN road \ {k} : road[i].id # id
            BY <3>1 DEF Distinct
        <3> QED BY <3>5, <3>6 DEF Recorded, Range
    <2> QED BY <2>1, <2>2
<1>4. Edited(road, new)
    BY TickedEdits
<1> HIDE DEF new
<1>5. new \in Seq(Sections)
    BY <1>4 DEF Edited
<1>6. Edited(new, Tallied(new, id, counts))
    BY <1>5, TalliedEdits
<1> QED BY <1>3, <1>5, <1>6, EditedFits DEF Completed, new

\* The requirements of a phase are those of its section.
LEMMA RequirementsTaken ==
    ASSUME NEW road \in Seq(Sections), Distinct(road), NEW id, NEW reqs
    PROVE  Covered(road, id, reqs \cup RequirementsOf(road, id))
<1> DEFINE i == SectionOf(road, id)
<1>1. /\ i \in 0..Len(road) /\ (i # 0 => road[i].id = id) /\ DOMAIN road = 1..Len(road)
      /\ i = 0 => \A j \in DOMAIN road : road[j].id # id
    BY SectionFound
<1> HIDE DEF i
<1>2. CASE i = 0
    BY <1>1, <1>2 DEF Covered, Range
<1>3. CASE i # 0
    <2>1. \A j \in DOMAIN road : road[j].id = id => j = i
        BY <1>1, <1>3 DEF Distinct
    <2>2. RequirementsOf(road, id) = road[i].reqs
        BY <1>3 DEF RequirementsOf, i
    <2> QED BY <2>1, <2>2 DEF Covered, Range
<1> QED BY <1>2, <1>3

LEMMA SetAsSequence ==
    ASSUME NEW S, IsFiniteSet(S)
    PROVE  SetToSeq(S) \in Seq(S)
<1> DEFINE n == Cardinality(S)
<1>1. n \in Nat /\ ExistsBijection(1..n, S)
    BY FS_NatBijection, FS_CardinalityType
<1> HIDE DEF n
<1>2. \E f \in [1..n -> S] : IsInjective(f)
    BY <1>1 DEF ExistsBijection, Bijection, Injection, IsInjective
<1>3. SetToSeq(S) \in [1..n -> S]
    BY <1>2 DEF SetToSeq, n
<1> QED BY <1>1, <1>3

-----------------------------------------------------------------------------
(* What the steps do, when no workstream is created or completed and no phase  *)
(* removed or cleared.                                                         *)

LEMMA OnlyPlain ==
    ASSUME TypeInv, NEW p \in Procs, Advance(p), ~Ran(Taking)
    PROVE  Plain(p) /\ made \subseteq made' /\ (Working(p) => Op(p) \notin Taking)
<1>1. Working(p) => Op(p) \notin Taking
    BY RunsIts
<1>2. ~WsCommand(p)
    <2>1. WsCommand(p) => proc[p].pc \in Migrating \cup Archiving
        <3>1. MigrateBegins(p) \/ MovePart(p) \/ Moved(p) \/ MoveFails(p) \/ MoveBack(p) \/ Abandon(p)
              \/ OpenWorkstream(p) \/ Activate(p) => proc[p].pc \in Migrating
            BY DEF MigrateBegins, MovePart, Moved, MoveFails, MoveBack, Abandon, OpenWorkstream, Activate, At, Migrating
        <3>2. Deactivate(p) \/ ArchiveEntry(p) \/ ArchiveFails(p) \/ Restore(p) \/ Restored(p) \/ Archived(p)
              => proc[p].pc \in Archiving
            BY DEF Deactivate, ArchiveEntry, ArchiveFails, Restore, Restored, Archived, At, Archiving
        <3> QED BY <3>1, <3>2 DEF WsCommand
    <2>2. proc[p].pc \in Migrating \cup Archiving => Working(p) /\ Op(p) \in Taking
        BY WorkstreamFacts DEF Working, Migrating, Archiving, Taking
    <2> QED BY <1>1, <2>1, <2>2
<1>3. Plain(p)
    BY <1>2 DEF Advance, Plain
<1> QED BY <1>1, <1>3, PlainTurns

\* Where a command stands tells what it does next.
LEMMA Stations ==
    ASSUME NEW p \in Procs, Plain(p), ~Kill(p)
    PROVE  /\ At(p, "read") => ReadForAdd(p) \/ ReadRoadmap(p)
           /\ At(p, "make") => MakeDirectory(p)
           /\ At(p, "write") => WriteRoadmap(p)
           /\ At(p, "reqread") => ReadRequirements(p)
           /\ At(p, "reqwrite") => WriteRequirements(p)
           /\ At(p, "lookup") => LookUpNext(p)
           /\ At(p, "state") => MoveState(p)
           /\ At(p, "archive") => ArchiveRoadmap(p)
           /\ At(p, "register") => Register(p)
           /\ At(p, "close") => CloseState(p)
           /\ At(p, "shelve") => Shelve(p) \/ Shelved(p)
           /\ proc[p].pc \in Queued \cup {"release", "fail"} => Locking(p)
           /\ At(p, "idle") => BeginCommand(p) \/ WsBegin(p)
           /\ ~At(p, "done") /\ ~At(p, "killed")
<1>1. CASE BeginCommand(p) \/ WsBegin(p)
    BY <1>1 DEF BeginCommand, WsBegin, At, Queued
<1>2. CASE Locking(p)
    <2>1. proc[p].pc \in Queued \cup {"release", "fail"}
        BY <1>2 DEF Locking, Acquire, SeeStale, BreakStale, GiveUpWaiting, LastTry, Release, Fail, At, Queued
    <2> QED BY <1>2, <2>1 DEF At, Queued
<1>3. CASE ReadForAdd(p) \/ ReadRoadmap(p) \/ MakeDirectory(p) \/ WriteRoadmap(p)
    BY <1>3 DEF ReadForAdd, ReadRoadmap, MakeDirectory, WriteRoadmap, At, Queued
<1>4. CASE ReadRequirements(p) \/ WriteRequirements(p) \/ LookUpNext(p) \/ MoveState(p)
    BY <1>4 DEF ReadRequirements, WriteRequirements, LookUpNext, MoveState, At, Queued
<1>5. CASE ArchiveRoadmap(p) \/ Register(p) \/ CloseState(p)
    BY <1>5 DEF ArchiveRoadmap, Register, CloseState, At, Queued
<1>6. CASE Shelve(p) \/ Shelved(p)
    BY <1>6 DEF Shelve, Shelved, At, Queued
<1>7. CASE DeleteDirectory(p) \/ RenameNext(p) \/ Renamed(p) \/ Mark(p) \/ ClearNext(p) \/ Cleared(p)
    BY <1>7 DEF DeleteDirectory, RenameNext, Renamed, Mark, ClearNext, Cleared, At, Queued
<1>8. CASE WriteConfig(p) \/ EnsureConfig(p) \/ Repair(p) \/ AddKey(p) \/ Repaired(p)
    BY <1>8 DEF WriteConfig, EnsureConfig, Repair, AddKey, Repaired, At, Queued
<1> QED BY <1>1, <1>2, <1>3, <1>4, <1>5, <1>6, <1>7, <1>8 DEF Plain, PhaseStep, Command

LEMMA KillsCounted ==
    ASSUME NEW p \in Procs, Plain(p), ~Kill(p)
    PROVE  kills' = kills
<1>1. CASE BeginCommand(p) \/ WsBegin(p)
    BY <1>1 DEF BeginCommand, WsBegin, AddBegins, InsertBegins, RemoveBegins, CompleteBegins, ProgressBegins,
        AnnotateBegins, CountAndLock, MarkBegins, MilestoneBegins, ClearBegins, SetBegins, EnsureBegins, RepairBegins,
        CreateBegins, WsCompleteBegins, SetPointer, Begin
<1>2. CASE Locking(p)
    BY <1>2 DEF Locking, Acquire, Create, SeeStale, BreakStale, GiveUpWaiting, LastTry, Release, Fail, disk
<1>3. CASE Command(p)
    BY <1>3 DEF Command, ReadForAdd, MakeDirectory, DeleteDirectory, RenameNext, Renamed, ReadRoadmap, WriteRoadmap,
        ReadRequirements, WriteRequirements, LookUpNext, MoveState, Mark, ArchiveRoadmap, Register, CloseState, Shelve,
        Shelved, ClearNext, Cleared, WriteConfig, EnsureConfig, Repair, AddKey, Repaired, disk
<1> QED BY <1>1, <1>2, <1>3 DEF Plain, PhaseStep

\* The other files stay.
LEMMA RestOfFiles ==
    ASSUME TypeInv, NEW at \in Places, NEW x
    PROVE  /\ tree' = [tree EXCEPT ![at].dirs = x] \/ tree' = [tree EXCEPT ![at].road = x]
                \/ tree' = [tree EXCEPT ![at].config = x] =>
                \A v \in Places : tree'[v].reqs = tree[v].reqs /\ tree'[v].state = tree[v].state
           /\ tree' = [tree EXCEPT ![at].reqs = x] =>
                /\ tree'[at].reqs = x /\ \A v \in Places \ {at} : tree'[v].reqs = tree[v].reqs
                /\ \A v \in Places : tree'[v].dirs = tree[v].dirs /\ tree'[v].road = tree[v].road
                                     /\ tree'[v].state = tree[v].state
           /\ tree' = [tree EXCEPT ![at].state = x] =>
                /\ tree'[at].state = x /\ \A v \in Places \ {at} : tree'[v].state = tree[v].state
                /\ \A v \in Places : tree'[v].dirs = tree[v].dirs /\ tree'[v].road = tree[v].road
                                     /\ tree'[v].reqs = tree[v].reqs
<1>1. tree \in [Places -> Trees]
    BY DEF TypeInv, FilesOK, TreesOK
<1>2. \A t \in Trees : DOMAIN t = {"road", "dirs", "reqs", "state", "config"}
    BY DEF Trees
<1> QED BY <1>1, <1>2

\* Directories move to the archive of the same place.
LEMMA ShelveMoves ==
    ASSUME TypeInv, NEW p \in Procs, Shelve(p)
    PROVE  LET at == proc[p].at
           IN  \/ tree' = tree /\ shelf' = shelf
               \/ \E same \in SUBSET tree[at].dirs :
                    /\ tree'[at].dirs = tree[at].dirs \ same /\ shelf'.dirs[at] = shelf.dirs[at] \cup same
                    /\ DirIds(same) = {Head(proc[p].todo).id}
                    /\ \A v \in Places : /\ tree'[v].road = tree[v].road /\ tree'[v].reqs = tree[v].reqs
                                         /\ tree'[v].state = tree[v].state
                                         /\ v # at => tree'[v].dirs = tree[v].dirs /\ shelf'.dirs[v] = shelf.dirs[v]
<1> DEFINE at == proc[p].at
           target == Head(proc[p].todo)
           same == {d \in tree[at].dirs : d.id = target.id /\ d.name = target.name}
<1>1. at \in Places /\ shelf \in [roads : SUBSET Places, entries : SUBSET Places, dirs : [Places -> SUBSET Directories]]
    BY Facts DEF TypeInv, FilesOK, ShelfOK
<1>2. CASE same = {}
    BY <1>2 DEF Shelve, Here
<1>3. CASE same # {}
    <2>1. tree' = [tree EXCEPT ![at].dirs = @ \ same] /\ shelf' = [shelf EXCEPT !.dirs[at] = @ \cup same]
        BY <1>3 DEF Shelve, Here
    <2>2. same \in SUBSET tree[at].dirs /\ DirIds(same) = {target.id}
        BY <1>3 DEF DirIds
    <2> HIDE DEF same, target, at
    <2> DEFINE left == tree[at].dirs \ same
    <2>3. tree' = [tree EXCEPT ![at].dirs = left]
        BY <2>1
    <2> HIDE DEF left
    <2>4. /\ tree'[at].dirs = left
          /\ \A v \in Places : /\ tree'[v].road = tree[v].road /\ tree'[v].reqs = tree[v].reqs
                               /\ tree'[v].state = tree[v].state
                               /\ v # at => tree'[v].dirs = tree[v].dirs
        BY <1>1, <2>3, OneFile, RestOfFiles
    <2>5. /\ shelf'.dirs[at] = shelf.dirs[at] \cup same
          /\ \A v \in Places : v # at => shelf'.dirs[v] = shelf.dirs[v]
        BY <1>1, <2>1
    <2> QED BY <2>2, <2>4, <2>5 DEF target, at, left
<1> QED BY <1>2, <1>3

\* A step that makes a directory: the directory and the section that it writes.
LEMMA DraftMade ==
    ASSUME TypeInv, NEW p \in Procs, MakeDirectory(p)
    PROVE  LET at == proc[p].at
               c == proc[p].cmd
               n == proc[p].num
               id == IF c.op = "insert" THEN <<c.base[1], n>> ELSE <<n, 0>>
           IN  /\ c \in Menu[p] /\ c.op \in {"add", "insert"} /\ n \in Nat \ {0} /\ (c.op = "insert" => c.base \in Numbers)
               /\ proc[p].road \in Seq(Sections) /\ proc'[p].road \in Seq(Sections) /\ id \in Numbers
               /\ \E name \in Titles :
                    /\ Range(proc'[p].road) = Range(proc[p].road)
                         \cup {NewSection(id, name, IF c.op = "insert" THEN c.base ELSE <<n - 1, 0>>)}
                    /\ tree'[at].dirs = tree[at].dirs \cup {Directory(id, name)}
               /\ DirIds(tree'[at].dirs) = DirIds(tree[at].dirs) \cup {id}
               /\ \A v \in Places : /\ tree'[v].road = tree[v].road /\ tree'[v].reqs = tree[v].reqs
                                    /\ tree'[v].state = tree[v].state /\ (v # at => tree'[v].dirs = tree[v].dirs)
               /\ shelf' = shelf /\ at \in made'
               /\ proc'[p].cmd = c /\ proc'[p].at = at /\ proc'[p].num = n + 1
               /\ proc'[p].pc = IF Len(proc[p].todo) = 1 THEN "write" ELSE "make"
<1> DEFINE r == proc[p]
           c == r.cmd
           n == r.num
           at == r.at
           name == Head(r.todo)
           id == IF c.op = "insert" THEN <<c.base[1], n>> ELSE <<n, 0>>
           dep == IF c.op = "insert" THEN c.base ELSE <<n - 1, 0>>
           road == IF c.op = "insert" THEN InsertedAfter(r.road, c.base, n, name)
                   ELSE Appended(r.road, n, name)
<1>1. r.pc = "make" /\ c \in Menu[p] /\ Carried(p, r) /\ at \in Places
    BY Facts DEF MakeDirectory, At, Working
<1>2. /\ c.op \in {"add", "insert"} /\ r.road \in Seq(Sections) /\ n \in Nat \ {0}
      /\ r.todo \in Seq(Titles) /\ r.todo # <<>>
      /\ c.op = "insert" => SectionOf(r.road, c.base) # 0 /\ Len(r.todo) = 1
    BY <1>1 DEF Carried
<1>3. name \in Titles
    BY <1>2, HeadAndTail
<1>4. c.op = "insert" => c.base \in Numbers
    BY <1>1, Parameters
<1> HIDE DEF name
<1>5. id \in Numbers
    BY <1>2, <1>4 DEF Numbers
<1>6. road \in Seq(Sections) /\ Range(road) = Range(r.road) \cup {NewSection(id, name, dep)}
    <2>1. CASE c.op = "insert"
        <3>1. c.base \in Numbers /\ n \in Nat /\ SectionOf(r.road, c.base) # 0
            BY <1>2, <1>4, <2>1
        <3>2. /\ InsertedAfter(r.road, c.base, n, name) \in Seq(Sections)
              /\ Range(InsertedAfter(r.road, c.base, n, name))
                   = Range(r.road) \cup {NewSection(<<c.base[1], n>>, name, c.base)}
            BY <1>2, <1>3, <3>1, AddedSections
        <3> QED BY <2>1, <3>2
    <2>2. CASE c.op # "insert"
        <3>1. r.road \in Seq(Sections) /\ name \in Titles /\ n \in Nat \ {0}
            BY <1>2, <1>3
        <3>2. /\ Appended(r.road, n, name) \in Seq(Sections)
              /\ Range(Appended(r.road, n, name)) = Range(r.road) \cup {NewSection(<<n, 0>>, name, <<n - 1, 0>>)}
            BY ONLY <3>1, AddedSections
        <3> QED BY <2>2, <3>2
    <2> QED BY <2>1, <2>2
<1>7. proc' = [proc EXCEPT ![p].pc = IF Len(r.todo) = 1 THEN "write" ELSE "make",
                           ![p].todo = Tail(r.todo), ![p].num = n + 1, ![p].road = road]
    BY DEF MakeDirectory, name
<1>8. made' = made \cup Ancestors(at) /\ shelf' = shelf
    BY DEF MakeDirectory
<1> DEFINE d == Directory(id, name)
           dirs == tree[at].dirs \cup {d}
<1>9. tree' = [tree EXCEPT ![at].dirs = dirs]
    BY DEF MakeDirectory, name
<1> HIDE DEF id, road, dep
<1>10. d.id = id
    BY DEF Directory
<1> HIDE DEF d
<1>11. DirIds(dirs) = DirIds(tree[at].dirs) \cup {id}
    BY <1>10 DEF DirIds
<1> HIDE DEF dirs
<1>12. /\ tree'[at].dirs = dirs
       /\ \A v \in Places : /\ tree'[v].road = tree[v].road /\ tree'[v].reqs = tree[v].reqs
                            /\ tree'[v].state = tree[v].state /\ (v # at => tree'[v].dirs = tree[v].dirs)
    BY <1>1, <1>9, OneFile, RestOfFiles
<1>13. /\ proc'[p].cmd = c /\ proc'[p].at = at /\ proc'[p].road = road /\ proc'[p].num = n + 1
       /\ proc'[p].pc = IF Len(r.todo) = 1 THEN "write" ELSE "make"
    BY <1>7, Facts DEF Idle
<1>14. at \in made'
    BY <1>8 DEF Ancestors
<1>15. /\ Range(proc'[p].road) = Range(r.road) \cup {NewSection(id, name, dep)}
       /\ tree'[at].dirs = tree[at].dirs \cup {Directory(id, name)}
    BY <1>6, <1>12, <1>13 DEF dirs, d
<1> QED BY <1>1, <1>2, <1>3, <1>4, <1>5, <1>6, <1>8, <1>11, <1>12, <1>13, <1>14, <1>15 DEF id, dep

\* A roadmap that is written back.
LEMMA DraftWritten ==
    ASSUME TypeInv, NEW p \in Procs, Writes(p), Op(p) # "remove"
    PROVE  LET at == proc[p].at
           IN  /\ proc[p].road \in Seq(Sections) /\ Edited(proc[p].road, Rewritten(p)) /\ tree'[at].road = Rewritten(p)
               /\ (Adds(p) => Rewritten(p) = proc[p].road)
               /\ \A v \in Places : /\ tree'[v].dirs = tree[v].dirs /\ tree'[v].reqs = tree[v].reqs
                                    /\ tree'[v].state = tree[v].state /\ (v # at => tree'[v].road = tree[v].road)
               /\ proc'[p].cmd = proc[p].cmd /\ proc'[p].at = at /\ proc'[p].pc = AfterWrite(p)
               /\ proc'[p].road = Rewritten(p)
<1>1. proc[p].pc = "write" /\ proc[p].at \in Places /\ Carried(p, proc[p])
    BY Facts DEF Writes, At
<1>2. proc[p].road \in Seq(Sections) /\ Edited(proc[p].road, Rewritten(p))
    BY <1>1, RewrittenRoadmap DEF Carried
<1>3. /\ tree'[proc[p].at].road = Rewritten(p)
      /\ \A v \in Places : /\ tree'[v].dirs = tree[v].dirs /\ tree'[v].reqs = tree[v].reqs
                           /\ tree'[v].state = tree[v].state /\ (v # proc[p].at => tree'[v].road = tree[v].road)
    BY <1>1, OneFile, RestOfFiles DEF Writes
<1>4. /\ proc'[p].pc = AfterWrite(p) /\ proc'[p].cmd = proc[p].cmd /\ proc'[p].at = proc[p].at
      /\ proc'[p].road = Rewritten(p)
    BY Facts DEF Writes, Idle
<1>5. Adds(p) => Rewritten(p) = proc[p].road
    BY DEF Adds, Op, Rewritten
<1> QED BY <1>2, <1>3, <1>4, <1>5

-----------------------------------------------------------------------------
(* Every directory has its section, every dependency its phase. *)

\* Somebody is writing a section whose directory is there already.
Composes(p, v) == Drafting(p) /\ Adds(p) /\ proc[p].at = v
\* The phase that the next section will depend on is there.
Grounded(p) ==
    IF Op(p) = "insert" THEN proc[p].cmd.base \in RoadIds(proc[p].road)
    ELSE <<proc[p].num - 1, 0>> \in RoadIds(proc[p].road)

FitPlace(v) ==
    tree[v].road # None =>
        /\ v \in made /\ tree[v].road # <<>> /\ Fits(tree[v].road)
        /\ DirIds(tree[v].dirs) \subseteq RoadIds(tree[v].road) \/ \E p \in Procs : Composes(p, v)
FitDraft(p) ==
    Drafting(p) =>
        /\ Here(p).road # None /\ proc[p].road # <<>> /\ Fits(proc[p].road)
        /\ DirIds(Here(p).dirs) \subseteq RoadIds(proc[p].road)
        /\ At(p, "make") => Grounded(p)
FitInv ==
    kills = 0 /\ ~robbed /\ ~Ran(Taking) => (\A v \in Places : FitPlace(v)) /\ \A p \in Procs : FitDraft(p)

\* Making a directory keeps the draft fit.
LEMMA FitMade ==
    ASSUME TypeInv, NumbersInv, NEW p \in Procs, MakeDirectory(p), ~robbed, ~Ran(Moving), FitDraft(p)
    PROVE  FitDraft(p)' /\ Composes(p, proc[p].at)'
<1> DEFINE at == proc[p].at
           c == proc[p].cmd
           n == proc[p].num
           id == IF c.op = "insert" THEN <<c.base[1], n>> ELSE <<n, 0>>
           dep == IF c.op = "insert" THEN c.base ELSE <<n - 1, 0>>
           road == proc[p].road
           new == proc'[p].road
<1>1. At(p, "make") /\ Drafting(p) /\ at \in Places
    BY Facts DEF MakeDirectory, Drafting
<1>2. /\ c.op \in {"add", "insert"} /\ n \in Nat \ {0} /\ (c.op = "insert" => c.base \in Numbers)
      /\ road \in Seq(Sections) /\ new \in Seq(Sections) /\ id \in Numbers
      /\ \E name \in Titles : Range(new) = Range(road) \cup {NewSection(id, name, dep)}
      /\ DirIds(tree'[at].dirs) = DirIds(tree[at].dirs) \cup {id}
      /\ \A v \in Places : tree'[v].road = tree[v].road
      /\ proc'[p].cmd = c /\ proc'[p].at = at /\ proc'[p].num = n + 1
      /\ proc'[p].pc \in {"write", "make"}
    BY DraftMade
<1>3. /\ tree[at].road # None /\ road # <<>> /\ Fits(road)
      /\ DirIds(tree[at].dirs) \subseteq RoadIds(road)
      /\ IF c.op = "insert" THEN c.base \in RoadIds(road) ELSE <<n - 1, 0>> \in RoadIds(road)
    BY <1>1 DEF FitDraft, Here, Grounded, Op
<1>4. dep \in RoadIds(road)
    BY <1>3
<1>5. RoadIds(road) = Numbered(road) /\ RoadIds(road) \subseteq Numbers
    BY <1>2, RoadIdsOf
<1>6. Before(dep, id)
    <2>1. CASE c.op = "insert"
        <3>1. c.base[2] < n
            <4>1. Above(c, n, Numbered(road) \cup DirIds(tree[at].dirs))
                BY <1>1 DEF NumbersInv, Here
            <4> QED BY <1>3, <1>5, <2>1, <4>1 DEF Above
        <3> QED BY <2>1, <3>1 DEF Before
    <2>2. CASE c.op # "insert"
        <3>1. n - 1 < n
            BY <1>2
        <3> QED BY <2>2, <3>1 DEF Before
    <2> QED BY <2>1, <2>2
<1>7. Base(id) \in RoadIds(road) \cup {id}
    <2>1. CASE c.op = "insert"
        <3>1. Base(id) = Base(c.base)
            BY <2>1 DEF Base
        <3> QED BY <1>3, <2>1, <3>1 DEF Fits, Rooted
    <2>2. CASE c.op # "insert"
        <3>1. Base(id) = id
            BY <2>2 DEF Base
        <3> QED BY <3>1
    <2> QED BY <2>1, <2>2
<1>8. PICK name \in Titles : Range(new) = Range(road) \cup {NewSection(id, name, dep)}
    BY <1>2
<1>9. c.op # "insert" => id = <<n, 0>> /\ (n + 1) - 1 = n
    BY <1>2
<1> HIDE DEF id, dep, new, road, at, n
<1>10. RoadIds(new) = RoadIds(road) \cup {id} /\ Fits(new)
    <2>1. road \in Seq(Sections) /\ new \in Seq(Sections) /\ id \in Numbers
        BY <1>2
    <2>2. /\ RoadIds(new) = RoadIds(road) \cup {id}
          /\ Fits(road) /\ Base(id) \in RoadIds(road) \cup {id} /\ dep \in RoadIds(road) /\ Before(dep, id) => Fits(new)
        BY <1>8, <2>1, LongerFits
    <2> QED BY <1>3, <1>4, <1>6, <1>7, <2>2
<1>11. new # <<>>
    BY <1>2, <1>10, RoadIdsOf
<1>12. DirIds(tree'[at].dirs) \subseteq RoadIds(new)
    BY <1>2, <1>3, <1>10
<1>13. IF c.op = "insert" THEN c.base \in RoadIds(new) ELSE <<(n + 1) - 1, 0>> \in RoadIds(new)
    BY <1>3, <1>9, <1>10
<1>14. FitDraft(p)'
    BY <1>1, <1>2, <1>3, <1>10, <1>11, <1>12, <1>13 DEF FitDraft, Here, Grounded, Op, at, new, n
<1>15. Composes(p, at)'
    BY <1>2 DEF Composes, Drafting, Adds, At, Op, at
<1> QED BY <1>14, <1>15 DEF at

\* With every directory in the roadmap the new number follows one of the roadmap.
LEMMA HighestOfRoadmap ==
    ASSUME NEW road \in Seq(Sections), NEW dirs \in SUBSET Directories, IsFiniteSet(dirs),
           DirIds(dirs) \subseteq RoadIds(road), RoadIds(road) # {}
    PROVE  \E top \in RoadIds(road) : NextInteger(road, dirs) = 1 + top[1]
<1> DEFINE ids == RoadIds(road)
           heads == {id[1] : id \in ids}
           f == [id \in ids |-> id[1]]
           all == heads \cup {0}
           m == Max({0} \cup heads)
<1>1. ids \in SUBSET Numbers /\ IsFiniteSet(ids)
    BY NumbersOf DEF Roadmaps
<1>2. NextInteger(road, dirs) = 1 + m
    <2>1. RoadIds(road) \cup DirIds(dirs) = ids
        OBVIOUS
    <2> QED BY <2>1 DEF NextInteger
<1>3. ids # {}
    OBVIOUS
<1> HIDE DEF ids
<1>4. f \in [ids -> Nat] /\ {f[id] : id \in ids} = heads
    BY <1>1 DEF Numbers
<1>5. heads # {}
    BY <1>3
<1> HIDE DEF f, heads
<1>6. IsFiniteSet({f[x] : x \in ids})
    BY <1>1, <1>4, ImageFinite
<1>7. IsFiniteSet(all) /\ heads \in SUBSET Nat
    <2>1. IsFiniteSet(heads) /\ heads \in SUBSET Nat
        BY <1>4, <1>6
    <2> QED BY <2>1, FS_AddElement
<1>8. all \subseteq Nat /\ all # {} /\ heads \subseteq all /\ all = {0} \cup heads
    BY <1>7
<1> HIDE DEF all
<1>9. m \in all /\ \A n \in all : n <= m
    BY <1>7, <1>8, GreatestNumber
<1> HIDE DEF m
<1>10. m \in heads
    <2>1. CASE m = 0
        <3>1. PICK h \in heads : TRUE
            BY <1>5
        <3>2. h \in Nat /\ h <= 0
            BY <1>7, <1>8, <1>9, <2>1
        <3>3. h = 0
            BY <3>2
        <3> QED BY <2>1, <3>1, <3>3
    <2>2. CASE m # 0
        BY <1>8, <1>9, <2>2 DEF all
    <2> QED BY <2>1, <2>2
<1>11. \E top \in ids : m = top[1]
    BY <1>10 DEF heads
<1> QED BY <1>2, <1>11 DEF ids

\* So does reading the roadmap.
LEMMA FitRead ==
    ASSUME TypeInv, TypeInv', NEW p \in Procs, Advance(p), ~robbed, ~Ran(Moving), Drafting(p)', ~MakeDirectory(p),
           \A v \in Places : FitPlace(v)
    PROVE  FitDraft(p)'
<1> DEFINE at == proc[p].at
           c == proc[p].cmd
           road == tree[at].road
           dirs == tree[at].dirs
           ids == RoadIds(road) \cup DirIds(dirs)
<1>1. /\ tree' = tree /\ proc'[p].at = at /\ proc'[p].cmd = c /\ proc'[p].road = road /\ road # None /\ At(p, "read")
      /\ At(p, "make")' =>
           /\ c.op \in {"add", "insert"}
           /\ proc'[p].num = IF c.op = "insert" THEN NextDecimal(road, dirs, c.base) ELSE NextInteger(road, dirs)
    BY DraftTurns DEF Here
<1>2. at \in Places /\ tree[at] \in Trees /\ Sound(dirs)
    BY Facts DEF Here
<1>3. road \in Seq(Sections) /\ dirs \in SUBSET Directories /\ IsFiniteSet(dirs)
    BY <1>1, <1>2 DEF Trees, Roadmaps, Sound
<1>4. road # <<>> /\ Fits(road)
    BY <1>1, <1>2 DEF FitPlace
<1>5. DirIds(dirs) \subseteq RoadIds(road)
    <2>1. ASSUME NEW q \in Procs, Composes(q, at)
          PROVE  FALSE
        <3>1. q = p
            BY <1>1, <2>1, LockInvExcludes DEF TypeInv, LockExcludes, Composes, Drafting, Section, Held, At
        <3> QED BY <1>1, <2>1, <3>1 DEF Composes, Drafting, At
    <2> QED BY <1>1, <1>2, <2>1 DEF FitPlace
<1>6. Here(p)' = tree[at]
    BY <1>1 DEF Here
<1>7. ASSUME At(p, "make")'
      PROVE  Grounded(p)'
    <2>1. c.op \in {"add", "insert"} /\ Op(p)' = c.op
        BY <1>1, <1>7 DEF Op
    <2>2. CASE c.op = "insert"
        <3>1. SectionOf(road, c.base) # 0
            BY <1>1, <1>7, <2>2 DEF TypeInv, CarriedOK, Carried, At
        <3>2. c.base \in RoadIds(road)
            <4>1. SectionOf(road, c.base) \in DOMAIN road /\ road[SectionOf(road, c.base)].id = c.base
                BY <1>3, <3>1, SectionFound
            <4> QED BY <1>1, <4>1 DEF RoadIds
        <3> QED BY <1>1, <2>1, <2>2, <3>2 DEF Grounded
    <2>3. CASE c.op # "insert"
        <3>1. RoadIds(road) # {} /\ RoadIds(road) \subseteq Numbers
            BY <1>3, <1>4, RoadIdsOf
        <3>2. PICK top \in RoadIds(road) : NextInteger(road, dirs) = 1 + top[1]
            BY <1>3, <1>5, <3>1, HighestOfRoadmap
        <3>3. <<top[1], 0>> \in RoadIds(road)
            BY <1>4 DEF Fits, Rooted, Base
        <3>4. (1 + top[1]) - 1 = top[1]
            BY <3>1, <3>2 DEF Numbers
        <3>5. proc'[p].num = 1 + top[1]
            BY <1>1, <1>7, <2>3, <3>2
        <3> QED BY <1>1, <2>1, <2>3, <3>3, <3>4, <3>5 DEF Grounded
    <2> QED BY <2>2, <2>3
<1> HIDE DEF road, dirs, at
<1> QED BY <1>1, <1>4, <1>5, <1>6, <1>7 DEF FitDraft, road, dirs

\* Who composes a section has a step that writes.
LEMMA ComposerWrites ==
    ASSUME TypeInv, NEW p \in Procs, Plain(p), ~Kill(p), NEW v \in made, Composes(p, v)
    PROVE  MakeDirectory(p) \/ Writes(p)
<1>1. At(p, "make") => MakeDirectory(p)
    BY Stations
<1>2. At(p, "write") => Writes(p)
    <2> SUFFICES ASSUME At(p, "write")
                 PROVE  Writes(p)
        OBVIOUS
    <2>1. WriteRoadmap(p)
        BY Stations
    <2>2. Op(p) # "annotate" /\ Writable(p)
        BY DEF Composes, Adds, Writable
    <2> QED BY <2>1, <2>2 DEF WriteRoadmap, Writes
<1> QED BY <1>1, <1>2 DEF Composes, Drafting

LEMMA FitStep ==
    ASSUME TypeInv, TypeInv', Unbegun, NumbersInv, FitInv, [WsNext]_wsvars, NEW p \in Procs, Advance(p),
           kills' = 0, ~robbed', ~Ran(Taking)'
    PROVE  (\A v \in Places : FitPlace(v)') /\ \A q \in Procs : FitDraft(q)'
<1>1. ~robbed /\ ~Ran(Taking)
    BY RanStays, AdvanceOnward DEF Onward
<1>2. Plain(p) /\ made \subseteq made' /\ (Working(p) => Op(p) \notin Taking)
    BY <1>1, OnlyPlain
<1>3. kills = 0 /\ ~Kill(p)
    <2>1. kills \in Nat
        BY PlacesAssumption DEF TypeInv, FilesOK
    <2>2. Kill(p) => kills' = kills + 1
        BY DEF Kill
    <2>3. ~Kill(p)
        BY <2>1, <2>2
    <2> QED BY <1>2, <2>3, KillsCounted
<1>4. (\A v \in Places : FitPlace(v)) /\ \A q \in Procs : FitDraft(q)
    BY <1>1, <1>3 DEF FitInv
<1>5. ~Ran(Moving)
    BY <1>1 DEF Ran, Moving, Taking
<1>6. Working(p) => Op(p) \notin Moving
    BY <1>2 DEF Moving, Taking
<1> DEFINE at == proc[p].at
<1>7. at \in Places /\ \A q \in Procs : proc[q].at \in Places /\ Here(q) = tree[proc[q].at]
    BY Facts DEF Here
<1>8. MakeDirectory(p) => Drafting(p) /\ FitDraft(p)' /\ \A v \in Places : v = at => Composes(p, v)'
    <2>1. MakeDirectory(p) => Drafting(p) /\ FitDraft(p)' /\ Drafting(p)' /\ Adds(p)'
        BY <1>1, <1>4, <1>5, FitMade DEF MakeDirectory, Drafting, Composes
    <2>2. MakeDirectory(p) => proc'[p].at = at
        BY DraftMade
    <2> QED BY <2>1, <2>2 DEF Composes
<1>9. Writes(p) =>
        /\ Drafting(p) /\ tree'[at].road # None /\ tree'[at].road # <<>> /\ Fits(tree'[at].road)
        /\ DirIds(tree'[at].dirs) \subseteq RoadIds(tree'[at].road)
        /\ tree[at].road # None
    <2> SUFFICES ASSUME Writes(p)
                 PROVE  /\ Drafting(p) /\ tree'[at].road # None /\ tree'[at].road # <<>> /\ Fits(tree'[at].road)
                        /\ DirIds(tree'[at].dirs) \subseteq RoadIds(tree'[at].road)
                        /\ tree[at].road # None
        OBVIOUS
    <2>1. Drafting(p) /\ Working(p)
        BY DEF Writes, Drafting, Working, At
    <2>2. Op(p) # "remove"
        BY <1>6, <2>1 DEF Moving
    <2>3. /\ proc[p].road \in Seq(Sections) /\ Edited(proc[p].road, Rewritten(p)) /\ tree'[at].road = Rewritten(p)
          /\ tree'[at].dirs = tree[at].dirs
        BY <1>7, <2>2, DraftWritten
    <2>4. /\ tree[at].road # None /\ proc[p].road # <<>> /\ Fits(proc[p].road)
          /\ DirIds(tree[at].dirs) \subseteq RoadIds(proc[p].road)
        BY <1>4, <1>7, <2>1 DEF FitDraft
    <2>5. RoadIds(Rewritten(p)) = RoadIds(proc[p].road) /\ Fits(Rewritten(p)) /\ Rewritten(p) \in Seq(Sections)
        BY <2>3, <2>4, EditedFits, EditedSections
    <2>6. Rewritten(p) # None /\ Rewritten(p) # <<>>
        BY <2>3, <2>4, <2>5, RoadIdsOf
    <2> QED BY <2>1, <2>3, <2>4, <2>5, <2>6
<1> HIDE DEF at
<1>10. \A q \in Procs : q # p => proc'[q] = proc[q]
    BY OthersStay DEF Advance, TypeInv
<1>11. ASSUME NEW v \in Places
       PROVE  /\ \/ tree'[v].road = tree[v].road /\ tree'[v].dirs \subseteq tree[v].dirs
                 \/ (MakeDirectory(p) \/ Writes(p)) /\ v = at
              /\ MakeDirectory(p) => tree'[v].road = tree[v].road
              /\ \A q \in Procs : q # p /\ Composes(q, v) => Composes(q, v)'
    <2>1. \/ tree'[v].road = tree[v].road /\ tree'[v].dirs \subseteq tree[v].dirs
          \/ (MakeDirectory(p) \/ Writes(p)) /\ v = at
        BY <1>6, <1>11, PhaseFilesChange DEF at
    <2>2. MakeDirectory(p) => tree'[v].road = tree[v].road
        BY <1>11, DraftMade
    <2>3. \A q \in Procs : q # p /\ Composes(q, v) => Composes(q, v)'
        BY <1>10 DEF Composes, Drafting, Adds, At, Op
    <2> QED BY <2>1, <2>2, <2>3
<1>12. ASSUME NEW v \in Places
       PROVE  FitPlace(v)'
    <2>1. CASE Writes(p) /\ v = at
        BY <1>2, <1>4, <1>9, <1>12, <2>1 DEF FitPlace
    <2>2. CASE MakeDirectory(p) /\ v = at
        <3>1. tree'[v].road = tree[v].road /\ Composes(p, v)'
            BY <1>8, <1>11, <1>12, <2>2
        <3>2. tree[v].road # None => v \in made /\ tree[v].road # <<>> /\ Fits(tree[v].road)
            BY <1>4, <1>12 DEF FitPlace
        <3> QED BY <1>2, <3>1, <3>2 DEF FitPlace
    <2>3. CASE ~((MakeDirectory(p) \/ Writes(p)) /\ v = at)
        <3> SUFFICES ASSUME tree'[v].road # None
                     PROVE  /\ v \in made' /\ tree'[v].road # <<>> /\ Fits(tree'[v].road)
                            /\ DirIds(tree'[v].dirs) \subseteq RoadIds(tree'[v].road) \/ \E q \in Procs : Composes(q, v)'
            BY DEF FitPlace
        <3>1. tree'[v].road = tree[v].road /\ tree'[v].dirs \subseteq tree[v].dirs
            BY <1>11, <1>12, <2>3
        <3>2. /\ v \in made /\ tree[v].road # <<>> /\ Fits(tree[v].road)
              /\ DirIds(tree[v].dirs) \subseteq RoadIds(tree[v].road) \/ \E q \in Procs : Composes(q, v)
            BY <1>4, <1>12, <3>1 DEF FitPlace
        <3>3. DirIds(tree'[v].dirs) \subseteq DirIds(tree[v].dirs)
            BY <3>1 DEF DirIds
        <3>4. ~Composes(p, v)
            <4>1. Composes(p, v) => v = at
                BY DEF Composes, at
            <4> QED BY <1>2, <1>3, <2>3, <3>2, <4>1, ComposerWrites
        <3> QED BY <1>2, <1>11, <1>12, <3>1, <3>2, <3>3, <3>4
    <2> QED BY <2>1, <2>2, <2>3
<1>13. ASSUME NEW q \in Procs
       PROVE  FitDraft(q)'
    <2>1. CASE q = p
        BY <1>1, <1>4, <1>5, <1>8, <2>1, FitRead DEF FitDraft
    <2>2. CASE q # p
        <3> SUFFICES ASSUME Drafting(q)'
                     PROVE  FitDraft(q)'
            BY DEF FitDraft
        <3>1. proc'[q] = proc[q]
            BY <1>10, <2>2
        <3> DEFINE v == proc[q].at
        <3>2. /\ Drafting(q) /\ At(q, "make")' = At(q, "make") /\ Here(q)' = tree'[v] /\ Here(q) = tree[v] /\ v \in Places
              /\ Grounded(q)' = Grounded(q)
            BY <1>7, <3>1 DEF Drafting, At, Here, Grounded, Op
        <3>3. ~(Drafting(p) /\ v = at)
            BY <1>1, <2>2, <3>2, LockInvExcludes DEF TypeInv, LockExcludes, Drafting, Section, Held, At, at
        <3>4. tree'[v].road = tree[v].road /\ tree'[v].dirs \subseteq tree[v].dirs
            BY <1>8, <1>9, <1>11, <3>2, <3>3
        <3>5. DirIds(tree'[v].dirs) \subseteq DirIds(tree[v].dirs)
            BY <3>4 DEF DirIds
        <3>6. FitDraft(q)
            BY <1>4
        <3> HIDE DEF v
        <3> QED BY <3>1, <3>2, <3>4, <3>5, <3>6 DEF FitDraft
    <2> QED BY <2>1, <2>2
<1> QED BY <1>12, <1>13

LEMMA FitInvKept ==
    TypeInv /\ Unbegun /\ NumbersInv /\ FitInv /\ [WsNext]_wsvars => FitInv'
<1> SUFFICES ASSUME TypeInv, Unbegun, NumbersInv, FitInv, [WsNext]_wsvars
             PROVE  FitInv'
    OBVIOUS
<1>1. TypeInv'
    BY TypeInvKept
<1>2. ASSUME NEW p \in Procs, Advance(p)
      PROVE  FitInv'
    <2>1. SUFFICES ASSUME kills' = 0, ~robbed', ~Ran(Taking)'
                   PROVE  (\A v \in Places : FitPlace(v)') /\ \A q \in Procs : FitDraft(q)'
        BY DEF FitInv
    <2> QED BY <1>1, <1>2, <2>1, FitStep
<1>3. ASSUME proc' = proc, robbed' = robbed, kills' = kills, made' = made,
             \A v \in Places : tree'[v].road = tree[v].road /\ DirIds(tree'[v].dirs) = DirIds(tree[v].dirs)
      PROVE  FitInv'
    <2>1. Ran(Taking)' = Ran(Taking)
        BY <1>3 DEF Ran, Op
    <2>2. \A v \in Places : FitPlace(v)' = FitPlace(v)
        BY <1>3 DEF FitPlace, Composes, Drafting, Adds, At, Op
    <2>3. ASSUME NEW q \in Procs
          PROVE  FitDraft(q)' = FitDraft(q)
        <3>1. Here(q)'.road = Here(q).road /\ DirIds(Here(q)'.dirs) = DirIds(Here(q).dirs)
            BY <1>3, Facts DEF Here
        <3>2. Drafting(q)' = Drafting(q) /\ Grounded(q)' = Grounded(q) /\ At(q, "make")' = At(q, "make")
            BY <1>3 DEF Drafting, At, Grounded, Op
        <3> QED BY <1>3, <3>1, <3>2 DEF FitDraft
    <2> QED BY <1>3, <2>1, <2>2, <2>3 DEF FitInv
<1>4. ASSUME NEW at \in Places, Work(at) \/ Age(at)
      PROVE  FitInv'
    <2>1. \A v \in Places : tree'[v].road = tree[v].road /\ DirIds(tree'[v].dirs) = DirIds(tree[v].dirs)
        BY <1>4, WorkLeaves, WorkNumbers DEF Age
    <2> QED BY <1>3, <1>4, <2>1 DEF Work, Age
<1>5. CASE UNCHANGED wsvars
    BY <1>3, <1>5 DEF wsvars, vars
<1> QED BY <1>2, <1>4, <1>5 DEF WsNext, PhaseNext, Surroundings, Rest, Advance

\* A project as the commands leave it: one section and at most one directory for every
\* number, no directory without its section, a section for the integer phase of every
\* decimal one, dependencies that lead to sections of lower numbers.
Fitting(t) ==
    /\ Single(t.dirs)
    /\ t.road # None =>
         t.road # <<>> /\ Distinct(t.road) /\ Fits(t.road) /\ DirIds(t.dirs) \subseteq RoadIds(t.road)

LEMMA FittingStarts ==
    ASSUME \A start \in Starts : Fitting(start.tree), WsInit
    PROVE  NumbersInv /\ FitInv
<1>1. \A q \in Procs : proc[q].pc \in {"idle", "killed"}
    BY DEF WsInit, Init, Idle
<1>2. PICK start \in Starts : /\ tree = [at \in Places |-> IF at = start.at THEN start.tree ELSE NoTree]
                              /\ made = {Flat} \cup Ancestors(start.at)
    BY DEF WsInit, Init
<1>3. NoTree.road = None /\ Single(NoTree.dirs)
    BY DEF NoTree, Single
<1>4. start.at \in made
    BY <1>2 DEF Ancestors
<1>5. Fitting(start.tree)
    OBVIOUS
<1>6. \A at \in Places :
        /\ Single(tree[at].dirs)
        /\ tree[at].road # None =>
             /\ at \in made /\ tree[at].road # <<>> /\ Distinct(tree[at].road) /\ Fits(tree[at].road)
             /\ DirIds(tree[at].dirs) \subseteq RoadIds(tree[at].road)
    BY <1>2, <1>3, <1>4, <1>5 DEF Fitting
<1> QED BY <1>1, <1>6 DEF NumbersInv, FitInv, FitPlace, FitDraft, Drafting, At

LEMMA DiskStatuses ==
    ASSUME NEW dirs, NEW id
    PROVE  DiskStatus(dirs, id) \in {"no_directory", "complete", "partial", "planned", "discussed", "empty"}
<1> DEFINE d == DirOf(dirs, id)
<1> HIDE DEF d
<1>1. DiskStatus(dirs, id) =
        CASE d = None -> "no_directory"
          [] d # None /\ d.done >= d.plans /\ d.plans > 0 -> "complete"
          [] d # None /\ d.done > 0 /\ (d.done < d.plans \/ d.plans = 0) -> "partial"
          [] d # None /\ d.done = 0 /\ d.plans > 0 -> "planned"
          [] d # None /\ d.done = 0 /\ d.plans = 0 /\ d.notes -> "discussed"
          [] OTHER -> "empty"
    BY DEF DiskStatus, d
<1> QED BY ONLY <1>1

\* The first phase that is not complete can be worked on, or is worked on.
LEMMA ManagerOffers ==
    ASSUME NEW t, t.road \in Seq(Sections), Led(t.road), NEW active,
           NEW k \in DOMAIN t.road, Managed(t, k) # "complete"
    PROVE  Offered(t, active) # {} \/ Executing(t, active) \cup Planning(t, active) # {}
<1> DEFINE road == t.road
           open == {road[i].id : i \in {j \in DOMAIN road : Managed(t, j) # "complete"}}
<1>1. \A i \in DOMAIN road : road[i] \in Sections
    OBVIOUS
<1>2. open \in SUBSET Numbers /\ open # {}
    <2>1. \A s \in Sections : s.id \in Numbers
        BY DEF Sections
    <2>2. \A i \in DOMAIN road : road[i].id \in Numbers
        BY <1>1, <2>1
    <2>3. road[k].id \in open
        OBVIOUS
    <2> QED BY <2>2, <2>3
<1>3. PICK first \in open : \A id \in open : ~Before(id, first)
    <2> HIDE DEF open
    <2> QED BY <1>2, FirstNumber
<1>4. PICK i \in DOMAIN road : road[i].id = first /\ Managed(t, i) # "complete"
    OBVIOUS
<1>5. DepsSatisfied(t, i)
    <2>1. CASE road[i].dep = None
        BY <2>1 DEF DepsSatisfied
    <2>2. CASE road[i].dep # None
        <3>1. Before(road[i].dep, first) /\ road[i].dep \in RoadIds(road)
            BY <1>4, <2>2 DEF Led, Range
        <3>2. PICK j \in DOMAIN road : road[j].id = road[i].dep
            BY <3>1, RoadIdsOf DEF Range
        <3>3. Managed(t, j) = "complete"
            BY <1>3, <3>1, <3>2
        <3> QED BY <3>2, <3>3 DEF DepsSatisfied
    <2> QED BY <2>1, <2>2
<1>6. Managed(t, i) \in {"no_directory", "partial", "planned", "discussed", "empty"}
    BY <1>4, DiskStatuses DEF Managed
<1> HIDE DEF open
<1>7. CASE Executing(t, active) \cup Planning(t, active) = {}
    <2>1. Executing(t, active) = {} /\ Planning(t, active) = {}
        BY <1>7
    <2>2. Managed(t, i) # "partial"
        BY <1>4, <2>1 DEF Executing
    <2>3. \E action \in {"execute", "plan", "discuss"} : [phase |-> first, action |-> action] \in Recommended(t)
        BY <1>4, <1>5, <1>6, <2>2 DEF Recommended
    <2>4. PICK action \in {"execute", "plan", "discuss"} : [phase |-> first, action |-> action] \in Recommended(t)
        BY <2>3
    <2>5. [phase |-> first, action |-> action] \in Offered(t, active)
        BY <2>1, <2>4 DEF Offered
    <2> QED BY <2>5
<1> QED BY <1>7

\* As long as a phase of the roadmap is not complete, `init manager` offers one to work
\* on or reports one as being worked on: in any project whose dependencies lead to lower
\* numbers, whatever phases are added and inserted, completed, annotated and worked on
\* at once, and whatever milestones end meanwhile (init.cjs, cmdInitManager; phase.cjs,
\* which writes the dependencies).
THEOREM ManagerOffersWork ==
    ASSUME \A start \in Starts : Fitting(start.tree)
    PROVE  WsSpec => []ManagerNeverStalls
<1>1. WsInit => TypeInv /\ Unbegun /\ NumbersInv /\ FitInv
    BY TypeInvInit, UnbegunInit, FittingStarts
<1>2. TypeInv /\ Unbegun /\ NumbersInv /\ FitInv /\ [WsNext]_wsvars => (TypeInv /\ Unbegun /\ NumbersInv /\ FitInv)'
    BY TypeInvKept, UnbegunKept, NumbersInvKept, FitInvKept
<1>3. TypeInv /\ FitInv => ManagerNeverStalls
    <2> SUFFICES ASSUME TypeInv, FitInv, kills = 0, ~robbed, ~Ran(Taking), NEW at \in Places, tree[at].road # None,
                        NEW active \in SUBSET DirIds(tree[at].dirs)
                 PROVE  \/ \A i \in DOMAIN tree[at].road : Managed(tree[at], i) = "complete"
                        \/ Offered(tree[at], active) # {}
                        \/ Executing(tree[at], active) \cup Planning(tree[at], active) # {}
        BY DEF ManagerNeverStalls
    <2>1. tree[at].road \in Seq(Sections)
        BY DEF TypeInv, FilesOK, TreesOK, Trees, Roadmaps
    <2>2. Led(tree[at].road)
        BY DEF FitInv, FitPlace, Fits
    <2> DEFINE t == tree[at]
    <2> HIDE DEF t
    <2>3. \A i \in DOMAIN t.road : Managed(t, i) # "complete" =>
            Offered(t, active) # {} \/ Executing(t, active) \cup Planning(t, active) # {}
        BY <2>1, <2>2, ManagerOffers DEF t
    <2> QED BY <2>3 DEF t
<1> QED BY <1>1, <1>2, <1>3, PTL DEF WsSpec

-----------------------------------------------------------------------------
(* How completions and milestones begin, and how they go on. *)

LEMMA BeginTurns ==
    ASSUME TypeInv, TypeInv', NEW p \in Procs, BeginCommand(p) \/ WsBegin(p)
    PROVE  \E c \in Menu[p] :
             /\ At(p, "idle") /\ proc'[p].cmd = c /\ tree' = tree /\ shelf' = shelf /\ made' = made
             /\ c.op = "complete" => CompleteBegins(p, c)
             /\ c.op = "milestone" => MilestoneBegins(p, c)
<1>1. PICK c \in Menu[p] :
        \/ AddBegins(p, c) \/ InsertBegins(p, c) \/ RemoveBegins(p, c) \/ CompleteBegins(p, c)
        \/ ProgressBegins(p, c) \/ AnnotateBegins(p, c) \/ MarkBegins(p, c) \/ MilestoneBegins(p, c)
        \/ ClearBegins(p, c) \/ SetBegins(p, c) \/ EnsureBegins(p, c) \/ RepairBegins(p, c)
        \/ CreateBegins(p, c) \/ WsCompleteBegins(p, c) \/ SetPointer(p, c)
    BY DEF BeginCommand, WsBegin
<1>2. c.op = "complete" => CompleteBegins(p, c)
    BY <1>1 DEF AddBegins, InsertBegins, RemoveBegins, ProgressBegins, AnnotateBegins, MarkBegins, MilestoneBegins,
        ClearBegins, SetBegins, EnsureBegins, RepairBegins, CreateBegins, WsCompleteBegins, SetPointer
<1>3. c.op = "milestone" => MilestoneBegins(p, c)
    BY <1>1 DEF AddBegins, InsertBegins, RemoveBegins, CompleteBegins, ProgressBegins, AnnotateBegins, MarkBegins,
        ClearBegins, SetBegins, EnsureBegins, RepairBegins, CreateBegins, WsCompleteBegins, SetPointer
<1>4. (\E entered : Begin(p, c, entered)) \/ SetPointer(p, c)
    BY <1>1 DEF AddBegins, InsertBegins, RemoveBegins, CompleteBegins, ProgressBegins, AnnotateBegins, CountAndLock,
        MarkBegins, MilestoneBegins, ClearBegins, SetBegins, EnsureBegins, RepairBegins, CreateBegins, WsCompleteBegins
<1>5. At(p, "idle") /\ tree' = tree /\ shelf' = shelf /\ made' = made
    <2>1. ASSUME NEW entered, Begin(p, c, entered)
          PROVE  At(p, "idle") /\ tree' = tree /\ shelf' = shelf /\ made' = made
        BY <2>1 DEF Begin
    <2>2. SetPointer(p, c) => At(p, "idle") /\ tree' = tree /\ shelf' = shelf /\ made' = made
        BY DEF SetPointer
    <2> QED BY <1>4, <2>1, <2>2
<1>6. proc'[p].cmd = c
    <2>1. ASSUME NEW entered, Begin(p, c, entered)
          PROVE  proc'[p].cmd = c
        <3>1. proc'[p] = Started(p, c, entered)
            BY <2>1, Facts DEF Begin, Started
        <3>2. DOMAIN Started(p, c, entered) = DOMAIN entered
            BY DEF Started
        <3>3. DOMAIN proc'[p] = DOMAIN Idle
            BY DEF TypeInv, LockInv, Types, ProcOK, OneOK
        <3>4. "cmd" \in DOMAIN entered
            BY <3>1, <3>2, <3>3 DEF Idle
        <3> QED BY <3>1, <3>4 DEF Started
    <2>2. SetPointer(p, c) => proc'[p].cmd = c
        BY Facts DEF SetPointer, Nothing, Refused, Idle
    <2> QED BY <1>4, <2>1, <2>2
<1> QED BY <1>2, <1>3, <1>5, <1>6

\* A process that begins at a place.
LEMMA BeginsAt ==
    ASSUME TypeInv, NEW p \in Procs, NEW c \in Menu[p], NEW pc, NEW counts, NEW next,
           \/ Begin(p, c, [Enter(pc) EXCEPT !.counts = counts])
           \/ Begin(p, c, [Enter(pc) EXCEPT !.next = next])
           \/ Begin(p, c, Enter(pc))
    PROVE  /\ proc'[p].at = PlaceOf(p, c) /\ proc'[p].at \in Places /\ proc'[p].pc = pc /\ ~proc'[p].ok
           /\ Begin(p, c, [Enter(pc) EXCEPT !.next = next]) => proc'[p].next = next
<1>a. \A entered : Begin(p, c, entered) => proc'[p] = Started(p, c, entered)
    BY Facts DEF Begin, Started
<1>b. \A entered : {"at", "pc", "ok", "next"} \subseteq DOMAIN entered =>
        /\ Started(p, c, entered).at = PlaceOf(p, c) /\ Started(p, c, entered).pc = entered.pc
        /\ Started(p, c, entered).ok = entered.ok /\ Started(p, c, entered).next = entered.next
    BY DEF Started
<1> DEFINE E == {Enter(pc), [Enter(pc) EXCEPT !.counts = counts], [Enter(pc) EXCEPT !.next = next]}
<1>c. /\ \A entered \in E : {"at", "pc", "ok", "next"} \subseteq DOMAIN entered /\ entered.pc = pc /\ ~entered.ok
      /\ [Enter(pc) EXCEPT !.next = next].next = next
    BY DEF Enter, Idle
<1>d. \E entered \in E : Begin(p, c, entered)
    OBVIOUS
<1>e. [Enter(pc) EXCEPT !.next = next] \in E
    OBVIOUS
<1> HIDE DEF E
<1>1. proc'[p].at = PlaceOf(p, c) /\ proc'[p].pc = pc /\ ~proc'[p].ok
    BY <1>a, <1>b, <1>c, <1>d
<1>2. Begin(p, c, [Enter(pc) EXCEPT !.next = next]) => proc'[p].next = next
    BY <1>a, <1>b, <1>c, <1>e
<1> QED BY <1>1, <1>2, Beginning

LEMMA CompletionBegins ==
    ASSUME TypeInv, NEW p \in Procs, NEW c \in Menu[p], CompleteBegins(p, c)
    PROVE  LET at == proc'[p].at
           IN  /\ at \in Places /\ ~proc'[p].ok
               /\ \/ proc'[p].pc = "done"
                  \/ /\ proc'[p].pc = IF tree[at].road = None THEN "lookup" ELSE "lock"
                     /\ Findable(at, c.id) # {}
<1> DEFINE v == PlaceOf(p, c)
           pc == IF tree[v].road = None THEN "lookup" ELSE "lock"
<1>1. \/ Begin(p, c, Refused)
      \/ \E d \in Findable(v, c.id) : Begin(p, c, [Enter(pc) EXCEPT !.counts = Counts(d)])
    BY DEF CompleteBegins
<1> HIDE DEF pc
<1>2. CASE Begin(p, c, Refused)
    <2>1. Refused = Enter("done")
        BY DEF Refused, Enter
    <2> QED BY <1>2, <2>1, BeginsAt
<1>3. ASSUME NEW d \in Findable(v, c.id), Begin(p, c, [Enter(pc) EXCEPT !.counts = Counts(d)])
      PROVE  proc'[p].at = v /\ proc'[p].at \in Places /\ ~proc'[p].ok /\ proc'[p].pc = pc /\ Findable(v, c.id) # {}
    <2> DEFINE counts == Counts(d)
    <2> HIDE DEF counts
    <2>1. Begin(p, c, [Enter(pc) EXCEPT !.counts = counts])
        BY <1>3 DEF counts
    <2> QED BY <2>1, <1>3, BeginsAt
<1> QED BY <1>1, <1>2, <1>3 DEF pc

LEMMA MilestoneBegun ==
    ASSUME TypeInv, NEW p \in Procs, NEW c \in Menu[p], MilestoneBegins(p, c)
    PROVE  proc'[p].at \in Places /\ proc'[p].pc = "archive" /\ proc'[p].next = RoadIds(tree[proc'[p].at].road)
<1> DEFINE next == RoadIds(tree[PlaceOf(p, c)].road)
<1>1. Begin(p, c, [Enter("archive") EXCEPT !.next = next])
    BY DEF MilestoneBegins
<1> HIDE DEF next
<1>2. proc'[p].at = PlaceOf(p, c) /\ proc'[p].at \in Places /\ proc'[p].pc = "archive" /\ proc'[p].next = next
    BY <1>1, BeginsAt
<1> QED BY <1>2 DEF next

\* Where a completion and a milestone can stand.
LEMMA Stands ==
    ASSUME TypeInv, NEW p \in Procs, Plain(p), ~Kill(p), ~At(p, "idle")
    PROVE  /\ Working(p)
           /\ Op(p) = "complete" =>
                proc[p].pc \in Queued \cup {"read", "write", "reqread", "reqwrite", "release", "fail", "lookup", "state"}
           /\ Op(p) = "milestone" => proc[p].pc \in {"archive", "register", "close", "shelve"}
<1> DEFINE pc == proc[p].pc
           Stand ==
             /\ Op(p) = "complete" =>
                  pc \in Queued \cup {"read", "write", "reqread", "reqwrite", "release", "fail", "lookup", "state"}
             /\ Op(p) = "milestone" => pc \in {"archive", "register", "close", "shelve"}
<1>1. /\ pc \in Queued \cup Held => Op(p) \in Rewriting \cup {"set"}
      /\ pc = "make" => Op(p) \in {"add", "insert"}
      /\ pc \in {"reqread", "reqwrite", "lookup", "state"} => Op(p) = "complete"
      /\ pc = "configwrite" => Op(p) = "set"
      /\ pc \in {"rmdir", "rename"} => Op(p) = "remove"
      /\ pc = "mark" => Op(p) = "mark"
      /\ pc \in {"archive", "register", "close", "shelve"} => Op(p) = "milestone"
      /\ pc \in {"clear", "ensure"} => Op(p) = pc
      /\ pc \in {"repair", "addkey"} => Op(p) = "repair"
    BY Facts DEF Carried, Op
<1>2. ~BeginCommand(p) /\ ~WsBegin(p)
    BY DEF BeginCommand, WsBegin
<1>3. Working(p)
    BY Stations DEF Working, At
<1>4. ASSUME Locking(p)
      PROVE  Stand
    BY <1>1, <1>4 DEF Locking, Acquire, SeeStale, BreakStale, GiveUpWaiting, LastTry, Release, Fail, At, Queued,
        Held, Rewriting
<1>5. ASSUME ReadForAdd(p) \/ ReadRoadmap(p) \/ MakeDirectory(p) \/ WriteRoadmap(p)
      PROVE  Stand
    BY <1>1, <1>5 DEF ReadForAdd, ReadRoadmap, MakeDirectory, WriteRoadmap, At, Rewriting, Queued, Held
<1>6. ASSUME ReadRequirements(p) \/ WriteRequirements(p) \/ LookUpNext(p) \/ MoveState(p)
      PROVE  Stand
    BY <1>1, <1>6 DEF ReadRequirements, WriteRequirements, LookUpNext, MoveState, At, Queued
<1>7. ASSUME ArchiveRoadmap(p) \/ Register(p) \/ CloseState(p) \/ Shelve(p) \/ Shelved(p)
      PROVE  Stand
    BY <1>1, <1>7 DEF ArchiveRoadmap, Register, CloseState, Shelve, Shelved, At
<1>8. ASSUME DeleteDirectory(p) \/ RenameNext(p) \/ Renamed(p) \/ Mark(p) \/ ClearNext(p) \/ Cleared(p)
      PROVE  Stand
    BY <1>1, <1>8 DEF DeleteDirectory, RenameNext, Renamed, Mark, ClearNext, Cleared, At
<1>9. ASSUME WriteConfig(p) \/ EnsureConfig(p) \/ Repair(p) \/ AddKey(p) \/ Repaired(p)
      PROVE  Stand
    BY <1>1, <1>9 DEF WriteConfig, EnsureConfig, Repair, AddKey, Repaired, At
<1> QED BY <1>2, <1>3, <1>4, <1>5, <1>6, <1>7, <1>8, <1>9 DEF Plain, PhaseStep, Command

Completes(p) == proc[p].cmd # None /\ Op(p) = "complete"
Claims(p) == Completes(p) /\ (Working(p) \/ (At(p, "done") /\ proc[p].ok))
Written(p) ==
    proc[p].pc \in {"reqread", "reqwrite", "release", "lookup", "state"} \/ (At(p, "done") /\ proc[p].ok)
Archivist(p) == proc[p].pc \in {"archive", "register", "close", "shelve"}

\* How a process comes to complete a phase that was found.
LEMMA ClaimTurns ==
    ASSUME TypeInv, TypeInv', NEW p \in Procs, Advance(p), Plain(p), ~Kill(p), Claims(p)'
    PROVE  \/ Claims(p) /\ Working(p) /\ proc'[p].cmd = proc[p].cmd /\ proc'[p].at = proc[p].at
           \/ /\ tree' = tree /\ shelf' = shelf /\ proc'[p].at \in Places
              /\ Findable(proc'[p].at, proc'[p].cmd.id) # {}
              /\ proc'[p].pc = IF tree[proc'[p].at].road = None THEN "lookup" ELSE "lock"
<1>1. CASE At(p, "idle")
    <2>1. PICK c \in Menu[p] :
            /\ proc'[p].cmd = c /\ tree' = tree /\ shelf' = shelf
            /\ c.op = "complete" => CompleteBegins(p, c)
        BY <1>1, Stations, BeginTurns
    <2>2. CompleteBegins(p, c)
        BY <2>1 DEF Claims, Completes, Op
    <2>3. proc'[p].pc # "done"
        BY <2>2, CompletionBegins DEF Claims, At, Working
    <2> QED BY <2>1, <2>2, <2>3, CompletionBegins
<1>2. CASE ~At(p, "idle")
    <2>1. Working(p)
        BY <1>2, Stands
    <2>2. proc'[p].cmd = proc[p].cmd /\ proc'[p].at = proc[p].at
        BY <1>2, AdvanceOnward DEF Onward
    <2> QED BY <2>1, <2>2 DEF Claims, Completes, Op
<1> QED BY <1>1, <1>2

\* How the steps of a completion follow each other.
LEMMA WrittenTurns ==
    ASSUME TypeInv, TypeInv', NEW p \in Procs, Advance(p), Plain(p), ~Kill(p), Claims(p), Written(p)'
    PROVE  LET at == proc[p].at
           IN  \/ Writes(p)
               \/ /\ At(p, "reqread") /\ tree' = tree /\ Here(p).reqs # None
                  /\ proc'[p].pc = "reqwrite" /\ proc'[p].reqs = Here(p).reqs /\ proc'[p].road = proc[p].road
               \/ /\ At(p, "reqwrite") /\ proc'[p].pc = "release"
                  /\ tree' = [tree EXCEPT ![at].reqs =
                                 proc[p].reqs \cup RequirementsOf(proc[p].road, proc[p].cmd.id)]
               \/ /\ proc[p].pc \in {"release", "lookup", "state"} /\ proc'[p].pc \notin {"reqread", "reqwrite"}
                  /\ \A v \in Places : tree'[v].road = tree[v].road /\ tree'[v].reqs = tree[v].reqs
<1>a. /\ DOMAIN proc = Procs /\ DOMAIN proc[p] = DOMAIN Idle /\ Carried(p, proc[p]) /\ proc[p].at \in Places
    BY Facts
<1>b. /\ \A ok : Finish(p, ok) => proc'[p].pc = "done" /\ proc'[p].ok = ok
      /\ \A pc : Goto(p, pc) => proc'[p].pc = pc
    BY <1>a, FinishOnward DEF Goto, Idle
<1>c. \A ok : Finish(p, ok) /\ Written(p)' => ok
    BY <1>b DEF Written, At
<1>1. ~At(p, "idle") /\ Op(p) = "complete"
    BY Stations DEF Claims, Completes, At, Working
<1>2. proc[p].pc \in Queued \cup {"read", "write", "reqread", "reqwrite", "release", "fail", "lookup", "state"}
    BY <1>1, Stands
<1>3. CASE proc[p].pc \in Queued \cup {"release", "fail"}
    <2>1. Locking(p)
        BY <1>3, Stations
    <2>2. CASE Acquire(p) \/ (LastTry(p) /\ Create(p))
        <3>1. proc' = [proc EXCEPT ![p].pc = FirstStep(p), ![p].reqs = None]
            BY <1>1, <2>2 DEF Acquire, Create
        <3>2. proc'[p].pc \in {"read", "configwrite"}
            BY <1>a, <3>1 DEF Idle, FirstStep
        <3> QED BY <3>2 DEF Written, At
    <2>3. CASE SeeStale(p) \/ BreakStale(p) \/ GiveUpWaiting(p)
        BY <1>b, <2>3 DEF SeeStale, BreakStale, GiveUpWaiting, Written, At
    <2>4. CASE Fail(p) \/ (LastTry(p) /\ Finish(p, FALSE))
        BY <1>c, <2>4 DEF Fail
    <2>5. CASE Release(p)
        BY <1>b, <1>1, <2>5 DEF Release, At
    <2> QED BY <2>1, <2>2, <2>3, <2>4, <2>5 DEF Locking, LastTry
<1>4. CASE At(p, "read")
    <2>1. ReadRoadmap(p)
        BY <1>1, <1>4, Stations DEF ReadForAdd
    <2>2. \/ Goto(p, "fail")
          \/ proc' = [proc EXCEPT ![p].pc = "write", ![p].road = Here(p).road]
        BY <2>1 DEF ReadRoadmap
    <2>3. proc'[p].pc \in {"fail", "write"}
        BY <1>a, <1>b, <2>2 DEF Idle
    <2> QED BY <2>3 DEF Written, At
<1>5. CASE At(p, "write")
    <2>1. WriteRoadmap(p)
        BY <1>5, Stations
    <2>2. ~Goto(p, "fail")
        BY <1>b DEF Written, At
    <2> QED BY <1>1, <2>1, <2>2 DEF WriteRoadmap, Writes
<1>6. CASE At(p, "reqread")
    <2>1. ReadRequirements(p)
        BY <1>6, Stations
    <2>2. ~Goto(p, "fail")
        BY <1>b DEF Written, At
    <2>3. /\ proc' = [proc EXCEPT ![p].pc = "reqwrite", ![p].reqs = Here(p).reqs] /\ tree' = tree
          /\ Here(p).reqs # None
        BY <2>1, <2>2 DEF ReadRequirements, disk
    <2>4. proc'[p].pc = "reqwrite" /\ proc'[p].reqs = Here(p).reqs /\ proc'[p].road = proc[p].road
        BY <1>a, <2>3 DEF Idle
    <2> QED BY <1>6, <2>3, <2>4
<1>7. CASE At(p, "reqwrite")
    <2>1. WriteRequirements(p)
        BY <1>7, Stations
    <2>2. ~Goto(p, "fail")
        BY <1>b DEF Written, At
    <2> QED BY <1>b, <1>7, <2>1, <2>2 DEF WriteRequirements
<1>8. CASE At(p, "lookup")
    <2> DEFINE next == NextPhase(Here(p).road, Here(p).dirs, proc[p].cmd.id)
    <2> HIDE DEF next
    <2>1. LookUpNext(p)
        BY <1>8, Stations
    <2>2. proc' = [proc EXCEPT ![p].pc = "state", ![p].next = next] /\ tree' = tree
        BY <2>1 DEF LookUpNext, disk, next
    <2>3. proc'[p].pc = "state"
        BY <1>a, <2>2 DEF Idle
    <2> QED BY <1>8, <2>2, <2>3 DEF At
<1>9. CASE At(p, "state")
    <2>1. MoveState(p)
        BY <1>9, Stations
    <2>2. tree' = tree \/ \E x : tree' = [tree EXCEPT ![proc[p].at].state = x]
        BY <2>1 DEF MoveState
    <2>3. proc'[p].pc = "done"
        BY <1>b, <2>1 DEF MoveState
    <2>4. \A v \in Places : tree'[v].road = tree[v].road /\ tree'[v].reqs = tree[v].reqs
        BY <1>a, <2>2, RestOfFiles
    <2> QED BY <1>9, <2>3, <2>4 DEF At
<1> QED BY <1>2, <1>3, <1>4, <1>5, <1>6, <1>7, <1>8, <1>9 DEF At

\* How a milestone goes on.
LEMMA ArchivistTurns ==
    ASSUME TypeInv, TypeInv', NEW p \in Procs, Advance(p), Plain(p), ~Kill(p), Archivist(p)'
    PROVE  \/ tree' = tree /\ At(p, "archive")' /\ proc'[p].at \in Places /\ proc'[p].next = RoadIds(tree[proc'[p].at].road)
           \/ /\ Archivist(p) /\ proc'[p].at = proc[p].at /\ proc'[p].next = proc[p].next
              /\ At(p, "shelve")' =>
                   \/ /\ At(p, "close")
                      /\ proc'[p].todo = SetToSeq({d \in Here(p).dirs : InMilestone(proc[p].next, d)})
                   \/ At(p, "shelve") /\ proc[p].todo # <<>> /\ proc'[p].todo = Tail(proc[p].todo)
<1>a. DOMAIN proc = Procs /\ DOMAIN proc[p] = DOMAIN Idle
    BY Facts
<1>b. \A ok : Finish(p, ok) => proc'[p].pc = "done"
    BY FinishOnward
<1>c. proc'[p].cmd.op = "milestone"
    BY DEF Archivist, TypeInv, CarriedOK, Carried
<1>1. CASE At(p, "idle")
    <2>1. PICK c \in Menu[p] : proc'[p].cmd = c /\ tree' = tree /\ (c.op = "milestone" => MilestoneBegins(p, c))
        BY <1>1, Stations, BeginTurns
    <2> QED BY <1>c, <2>1, MilestoneBegun DEF At
<1>2. CASE ~At(p, "idle")
    <2>1. proc'[p].cmd = proc[p].cmd /\ proc'[p].at = proc[p].at
        BY <1>2, AdvanceOnward DEF Onward
    <2>2. Archivist(p)
        BY <1>c, <1>2, <2>1, Stands DEF Archivist, Op
    <2>3. CASE At(p, "archive")
        <3> DEFINE entries == shelf.entries
        <3> HIDE DEF entries
        <3>1. proc' = [proc EXCEPT ![p].pc = "register", ![p].reqs = entries]
            BY <2>3, Stations DEF ArchiveRoadmap, entries
        <3>2. proc'[p].pc = "register" /\ proc'[p].next = proc[p].next
            BY <1>a, <3>1 DEF Idle
        <3> QED BY <2>1, <2>2, <3>2 DEF At
    <2>4. CASE At(p, "register")
        BY <1>a, <2>1, <2>2, <2>4, Stations DEF Register, Goto, At, Idle
    <2>5. CASE At(p, "close")
        <3> DEFINE todo == SetToSeq({d \in Here(p).dirs : InMilestone(proc[p].next, d)})
        <3> HIDE DEF todo
        <3>1. proc' = [proc EXCEPT ![p].pc = "shelve", ![p].todo = todo]
            BY <2>5, Stations DEF CloseState, todo
        <3>2. proc'[p].pc = "shelve" /\ proc'[p].next = proc[p].next /\ proc'[p].todo = todo
            BY <1>a, <3>1 DEF Idle
        <3> QED BY <2>1, <2>2, <2>5, <3>2 DEF At, todo
    <2>6. CASE At(p, "shelve")
        <3>1. Shelve(p) /\ ~Finish(p, TRUE)
            BY <1>b, <2>6, Stations DEF Shelved, Archivist
        <3>2. proc' = [proc EXCEPT ![p].todo = Tail(proc[p].todo)] /\ proc[p].todo # <<>>
            BY <3>1 DEF Shelve
        <3>3. proc'[p].next = proc[p].next /\ proc'[p].todo = Tail(proc[p].todo)
            BY <1>a, <3>2 DEF Idle
        <3> QED BY <2>1, <2>2, <2>6, <3>2, <3>3
    <2> QED BY <2>2, <2>3, <2>4, <2>5, <2>6 DEF Archivist, At
<1> QED BY <1>1, <1>2

-----------------------------------------------------------------------------
(* One place holds the project, and its numbers are never forgotten. *)

Filled(v) == tree[v].road # None \/ tree[v].dirs # {} \/ shelf.dirs[v] # {}
Known(v) == RoadIds(tree[v].road) \cup DirIds(tree[v].dirs)

OnePlace == \A v, w \in Places : Filled(v) /\ Filled(w) => v = w
\* What a milestone has archived has its section still.
RoadPlace(v) ==
    tree[v].road # None =>
        /\ v \in made /\ tree[v].road # <<>> /\ OwnBoxes(tree[v].road)
        /\ DirIds(shelf.dirs[v]) \subseteq RoadIds(tree[v].road)
RoadDraft(p) ==
    Drafting(p) =>
        /\ Here(p).road # None /\ RoadIds(Here(p).road) \subseteq RoadIds(proc[p].road)
        /\ OwnBoxes(proc[p].road)
RoadEnds(p) ==
    Archivist(p) /\ Here(p).road # None =>
        /\ proc[p].next # {} /\ proc[p].next \subseteq RoadIds(Here(p).road)
        /\ At(p, "shelve") => proc[p].todo \in Seq({d \in Directories : d.id \in proc[p].next})
RoadClaim(p) == Claims(p) /\ Here(p).road # None => proc[p].cmd.id \in Known(proc[p].at)
PlaceInv ==
    ~robbed /\ ~Ran(Taking) =>
        /\ OnePlace /\ \A v \in Places : RoadPlace(v)
        /\ \A p \in Procs : RoadDraft(p) /\ RoadEnds(p) /\ RoadClaim(p)

LEMMA ShelfStays ==
    ASSUME TypeInv, NEW p \in Procs, Plain(p), ~Shelve(p)
    PROVE  shelf'.dirs = shelf.dirs
<1>1. shelf \in [roads : SUBSET Places, entries : SUBSET Places, dirs : [Places -> SUBSET Directories]]
    BY DEF TypeInv, FilesOK, ShelfOK
<1>2. CASE BeginCommand(p) \/ WsBegin(p)
    BY <1>2 DEF BeginCommand, WsBegin, AddBegins, InsertBegins, RemoveBegins, CompleteBegins, ProgressBegins,
        AnnotateBegins, CountAndLock, MarkBegins, MilestoneBegins, ClearBegins, SetBegins, EnsureBegins, RepairBegins,
        CreateBegins, WsCompleteBegins, SetPointer, Begin
<1>3. CASE Locking(p)
    BY <1>3 DEF Locking, Acquire, Create, SeeStale, BreakStale, GiveUpWaiting, LastTry, Release, Fail, disk
<1>4. ASSUME ArchiveRoadmap(p) \/ Register(p) \/ Repair(p)
      PROVE  shelf'.dirs = shelf.dirs
    <2>1. \/ shelf' = shelf
          \/ \E x : shelf' = [shelf EXCEPT !.roads = x]
          \/ \E x : shelf' = [shelf EXCEPT !.entries = x]
        BY <1>4 DEF ArchiveRoadmap, Register, Repair
    <2> QED BY <1>1, <2>1
<1>5. CASE Command(p)
    BY <1>4, <1>5 DEF Command, ReadForAdd, MakeDirectory, DeleteDirectory, RenameNext, Renamed, ReadRoadmap,
        WriteRoadmap, ReadRequirements, WriteRequirements, LookUpNext, MoveState, Mark, CloseState, Shelved, ClearNext,
        Cleared, WriteConfig, EnsureConfig, AddKey, Repaired, disk
<1>6. CASE Kill(p)
    BY <1>6 DEF Kill
<1> QED BY <1>2, <1>3, <1>5, <1>6 DEF Plain, PhaseStep

\* Without removals three steps change roadmaps and directories.
LEMMA StepKinds ==
    ASSUME TypeInv, NEW p \in Procs, Advance(p), ~Ran(Taking)
    PROVE  \/ /\ shelf'.dirs = shelf.dirs
              /\ \A v \in Places : tree'[v].road = tree[v].road /\ tree'[v].dirs = tree[v].dirs
           \/ MakeDirectory(p)
           \/ Writes(p) /\ Op(p) # "remove" /\ shelf'.dirs = shelf.dirs
           \/ Shelve(p)
<1>1. Plain(p) /\ (Working(p) => Op(p) \notin Taking)
    BY OnlyPlain
<1>2. ~ClearNext(p)
    <2>1. ClearNext(p) => At(p, "clear") /\ Op(p) = "clear"
        BY Facts DEF ClearNext, At, Carried, Op
    <2> QED BY <1>1, <2>1 DEF Working, At, Taking
<1>3. Working(p) => Op(p) \notin Moving
    BY <1>1 DEF Moving, Taking
<1>4. \A v \in Places : \/ tree'[v].road = tree[v].road /\ tree'[v].dirs = tree[v].dirs
                        \/ MakeDirectory(p) \/ Writes(p) \/ Shelve(p)
    BY <1>2, <1>3, PhaseFilesChange
<1>5. Writes(p) => ~Shelve(p) /\ Op(p) # "remove"
    BY <1>1 DEF Writes, Shelve, At, Working, Taking
<1> QED BY <1>1, <1>4, <1>5, ShelfStays

LEMMA PlacesChange ==
    ASSUME TypeInv, TypeInv', NEW p \in Procs, Advance(p), ~Ran(Taking), NEW v \in Places,
           RoadPlace(v), RoadDraft(p), RoadEnds(p)
    PROVE  /\ Filled(v)' => Filled(v)
           /\ tree'[v].road # None <=> tree[v].road # None
           /\ tree[v].road # None =>
                RoadPlace(v)' /\ Known(v) \subseteq Known(v)' /\ RoadIds(tree[v].road) \subseteq RoadIds(tree'[v].road)
           /\ tree'[v].road = tree[v].road \/ (Writes(p) /\ v = proc[p].at)
<1> DEFINE at == proc[p].at
<1>1. made \subseteq made'
    BY OnlyPlain
<1>2. at \in Places /\ Here(p) = tree[at]
    BY Facts DEF Here
<1>3. CASE /\ shelf'.dirs = shelf.dirs
           /\ \A w \in Places : tree'[w].road = tree[w].road /\ tree'[w].dirs = tree[w].dirs
    BY <1>1, <1>3 DEF Filled, RoadPlace, Known
<1>4. CASE MakeDirectory(p)
    <2>1. tree[at].road # None
        BY <1>2, <1>4 DEF RoadDraft, Drafting, MakeDirectory
    <2>2. /\ DirIds(tree[at].dirs) \subseteq DirIds(tree'[at].dirs) /\ shelf' = shelf
          /\ \A w \in Places : tree'[w].road = tree[w].road /\ (w # at => tree'[w].dirs = tree[w].dirs)
        BY <1>4, DraftMade
    <2> HIDE DEF at
    <2> QED BY <1>1, <2>1, <2>2 DEF Filled, RoadPlace, Known
<1>5. CASE Writes(p) /\ Op(p) # "remove" /\ shelf'.dirs = shelf.dirs
    <2>1. /\ tree[at].road # None /\ RoadIds(tree[at].road) \subseteq RoadIds(proc[p].road) /\ OwnBoxes(proc[p].road)
        BY <1>2, <1>5 DEF RoadDraft, Drafting, Writes
    <2> DEFINE new == Rewritten(p)
    <2>2. /\ proc[p].road \in Seq(Sections) /\ Edited(proc[p].road, new) /\ tree'[at].road = new
          /\ \A w \in Places : tree'[w].dirs = tree[w].dirs /\ (w # at => tree'[w].road = tree[w].road)
        BY <1>5, DraftWritten
    <2> HIDE DEF new, at
    <2>3. RoadIds(new) = RoadIds(proc[p].road) /\ OwnBoxes(new) /\ new \in Seq(Sections)
        BY <2>1, <2>2, EditedFits, EditedSections
    <2>4. tree[at].road # <<>> => RoadIds(tree[at].road) # {}
        <3>1. tree[at].road \in Seq(Sections)
            BY <1>2, <2>1 DEF TypeInv, FilesOK, TreesOK, Trees, Roadmaps
        <3> QED BY <3>1, RoadIdsOf
    <2>5. new # None /\ (tree[at].road # <<>> => new # <<>>)
        BY <2>1, <2>3, <2>4, RoadIdsOf
    <2>6. CASE v = at
        BY <1>1, <1>5, <2>1, <2>2, <2>3, <2>5, <2>6 DEF Filled, RoadPlace, Known, at
    <2>7. CASE v # at
        BY <1>1, <1>5, <2>2, <2>7 DEF Filled, RoadPlace, Known
    <2> QED BY <2>6, <2>7
<1>6. CASE Shelve(p)
    <2>1. CASE tree' = tree /\ shelf' = shelf
        BY <1>1, <2>1 DEF Filled, RoadPlace, Known
    <2>2. CASE ~(tree' = tree /\ shelf' = shelf)
        <3>1. PICK same \in SUBSET tree[at].dirs :
                    /\ tree'[at].dirs = tree[at].dirs \ same /\ shelf'.dirs[at] = shelf.dirs[at] \cup same
                    /\ DirIds(same) = {Head(proc[p].todo).id}
                    /\ \A w \in Places : /\ tree'[w].road = tree[w].road
                                         /\ w # at => tree'[w].dirs = tree[w].dirs /\ shelf'.dirs[w] = shelf.dirs[w]
            BY <1>6, <2>2, ShelveMoves
        <3>2. tree[at].road # None => DirIds(same) \subseteq RoadIds(tree[at].road)
            <4> SUFFICES ASSUME tree[at].road # None
                         PROVE  Head(proc[p].todo).id \in RoadIds(tree[at].road)
                BY <3>1
            <4>1. /\ proc[p].next \subseteq RoadIds(tree[at].road) /\ proc[p].todo # <<>>
                  /\ proc[p].todo \in Seq({d \in Directories : d.id \in proc[p].next})
                BY <1>2, <1>6 DEF RoadEnds, Archivist, Shelve, At
            <4>2. Head(proc[p].todo) \in {d \in Directories : d.id \in proc[p].next}
                BY <4>1, HeadAndTail
            <4> QED BY <4>1, <4>2
        <3> HIDE DEF at
        <3>3. /\ DirIds(tree[at].dirs) = DirIds(tree'[at].dirs) \cup DirIds(same)
              /\ DirIds(shelf'.dirs[at]) = DirIds(shelf.dirs[at]) \cup DirIds(same)
            BY <3>1 DEF DirIds
        <3>4. CASE v = at
            BY <1>1, <3>1, <3>2, <3>3, <3>4 DEF Filled, RoadPlace, Known
        <3>5. CASE v # at
            BY <1>1, <3>1, <3>5 DEF Filled, RoadPlace, Known
        <3> QED BY <3>4, <3>5
    <2> QED BY <2>1, <2>2
<1> QED BY <1>3, <1>4, <1>5, <1>6, StepKinds

\* The process that steps: its draft, its milestone, its claim.
LEMMA DraftStep ==
    ASSUME TypeInv, TypeInv', NEW p \in Procs, Advance(p), ~Ran(Taking), RoadDraft(p), \A v \in Places : RoadPlace(v)
    PROVE  RoadDraft(p)'
<1> DEFINE at == proc[p].at
<1>1. at \in Places /\ Here(p) = tree[at]
    BY Facts DEF Here
<1>2. CASE MakeDirectory(p)
    <2>1. /\ tree[at].road # None /\ RoadIds(tree[at].road) \subseteq RoadIds(proc[p].road)
          /\ OwnBoxes(proc[p].road)
        BY <1>1, <1>2 DEF RoadDraft, Drafting, MakeDirectory
    <2> DEFINE road == proc[p].road
               new == proc'[p].road
               c == proc[p].cmd
               n == proc[p].num
               id == IF c.op = "insert" THEN <<c.base[1], n>> ELSE <<n, 0>>
               dep == IF c.op = "insert" THEN c.base ELSE <<n - 1, 0>>
    <2>2. /\ road \in Seq(Sections) /\ new \in Seq(Sections) /\ tree'[at].road = tree[at].road
          /\ proc'[p].at = at
          /\ id \in Numbers
          /\ \E name \in Titles : Range(new) = Range(road) \cup {NewSection(id, name, dep)}
        BY <1>1, <1>2, DraftMade
    <2> HIDE DEF new, road, at, id, dep
    <2>3. RoadIds(road) \subseteq RoadIds(new) /\ (OwnBoxes(road) => OwnBoxes(new))
        BY <2>2, LongerFits
    <2> QED BY <2>1, <2>2, <2>3 DEF RoadDraft, Here, at, new, road
<1>3. CASE ~MakeDirectory(p)
    <2> SUFFICES ASSUME Drafting(p)'
                 PROVE  RoadDraft(p)'
        BY DEF RoadDraft
    <2>1. ~Ran(Moving)
        BY DEF Ran, Moving, Taking
    <2>2. /\ tree' = tree /\ proc'[p].at = at /\ proc'[p].road = tree[at].road /\ tree[at].road # None
        BY <1>1, <1>3, <2>1, DraftTurns
    <2>3. OwnBoxes(tree[at].road)
        BY <1>1, <2>2 DEF RoadPlace
    <2> HIDE DEF at
    <2> QED BY <2>2, <2>3 DEF RoadDraft, Here
<1> QED BY <1>2, <1>3

LEMMA EndsStep ==
    ASSUME TypeInv, TypeInv', NEW p \in Procs, Advance(p), ~Ran(Taking), RoadDraft(p), RoadEnds(p),
           \A v \in Places : RoadPlace(v)
    PROVE  RoadEnds(p)'
<1> SUFFICES ASSUME Archivist(p)', Here(p)'.road # None
             PROVE  RoadEnds(p)'
    BY DEF RoadEnds
<1> DEFINE at == proc[p].at
           next == proc[p].next
           shelved == {d \in Directories : d.id \in next}
<1>1. Plain(p) /\ ~Kill(p)
    <2>1. Kill(p) => ~Archivist(p)'
        BY OnlyPlain, PlainTurns DEF Archivist
    <2> QED BY <2>1, OnlyPlain
<1>2. at \in Places /\ Here(p) = tree[at] /\ Sound(tree[at].dirs) /\ tree[at] \in Trees
    BY Facts DEF Here
<1>3. ASSUME tree' = tree, At(p, "archive")', proc'[p].at \in Places, proc'[p].next = RoadIds(tree[proc'[p].at].road)
      PROVE  RoadEnds(p)'
    <2> DEFINE v == proc'[p].at
               road == tree[v].road
    <2>1. v \in Places /\ road # None /\ Here(p)'.road = road
        BY <1>3 DEF Here
    <2>2. road \in Seq(Sections) /\ road # <<>>
        BY <2>1 DEF RoadPlace, TypeInv, FilesOK, TreesOK, Trees, Roadmaps
    <2> HIDE DEF road
    <2>3. RoadIds(road) # {}
        BY <2>2, RoadIdsOf
    <2> QED BY <1>3, <2>1, <2>3 DEF RoadEnds, At, road
<1>4. ASSUME Archivist(p), proc'[p].at = at, proc'[p].next = next,
             At(p, "shelve")' =>
                \/ /\ At(p, "close")
                   /\ proc'[p].todo = SetToSeq({d \in Here(p).dirs : InMilestone(next, d)})
                \/ At(p, "shelve") /\ proc[p].todo # <<>> /\ proc'[p].todo = Tail(proc[p].todo)
      PROVE  RoadEnds(p)'
    <2>1. Here(p)' = tree'[at]
        BY <1>4 DEF Here
    <2>2. tree'[at].road # None <=> tree[at].road # None
        BY <1>2, PlacesChange
    <2>3. tree[at].road # None
        BY <2>1, <2>2
    <2>4. /\ next # {} /\ next \subseteq RoadIds(tree[at].road)
          /\ At(p, "shelve") => proc[p].todo \in Seq(shelved)
        BY <1>2, <1>4, <2>3 DEF RoadEnds
    <2>5. RoadIds(tree[at].road) \subseteq RoadIds(tree'[at].road)
        BY <1>2, <2>3, PlacesChange
    <2>6. ASSUME At(p, "shelve")'
          PROVE  proc'[p].todo \in Seq(shelved)
        <3>1. CASE At(p, "shelve") /\ proc[p].todo # <<>> /\ proc'[p].todo = Tail(proc[p].todo)
            <4> HIDE DEF shelved
            <4> QED BY <2>4, <3>1, HeadAndTail
        <3>2. CASE proc'[p].todo = SetToSeq({d \in Here(p).dirs : InMilestone(next, d)})
            <4> DEFINE S == {d \in tree[at].dirs : InMilestone(next, d)}
            <4>1. S \subseteq shelved
                BY <1>2, <2>4 DEF InMilestone, Trees
            <4>2. IsFiniteSet(S)
                BY <1>2, FS_Subset DEF Sound
            <4>3. proc'[p].todo = SetToSeq(S)
                BY <1>2, <3>2
            <4> HIDE DEF S, shelved
            <4>4. SetToSeq(S) \in Seq(S)
                BY <4>2, SetAsSequence
            <4>5. Seq(S) \subseteq Seq(shelved)
                BY <4>1
            <4> QED BY <4>3, <4>4, <4>5
        <3> QED BY <1>4, <2>6, <3>1, <3>2
    <2> QED BY <1>4, <2>1, <2>4, <2>5, <2>6 DEF RoadEnds, At
<1> QED BY <1>1, <1>3, <1>4, ArchivistTurns

LEMMA ClaimStep ==
    ASSUME TypeInv, TypeInv', NEW p \in Procs, Advance(p), ~Ran(Taking), OnePlace, \A v \in Places : RoadPlace(v),
           RoadDraft(p), RoadEnds(p), RoadClaim(p)
    PROVE  RoadClaim(p)'
<1> SUFFICES ASSUME Claims(p)', Here(p)'.road # None
             PROVE  \A v \in Places : v = proc'[p].at => proc'[p].cmd.id \in Known(v)'
    <2>1. proc'[p].at \in Places
        BY DEF TypeInv, LockInv, Types, ProcOK, OneOK
    <2> QED BY <2>1 DEF RoadClaim, Known
<1>1. Plain(p) /\ ~Kill(p)
    <2>1. Kill(p) => ~Claims(p)'
        BY OnlyPlain, PlainTurns DEF Claims, Working, At
    <2> QED BY <2>1, OnlyPlain
<1> DEFINE at == proc[p].at
<1>2. at \in Places /\ Here(p) = tree[at]
    BY Facts DEF Here
<1>3. CASE Claims(p) /\ Working(p) /\ proc'[p].cmd = proc[p].cmd /\ proc'[p].at = proc[p].at
    <2>1. Here(p)' = tree'[at]
        BY <1>3 DEF Here
    <2>2. tree[at].road # None /\ \A v \in Places : v = at => Known(v) \subseteq Known(v)'
        BY <1>2, <2>1, PlacesChange
    <2>3. proc[p].cmd.id \in Known(at)
        BY <1>2, <1>3, <2>2 DEF RoadClaim
    <2> HIDE DEF at
    <2>4. \A v \in Places : v = at => proc[p].cmd.id \in Known(v)'
        BY <2>2, <2>3
    <2> QED BY <1>2, <1>3, <2>4 DEF at
<1>4. CASE /\ tree' = tree /\ shelf' = shelf /\ proc'[p].at \in Places
           /\ Findable(proc'[p].at, proc'[p].cmd.id) # {}
    <2> DEFINE v == proc'[p].at
               id == proc'[p].cmd.id
    <2>1. tree[v].road # None
        BY <1>4 DEF Here
    <2>2. id \in DirIds(tree[v].dirs) \/ \E w \in Places : \E d \in shelf.dirs[w] : d.id = id
        BY <1>4 DEF Findable
    <2>3. ASSUME NEW w \in Places, NEW d \in shelf.dirs[w], d.id = id
          PROVE  id \in RoadIds(tree[v].road)
        <3>1. w = v
            BY <1>4, <2>1, <2>3 DEF OnePlace, Filled
        <3>2. d.id \in DirIds(shelf.dirs[w])
            BY DEF DirIds
        <3> QED BY <1>4, <2>1, <2>3, <3>1, <3>2 DEF RoadPlace
    <2>4. id \in RoadIds(tree[v].road) \cup DirIds(tree[v].dirs)
        BY <2>2, <2>3
    <2> QED BY <1>4, <2>4 DEF Known
<1> QED BY <1>1, <1>3, <1>4, ClaimTurns

LEMMA PlaceStep ==
    ASSUME TypeInv, TypeInv', Unbegun, PlaceInv, [WsNext]_wsvars, NEW p \in Procs, Advance(p), ~robbed', ~Ran(Taking)'
    PROVE  /\ OnePlace' /\ (\A v \in Places : RoadPlace(v)')
           /\ \A q \in Procs : RoadDraft(q)' /\ RoadEnds(q)' /\ RoadClaim(q)'
<1>1. ~robbed /\ ~Ran(Taking)
    BY RanStays, AdvanceOnward DEF Onward
<1>2. /\ OnePlace /\ (\A v \in Places : RoadPlace(v))
      /\ \A q \in Procs : RoadDraft(q) /\ RoadEnds(q) /\ RoadClaim(q)
    BY <1>1 DEF PlaceInv
<1>3. ASSUME NEW v \in Places
      PROVE  /\ Filled(v)' => Filled(v)
             /\ tree'[v].road # None <=> tree[v].road # None
             /\ tree[v].road # None =>
                  RoadPlace(v)' /\ Known(v) \subseteq Known(v)' /\ RoadIds(tree[v].road) \subseteq RoadIds(tree'[v].road)
             /\ tree'[v].road = tree[v].road \/ (Writes(p) /\ v = proc[p].at)
    BY <1>1, <1>2, <1>3, PlacesChange
<1>4. OnePlace'
    BY <1>2, <1>3 DEF OnePlace
<1>5. ASSUME NEW v \in Places
      PROVE  RoadPlace(v)'
    <2>1. tree'[v].road # None => RoadPlace(v)'
        BY <1>3, <1>5
    <2> QED BY <2>1 DEF RoadPlace
<1>6. RoadDraft(p)' /\ RoadEnds(p)' /\ RoadClaim(p)'
    BY <1>1, <1>2, DraftStep, EndsStep, ClaimStep
<1>7. ASSUME NEW q \in Procs, q # p
      PROVE  RoadDraft(q)' /\ RoadEnds(q)' /\ RoadClaim(q)'
    <2>1. proc'[q] = proc[q]
        BY <1>7, OthersStay DEF Advance, TypeInv
    <2> DEFINE v == proc[q].at
    <2>2. /\ v \in Places /\ Here(q) = tree[v] /\ Here(q)' = tree'[v]
          /\ Drafting(q)' = Drafting(q) /\ Archivist(q)' = Archivist(q) /\ Claims(q)' = Claims(q)
          /\ At(q, "shelve")' = At(q, "shelve")
        BY <2>1, Facts DEF Here, Drafting, At, Archivist, Claims, Completes, Op, Working
    <2>3. RoadDraft(q)'
        <3> SUFFICES ASSUME Drafting(q)
                     PROVE  RoadDraft(q)'
            BY <2>2 DEF RoadDraft
        <3>1. ~(Writes(p) /\ v = proc[p].at)
            BY <1>1, <1>7, LockInvExcludes DEF TypeInv, LockExcludes, Drafting, Writes, Section, Held, At
        <3>2. tree'[v].road = tree[v].road
            BY <1>3, <2>2, <3>1
        <3> QED BY <1>2, <2>1, <2>2, <3>2 DEF RoadDraft
    <2>4. RoadEnds(q)'
        BY <1>2, <1>3, <2>1, <2>2 DEF RoadEnds
    <2>5. RoadClaim(q)'
        <3> SUFFICES ASSUME Claims(q), tree'[v].road # None
                     PROVE  \A w \in Places : w = v => proc'[q].cmd.id \in Known(w)'
            BY <2>1, <2>2 DEF RoadClaim, Known
        <3>1. tree[v].road # None /\ proc[q].cmd.id \in Known(v)
            BY <1>2, <1>3, <2>2 DEF RoadClaim
        <3>2. \A w \in Places : w = v => Known(w) \subseteq Known(w)'
            BY <1>3, <3>1
        <3> HIDE DEF v
        <3> QED BY <2>1, <2>2, <3>1, <3>2
    <2> QED BY <2>3, <2>4, <2>5
<1> QED BY <1>4, <1>5, <1>6, <1>7

-----------------------------------------------------------------------------
(* What a completion has recorded stays recorded. *)

\* Who writes requirements and STATE.md.
LEMMA RestChanges ==
    ASSUME TypeInv, NEW p \in Procs, Plain(p), NEW v \in Places
    PROVE  /\ tree'[v].reqs = tree[v].reqs \/ (WriteRequirements(p) /\ v = proc[p].at) \/ Mark(p)
           /\ tree'[v].state = tree[v].state \/ tree'[v].state.refs = {} \/ (MoveState(p) /\ v = proc[p].at)
<1> DEFINE at == proc[p].at
           Same == tree'[v].reqs = tree[v].reqs /\ tree'[v].state = tree[v].state
<1>a. at \in Places /\ tree \in [Places -> Trees]
    BY Facts DEF TypeInv, FilesOK, TreesOK
<1>1. CASE tree' = tree
    BY <1>1
<1>2. ASSUME NEW x,
             \/ tree' = [tree EXCEPT ![at].dirs = x] \/ tree' = [tree EXCEPT ![at].road = x]
             \/ tree' = [tree EXCEPT ![at].config = x]
      PROVE  Same
    BY <1>a, <1>2, RestOfFiles
<1>3. CASE BeginCommand(p) \/ WsBegin(p)
    <2>1. tree' = tree
        BY <1>3 DEF BeginCommand, WsBegin, AddBegins, InsertBegins, RemoveBegins, CompleteBegins, ProgressBegins,
            AnnotateBegins, CountAndLock, MarkBegins, MilestoneBegins, ClearBegins, SetBegins, EnsureBegins,
            RepairBegins, CreateBegins, WsCompleteBegins, SetPointer, Begin
    <2> QED BY <1>1, <2>1
<1>4. CASE Locking(p)
    <2>1. tree' = tree
        BY <1>4 DEF Locking, Acquire, Create, SeeStale, BreakStale, GiveUpWaiting, LastTry, Release, Fail, disk
    <2> QED BY <1>1, <2>1
<1>5. ASSUME \/ ReadForAdd(p) \/ Renamed(p) \/ ReadRoadmap(p) \/ ReadRequirements(p) \/ LookUpNext(p)
             \/ ArchiveRoadmap(p) \/ Register(p) \/ Shelved(p) \/ Cleared(p) \/ Repaired(p)
      PROVE  tree' = tree
    BY <1>5 DEF ReadForAdd, Renamed, ReadRoadmap, ReadRequirements, LookUpNext, ArchiveRoadmap, Register, Shelved,
        Cleared, Repaired, disk
<1>6. ASSUME \/ MakeDirectory(p) \/ DeleteDirectory(p) \/ RenameNext(p) \/ Shelve(p) \/ ClearNext(p)
             \/ WriteRoadmap(p) \/ WriteConfig(p) \/ EnsureConfig(p) \/ AddKey(p) \/ Kill(p)
      PROVE  tree' = tree \/ \E x : \/ tree' = [tree EXCEPT ![at].dirs = x]
                                    \/ tree' = [tree EXCEPT ![at].road = x]
                                    \/ tree' = [tree EXCEPT ![at].config = x]
    <2>1. CASE MakeDirectory(p)
        BY <2>1 DEF MakeDirectory
    <2>2. CASE DeleteDirectory(p)
        BY <2>2 DEF DeleteDirectory
    <2>3. CASE RenameNext(p)
        BY <2>3 DEF RenameNext
    <2>4. CASE Shelve(p)
        BY <2>4 DEF Shelve
    <2>5. CASE ClearNext(p)
        BY <2>5 DEF ClearNext
    <2>6. CASE WriteRoadmap(p)
        BY <2>6 DEF WriteRoadmap
    <2>7. CASE WriteConfig(p) \/ EnsureConfig(p) \/ AddKey(p)
        BY <2>7 DEF WriteConfig, EnsureConfig, AddKey
    <2>8. CASE Kill(p)
        BY <2>8 DEF Kill
    <2> QED BY <1>6, <2>1, <2>2, <2>3, <2>4, <2>5, <2>6, <2>7, <2>8
<1>7. CASE WriteRequirements(p) \/ Mark(p)
    <2>1. tree' = tree \/ \E x : tree' = [tree EXCEPT ![at].reqs = x]
        BY <1>7 DEF WriteRequirements, Mark
    <2>2. ASSUME NEW x, tree' = [tree EXCEPT ![at].reqs = x]
          PROVE  tree'[v].state = tree[v].state /\ (v # at => tree'[v].reqs = tree[v].reqs)
        BY <1>a, <2>2, RestOfFiles
    <2> QED BY <1>7, <2>1, <2>2
<1>8. CASE MoveState(p) \/ CloseState(p)
    <2>1. \/ tree' = tree \/ \E x : tree' = [tree EXCEPT ![at].state = x]
        BY <1>8 DEF MoveState, CloseState
    <2>2. ASSUME NEW x, tree' = [tree EXCEPT ![at].state = x]
          PROVE  /\ tree'[v].reqs = tree[v].reqs /\ (v # at => tree'[v].state = tree[v].state)
                 /\ v = at => tree'[v].state = x
        BY <1>a, <2>2, RestOfFiles
    <2>3. CASE CloseState(p) /\ tree' # tree
        <3> DEFINE old == tree[at].state
                   new == [old EXCEPT !.refs = {}, !.closed = TRUE]
        <3>1. old # None /\ tree' = [tree EXCEPT ![at].state = new]
            BY <2>3 DEF CloseState, Here
        <3>2. new.refs = {}
            <4>1. old \in States
                BY <1>a, <3>1 DEF Trees
            <4> HIDE DEF old
            <4> QED BY <4>1 DEF States
        <3> HIDE DEF new
        <3> QED BY <2>2, <3>1, <3>2
    <2> QED BY <1>8, <2>1, <2>2, <2>3
<1>9. CASE Repair(p)
    <2> DEFINE code == FirstRepair(proc[p].todo)
               fresh == [phase |-> None, refs |-> {}, closed |-> FALSE]
               a == IF code \in {"W003", "E005"} THEN Config(RepairDefaults) ELSE tree[at].config
               b == IF code = "E004" THEN fresh ELSE tree[at].state
    <2>1. \/ tree' = tree
          \/ tree' = [tree EXCEPT ![at].config = IF code \in {"W003", "E005"} THEN Config(RepairDefaults) ELSE @,
                                  ![at].state = IF code = "E004" THEN fresh ELSE @]
        BY <1>9 DEF Repair
    <2>2. tree' = tree \/ tree' = [tree EXCEPT ![at] = [tree[at] EXCEPT !.config = a, !.state = b]]
        <3> HIDE DEF code, fresh
        <3>1. tree[at] \in Trees
            BY <1>a
        <3> QED BY <1>a, <2>1, <3>1 DEF Trees
    <2>3. b = tree[at].state \/ b.refs = {}
        OBVIOUS
    <2> HIDE DEF a, b
    <2>4. CASE tree' = [tree EXCEPT ![at] = [tree[at] EXCEPT !.config = a, !.state = b]]
        <3>1. \A t \in Trees : /\ [t EXCEPT !.config = a, !.state = b].reqs = t.reqs
                               /\ [t EXCEPT !.config = a, !.state = b].state = b
            BY DEF Trees
        <3>2. tree[at] \in Trees
            BY <1>a
        <3> DEFINE new == [tree[at] EXCEPT !.config = a, !.state = b]
        <3>3. new.reqs = tree[at].reqs /\ new.state = b
            BY <3>1, <3>2
        <3> HIDE DEF new
        <3>4. tree'[at] = new /\ (v # at => tree'[v] = tree[v])
            BY <1>a, <2>4 DEF new
        <3> QED BY <2>3, <3>3, <3>4
    <2> QED BY <1>1, <2>2, <2>4
<1> QED BY <1>1, <1>2, <1>3, <1>4, <1>5, <1>6, <1>7, <1>8, <1>9 DEF Plain, PhaseStep, Command

\* The texts of a place's roadmap: the file, and what is being written there.
Texts(v) == {tree[v].road} \cup {proc[q].road : q \in {r \in Procs : Drafting(r) /\ proc[r].at = v}}
Ticking(p) == proc[p].pc \in {"reqread", "reqwrite"}
RecordDone(p) ==
    Completes(p) /\ Written(p) /\ Here(p).road # None =>
        /\ \A road \in Texts(proc[p].at) :
             /\ Recorded(road, proc[p].cmd.id)
             /\ ~Ticking(p) => Covered(road, proc[p].cmd.id, Here(p).reqs)
        /\ Ticking(p) => proc[p].road = Here(p).road
        /\ At(p, "reqwrite") => Here(p).reqs # None /\ proc[p].reqs = Here(p).reqs
RecordInv == ~robbed /\ ~Ran(Taking \cup {"mark"}) => \A p \in Procs : RecordDone(p)

\* Every text comes from a text of the place that knew no less.
LEMMA TextTurns ==
    ASSUME TypeInv, TypeInv', NumbersInv, NEW p \in Procs, Advance(p), ~robbed, ~Ran(Taking), RoadDraft(p),
           NEW v \in Places, NEW new, new \in Texts(v)'
    PROVE  \E road \in Texts(v) :
             /\ \A id \in Numbers : id \in Known(v) /\ Recorded(road, id) => Recorded(new, id)
             /\ \A id, reqs : Covered(road, id, reqs) => Covered(new, id, reqs)
<1> DEFINE at == proc[p].at
<1>1. at \in Places /\ Here(p) = tree[at]
    BY Facts DEF Here
<1>2. \A q \in Procs : q # p => proc'[q] = proc[q]
    BY OthersStay DEF Advance, TypeInv
<1>3. ~Ran(Moving) /\ (Working(p) => Op(p) \notin Moving /\ Op(p) # "remove")
    BY OnlyPlain DEF Ran, Moving, Taking
<1>4. Drafting(p) => proc[p].road \in {proc[q].road : q \in {r \in Procs : Drafting(r) /\ proc[r].at = at}}
    OBVIOUS
<1>5. CASE new = tree'[v].road
    <2>1. CASE tree'[v].road = tree[v].road
        BY <1>5, <2>1 DEF Texts
    <2>2. CASE tree'[v].road # tree[v].road
        <3>1. Writes(p) /\ v = at
            BY <1>3, <2>2, PhaseFilesChange, DraftMade
        <3>2. Drafting(p) /\ Op(p) # "remove"
            BY <1>3, <3>1 DEF Writes, Drafting, At, Working
        <3>3. /\ proc[p].road \in Seq(Sections) /\ Edited(proc[p].road, Rewritten(p))
              /\ tree'[at].road = Rewritten(p)
            BY <3>1, <3>2, DraftWritten
        <3> HIDE DEF at
        <3>4. proc[p].road \in Texts(v)
            BY <1>4, <3>1, <3>2 DEF Texts
        <3>5. Edited(proc[p].road, new)
            BY <1>5, <3>1, <3>3
        <3> QED BY <3>3, <3>4, <3>5, EditedFits
    <2> QED BY <2>1, <2>2
<1>6. ASSUME NEW q \in Procs, Drafting(q)', proc'[q].at = v, new = proc'[q].road
      PROVE  \E road \in Texts(v) :
               /\ \A id \in Numbers : id \in Known(v) /\ Recorded(road, id) => Recorded(new, id)
               /\ \A id, reqs : Covered(road, id, reqs) => Covered(new, id, reqs)
    <2>1. CASE q # p
        <3>1. Drafting(q) /\ proc[q].at = v /\ new = proc[q].road
            BY <1>2, <1>6, <2>1 DEF Drafting, At
        <3>2. new \in Texts(v)
            BY <3>1 DEF Texts
        <3> QED BY <3>2
    <2>2. CASE q = p /\ MakeDirectory(p)
        <3> DEFINE road == proc[p].road
                   c == proc[p].cmd
                   n == proc[p].num
                   id == IF c.op = "insert" THEN <<c.base[1], n>> ELSE <<n, 0>>
                   dep == IF c.op = "insert" THEN c.base ELSE <<n - 1, 0>>
        <3>1. /\ road \in Seq(Sections) /\ new \in Seq(Sections) /\ id \in Numbers /\ n \in Nat
              /\ proc'[p].at = at
              /\ \E name \in Titles : Range(new) = Range(road) \cup {NewSection(id, name, dep)}
            BY <1>6, <2>2, DraftMade
        <3>2. Drafting(p) /\ At(p, "make") /\ v = at
            BY <1>6, <2>2, <3>1 DEF MakeDirectory, Drafting
        <3>3. road \in Texts(v)
            BY <1>4, <3>2 DEF Texts
        <3>4. id \notin Known(v)
            <4>1. Above(c, n, Numbered(road) \cup DirIds(tree[v].dirs))
                BY <1>1, <1>3, <3>2 DEF NumbersInv
            <4>2. RoadIds(tree[v].road) \subseteq Numbered(road)
                BY <1>1, <3>1, <3>2, RoadIdsOf DEF RoadDraft
            <4>3. ~(n < n)
                BY <3>1
            <4>4. CASE c.op = "insert"
                <5>1. id[1] = c.base[1] /\ id[2] = n
                    BY <4>4
                <5> HIDE DEF id, n
                <5> QED BY <4>1, <4>2, <4>3, <4>4, <5>1 DEF Above, Known
            <4>5. CASE c.op # "insert"
                <5>1. id[1] = n
                    BY <4>5
                <5> HIDE DEF id, n
                <5> QED BY <4>1, <4>2, <4>3, <4>5, <5>1 DEF Above, Known
            <4> QED BY <4>4, <4>5
        <3> HIDE DEF id, dep, road
        <3>5. PICK name \in Titles : Range(new) = Range(road) \cup {NewSection(id, name, dep)}
            BY <3>1
        <3>6. /\ \A other \in Numbers \ {id} : Recorded(road, other) => Recorded(new, other)
              /\ \A other, reqs : Covered(road, other, reqs) => Covered(new, other, reqs)
            BY <3>1, <3>5, LongerFits
        <3> QED BY <3>3, <3>4, <3>6
    <2>3. CASE q = p /\ ~MakeDirectory(p)
        <3>1. proc'[p].at = at /\ proc'[p].road = tree[at].road
            BY <1>1, <1>3, <1>6, <2>3, DraftTurns
        <3>2. new \in Texts(v)
            BY <1>6, <2>3, <3>1 DEF Texts
        <3> QED BY <3>2
    <2> QED BY <2>1, <2>2, <2>3
<1>7. new = tree'[v].road \/ \E q \in Procs : Drafting(q)' /\ proc'[q].at = v /\ new = proc'[q].road
    BY DEF Texts
<1> QED BY <1>5, <1>6, <1>7

\* Whoever works under the lock but does not write has the file as the only text.
LEMMA OnlyText ==
    ASSUME TypeInv, ~robbed, NEW p \in Procs, Section(p), NEW v \in Places, v = proc[p].at,
           NEW q \in Procs, Drafting(q), proc[q].at = v
    PROVE  q = p
<1>1. Section(q)
    BY DEF Drafting, Section, Held, At
<1> QED BY <1>1, LockInvExcludes DEF TypeInv, LockExcludes

\* A completion keeps its record while another process steps ...
LEMMA RecordBeside ==
    ASSUME TypeInv, TypeInv', NumbersInv, NEW p \in Procs, Advance(p), ~robbed, ~Ran(Taking), ~Ran({"mark"}),
           \A v \in Places : RoadPlace(v), RoadDraft(p), RoadEnds(p), RecordDone(p),
           NEW r \in Procs, r # p, RoadClaim(r), RecordDone(r)
    PROVE  RecordDone(r)'
<1> DEFINE v == proc[r].at
           id == proc[r].cmd.id
<1>1. proc'[r] = proc[r]
    BY OthersStay DEF Advance, TypeInv
<1>2. /\ v \in Places /\ Here(r) = tree[v] /\ Here(r)' = tree'[v] /\ Completes(r)' = Completes(r)
      /\ Written(r)' = Written(r) /\ Ticking(r)' = Ticking(r) /\ At(r, "reqwrite")' = At(r, "reqwrite")
    BY <1>1, Facts DEF Here, Completes, Op, Written, At, Ticking
<1> SUFFICES ASSUME Completes(r), Written(r), tree'[v].road # None
             PROVE  RecordDone(r)'
    BY <1>2 DEF RecordDone
<1>3. /\ tree[v].road # None
      /\ tree'[v].road = tree[v].road \/ (Writes(p) /\ v = proc[p].at)
    BY <1>2, PlacesChange
<1>4. id \in Numbers /\ id \in Known(v)
    <2>1. Claims(r)
        BY DEF Claims, Written, Working, At
    <2>2. id \in Known(v)
        BY <1>2, <1>3, <2>1 DEF RoadClaim
    <2>3. proc[r].cmd \in Menu[r]
        BY Facts DEF Carried, Completes
    <2>4. id \in Numbers
        BY <2>3, Parameters DEF Completes, Op
    <2> QED BY <2>2, <2>4
<1>5. /\ \A road \in Texts(v) : Recorded(road, id) /\ (~Ticking(r) => Covered(road, id, tree[v].reqs))
      /\ Ticking(r) => proc[r].road = tree[v].road
      /\ At(r, "reqwrite") => tree[v].reqs # None /\ proc[r].reqs = tree[v].reqs
    BY <1>2, <1>3 DEF RecordDone
<1>6. tree'[v].reqs = tree[v].reqs \/ (WriteRequirements(p) /\ v = proc[p].at)
    <2>1. Mark(p) => Ran({"mark"})
        BY Facts, RunsIts DEF Mark, At, Carried, Op, Working
    <2> QED BY <1>2, <2>1, OnlyPlain, RestChanges
<1>7. ASSUME NEW road, Covered(road, id, tree[v].reqs)
      PROVE  Covered(road, id, tree'[v].reqs)
    <2>1. CASE tree'[v].reqs = tree[v].reqs
        BY <1>7, <2>1
    <2>2. CASE WriteRequirements(p) /\ v = proc[p].at /\ tree'[v].reqs # tree[v].reqs
        <3> DEFINE new == proc[p].reqs \cup RequirementsOf(proc[p].road, proc[p].cmd.id)
        <3>1. At(p, "reqwrite") /\ tree' = [tree EXCEPT ![proc[p].at].reqs = new]
            BY <2>2 DEF WriteRequirements
        <3> HIDE DEF new
        <3>2. tree'[v].reqs = new
            BY <1>2, <2>2, <3>1, RestOfFiles
        <3>3. Completes(p) /\ Written(p) /\ Here(p).road # None /\ Here(p).reqs = tree[v].reqs
            <4>1. Op(p) = "complete" /\ Working(p) /\ Written(p) /\ Here(p) = tree[v]
                BY <2>2, <3>1, Facts DEF Written, Here, At, Carried, Op, Working
            <4>2. proc[p].cmd # None
                BY <4>1, Facts, MenuAssumption
            <4> QED BY <1>3, <4>1, <4>2 DEF Completes
        <3>4. tree[v].reqs # None /\ proc[p].reqs = tree[v].reqs
            BY <3>1, <3>3 DEF RecordDone
        <3>5. tree[v].reqs \subseteq new
            BY <3>4 DEF new
        <3> QED BY <1>7, <3>2, <3>4, <3>5 DEF Covered
    <2> QED BY <1>6, <2>1, <2>2
<1>8. ASSUME NEW w \in Places, w = v, NEW new, new \in Texts(w)'
      PROVE  Recorded(new, id) /\ (~Ticking(r) => Covered(new, id, tree'[w].reqs))
    <2>1. PICK road \in Texts(w) :
             /\ \A other \in Numbers : other \in Known(w) /\ Recorded(road, other) => Recorded(new, other)
             /\ \A other, reqs : Covered(road, other, reqs) => Covered(new, other, reqs)
        BY <1>8, TextTurns
    <2> HIDE DEF v, id
    <2> QED BY <1>4, <1>5, <1>7, <1>8, <2>1
<1>9. Ticking(r) => ~(Writes(p) /\ v = proc[p].at)
    <2>1. Ticking(r) => Section(r)
        BY DEF Ticking, Section, Held
    <2> QED BY <1>2, <2>1, OnlyText DEF Writes, Drafting
<1>10. At(r, "reqwrite") => ~(WriteRequirements(p) /\ v = proc[p].at)
    BY LockInvExcludes DEF TypeInv, LockExcludes, Section, Held, At, WriteRequirements
<1>12. \A w \in Places : w = v => \A new \in Texts(w)' :
            Recorded(new, id) /\ (~Ticking(r) => Covered(new, id, tree'[w].reqs))
    BY <1>8
<1>13. \A new \in Texts(proc[r].at)' : Recorded(new, id) /\ (~Ticking(r) => Covered(new, id, Here(r).reqs'))
    BY <1>1, <1>2, <1>12 DEF Texts, Drafting, At
<1>14. Ticking(r) => proc[r].road = tree'[v].road
    BY <1>3, <1>5, <1>9
<1>15. At(r, "reqwrite") => tree'[v].reqs # None /\ proc[r].reqs = tree'[v].reqs
    BY <1>5, <1>6, <1>10
<1> QED BY <1>1, <1>2, <1>13, <1>14, <1>15 DEF RecordDone

\* ... and while it steps itself.
LEMMA RecordOwn ==
    ASSUME TypeInv, TypeInv', NumbersInv, NEW p \in Procs, Advance(p), ~robbed, ~Ran(Taking), ~Ran({"mark"}),
           \A v \in Places : RoadPlace(v), RoadDraft(p), RoadEnds(p), RecordDone(p)
    PROVE  RecordDone(p)'
<1> DEFINE at == proc[p].at
           id == proc[p].cmd.id
<1> SUFFICES ASSUME Completes(p)', Written(p)', Here(p)'.road # None
             PROVE  RecordDone(p)'
    BY DEF RecordDone
<1>1. Plain(p) /\ ~Kill(p)
    <2>1. Kill(p) => ~Written(p)'
        BY OnlyPlain, PlainTurns DEF Written, At
    <2> QED BY <2>1, OnlyPlain
<1>2. at \in Places /\ Here(p) = tree[at] /\ tree[at] \in Trees
    BY Facts DEF Here
<1>3. Claims(p)'
    BY DEF Claims, Written, Working, At
<1>4. Claims(p) /\ Working(p) /\ proc'[p].cmd = proc[p].cmd /\ proc'[p].at = at
    <2>1. ASSUME tree' = tree, proc'[p].pc = IF tree[proc'[p].at].road = None THEN "lookup" ELSE "lock"
          PROVE  FALSE
        <3>1. Here(p)' = tree[proc'[p].at]
            BY <2>1 DEF Here
        <3> QED BY <2>1, <3>1 DEF Written, At
    <2> QED BY <1>1, <1>3, <2>1, ClaimTurns
<1>5. /\ Here(p)' = tree'[at] /\ tree[at].road # None
      /\ tree'[at].road = tree[at].road \/ Writes(p)
    <2>1. Here(p)' = tree'[at]
        BY <1>4 DEF Here
    <2> QED BY <1>2, <2>1, PlacesChange
<1>6. \A q \in Procs : q # p => proc'[q] = proc[q]
    BY OthersStay DEF Advance, TypeInv
\* What has to be shown of the texts there are then.
<1>7. ASSUME \A v \in Places : v = at => \A new \in Texts(v)' :
                 Recorded(new, id) /\ (~Ticking(p)' => Covered(new, id, tree'[v].reqs)),
             Ticking(p)' => proc'[p].road = tree'[at].road,
             At(p, "reqwrite")' => tree'[at].reqs # None /\ proc'[p].reqs = tree'[at].reqs
      PROVE  RecordDone(p)'
    <2>1. \A new \in Texts(proc[p].at)' : Recorded(new, id) /\ (~Ticking(p)' => Covered(new, id, Here(p).reqs'))
        BY <1>2, <1>4, <1>5, <1>7 DEF Texts, Drafting, At
    <2> QED BY <1>4, <1>5, <1>7, <2>1 DEF RecordDone
<1>8. \A v \in Places : v = at /\ Section(p) /\ ~Drafting(p)' => Texts(v)' = {tree'[v].road}
    <2> SUFFICES ASSUME NEW v \in Places, v = at, Section(p), ~Drafting(p)', NEW q \in Procs,
                        Drafting(q)', proc'[q].at = v
                 PROVE  FALSE
        BY DEF Texts
    <2>1. q # p /\ Drafting(q) /\ proc[q].at = v
        BY <1>6 DEF Drafting, At
    <2> QED BY <2>1, OnlyText
<1>9. ~Drafting(p)'
    BY DEF Written, Drafting, At
<1>10. CASE Writes(p)
    <2>1. At(p, "write") /\ Drafting(p) /\ Section(p) /\ Op(p) = "complete"
        BY <1>4, <1>10 DEF Writes, At, Drafting, Section, Held, Claims, Completes
    <2>2. /\ proc[p].road \in Seq(Sections) /\ Distinct(proc[p].road) /\ OwnBoxes(proc[p].road)
          /\ proc[p].counts \in Tallies
        <3>1. ~Ran(Moving)
            BY DEF Ran, Moving, Taking
        <3>2. proc[p].counts \in Tallies /\ proc[p].road \in Seq(Sections)
            BY <2>1, Facts DEF Carried, At, Held, Op
        <3> QED BY <2>1, <3>1, <3>2 DEF NumbersInv, RoadDraft
    <2>3. Recorded(Rewritten(p), id)
        BY <2>1, <2>2, CompletionTicks DEF Rewritten, Op
    <2>4. /\ tree'[at].road = Rewritten(p) /\ tree'[at].reqs = tree[at].reqs
          /\ proc'[p].pc = AfterWrite(p) /\ proc'[p].road = Rewritten(p)
        BY <1>2, <1>10, <2>1, DraftWritten
    <2>5. proc'[p].pc = IF tree[at].reqs # None THEN "reqread" ELSE "release"
        BY <1>2, <2>1, <2>4 DEF AfterWrite
    <2>6. ~Ticking(p)' => tree'[at].reqs = None
        BY <2>4, <2>5 DEF Ticking
    <2>7. \A v \in Places : v = at => \A new \in Texts(v)' :
             Recorded(new, id) /\ (~Ticking(p)' => Covered(new, id, tree'[v].reqs))
        BY <1>8, <1>9, <2>1, <2>3, <2>4, <2>6 DEF Covered
    <2>8. ~At(p, "reqwrite")'
        BY <2>5 DEF At
    <2> QED BY <1>7, <2>4, <2>7, <2>8
<1>11. CASE /\ At(p, "reqread") /\ tree' = tree /\ Here(p).reqs # None
            /\ proc'[p].pc = "reqwrite" /\ proc'[p].reqs = Here(p).reqs /\ proc'[p].road = proc[p].road
    <2>1. Written(p) /\ Ticking(p) /\ Ticking(p)' /\ Section(p)
        BY <1>11 DEF Written, Ticking, At, Section, Held
    <2>2. /\ Recorded(tree[at].road, id) /\ proc[p].road = tree[at].road
        <3>1. tree[at].road \in Texts(at)
            BY DEF Texts
        <3> QED BY <1>2, <1>4, <1>5, <2>1, <3>1 DEF RecordDone, Claims
    <2>3. \A v \in Places : v = at => \A new \in Texts(v)' : Recorded(new, id)
        BY <1>8, <1>9, <1>11, <2>1, <2>2
    <2> QED BY <1>2, <1>7, <1>11, <2>1, <2>2, <2>3
<1>12. CASE /\ At(p, "reqwrite") /\ proc'[p].pc = "release"
            /\ tree' = [tree EXCEPT ![at].reqs = proc[p].reqs \cup RequirementsOf(proc[p].road, proc[p].cmd.id)]
    <2> DEFINE road == tree[at].road
               new == proc[p].reqs \cup RequirementsOf(road, id)
    <2>1. Written(p) /\ Ticking(p) /\ ~Ticking(p)' /\ Section(p) /\ ~At(p, "reqwrite")'
        BY <1>12 DEF Written, Ticking, At, Section, Held
    <2>2. Recorded(road, id) /\ proc[p].road = road
        <3>1. road \in Texts(at)
            BY DEF Texts
        <3> QED BY <1>2, <1>4, <1>5, <2>1, <3>1 DEF RecordDone, Claims
    <2>3. tree' = [tree EXCEPT ![at].reqs = new]
        BY <1>12, <2>2
    <2>4. road \in Seq(Sections) /\ Distinct(road)
        <3>1. ~Ran(Moving)
            BY DEF Ran, Moving, Taking
        <3> QED BY <1>2, <1>5, <3>1 DEF NumbersInv, Trees, Roadmaps
    <2> HIDE DEF id, at, road
    <2>5. Covered(road, id, new)
        BY <2>4, RequirementsTaken
    <2> HIDE DEF new
    <2>6. tree'[at].reqs = new /\ tree'[at].road = road
        <3> USE DEF road
        <3> QED BY <1>2, <2>3, RestOfFiles
    <2>7. \A v \in Places : v = at => \A text \in Texts(v)' :
             Recorded(text, id) /\ Covered(text, id, tree'[v].reqs)
        BY <1>8, <1>9, <2>1, <2>2, <2>5, <2>6 DEF at
    <2> QED BY <1>7, <2>1, <2>7 DEF at, id
<1>13. CASE /\ proc[p].pc \in {"release", "lookup", "state"} /\ proc'[p].pc \notin {"reqread", "reqwrite"}
            /\ \A v \in Places : tree'[v].road = tree[v].road /\ tree'[v].reqs = tree[v].reqs
    <2>1. Written(p) /\ ~Ticking(p) /\ ~Ticking(p)' /\ ~At(p, "reqwrite")'
        BY <1>13 DEF Written, Ticking, At
    <2>2. \A road \in Texts(at) : Recorded(road, id) /\ Covered(road, id, tree[at].reqs)
        BY <1>2, <1>4, <1>5, <2>1 DEF RecordDone, Claims
    <2>3. \A v \in Places : v = at => Texts(v)' \subseteq Texts(v)
        BY <1>6, <1>9, <1>13 DEF Texts, Drafting, At
    <2>4. \A v \in Places : v = at => \A new \in Texts(v)' :
             Recorded(new, id) /\ Covered(new, id, tree'[v].reqs)
        BY <1>13, <2>2, <2>3
    <2> QED BY <1>7, <2>1, <2>4
<1> QED BY <1>1, <1>4, <1>10, <1>11, <1>12, <1>13, WrittenTurns

\* Whoever is done has run a command.
Begun == \A p \in Procs : At(p, "done") => proc[p].cmd # None

LEMMA BegunStep ==
    ASSUME TypeInv, TypeInv', NEW p \in Procs, Advance(p)
    PROVE  proc'[p].pc # "idle" /\ (At(p, "done")' => proc'[p].cmd # None)
<1>1. Onward(p)
    BY AdvanceOnward
<1>2. CASE Working(p)
    <2>1. proc[p].cmd # None
        BY <1>2, Facts, MenuAssumption
    <2> QED BY <1>1, <1>2, <2>1 DEF Onward, Working, At
<1>3. CASE ~Working(p)
    <2>1. ~WsCommand(p) /\ ~Kill(p)
        BY <1>3 DEF Kill, WsCommand, Working, At, MigrateBegins, MovePart, Moved, MoveFails, MoveBack, Abandon,
            OpenWorkstream, Activate, Deactivate, ArchiveEntry, ArchiveFails, Restore, Restored, Archived
    <2>2. Plain(p)
        BY <2>1 DEF Advance, Plain
    <2>3. At(p, "idle") /\ (BeginCommand(p) \/ WsBegin(p))
        BY <1>3, <2>1, <2>2, Stations DEF Working, At
    <2>4. proc'[p].cmd \in Menu[p]
        BY <2>3, BeginTurns
    <2> QED BY <1>1, <2>4, MenuAssumption DEF Onward
<1> QED BY <1>2, <1>3

LEMMA RecordStep ==
    ASSUME TypeInv, TypeInv', Unbegun, NumbersInv, PlaceInv, RecordInv, [WsNext]_wsvars, NEW p \in Procs, Advance(p),
           ~robbed', ~Ran(Taking \cup {"mark"})'
    PROVE  \A q \in Procs : RecordDone(q)'
<1>1. ~robbed /\ ~Ran(Taking \cup {"mark"})
    BY RanStays, AdvanceOnward DEF Onward
<1>2. ~Ran(Taking) /\ ~Ran({"mark"})
    BY <1>1 DEF Ran
<1>3. /\ \A v \in Places : RoadPlace(v)
      /\ \A q \in Procs : RoadDraft(q) /\ RoadEnds(q) /\ RoadClaim(q) /\ RecordDone(q)
    BY <1>1, <1>2 DEF PlaceInv, RecordInv
<1>4. RecordDone(p)'
    BY <1>1, <1>2, <1>3, RecordOwn
<1>5. ASSUME NEW q \in Procs, q # p
      PROVE  RecordDone(q)'
    BY <1>1, <1>2, <1>3, <1>5, RecordBeside
<1> QED BY <1>4, <1>5

\* The surroundings change neither the documents nor the numbers of directories.
RoadsStay ==
    /\ proc' = proc /\ robbed' = robbed /\ kills' = kills /\ made' = made /\ shelf' = shelf
    /\ \A v \in Places : /\ tree'[v].road = tree[v].road /\ tree'[v].reqs = tree[v].reqs
                         /\ tree'[v].state = tree[v].state
                         /\ DirIds(tree'[v].dirs) = DirIds(tree[v].dirs)

LEMMA RoundsLeave ==
    ASSUME TypeInv, Surroundings \/ UNCHANGED wsvars
    PROVE  RoadsStay
<1>1. CASE UNCHANGED wsvars
    BY <1>1 DEF wsvars, vars, RoadsStay
<1>2. ASSUME NEW at \in Places, Age(at)
      PROVE  RoadsStay
    BY <1>2 DEF Age, RoadsStay
<1>3. ASSUME NEW at \in Places, Work(at)
      PROVE  RoadsStay
    <2>1. proc' = proc /\ robbed' = robbed /\ kills' = kills /\ made' = made /\ shelf' = shelf
        BY <1>3 DEF Work
    <2>2. \E x : tree' = [tree EXCEPT ![at].dirs = x]
        BY <1>3 DEF Work
    <2>3. \A v \in Places : /\ tree'[v].road = tree[v].road /\ tree'[v].reqs = tree[v].reqs
                            /\ tree'[v].state = tree[v].state
        BY <2>2, OneFile, RestOfFiles
    <2>4. \A v \in Places : DirIds(tree'[v].dirs) = DirIds(tree[v].dirs)
        BY <1>3, WorkNumbers
    <2> QED BY <2>1, <2>3, <2>4 DEF RoadsStay
<1> QED BY <1>1, <1>2, <1>3 DEF Surroundings

LEMMA RoundsKeep ==
    ASSUME TypeInv, RoadsStay
    PROVE  (PlaceInv => PlaceInv') /\ (RecordInv => RecordInv') /\ (Begun => Begun')
<1>1. \A ops : Ran(ops)' = Ran(ops)
    BY DEF RoadsStay, Ran, Op
<1>2. \A v \in Places : /\ Filled(v)' = Filled(v) /\ Known(v)' = Known(v) /\ RoadPlace(v)' = RoadPlace(v)
                        /\ Texts(v)' = Texts(v)
    <2>1. \A dirs : dirs # {} <=> DirIds(dirs) # {}
        BY DEF DirIds
    <2>2. \A v \in Places : tree'[v].dirs # {} <=> tree[v].dirs # {}
        BY <2>1 DEF RoadsStay
    <2> QED BY <2>2 DEF RoadsStay, Filled, Known, RoadPlace, Texts, Drafting, At
<1>3. ASSUME NEW q \in Procs
      PROVE  /\ RoadDraft(q)' = RoadDraft(q) /\ RoadEnds(q)' = RoadEnds(q) /\ RoadClaim(q)' = RoadClaim(q)
             /\ RecordDone(q)' = RecordDone(q)
    <2>1. /\ proc[q].at \in Places /\ Here(q)'.road = Here(q).road /\ Here(q)'.reqs = Here(q).reqs
          /\ proc'[q] = proc[q]
        BY Facts DEF RoadsStay, Here
    <2>2. /\ Drafting(q)' = Drafting(q) /\ Archivist(q)' = Archivist(q) /\ Claims(q)' = Claims(q)
          /\ Completes(q)' = Completes(q) /\ Written(q)' = Written(q) /\ Ticking(q)' = Ticking(q)
          /\ (\A pc : At(q, pc)' = At(q, pc))
        BY <2>1 DEF Drafting, At, Archivist, Claims, Completes, Op, Working, Written, Ticking
    <2>3. Known(proc[q].at)' = Known(proc[q].at)
        <3>1. Known(proc[q].at)' = RoadIds(tree'[proc[q].at].road) \cup DirIds(tree'[proc[q].at].dirs)
            BY <2>1 DEF Known
        <3> QED BY <2>1, <3>1 DEF Known, RoadsStay
    <2>4. Texts(proc[q].at)' = Texts(proc[q].at)
        <3>1. Texts(proc[q].at)' = {tree'[proc[q].at].road}
                    \cup {proc[r].road : r \in {s \in Procs : Drafting(s) /\ proc[s].at = proc[q].at}}
            BY DEF RoadsStay, Texts, Drafting, At
        <3> QED BY <2>1, <3>1 DEF Texts, RoadsStay
    <2>5. RoadDraft(q)' = RoadDraft(q)
        BY <2>1, <2>2 DEF RoadDraft
    <2>6. RoadEnds(q)' = RoadEnds(q)
        BY <2>1, <2>2 DEF RoadEnds
    <2>7. RoadClaim(q)' = RoadClaim(q)
        BY <2>1, <2>2, <2>3 DEF RoadClaim
    <2>8. RecordDone(q)' = RecordDone(q)
        BY <2>1, <2>2, <2>4 DEF RecordDone
    <2> QED BY <2>5, <2>6, <2>7, <2>8
<1>4. robbed' = robbed /\ OnePlace' = OnePlace
    BY <1>2 DEF RoadsStay, OnePlace
<1>5. PlaceInv => PlaceInv'
    BY <1>1, <1>2, <1>3, <1>4 DEF PlaceInv
<1>6. RecordInv => RecordInv'
    BY <1>1, <1>3, <1>4 DEF RecordInv
<1>7. Begun => Begun'
    BY DEF Begun, RoadsStay, At
<1> QED BY <1>5, <1>6, <1>7

LEMMA PlaceInvKept ==
    TypeInv /\ Unbegun /\ PlaceInv /\ [WsNext]_wsvars => PlaceInv'
<1> SUFFICES ASSUME TypeInv, Unbegun, PlaceInv, [WsNext]_wsvars
             PROVE  PlaceInv'
    OBVIOUS
<1>1. TypeInv'
    BY TypeInvKept
<1>2. ASSUME NEW p \in Procs, Advance(p)
      PROVE  PlaceInv'
    BY <1>1, <1>2, PlaceStep DEF PlaceInv
<1>3. CASE Surroundings \/ UNCHANGED wsvars
    BY <1>3, RoundsLeave, RoundsKeep
<1> QED BY <1>2, <1>3 DEF WsNext, PhaseNext, Rest, Advance

LEMMA RecordInvKept ==
    TypeInv /\ Unbegun /\ NumbersInv /\ PlaceInv /\ RecordInv /\ Begun /\ [WsNext]_wsvars => RecordInv' /\ Begun'
<1> SUFFICES ASSUME TypeInv, Unbegun, NumbersInv, PlaceInv, RecordInv, Begun, [WsNext]_wsvars
             PROVE  RecordInv' /\ Begun'
    OBVIOUS
<1>1. TypeInv'
    BY TypeInvKept
<1>2. ASSUME NEW p \in Procs, Advance(p)
      PROVE  RecordInv' /\ Begun'
    <2>1. RecordInv'
        BY <1>1, <1>2, RecordStep DEF RecordInv
    <2>2. \A q \in Procs : q # p => proc'[q] = proc[q]
        BY <1>2, OthersStay DEF Advance, TypeInv
    <2>3. Begun'
        BY <1>1, <1>2, <2>2, BegunStep DEF Begun, At
    <2> QED BY <2>1, <2>3
<1>3. CASE Surroundings \/ UNCHANGED wsvars
    BY <1>3, RoundsLeave, RoundsKeep
<1> QED BY <1>2, <1>3 DEF WsNext, PhaseNext, Rest, Advance

\* A project in which every section has a number and a checkbox of its own, and no
\* two directories share one.
Boxed(t) ==
    /\ Single(t.dirs)
    /\ t.road # None => t.road # <<>> /\ Distinct(t.road) /\ OwnBoxes(t.road)

LEMMA BoxedStarts ==
    ASSUME \A start \in Starts : Boxed(start.tree), WsInit
    PROVE  NumbersInv /\ PlaceInv /\ RecordInv /\ Begun
<1>1. \A q \in Procs : proc[q].pc \in {"idle", "killed"}
    BY DEF WsInit, Init, Idle
<1>2. PICK start \in Starts : /\ tree = [at \in Places |-> IF at = start.at THEN start.tree ELSE NoTree]
                              /\ made = {Flat} \cup Ancestors(start.at)
    BY DEF WsInit, Init
<1>3. NoTree.road = None /\ NoTree.dirs = {} /\ Single(NoTree.dirs)
    BY DEF NoTree, Single
<1>4. start.at \in made
    BY <1>2 DEF Ancestors
<1>5. \A at \in Places : shelf.dirs[at] = {}
    BY DEF WsInit, Init
<1>6. \A at \in Places :
        /\ Single(tree[at].dirs) /\ (Filled(at) => at = start.at)
        /\ tree[at].road # None =>
             at \in made /\ tree[at].road # <<>> /\ Distinct(tree[at].road) /\ OwnBoxes(tree[at].road)
    BY <1>2, <1>3, <1>4, <1>5 DEF Boxed, Filled
<1>7. \A at \in Places : DirIds(shelf.dirs[at]) = {}
    BY <1>5 DEF DirIds
<1>8. \A q \in Procs : ~Drafting(q) /\ ~Archivist(q) /\ ~Claims(q) /\ ~Written(q) /\ ~At(q, "done") /\ ~At(q, "make")
    BY <1>1 DEF Drafting, At, Archivist, Claims, Written, Working
<1>9. NumbersInv
    BY <1>6, <1>8 DEF NumbersInv
<1>10. PlaceInv
    BY <1>6, <1>7, <1>8 DEF PlaceInv, OnePlace, RoadPlace, RoadDraft, RoadEnds, RoadClaim
<1>11. RecordInv /\ Begun
    BY <1>8 DEF RecordInv, RecordDone, Begun
<1> QED BY <1>9, <1>10, <1>11

\* A phase whose completion was acknowledged is ticked in the roadmap, and its
\* requirements are ticked with it: whatever is added, inserted, completed, annotated and
\* archived at once, and whoever is killed between two steps (phase.cjs,
\* cmdPhaseComplete). At the start each section has a checkbox of its own number.
THEOREM CompletionsRecorded ==
    ASSUME \A start \in Starts : Boxed(start.tree)
    PROVE  WsSpec => []CompletionRecorded
<1> DEFINE I == TypeInv /\ Unbegun /\ NumbersInv /\ PlaceInv /\ RecordInv /\ Begun
<1>1. WsInit => I
    BY TypeInvInit, UnbegunInit, BoxedStarts
<1>2. I /\ [WsNext]_wsvars => I'
    BY TypeInvKept, UnbegunKept, NumbersInvKept, PlaceInvKept, RecordInvKept
<1>3. I => CompletionRecorded
    <2> SUFFICES ASSUME I, NEW p \in Procs, Acknowledged(p, {"complete"}), ~robbed, ~Ran(Taking \cup {"mark"}),
                        Here(p).road # None, SectionOf(Here(p).road, proc[p].cmd.id) # 0
                 PROVE  LET t == Here(p)
                            i == SectionOf(t.road, proc[p].cmd.id)
                        IN  t.road[i].ticked /\ (t.reqs # None => t.road[i].reqs \subseteq t.reqs)
        BY DEF CompletionRecorded
    <2> DEFINE road == Here(p).road
               id == proc[p].cmd.id
               i == SectionOf(road, id)
    <2>1. Completes(p) /\ Written(p) /\ ~Ticking(p)
        BY DEF Acknowledged, Completes, Written, Ticking, Begun, At, Op
    <2>2. road \in Texts(proc[p].at)
        BY DEF Texts, Here
    <2>3. Recorded(road, id) /\ Covered(road, id, Here(p).reqs)
        BY <2>1, <2>2 DEF RecordInv, RecordDone
    <2>4. road \in Seq(Sections)
        BY Facts DEF Trees, Roadmaps
    <2> HIDE DEF road, id
    <2>5. i \in DOMAIN road /\ road[i].id = id
        BY <2>4, SectionFound DEF road, id
    <2> QED BY <2>3, <2>5 DEF Recorded, Covered, Range, road, id
<1> QED BY <1>1, <1>2, <1>3, PTL DEF WsSpec

-----------------------------------------------------------------------------
(* When all is done the health check finds nothing. *)

Found(v) == DirIds(tree[v].dirs) \cup DirIds(shelf.dirs[v])

HealthPlace(v) ==
    tree[v].road # None =>
        /\ RoadIds(tree[v].road) \subseteq Found(v) /\ Dense(RoadIds(tree[v].road))
        /\ tree[v].state # None => tree[v].state.refs \subseteq Known(v)
HealthDraft(p) ==
    Drafting(p) => RoadIds(proc[p].road) \subseteq Found(proc[p].at) /\ Dense(RoadIds(proc[p].road))
HealthNext(p) ==
    At(p, "state") /\ Here(p).road # None => proc[p].next \in Known(proc[p].at) \cup {None}
HealthInv ==
    kills = 0 /\ ~robbed /\ ~Ran(Taking) =>
        (\A v \in Places : HealthPlace(v)) /\ \A p \in Procs : HealthDraft(p) /\ HealthNext(p)

\* No gap comes from a decimal phase, or from an integer one after another.
LEMMA DenseGrows ==
    ASSUME NEW ids \in SUBSET Numbers, Dense(ids), NEW id \in Numbers,
           id[2] # 0 \/ <<id[1] - 1, 0>> \in ids
    PROVE  Dense(ids \cup {id})
<1> DEFINE Ints(S) == {x[1] : x \in {y \in S : y[2] = 0}}
           more == ids \cup {id}
<1>1. \A S \in SUBSET Numbers : Dense(S) <=> \A n \in Ints(S) : (\A m \in Ints(S) : n <= m) \/ n - 1 \in Ints(S)
    <2> SUFFICES ASSUME NEW S \in SUBSET Numbers, NEW n \in Ints(S)
                 PROVE  n = Min(Ints(S)) <=> \A m \in Ints(S) : n <= m
        BY DEF Dense
    <2>1. Ints(S) \in SUBSET Nat /\ Ints(S) # {}
        BY DEF Numbers
    <2> HIDE DEF Ints
    <2>2. Min(Ints(S)) \in Ints(S) /\ \A m \in Ints(S) : Min(Ints(S)) <= m
        BY <2>1, LeastNumber
    <2>3. \A a, b \in Nat : a <= b /\ b <= a => a = b
        OBVIOUS
    <2> QED BY <2>1, <2>2, <2>3
<1>2. \A n \in Ints(ids) : (\A m \in Ints(ids) : n <= m) \/ n - 1 \in Ints(ids)
    BY <1>1
<1>3. Ints(ids) \in SUBSET Nat
    BY DEF Numbers
<1>4. CASE id[2] # 0
    <2>1. Ints(more) = Ints(ids)
        BY <1>4
    <2> QED BY <1>1, <1>2, <2>1
<1>5. CASE id[2] = 0 /\ <<id[1] - 1, 0>> \in ids
    <2> DEFINE k == id[1]
    <2>1. k \in Nat /\ Ints(more) = Ints(ids) \cup {k}
        BY <1>5 DEF Numbers
    <2>2. k - 1 \in Ints(ids)
        BY <1>5
    <2> HIDE DEF Ints, k
    <2>3. ASSUME NEW n \in Ints(more)
          PROVE  (\A m \in Ints(more) : n <= m) \/ n - 1 \in Ints(more)
        <3>1. CASE n = k
            BY <2>1, <2>2, <3>1
        <3>2. CASE n \in Ints(ids)
            <4>1. CASE n - 1 \in Ints(ids)
                BY <2>1, <4>1
            <4>2. CASE \A m \in Ints(ids) : n <= m
                <5>1. n <= k - 1 /\ n \in Nat
                    BY <1>3, <2>2, <3>2, <4>2
                <5>2. n <= k
                    BY <2>1, <5>1
                <5> QED BY <2>1, <4>2, <5>2
            <4> QED BY <1>2, <3>2, <4>1, <4>2
        <3> QED BY <2>1, <3>1, <3>2
    <2>4. more \in SUBSET Numbers
        OBVIOUS
    <2> HIDE DEF more
    <2>5. Dense(more)
        BY <1>1, <2>3, <2>4
    <2> QED BY <2>5 DEF more
<1> QED BY <1>4, <1>5

LEMMA NextPhaseKnown ==
    ASSUME NEW road \in Seq(Sections), NEW dirs \in SUBSET Directories, NEW id
    PROVE  NextPhase(road, dirs, id) \in RoadIds(road) \cup DirIds(dirs) \cup {None}
<1> DEFINE ahead == {d.id : d \in {e \in dirs : InMilestone(RoadIds(road), e) /\ Before(id, e.id)}}
           later == SelectInSeq(road, LAMBDA s : Before(id, s.id))
           next == NextPhase(road, dirs, id)
<1>1. road # None
    BY FilesAssumption
<1>2. next = IF ahead # {} THEN CHOOSE a \in ahead : \A b \in ahead : ~Before(b, a)
             ELSE IF later # 0 THEN road[later].id ELSE None
    BY <1>1 DEF NextPhase
<1>3. ahead \in SUBSET Numbers /\ ahead \subseteq DirIds(dirs)
    BY DEF DirIds, Directories
<1>4. later # 0 => later \in DOMAIN road
    <2> DEFINE T(s) == Before(id, s.id)
               I == {i \in 1..Len(road) : T(road[i])}
    <2>1. later = IF I # {} THEN Min(I) ELSE 0
        BY DEF SelectInSeq
    <2>2. I \in SUBSET Nat
        OBVIOUS
    <2>3. I # {} => Min(I) \in I
        BY <2>2, LeastNumber
    <2> HIDE DEF later
    <2> QED BY <2>1, <2>3
<1> HIDE DEF ahead, later, next
<1>5. CASE ahead # {}
    BY <1>2, <1>3, <1>5, FirstNumber DEF next
<1>6. CASE ahead = {}
    BY <1>1, <1>2, <1>4, <1>6 DEF RoadIds, next
<1> QED BY <1>5, <1>6

\* A completion comes to STATE.md from looking up the next phase.
LEMMA StateTurns ==
    ASSUME TypeInv, TypeInv', NEW p \in Procs, Advance(p), Plain(p), ~Kill(p), At(p, "state")'
    PROVE  LookUpNext(p)
<1>a. DOMAIN proc = Procs /\ DOMAIN proc[p] = DOMAIN Idle
    BY Facts
<1>b. \A pc : Goto(p, pc) => proc'[p].pc = pc
    BY <1>a DEF Goto, Idle
<1>1. proc'[p].cmd.op = "complete" /\ proc'[p].pc = "state"
    BY DEF TypeInv, CarriedOK, Carried, At
<1>2. ~At(p, "idle")
    <2> SUFFICES ASSUME At(p, "idle")
                 PROVE  FALSE
        OBVIOUS
    <2>1. PICK c \in Menu[p] : proc'[p].cmd = c /\ (c.op = "complete" => CompleteBegins(p, c))
        BY Stations, BeginTurns
    <2>2. CompleteBegins(p, c)
        BY <1>1, <2>1
    <2> QED BY <1>1, <2>2, CompletionBegins
<1>3. proc'[p].cmd = proc[p].cmd
    BY <1>2, AdvanceOnward DEF Onward
<1>4. Working(p) /\ Op(p) = "complete" /\ proc[p].cmd # None
    BY <1>1, <1>2, <1>3, Stands, Facts, MenuAssumption DEF Op
<1>5. Claims(p) /\ Written(p)'
    BY <1>1, <1>4 DEF Claims, Completes, Written
<1>6. proc[p].pc \in {"release", "lookup", "state"}
    <2>1. Writes(p) => proc'[p].pc = AfterWrite(p)
        BY <1>a DEF Writes, Idle
    <2> QED BY <1>1, <1>5, <2>1, WrittenTurns DEF AfterWrite
<1>7. ~At(p, "release")
    <2>1. At(p, "release") => Release(p)
        BY Stations DEF Locking, Acquire, SeeStale, BreakStale, GiveUpWaiting, LastTry, Fail, At, Queued
    <2>2. Release(p) => proc'[p].pc = "lookup"
        BY <1>b, <1>4 DEF Release
    <2> QED BY <1>1, <2>1, <2>2
<1>8. ~At(p, "state")
    <2>1. At(p, "state") => MoveState(p)
        BY Stations
    <2>2. MoveState(p) => proc'[p].pc = "done"
        BY FinishOnward DEF MoveState
    <2> QED BY <1>1, <2>1, <2>2
<1>9. At(p, "lookup")
    BY <1>6, <1>7, <1>8 DEF At
<1> QED BY <1>9, Stations

\* No number is lost from directories and archive.
LEMMA FoundGrows ==
    ASSUME TypeInv, NEW p \in Procs, Advance(p), ~Ran(Taking), NEW v \in Places
    PROVE  Found(v) \subseteq Found(v)'
<1> DEFINE at == proc[p].at
<1>1. CASE shelf'.dirs = shelf.dirs /\ tree'[v].dirs = tree[v].dirs
    BY <1>1 DEF Found
<1>2. CASE MakeDirectory(p)
    <2>1. /\ DirIds(tree[at].dirs) \subseteq DirIds(tree'[at].dirs) /\ shelf' = shelf
          /\ v # at => tree'[v].dirs = tree[v].dirs
        BY <1>2, DraftMade
    <2> QED BY <2>1 DEF Found
<1>3. CASE Writes(p) /\ Op(p) # "remove" /\ shelf'.dirs = shelf.dirs
    <2>1. tree'[v].dirs = tree[v].dirs
        BY <1>3, DraftWritten
    <2> QED BY <1>3, <2>1 DEF Found
<1>4. CASE Shelve(p)
    <2>1. CASE tree' = tree /\ shelf' = shelf
        BY <2>1 DEF Found
    <2>2. CASE ~(tree' = tree /\ shelf' = shelf)
        <3>1. PICK same \in SUBSET tree[at].dirs :
                    /\ tree'[at].dirs = tree[at].dirs \ same /\ shelf'.dirs[at] = shelf.dirs[at] \cup same
                    /\ v # at => tree'[v].dirs = tree[v].dirs /\ shelf'.dirs[v] = shelf.dirs[v]
            BY <1>4, <2>2, ShelveMoves
        <3>2. CASE v = at
            BY <3>1, <3>2 DEF Found, DirIds
        <3>3. CASE v # at
            BY <3>1, <3>3 DEF Found
        <3> QED BY <3>2, <3>3
    <2> QED BY <2>1, <2>2
<1> QED BY <1>1, <1>2, <1>3, <1>4, StepKinds

\* The draft of the process that steps.
LEMMA HealthDraftStep ==
    ASSUME TypeInv, TypeInv', NEW p \in Procs, Advance(p), ~Ran(Taking), FitDraft(p), HealthDraft(p),
           \A v \in Places : HealthPlace(v)
    PROVE  HealthDraft(p)'
<1> DEFINE at == proc[p].at
<1>1. at \in Places /\ Here(p) = tree[at]
    BY Facts DEF Here
<1>2. CASE MakeDirectory(p)
    <2> DEFINE road == proc[p].road
               new == proc'[p].road
               c == proc[p].cmd
               n == proc[p].num
               id == IF c.op = "insert" THEN <<c.base[1], n>> ELSE <<n, 0>>
               dep == IF c.op = "insert" THEN c.base ELSE <<n - 1, 0>>
    <2>1. /\ RoadIds(road) \subseteq Found(at) /\ Dense(RoadIds(road))
          /\ IF c.op = "insert" THEN c.base \in RoadIds(road) ELSE <<n - 1, 0>> \in RoadIds(road)
        BY <1>2 DEF HealthDraft, FitDraft, Grounded, Op, Drafting, MakeDirectory
    <2>2. /\ road \in Seq(Sections) /\ new \in Seq(Sections) /\ id \in Numbers /\ n \in Nat \ {0}
          /\ \E name \in Titles : Range(new) = Range(road) \cup {NewSection(id, name, dep)}
          /\ DirIds(tree'[at].dirs) = DirIds(tree[at].dirs) \cup {id}
          /\ proc'[p].at = at /\ shelf' = shelf
        BY <1>1, <1>2, DraftMade
    <2>3. id[2] # 0 \/ <<id[1] - 1, 0>> \in RoadIds(road)
        BY <2>1, <2>2
    <2> HIDE DEF new, road, at, id, dep, n, c
    <2>4. RoadIds(new) = RoadIds(road) \cup {id} /\ RoadIds(road) \subseteq Numbers
        BY <2>2, LongerFits, RoadIdsOf
    <2>5. Dense(RoadIds(new))
        BY <2>1, <2>2, <2>3, <2>4, DenseGrows
    <2>6. RoadIds(new) \subseteq DirIds(tree'[at].dirs) \cup DirIds(shelf'.dirs[at])
        BY <2>1, <2>2, <2>4 DEF Found
    <2> QED BY <2>2, <2>5, <2>6 DEF HealthDraft, Found, new, at
<1>3. CASE ~MakeDirectory(p)
    <2> SUFFICES ASSUME Drafting(p)'
                 PROVE  HealthDraft(p)'
        BY DEF HealthDraft
    <2>1. ~Ran(Moving)
        BY DEF Ran, Moving, Taking
    <2>2. /\ tree' = tree /\ proc'[p].at = at /\ proc'[p].road = tree[at].road /\ tree[at].road # None
        BY <1>1, <1>3, <2>1, DraftTurns
    <2>3. RoadIds(tree[at].road) \subseteq Found(at) /\ Dense(RoadIds(tree[at].road))
        BY <1>1, <2>2 DEF HealthPlace
    <2>4. Found(at) \subseteq DirIds(tree'[at].dirs) \cup DirIds(shelf'.dirs[at])
        <3>1. \A v \in Places : Found(v) \subseteq DirIds(tree'[v].dirs) \cup DirIds(shelf'.dirs[v])
            BY FoundGrows DEF Found
        <3> QED BY <1>1, <3>1
    <2> HIDE DEF at
    <2> QED BY <2>2, <2>3, <2>4 DEF HealthDraft, Found
<1> QED BY <1>2, <1>3

\* The next phase that it looked up.
LEMMA HealthNextStep ==
    ASSUME TypeInv, TypeInv', NEW p \in Procs, Advance(p), ~Ran(Taking), ~Kill(p)
    PROVE  HealthNext(p)'
<1> SUFFICES ASSUME At(p, "state")', Here(p)'.road # None
             PROVE  HealthNext(p)'
    BY DEF HealthNext
<1> DEFINE at == proc[p].at
           next == NextPhase(tree[at].road, tree[at].dirs, proc[p].cmd.id)
<1>1. at \in Places /\ Here(p) = tree[at] /\ DOMAIN proc = Procs /\ DOMAIN proc[p] = DOMAIN Idle
      /\ tree[at] \in Trees
    BY Facts DEF Here
<1>2. LookUpNext(p)
    BY OnlyPlain, StateTurns
<1> HIDE DEF next
<1>3. tree' = tree /\ proc' = [proc EXCEPT ![p].pc = "state", ![p].next = next]
    BY <1>1, <1>2 DEF LookUpNext, disk, next
<1>4. proc'[p].at = at /\ proc'[p].next = next
    BY <1>1, <1>3 DEF Idle
<1>5. tree[at].road # None
    BY <1>3, <1>4 DEF Here
<1>6. tree[at].road \in Seq(Sections) /\ tree[at].dirs \in SUBSET Directories
    BY <1>1, <1>5 DEF Trees, Roadmaps
<1>7. next \in RoadIds(tree[at].road) \cup DirIds(tree[at].dirs) \cup {None}
    BY <1>6, NextPhaseKnown DEF next
<1>8. HealthNext(p)' <=> (At(p, "state")' /\ tree'[proc'[p].at].road # None
        => proc'[p].next \in RoadIds(tree'[proc'[p].at].road) \cup DirIds(tree'[proc'[p].at].dirs) \cup {None})
    BY DEF HealthNext, Here, Known
<1> QED BY <1>3, <1>4, <1>7, <1>8

LEMMA HealthPlaceStep ==
    ASSUME TypeInv, TypeInv', NEW p \in Procs, Advance(p), ~Ran(Taking), ~Kill(p), NEW v \in Places,
           RoadPlace(v), RoadDraft(p), RoadEnds(p), RoadClaim(p), HealthPlace(v), HealthDraft(p), HealthNext(p)
    PROVE  HealthPlace(v)'
<1> SUFFICES ASSUME tree'[v].road # None
             PROVE  /\ RoadIds(tree'[v].road) \subseteq Found(v)' /\ Dense(RoadIds(tree'[v].road))
                    /\ tree'[v].state # None => tree'[v].state.refs \subseteq Known(v)'
    BY DEF HealthPlace
<1> DEFINE at == proc[p].at
<1>1. at \in Places /\ Here(p) = tree[at] /\ DOMAIN proc = Procs /\ tree \in [Places -> Trees]
    BY Facts DEF Here, TypeInv, FilesOK, TreesOK
<1>2. /\ tree[v].road # None /\ Known(v) \subseteq Known(v)' /\ Found(v) \subseteq Found(v)'
      /\ tree'[v].road = tree[v].road \/ (Writes(p) /\ v = at)
    BY PlacesChange, FoundGrows
<1>3. /\ RoadIds(tree[v].road) \subseteq Found(v) /\ Dense(RoadIds(tree[v].road))
      /\ tree[v].state # None => tree[v].state.refs \subseteq Known(v)
    BY <1>2 DEF HealthPlace
<1>4. RoadIds(tree'[v].road) \subseteq Found(v)' /\ Dense(RoadIds(tree'[v].road))
    <2>1. CASE tree'[v].road = tree[v].road
        BY <1>2, <1>3, <2>1
    <2>2. CASE Writes(p) /\ v = at
        <3>1. Op(p) # "remove"
            BY <2>2, OnlyPlain DEF Writes, Working, At, Taking
        <3>2. /\ proc[p].road \in Seq(Sections) /\ Edited(proc[p].road, Rewritten(p))
              /\ tree'[at].road = Rewritten(p)
            BY <1>1, <2>2, <3>1, DraftWritten
        <3>3. RoadIds(tree'[v].road) = RoadIds(proc[p].road)
            BY <2>2, <3>2, EditedFits
        <3>4. RoadIds(proc[p].road) \subseteq Found(v) /\ Dense(RoadIds(proc[p].road))
            BY <2>2 DEF HealthDraft, Drafting, Writes
        <3> QED BY <1>2, <3>3, <3>4
    <2> QED BY <1>2, <2>1, <2>2
<1>5. tree'[v].state # None => tree'[v].state.refs \subseteq Known(v)'
    <2>1. CASE tree'[v].state = tree[v].state
        BY <1>2, <1>3, <2>1
    <2>2. CASE tree'[v].state.refs = {}
        BY <2>2
    <2>3. CASE MoveState(p) /\ v = at
        <3> DEFINE id == proc[p].cmd.id
                   next == proc[p].next
                   new == Advanced(tree[v].state, id, next)
        <3>1. At(p, "state") /\ Completes(p) /\ Working(p)
            BY <2>3, Facts, MenuAssumption DEF MoveState, Carried, At, Completes, Op, Working
        <3>2. id \in Known(v) /\ next \in Known(v) \cup {None}
            BY <1>1, <1>2, <2>3, <3>1 DEF RoadClaim, Claims, HealthNext
        <3>3. tree' = tree \/ tree' = [tree EXCEPT ![v].state = new]
            BY <1>1, <2>3 DEF MoveState
        <3>4. new.refs \subseteq Known(v)
            <4>1. new.refs = {id, next} \ {None}
                BY DEF Advanced
            <4> HIDE DEF new, id, next
            <4> QED BY <3>2, <4>1
        <3> HIDE DEF new
        <3>5. tree'[v].state = tree[v].state \/ tree'[v].state = new
            BY <3>3, RestOfFiles
        <3> QED BY <1>2, <2>1, <3>4, <3>5
    <2> QED BY <2>1, <2>2, <2>3, OnlyPlain, RestChanges
<1> QED BY <1>4, <1>5

LEMMA HealthStep ==
    ASSUME TypeInv, TypeInv', Unbegun, FitInv, PlaceInv, HealthInv, [WsNext]_wsvars, NEW p \in Procs, Advance(p),
           kills' = 0, ~robbed', ~Ran(Taking)'
    PROVE  (\A v \in Places : HealthPlace(v)') /\ \A q \in Procs : HealthDraft(q)' /\ HealthNext(q)'
<1>1. ~robbed /\ ~Ran(Taking)
    BY RanStays, AdvanceOnward DEF Onward
<1>2. Plain(p)
    BY <1>1, OnlyPlain
<1>3. kills = 0 /\ ~Kill(p)
    <2>1. kills \in Nat
        BY PlacesAssumption DEF TypeInv, FilesOK
    <2>2. Kill(p) => kills' = kills + 1
        BY DEF Kill
    <2>3. ~Kill(p)
        BY <2>1, <2>2
    <2> QED BY <1>2, <2>3, KillsCounted
<1>4. /\ \A v \in Places : HealthPlace(v) /\ RoadPlace(v)
      /\ \A q \in Procs : /\ FitDraft(q) /\ RoadDraft(q) /\ RoadEnds(q) /\ RoadClaim(q)
                          /\ HealthDraft(q) /\ HealthNext(q)
    BY <1>1, <1>3 DEF FitInv, PlaceInv, HealthInv
<1>5. \A v \in Places : HealthPlace(v)'
    BY <1>1, <1>3, <1>4, HealthPlaceStep
<1>6. HealthDraft(p)' /\ HealthNext(p)'
    BY <1>1, <1>3, <1>4, HealthDraftStep, HealthNextStep
<1>7. ASSUME NEW q \in Procs, q # p
      PROVE  HealthDraft(q)' /\ HealthNext(q)'
    <2> DEFINE v == proc[q].at
    <2>1. proc'[q] = proc[q] /\ v \in Places
        BY <1>7, OthersStay, Facts DEF Advance, TypeInv
    <2>2. /\ Found(v) \subseteq DirIds(tree'[v].dirs) \cup DirIds(shelf'.dirs[v])
          /\ tree'[v].road # None <=> tree[v].road # None
          /\ tree[v].road # None => Known(v) \subseteq RoadIds(tree'[v].road) \cup DirIds(tree'[v].dirs)
        <3>1. \A w \in Places : /\ Found(w) \subseteq DirIds(tree'[w].dirs) \cup DirIds(shelf'.dirs[w])
                                /\ tree'[w].road # None <=> tree[w].road # None
                                /\ tree[w].road # None => Known(w) \subseteq RoadIds(tree'[w].road) \cup DirIds(tree'[w].dirs)
            BY <1>1, <1>4, PlacesChange, FoundGrows DEF Found, Known
        <3> QED BY <2>1, <3>1
    <2>3. /\ HealthDraft(q)' <=> (Drafting(q)' =>
                /\ RoadIds(proc'[q].road) \subseteq DirIds(tree'[proc'[q].at].dirs) \cup DirIds(shelf'.dirs[proc'[q].at])
                /\ Dense(RoadIds(proc'[q].road)))
          /\ HealthNext(q)' <=> (At(q, "state")' /\ tree'[proc'[q].at].road # None =>
                proc'[q].next \in RoadIds(tree'[proc'[q].at].road) \cup DirIds(tree'[proc'[q].at].dirs) \cup {None})
        BY DEF HealthDraft, HealthNext, Found, Known, Here
    <2>4. Drafting(q)' = Drafting(q) /\ At(q, "state")' = At(q, "state")
        BY <2>1 DEF Drafting, At
    <2>5. HealthDraft(q) /\ HealthNext(q) /\ Here(q) = tree[v]
        BY <1>4 DEF Here
    <2>6. HealthDraft(q)'
        BY <2>1, <2>2, <2>3, <2>4, <2>5 DEF HealthDraft
    <2>7. HealthNext(q)'
        BY <2>1, <2>2, <2>3, <2>4, <2>5 DEF HealthNext
    <2> QED BY <2>6, <2>7
<1> QED BY <1>5, <1>6, <1>7

LEMMA HealthInvKept ==
    TypeInv /\ Unbegun /\ FitInv /\ PlaceInv /\ HealthInv /\ [WsNext]_wsvars => HealthInv'
<1> SUFFICES ASSUME TypeInv, Unbegun, FitInv, PlaceInv, HealthInv, [WsNext]_wsvars
             PROVE  HealthInv'
    OBVIOUS
<1>1. TypeInv'
    BY TypeInvKept
<1>2. ASSUME NEW p \in Procs, Advance(p)
      PROVE  HealthInv'
    BY <1>1, <1>2, HealthStep DEF HealthInv
<1>3. CASE Surroundings \/ UNCHANGED wsvars
    <2>1. RoadsStay
        BY <1>3, RoundsLeave
    <2>2. Ran(Taking)' = Ran(Taking) /\ robbed' = robbed /\ kills' = kills
        BY <2>1 DEF RoadsStay, Ran, Op
    <2>3. \A v \in Places : HealthPlace(v)' = HealthPlace(v)
        BY <2>1 DEF RoadsStay, HealthPlace, Found, Known
    <2>4. ASSUME NEW q \in Procs
          PROVE  HealthDraft(q)' = HealthDraft(q) /\ HealthNext(q)' = HealthNext(q)
        <3> DEFINE v == proc[q].at
        <3>1. /\ v \in Places /\ proc' = proc /\ shelf' = shelf /\ DirIds(tree'[v].dirs) = DirIds(tree[v].dirs)
              /\ tree'[v].road = tree[v].road
            BY <2>1, Facts DEF RoadsStay
        <3>2. Drafting(q)' = Drafting(q) /\ At(q, "state")' = At(q, "state")
            BY <3>1 DEF Drafting, At
        <3> QED BY <3>1, <3>2 DEF HealthDraft, HealthNext, Found, Known, Here
    <2> QED BY <2>2, <2>3, <2>4 DEF HealthInv
<1> QED BY <1>2, <1>3 DEF WsNext, PhaseNext, Rest, Advance

\* A project on which the health check would find nothing.
Sane(t) ==
    /\ Fitting(t) /\ Boxed(t)
    /\ t.road # None =>
         /\ RoadIds(t.road) \subseteq DirIds(t.dirs) /\ Dense(RoadIds(t.road))
         /\ t.state # None => t.state.refs \subseteq RoadIds(t.road)

LEMMA SaneStarts ==
    ASSUME \A start \in Starts : Sane(start.tree), WsInit
    PROVE  HealthInv
<1>1. \A q \in Procs : proc[q].pc \in {"idle", "killed"}
    BY DEF WsInit, Init, Idle
<1>2. PICK start \in Starts : tree = [at \in Places |-> IF at = start.at THEN start.tree ELSE NoTree]
    BY DEF WsInit, Init
<1>3. NoTree.road = None
    BY DEF NoTree
<1>4. Sane(start.tree)
    OBVIOUS
<1>5. \A at \in Places : HealthPlace(at)
    BY <1>2, <1>3, <1>4 DEF Sane, HealthPlace, Found, Known
<1> QED BY <1>1, <1>5 DEF HealthInv, HealthDraft, HealthNext, Drafting, At

\* When the commands are done, the numbers of roadmap and directories agree.
LEMMA NumbersAgree ==
    ASSUME TypeInv, FitInv, PlaceInv, HealthInv, AtRest, kills = 0, ~robbed, ~Ran(Taking), tree[Flat].road # None
    PROVE  LET found == DirIds(tree[Flat].dirs) \cup ActiveArchive(Flat)
           IN  /\ found = RoadIds(tree[Flat].road) /\ Dense(found)
               /\ tree[Flat].state # None => tree[Flat].state.refs \subseteq found
<1>1. Flat \in Places
    BY PlacesAssumption DEF Places
<1>2. DirIds(tree[Flat].dirs) \subseteq RoadIds(tree[Flat].road)
    <2>1. \A q \in Procs : ~Composes(q, Flat)
        BY DEF AtRest, Working, Composes, Drafting, At
    <2> QED BY <1>1, <2>1 DEF FitInv, FitPlace
<1>3. DirIds(shelf.dirs[Flat]) \subseteq RoadIds(tree[Flat].road)
    BY <1>1 DEF PlaceInv, RoadPlace
<1>4. /\ RoadIds(tree[Flat].road) \subseteq DirIds(tree[Flat].dirs) \cup DirIds(shelf.dirs[Flat])
      /\ Dense(RoadIds(tree[Flat].road))
      /\ tree[Flat].state # None =>
            tree[Flat].state.refs \subseteq RoadIds(tree[Flat].road) \cup DirIds(tree[Flat].dirs)
    BY <1>1 DEF HealthInv, HealthPlace, Found, Known
<1>5. ActiveArchive(Flat) = DirIds(shelf.dirs[Flat])
    <2> DEFINE filled == {v \in Places : shelf.dirs[v] # {}}
    <2>1. \A v \in filled : v = Flat
        BY <1>1 DEF PlaceInv, OnePlace, Filled
    <2>2. CASE filled = {}
        <3>1. shelf.dirs[Flat] = {}
            BY <1>1, <2>2
        <3>2. DirIds(shelf.dirs[Flat]) = {}
            BY <3>1 DEF DirIds
        <3> QED BY <2>2, <3>2 DEF ActiveArchive
    <2>3. CASE filled # {}
        BY <2>1, <2>3 DEF ActiveArchive
    <2> QED BY <2>2, <2>3
<1> QED BY <1>2, <1>3, <1>4, <1>5

\* When all commands are done, none was killed and no lock stolen, `validate health`
\* finds no section without a directory, no directory without a section and no reference
\* of STATE.md to a phase that is not there, and `validate consistency` no gap between
\* the numbers: in any project that was in order to begin with, whatever phases were
\* added, inserted, completed and annotated at once, and whatever milestones ended
\* (verify.cjs, cmdValidateHealth and cmdValidateConsistency).
THEOREM HealthyWhenDone ==
    ASSUME \A start \in Starts : Sane(start.tree)
    PROVE  WsSpec => []HealthyAtRest
<1> DEFINE I == /\ TypeInv /\ Unbegun /\ NumbersInv /\ FitInv /\ PlaceInv /\ HealthInv
<1>1. (\A start \in Starts : Fitting(start.tree)) /\ (\A start \in Starts : Boxed(start.tree))
    BY DEF Sane
<1>2. WsInit => I
    BY <1>1, TypeInvInit, UnbegunInit, FittingStarts, BoxedStarts, SaneStarts
<1>3. I /\ [WsNext]_wsvars => I'
    BY TypeInvKept, UnbegunKept, NumbersInvKept, FitInvKept, PlaceInvKept, HealthInvKept
<1>4. I => HealthyAtRest
    <2> SUFFICES ASSUME I, AtRest, kills = 0, ~robbed, ~Ran(Taking), tree[Flat].road # None
                 PROVE  /\ Health(Flat) \cap {"W002", "W006", "W007"} = {}
                        /\ Dense(DirIds(tree[Flat].dirs) \cup ActiveArchive(Flat))
        BY DEF HealthyAtRest
    <2> DEFINE t == tree[Flat]
               shelved == ActiveArchive(Flat)
               found == DirIds(t.dirs) \cup shelved
    <2>1. /\ found = RoadIds(t.road) /\ Dense(found)
          /\ t.state # None => t.state.refs \subseteq found
        BY NumbersAgree
    <2> DEFINE unlisted == Unlisted(Flat)
    <2> HIDE DEF t, shelved, unlisted
    <2>2. ~UnknownReference(t, found)
        BY <2>1 DEF UnknownReference
    <2>3. ~MissingDirectory(t, found)
        BY <2>1 DEF MissingDirectory
    <2>4. ~UnknownDirectory(t, found)
        BY <2>1 DEF UnknownDirectory
    <2>5. Diagnosis(t, shelved, unlisted) \cap {"W002", "W006", "W007"} = {}
        BY <2>2, <2>3, <2>4 DEF Diagnosis
    <2> QED BY <2>1, <2>5 DEF Health, t, shelved, unlisted
<1> QED BY <1>2, <1>3, <1>4, PTL DEF WsSpec

-----------------------------------------------------------------------------
(* Sums over finite sets. *)

\* g adds up f over each subset of S, one chosen element after the other.
AddUp(f, s, g) == IF s = {} THEN 0 ELSE f[CHOOSE x \in s : TRUE] + g[s \ {CHOOSE x \in s : TRUE}]
Sums(f, S, g) == g \in [SUBSET S -> Nat] /\ \A s \in SUBSET S : g[s] = AddUp(f, s, g)
Summed(f, S, n) == \E g : Sums(f, S, g) /\ n = g[S]

\* Among some subsets of a finite set there is one that has no smaller one.
LEMMA SmallestSubset ==
    ASSUME NEW S, IsFiniteSet(S), NEW bad \in SUBSET SUBSET S, bad # {}
    PROVE  \E s \in bad : \A x \in s : s \ {x} \notin bad
<1> DEFINE sizes == {Cardinality(s) : s \in bad}
<1>1. \A s \in bad : IsFiniteSet(s) /\ Cardinality(s) \in Nat
    BY FS_Subset, FS_CardinalityType
<1>2. sizes \in SUBSET Nat /\ sizes # {}
    BY <1>1
<1>3. PICK n \in sizes : \A m \in sizes : n <= m
    <2> HIDE DEF sizes
    <2> QED BY <1>2, LeastNumber
<1>4. PICK s \in bad : n = Cardinality(s)
    OBVIOUS
<1>5. \A x \in s : s \ {x} \notin bad
    <2> SUFFICES ASSUME NEW x \in s, s \ {x} \in bad
                 PROVE  FALSE
        OBVIOUS
    <2>1. Cardinality(s \ {x}) = Cardinality(s) - 1
        BY <1>1, FS_RemoveElement
    <2>2. n <= Cardinality(s \ {x})
        BY <1>3
    <2> QED BY <1>1, <1>4, <2>1, <2>2
<1> QED BY <1>5

LEMMA ChosenElement ==
    ASSUME NEW s, s # {}
    PROVE  (CHOOSE x \in s : TRUE) \in s
    OBVIOUS

\* There is such a sum: up to every size of the subsets.
LEMMA SumsExist ==
    ASSUME NEW S, IsFiniteSet(S), NEW f \in [S -> Nat]
    PROVE  \E g : Sums(f, S, g)
<1> DEFINE UpTo(g, n) == /\ g \in [SUBSET S -> Nat]
                         /\ \A s \in SUBSET S : Cardinality(s) <= n => g[s] = AddUp(f, s, g)
           bad == {n \in Nat : ~\E g : UpTo(g, n)}
<1>1. \A s \in SUBSET S : IsFiniteSet(s) /\ Cardinality(s) \in Nat /\ Cardinality(s) <= Cardinality(S)
    BY FS_Subset, FS_CardinalityType
<1>2. ASSUME NEW g \in [SUBSET S -> Nat], NEW s \in SUBSET S
      PROVE  AddUp(f, s, g) \in Nat
    <2>1. CASE s = {}
        BY <2>1 DEF AddUp
    <2>2. CASE s # {}
        <3> DEFINE x == CHOOSE y \in s : TRUE
        <3>1. x \in s
            BY <2>2, ChosenElement
        <3> HIDE DEF x
        <3>2. f[x] \in Nat /\ g[s \ {x}] \in Nat
            BY <3>1
        <3> QED BY <2>2, <3>2 DEF AddUp, x
    <2> QED BY <2>1, <2>2
<1>3. bad = {}
    <2> SUFFICES ASSUME bad # {}
                 PROVE  FALSE
        OBVIOUS
    <2>1. PICK n \in bad : \A m \in bad : n <= m
        <3>1. bad \in SUBSET Nat
            OBVIOUS
        <3> HIDE DEF bad
        <3> QED BY <3>1, LeastNumber
    <2>2. n \in Nat
        OBVIOUS
    <2>3. CASE n = 0
        <3> DEFINE g == [s \in SUBSET S |-> 0]
        <3>1. \A s \in SUBSET S : Cardinality(s) <= 0 => s = {}
            BY <1>1, FS_EmptySet
        <3>2. UpTo(g, 0)
            BY <3>1 DEF AddUp
        <3> QED BY <2>1, <2>3, <3>2
    <2>4. CASE n # 0
        <3> DEFINE k == n - 1
        <3>1. k \in Nat /\ n = k + 1 /\ k \notin bad
            <4>1. k \in Nat /\ n = k + 1 /\ ~(n <= k)
                BY <2>2, <2>4
            <4> HIDE DEF bad, k
            <4> QED BY <2>1, <4>1
        <3>2. PICK h : UpTo(h, k)
            BY <3>1
        <3> DEFINE g == [s \in SUBSET S |-> AddUp(f, s, h)]
        <3>3. g \in [SUBSET S -> Nat] /\ \A s \in SUBSET S : g[s] = AddUp(f, s, h)
            BY <1>2, <3>2
        <3>4. ASSUME NEW s \in SUBSET S, Cardinality(s) <= k
              PROVE  g[s] = h[s]
            BY <3>2, <3>3, <3>4
        <3> HIDE DEF g, k, bad
        <3>5. ASSUME NEW s \in SUBSET S, Cardinality(s) <= n
              PROVE  g[s] = AddUp(f, s, g)
            <4>1. CASE s = {}
                BY <3>3, <4>1 DEF AddUp
            <4>2. CASE s # {}
                <5> DEFINE x == CHOOSE y \in s : TRUE
                <5>1. x \in s
                    BY <4>2, ChosenElement
                <5> HIDE DEF x
                <5>2. Cardinality(s \ {x}) <= k /\ s \ {x} \in SUBSET S
                    BY <1>1, <3>1, <3>5, <5>1, FS_RemoveElement
                <5>3. g[s \ {x}] = h[s \ {x}]
                    BY <3>4, <5>2
                <5> QED BY <3>3, <4>2, <5>3 DEF AddUp, x
            <4> QED BY <4>1, <4>2
        <3>6. UpTo(g, n)
            BY <3>3, <3>5
        <3> QED BY <2>1, <3>6 DEF bad
    <2> QED BY <2>3, <2>4
<1>4. PICK g : UpTo(g, Cardinality(S))
    <2>1. Cardinality(S) \in Nat
        BY FS_CardinalityType
    <2> QED BY <1>3, <2>1
<1> QED BY <1>1, <1>4 DEF Sums

\* What is defined by the same equations has the same values.
LEMMA SameRecursion ==
    ASSUME NEW S, IsFiniteSet(S), NEW f, NEW g, Sums(f, S, g),
           NEW h, \A s \in SUBSET S : h[s] = AddUp(f, s, h)
    PROVE  h[S] = g[S]
<1> DEFINE bad == {s \in SUBSET S : h[s] # g[s]}
<1>1. bad = {}
    <2> SUFFICES ASSUME bad # {}
                 PROVE  FALSE
        OBVIOUS
    <2>1. PICK s \in bad : \A x \in s : s \ {x} \notin bad
        <3>1. bad \in SUBSET SUBSET S
            OBVIOUS
        <3> HIDE DEF bad
        <3> QED BY <3>1, SmallestSubset
    <2>2. s \in SUBSET S /\ h[s] = AddUp(f, s, h) /\ g[s] = AddUp(f, s, g) /\ h[s] # g[s]
        BY DEF Sums
    <2>3. s # {}
        BY <2>2 DEF AddUp
    <2> DEFINE x == CHOOSE y \in s : TRUE
    <2>4. x \in s
        BY <2>3, ChosenElement
    <2> HIDE DEF x
    <2>5. h[s \ {x}] = g[s \ {x}]
        BY <2>1, <2>2, <2>4
    <2> QED BY <2>2, <2>3, <2>5 DEF AddUp, x
<1> QED BY <1>1

\* The order does not matter.
LEMMA AnyFirst ==
    ASSUME NEW S, IsFiniteSet(S), NEW f \in [S -> Nat], NEW g, Sums(f, S, g),
           NEW s \in SUBSET S, NEW y \in s
    PROVE  g[s] = f[y] + g[s \ {y}]
<1> DEFINE bad == {t \in SUBSET S : \E z \in t : g[t] # f[z] + g[t \ {z}]}
<1>1. bad = {}
    <2> SUFFICES ASSUME bad # {}
                 PROVE  FALSE
        OBVIOUS
    <2>1. PICK t \in bad : \A x \in t : t \ {x} \notin bad
        <3>1. bad \in SUBSET SUBSET S
            OBVIOUS
        <3> HIDE DEF bad
        <3> QED BY <3>1, SmallestSubset
    <2>2. PICK z \in t : g[t] # f[z] + g[t \ {z}]
        OBVIOUS
    <2> DEFINE x == CHOOSE w \in t : TRUE
    <2>3. x \in t /\ t \in SUBSET S
        BY <2>2, ChosenElement
    <2>4. g[t] = f[x] + g[t \ {x}]
        BY <2>2, <2>3 DEF Sums, AddUp
    <2> HIDE DEF x
    <2>5. x # z
        BY <2>2, <2>4
    <2> DEFINE both == t \ {x, z}
    <2>6. t \ {x} \in SUBSET S /\ t \ {z} \in SUBSET S /\ z \in t \ {x} /\ x \in t \ {z}
        BY <2>3, <2>5
    <2>7. (t \ {x}) \ {z} = both /\ (t \ {z}) \ {x} = both /\ both \in SUBSET S
        BY <2>3
    <2>8. g[t \ {x}] = f[z] + g[(t \ {x}) \ {z}]
        BY <2>1, <2>3, <2>6
    <2>9. g[t \ {z}] = f[x] + g[(t \ {z}) \ {x}]
        BY <2>1, <2>2, <2>6
    <2> HIDE DEF both, bad
    <2>10. g[t \ {x}] = f[z] + g[both] /\ g[t \ {z}] = f[x] + g[both]
        BY <2>7, <2>8, <2>9
    <2>11. f[x] \in Nat /\ f[z] \in Nat /\ g[both] \in Nat
        BY <2>2, <2>3, <2>7 DEF Sums
    <2> QED BY ONLY <2>2, <2>4, <2>10, <2>11
<1> QED BY <1>1

\* What counts for nothing may be left out.
LEMMA SameSum ==
    ASSUME NEW S, IsFiniteSet(S), NEW T \in SUBSET S, NEW f \in [S -> Nat], NEW e \in [T -> Nat],
           \A x \in T : e[x] = f[x], \A x \in S \ T : f[x] = 0,
           NEW n, NEW m, Summed(f, S, n), Summed(e, T, m)
    PROVE  n = m
<1>1. PICK g : Sums(f, S, g) /\ n = g[S]
    BY DEF Summed
<1>2. PICK h : Sums(e, T, h) /\ m = h[T]
    BY DEF Summed
<1>3. IsFiniteSet(T)
    BY FS_Subset
<1> DEFINE bad == {s \in SUBSET S : g[s] # h[s \cap T]}
<1>4. bad = {}
    <2> SUFFICES ASSUME bad # {}
                 PROVE  FALSE
        OBVIOUS
    <2>1. PICK s \in bad : \A x \in s : s \ {x} \notin bad
        <3>1. bad \in SUBSET SUBSET S
            OBVIOUS
        <3> HIDE DEF bad
        <3> QED BY <3>1, SmallestSubset
    <2>2. s \in SUBSET S /\ g[s] # h[s \cap T] /\ s \cap T \in SUBSET T
        OBVIOUS
    <2>3. s # {}
        <3> SUFFICES ASSUME s = {}
                     PROVE  FALSE
            OBVIOUS
        <3>1. s \cap T = {} /\ {} \in SUBSET S /\ {} \in SUBSET T
            OBVIOUS
        <3>2. g[{}] = 0 /\ h[{}] = 0
            BY <1>1, <1>2, <3>1 DEF Sums, AddUp
        <3> HIDE DEF bad
        <3> QED BY <2>2, <3>1, <3>2
    <2>4. PICK x \in s : TRUE
        BY <2>3
    <2>5. g[s] = f[x] + g[s \ {x}]
        BY <1>1, <2>2, AnyFirst
    <2>6. g[s \ {x}] = h[(s \ {x}) \cap T]
        BY <2>1, <2>2
    <2> HIDE DEF bad
    <2>7. CASE x \in T
        <3>1. (s \ {x}) \cap T = (s \cap T) \ {x} /\ x \in s \cap T
            BY <2>7
        <3>2. h[s \cap T] = e[x] + h[(s \cap T) \ {x}]
            BY <1>2, <1>3, <2>2, <3>1, AnyFirst
        <3>3. e[x] = f[x] /\ g[s \ {x}] = h[(s \cap T) \ {x}]
            BY <2>6, <2>7, <3>1
        <3> QED BY ONLY <2>2, <2>5, <3>2, <3>3
    <2>8. CASE x \notin T
        <3>1. (s \ {x}) \cap T = s \cap T /\ f[x] = 0
            BY <2>2, <2>8
        <3>2. h[s \cap T] \in Nat
            BY <1>2, <2>2 DEF Sums
        <3>3. g[s \ {x}] = h[s \cap T]
            BY <2>6, <3>1
        <3> QED BY ONLY <2>2, <2>5, <3>1, <3>2, <3>3
    <2> QED BY <2>7, <2>8
<1>5. g[S] = h[S \cap T] /\ S \cap T = T
    BY <1>4
<1> QED BY <1>1, <1>2, <1>5

\* The sums that the views take.
LEMMA ViewSums ==
    ASSUME NEW dirs \in SUBSET Directories, IsFiniteSet(dirs)
    PROVE  /\ Summed([d \in dirs |-> d.plans], dirs, PlansIn(dirs))
           /\ Summed([d \in dirs |-> d.done], dirs, DoneIn(dirs))
           /\ Summed([d \in dirs |-> Min({d.done, d.plans})], dirs,
                     MapThenSumSet(LAMBDA d : Min({d.done, d.plans}), dirs))
<1>1. \A d \in dirs : d.plans \in Nat /\ d.done \in Nat /\ Min({d.done, d.plans}) \in Nat
    <2> SUFFICES ASSUME NEW d \in dirs
                 PROVE  d.plans \in Nat /\ d.done \in Nat /\ Min({d.done, d.plans}) \in Nat
        OBVIOUS
    <2>1. d.plans \in Nat /\ d.done \in Nat
        BY DEF Directories
    <2>2. {d.done, d.plans} \in SUBSET Nat /\ {d.done, d.plans} # {}
        BY <2>1
    <2>3. Min({d.done, d.plans}) \in Nat
        BY <2>2, LeastNumber
    <2> QED BY <2>1, <2>3
<1>2. Summed([d \in dirs |-> d.plans], dirs, PlansIn(dirs))
    <2> DEFINE f == [d \in dirs |-> d.plans]
               Iter(g) == [s \in SUBSET dirs |->
                             IF s = {} THEN 0
                             ELSE (CHOOSE x \in s : TRUE).plans + g[s \ {CHOOSE x \in s : TRUE}]]
               iter == CHOOSE g : g = Iter(g)
    <2>1. PlansIn(dirs) = iter[dirs]
        BY DEF PlansIn, MapThenSumSet, MapThenFoldSet
    <2>2. \A g, s : s \in SUBSET dirs => Iter(g)[s] = AddUp(f, s, g)
        BY ChosenElement DEF AddUp
    <2>3. f \in [dirs -> Nat]
        BY <1>1
    <2> HIDE DEF f
    <2>4. PICK g : Sums(f, dirs, g)
        BY <2>3, SumsExist
    <2>5. g = Iter(g)
        BY <2>2, <2>4 DEF Sums
    <2> HIDE DEF Iter
    <2>6. iter = Iter(iter)
        BY <2>5
    <2> HIDE DEF iter
    <2>7. \A s \in SUBSET dirs : iter[s] = AddUp(f, s, iter)
        BY <2>2, <2>6
    <2>8. iter[dirs] = g[dirs]
        BY <2>4, <2>7, SameRecursion
    <2> QED BY <2>1, <2>4, <2>8 DEF Summed, f
<1>3. Summed([d \in dirs |-> d.done], dirs, DoneIn(dirs))
    <2> DEFINE f == [d \in dirs |-> d.done]
               Iter(g) == [s \in SUBSET dirs |->
                             IF s = {} THEN 0
                             ELSE (CHOOSE x \in s : TRUE).done + g[s \ {CHOOSE x \in s : TRUE}]]
               iter == CHOOSE g : g = Iter(g)
    <2>1. DoneIn(dirs) = iter[dirs]
        BY DEF DoneIn, MapThenSumSet, MapThenFoldSet
    <2>2. \A g, s : s \in SUBSET dirs => Iter(g)[s] = AddUp(f, s, g)
        BY ChosenElement DEF AddUp
    <2>3. f \in [dirs -> Nat]
        BY <1>1
    <2> HIDE DEF f
    <2>4. PICK g : Sums(f, dirs, g)
        BY <2>3, SumsExist
    <2>5. g = Iter(g)
        BY <2>2, <2>4 DEF Sums
    <2> HIDE DEF Iter
    <2>6. iter = Iter(iter)
        BY <2>5
    <2> HIDE DEF iter
    <2>7. \A s \in SUBSET dirs : iter[s] = AddUp(f, s, iter)
        BY <2>2, <2>6
    <2>8. iter[dirs] = g[dirs]
        BY <2>4, <2>7, SameRecursion
    <2> QED BY <2>1, <2>4, <2>8 DEF Summed, f
<1>4. Summed([d \in dirs |-> Min({d.done, d.plans})], dirs,
             MapThenSumSet(LAMBDA d : Min({d.done, d.plans}), dirs))
    <2> DEFINE f == [d \in dirs |-> Min({d.done, d.plans})]
               Iter(g) == [s \in SUBSET dirs |->
                             IF s = {} THEN 0
                             ELSE Min({(CHOOSE x \in s : TRUE).done, (CHOOSE x \in s : TRUE).plans})
                                  + g[s \ {CHOOSE x \in s : TRUE}]]
               iter == CHOOSE g : g = Iter(g)
    <2>1. MapThenSumSet(LAMBDA d : Min({d.done, d.plans}), dirs) = iter[dirs]
        BY DEF MapThenSumSet, MapThenFoldSet
    <2>2. \A g, s : s \in SUBSET dirs => Iter(g)[s] = AddUp(f, s, g)
        BY ChosenElement DEF AddUp
    <2>3. f \in [dirs -> Nat]
        BY <1>1
    <2> HIDE DEF f
    <2>4. PICK g : Sums(f, dirs, g)
        BY <2>3, SumsExist
    <2>5. g = Iter(g)
        BY <2>2, <2>4 DEF Sums
    <2> HIDE DEF Iter
    <2>6. iter = Iter(iter)
        BY <2>5
    <2> HIDE DEF iter
    <2>7. \A s \in SUBSET dirs : iter[s] = AddUp(f, s, iter)
        BY <2>2, <2>6
    <2>8. iter[dirs] = g[dirs]
        BY <2>4, <2>7, SameRecursion
    <2> QED BY <2>1, <2>4, <2>8 DEF Summed, f
<1> QED BY <1>2, <1>3, <1>4

-----------------------------------------------------------------------------
(* Sections and directories of a number belong together. *)

Entitled(road, dirs) == \A s \in Range(road) : \A d \in dirs : d.id = s.id => d.name = s.name
\* A directory without a section holds no plans.
Planless(road, dirs) == \A d \in dirs : d.id \in RoadIds(road) \/ d.plans = 0

ViewPlace(v) ==
    tree[v].road # None =>
        OwnBoxes(tree[v].road) /\ Entitled(tree[v].road, tree[v].dirs) /\ Planless(tree[v].road, tree[v].dirs)
ViewDraft(p) ==
    Drafting(p) =>
        /\ Here(p).road # None /\ RoadIds(Here(p).road) \subseteq RoadIds(proc[p].road)
        /\ OwnBoxes(proc[p].road) /\ Entitled(proc[p].road, Here(p).dirs)
ViewInv == ~robbed /\ ~Ran(Moving) => (\A v \in Places : ViewPlace(v)) /\ \A p \in Procs : ViewDraft(p)

\* The directory and the section that are made have a number that neither had.
LEMMA ViewMade ==
    ASSUME TypeInv, NumbersInv, NEW p \in Procs, MakeDirectory(p), ~robbed, ~Ran(Moving),
           ViewDraft(p), \A v \in Places : ViewPlace(v)
    PROVE  ViewDraft(p)' /\ \A v \in Places : v = proc[p].at => ViewPlace(v)'
<1> DEFINE at == proc[p].at
           c == proc[p].cmd
           n == proc[p].num
           id == IF c.op = "insert" THEN <<c.base[1], n>> ELSE <<n, 0>>
           dep == IF c.op = "insert" THEN c.base ELSE <<n - 1, 0>>
           road == proc[p].road
           new == proc'[p].road
           listed == tree[at].road
           dirs == tree[at].dirs
<1>1. At(p, "make") /\ Drafting(p) /\ at \in Places /\ Here(p) = tree[at]
    BY Facts DEF MakeDirectory, Drafting, Here
<1>2. /\ n \in Nat /\ road \in Seq(Sections) /\ new \in Seq(Sections) /\ id \in Numbers
      /\ tree'[at].road = listed /\ proc'[p].at = at
      /\ \E name \in Titles : /\ Range(new) = Range(road) \cup {NewSection(id, name, dep)}
                              /\ tree'[at].dirs = dirs \cup {Directory(id, name)}
    BY <1>1, DraftMade
<1>3. PICK name \in Titles : /\ Range(new) = Range(road) \cup {NewSection(id, name, dep)}
                             /\ tree'[at].dirs = dirs \cup {Directory(id, name)}
    BY <1>2
<1>4. /\ listed # None /\ RoadIds(listed) \subseteq RoadIds(road) /\ OwnBoxes(road) /\ Entitled(road, dirs)
      /\ OwnBoxes(listed) /\ Entitled(listed, dirs) /\ Planless(listed, dirs)
    BY <1>1 DEF ViewDraft, ViewPlace
<1>5. id \notin RoadIds(road) \cup DirIds(dirs)
    <2>1. RoadIds(road) = Numbered(road)
        BY <1>2, RoadIdsOf
    <2>2. Above(c, n, RoadIds(road) \cup DirIds(dirs))
        BY <1>1, <2>1 DEF NumbersInv
    <2>3. CASE c.op = "insert"
        <3>1. id[1] = c.base[1] /\ id[2] = n /\ ~(n < n)
            BY <1>2, <2>3
        <3> HIDE DEF id
        <3> QED BY <2>2, <2>3, <3>1 DEF Above
    <2>4. CASE c.op # "insert"
        <3>1. id[1] = n /\ ~(n < n)
            BY <1>2, <2>4
        <3> HIDE DEF id
        <3> QED BY <2>2, <2>4, <3>1 DEF Above
    <2> QED BY <2>3, <2>4
<1> DEFINE s == NewSection(id, name, dep)
           d == Directory(id, name)
<1>6. s.id = id /\ s.name = name /\ d.id = id /\ d.name = name /\ d.plans = 0
    BY DEF NewSection, Directory
<1>7. Range(new) = Range(road) \cup {s} /\ tree'[at].dirs = dirs \cup {d}
    BY <1>3
<1>8. RoadIds(new) = RoadIds(road) \cup {id} /\ OwnBoxes(new)
    <2>1. Range(new) = Range(road) \cup {NewSection(id, name, dep)}
        BY <1>3
    <2> HIDE DEF id, dep, new, road
    <2>2. road \in Seq(Sections) /\ new \in Seq(Sections) /\ id \in Numbers
        BY <1>2
    <2>3. RoadIds(new) = RoadIds(road) \cup {id} /\ (OwnBoxes(road) => OwnBoxes(new))
        BY <2>1, <2>2, LongerFits
    <2> QED BY <1>4, <2>3
<1>9. listed \in Seq(Sections)
    BY <1>1, <1>4 DEF TypeInv, FilesOK, TreesOK, Trees, Roadmaps
<1> HIDE DEF s, d, id, dep, new, road, listed, dirs
<1>10. \A t \in Range(road) : t.id \in RoadIds(road)
    BY <1>2, RoadIdsOf
<1>11. \A t \in Range(listed) : t.id \in RoadIds(road)
    <2>1. \A t \in Range(listed) : t.id \in RoadIds(listed)
        BY <1>9, RoadIdsOf
    <2> QED BY <1>4, <2>1
<1>12. \A e \in dirs : e.id \in DirIds(dirs)
    BY DEF DirIds
<1>13. Entitled(new, dirs \cup {d})
    BY <1>4, <1>5, <1>6, <1>7, <1>10, <1>12 DEF Entitled
<1>14. Entitled(listed, dirs \cup {d}) /\ Planless(listed, dirs \cup {d})
    BY <1>4, <1>5, <1>6, <1>11 DEF Entitled, Planless
<1>15. ViewDraft(p)'
    <2>1. Here(p)' = tree'[at]
        BY <1>2 DEF Here
    <2> QED BY <1>2, <1>4, <1>7, <1>8, <1>13, <2>1 DEF ViewDraft, new
<1>16. \A v \in Places : v = at => ViewPlace(v)'
    BY <1>2, <1>4, <1>7, <1>14 DEF ViewPlace
<1> QED BY <1>15, <1>16

LEMMA ViewWritten ==
    ASSUME TypeInv, NEW p \in Procs, Writes(p), Op(p) # "remove", ViewDraft(p), \A v \in Places : ViewPlace(v)
    PROVE  \A v \in Places : v = proc[p].at => ViewPlace(v)'
<1> DEFINE at == proc[p].at
           road == proc[p].road
           new == Rewritten(p)
<1>1. Drafting(p) /\ at \in Places /\ Here(p) = tree[at]
    BY Facts DEF Writes, Drafting, Here
<1>2. /\ road \in Seq(Sections) /\ Edited(road, new) /\ tree'[at].road = new /\ tree'[at].dirs = tree[at].dirs
    BY <1>1, DraftWritten
<1>3. /\ tree[at].road # None /\ RoadIds(tree[at].road) \subseteq RoadIds(road)
      /\ OwnBoxes(road) /\ Entitled(road, tree[at].dirs) /\ Planless(tree[at].road, tree[at].dirs)
    BY <1>1 DEF ViewDraft, ViewPlace
<1> HIDE DEF new, road
<1>4. RoadIds(new) = RoadIds(road) /\ OwnBoxes(new)
    BY <1>2, <1>3, EditedFits
<1>5. \A t \in Range(new) : \E s \in Range(road) : SameSection(s, t)
    BY <1>2, EditedSections
<1>6. Entitled(new, tree[at].dirs) /\ Planless(new, tree[at].dirs)
    BY <1>3, <1>4, <1>5 DEF Entitled, Planless, SameSection
<1> QED BY <1>1, <1>2, <1>4, <1>6 DEF ViewPlace

LEMMA FewerNamed ==
    ASSUME NEW road, NEW dirs, NEW fewer \in SUBSET dirs
    PROVE  (Entitled(road, dirs) => Entitled(road, fewer)) /\ (Planless(road, dirs) => Planless(road, fewer))
    BY DEF Entitled, Planless

LEMMA ViewStep ==
    ASSUME TypeInv, TypeInv', Unbegun, NumbersInv, ViewInv, [WsNext]_wsvars, NEW p \in Procs, Advance(p),
           ~robbed', ~Ran(Moving)'
    PROVE  (\A v \in Places : ViewPlace(v)') /\ \A q \in Procs : ViewDraft(q)'
<1>1. ~robbed /\ ~Ran(Moving)
    BY RanStays, AdvanceOnward DEF Onward
<1>2. (\A v \in Places : ViewPlace(v)) /\ \A q \in Procs : ViewDraft(q)
    BY <1>1 DEF ViewInv
<1>3. Working(p) => Op(p) \notin Moving
    BY <1>1, RunsIts
<1> DEFINE at == proc[p].at
<1>4. \A q \in Procs : proc[q].at \in Places /\ Here(q) = tree[proc[q].at]
    BY Facts DEF Here
<1>5. Writes(p) => Drafting(p) /\ Op(p) # "remove"
    BY <1>3 DEF Writes, Drafting, At, Working, Moving
<1>6. MakeDirectory(p) => Drafting(p)
    BY DEF MakeDirectory, Drafting
<1>7. ASSUME NEW v \in Places
      PROVE  /\ ViewPlace(v)'
             /\ \/ Drafting(p) /\ v = at
                \/ tree'[v].road = tree[v].road /\ tree'[v].dirs \subseteq tree[v].dirs
    <2>1. \/ tree'[v].road = tree[v].road /\ tree'[v].dirs \subseteq tree[v].dirs
          \/ (MakeDirectory(p) \/ Writes(p)) /\ v = at
        BY <1>3, <1>7, PhaseFilesChange
    <2>2. CASE tree'[v].road = tree[v].road /\ tree'[v].dirs \subseteq tree[v].dirs
        BY <1>2, <2>2, FewerNamed DEF ViewPlace
    <2>3. CASE MakeDirectory(p) /\ v = at
        BY <1>1, <1>2, <1>6, <2>3, ViewMade
    <2>4. CASE Writes(p) /\ v = at
        BY <1>2, <1>5, <2>4, ViewWritten
    <2> QED BY <2>1, <2>2, <2>3, <2>4
<1>8. ASSUME NEW q \in Procs
      PROVE  ViewDraft(q)'
    <2>1. CASE q # p
        <3>1. proc'[q] = proc[q]
            BY <2>1, OthersStay DEF Advance, TypeInv
        <3> SUFFICES ASSUME Drafting(q)
                     PROVE  ViewDraft(q)'
            BY <3>1 DEF ViewDraft, Drafting, At
        <3>2. ~(Drafting(p) /\ proc[q].at = at)
            BY <1>1, <2>1, LockInvExcludes DEF TypeInv, LockExcludes, Drafting, Section, Held, At
        <3> DEFINE v == proc[q].at
        <3>3. tree'[v].road = tree[v].road /\ tree'[v].dirs \subseteq tree[v].dirs
            BY <1>4, <1>7, <3>2
        <3>4. Here(q) = tree[v] /\ Here(q)' = tree'[v]
            BY <3>1 DEF Here
        <3>5. /\ tree[v].road # None /\ RoadIds(tree[v].road) \subseteq RoadIds(proc[q].road)
              /\ OwnBoxes(proc[q].road) /\ Entitled(proc[q].road, tree[v].dirs)
            BY <1>2, <3>4 DEF ViewDraft
        <3>6. Entitled(proc[q].road, tree'[v].dirs)
            BY <3>3, <3>5, FewerNamed
        <3> HIDE DEF v
        <3> QED BY <3>1, <3>3, <3>4, <3>5, <3>6 DEF ViewDraft
    <2>2. CASE q = p
        <3>1. CASE MakeDirectory(p)
            BY <1>1, <1>2, <2>2, <3>1, ViewMade
        <3>2. CASE ~MakeDirectory(p)
            <4> SUFFICES ASSUME Drafting(p)'
                         PROVE  ViewDraft(p)'
                BY <2>2 DEF ViewDraft
            <4>1. /\ tree' = tree /\ proc'[p].at = at /\ proc'[p].road = tree[at].road /\ tree[at].road # None
                BY <1>1, <1>4, <3>2, DraftTurns
            <4>2. Here(p)' = tree[at]
                BY <4>1 DEF Here
            <4>3. OwnBoxes(tree[at].road) /\ Entitled(tree[at].road, tree[at].dirs)
                BY <1>2, <1>4, <4>1 DEF ViewPlace
            <4> HIDE DEF at
            <4> QED BY <4>1, <4>2, <4>3 DEF ViewDraft
        <3> QED BY <3>1, <3>2
    <2> QED BY <2>1, <2>2
<1> QED BY <1>7, <1>8

\* Work on a phase leaves its number, its name and the number of its plans.
LEMMA WorkCounts ==
    ASSUME TypeInv, NEW at \in Places, Work(at), NEW v \in Places
    PROVE  \A e \in tree'[v].dirs : \E d \in tree[v].dirs : e.id = d.id /\ e.name = d.name /\ e.plans = d.plans
<1>1. PICK d \in tree[at].dirs :
        tree' = [tree EXCEPT ![at].dirs = (tree[at].dirs \ {d}) \cup
                    {IF d.plans = 0 THEN [d EXCEPT !.notes = TRUE] ELSE [d EXCEPT !.done = @ + 1]}]
    BY DEF Work
<1> DEFINE after == IF d.plans = 0 THEN [d EXCEPT !.notes = TRUE] ELSE [d EXCEPT !.done = @ + 1]
           dirs == (tree[at].dirs \ {d}) \cup {after}
<1>2. d \in Directories
    BY DEF TypeInv, FilesOK, TreesOK, Trees
<1>3. after.id = d.id /\ after.name = d.name /\ after.plans = d.plans
    BY <1>2 DEF Directories
<1> HIDE DEF after
<1>4. \A e \in dirs : \E f \in tree[at].dirs : e.id = f.id /\ e.name = f.name /\ e.plans = f.plans
    BY <1>3
<1>5. tree' = [tree EXCEPT ![at].dirs = dirs]
    BY <1>1 DEF after
<1> HIDE DEF dirs
<1>6. tree'[at].dirs = dirs /\ \A w \in Places \ {at} : tree'[w].dirs = tree[w].dirs
    BY <1>5, OneFile
<1> QED BY <1>4, <1>6

LEMMA ViewInvKept ==
    TypeInv /\ Unbegun /\ NumbersInv /\ ViewInv /\ [WsNext]_wsvars => ViewInv'
<1> SUFFICES ASSUME TypeInv, Unbegun, NumbersInv, ViewInv, [WsNext]_wsvars
             PROVE  ViewInv'
    OBVIOUS
<1>1. TypeInv'
    BY TypeInvKept
<1>2. ASSUME NEW p \in Procs, Advance(p)
      PROVE  ViewInv'
    BY <1>1, <1>2, ViewStep DEF ViewInv
<1>3. CASE Surroundings \/ UNCHANGED wsvars
    <2>1. proc' = proc /\ robbed' = robbed /\ \A v \in Places : tree'[v].road = tree[v].road
        BY <1>3, RoundsLeave DEF RoadsStay
    <2>2. Ran(Moving)' = Ran(Moving)
        BY <2>1 DEF Ran, Op
    <2>3. ASSUME NEW v \in Places
          PROVE  \A e \in tree'[v].dirs : \E d \in tree[v].dirs : e.id = d.id /\ e.name = d.name /\ e.plans = d.plans
        <3>1. ASSUME NEW at \in Places, Age(at)
              PROVE  tree' = tree
            BY <3>1 DEF Age
        <3>2. CASE UNCHANGED wsvars
            BY <3>2 DEF wsvars, vars
        <3> QED BY <1>3, <2>3, <3>1, <3>2, WorkCounts DEF Surroundings
    <2>4. ASSUME NEW v \in Places, NEW road
          PROVE  /\ Entitled(road, tree[v].dirs) => Entitled(road, tree'[v].dirs)
                 /\ Planless(road, tree[v].dirs) => Planless(road, tree'[v].dirs)
        BY <2>3, <2>4 DEF Entitled, Planless
    <2>5. \A v \in Places : ViewPlace(v) => ViewPlace(v)'
        BY <2>1, <2>4 DEF ViewPlace
    <2>6. ASSUME NEW q \in Procs, ViewDraft(q)
          PROVE  ViewDraft(q)'
        <3> DEFINE v == proc[q].at
        <3>1. v \in Places /\ Here(q) = tree[v] /\ Here(q)' = tree'[v] /\ Drafting(q)' = Drafting(q)
            BY <2>1, Facts DEF Here, Drafting, At
        <3> QED BY <2>1, <2>4, <2>6, <3>1 DEF ViewDraft
    <2> QED BY <2>1, <2>2, <2>5, <2>6 DEF ViewInv
<1> QED BY <1>2, <1>3 DEF WsNext, PhaseNext, Rest, Advance

\* A project as the commands leave it, for the views: each number is given to one
\* section, with a checkbox of its own, and to at most one directory, of the same name;
\* a directory without a section has no plans.
Legible(t) ==
    /\ Single(t.dirs)
    /\ t.road # None =>
         Distinct(t.road) /\ OwnBoxes(t.road) /\ Entitled(t.road, t.dirs) /\ Planless(t.road, t.dirs)

LEMMA LegibleStarts ==
    ASSUME \A start \in Starts : Legible(start.tree), WsInit
    PROVE  NumbersInv /\ ViewInv
<1>1. \A q \in Procs : proc[q].pc \in {"idle", "killed"}
    BY DEF WsInit, Init, Idle
<1>2. PICK start \in Starts : tree = [at \in Places |-> IF at = start.at THEN start.tree ELSE NoTree]
    BY DEF WsInit, Init
<1>3. NoTree.road = None /\ Single(NoTree.dirs)
    BY DEF NoTree, Single
<1>4. Legible(start.tree)
    OBVIOUS
<1>5. \A at \in Places :
        /\ Single(tree[at].dirs)
        /\ tree[at].road # None => /\ Distinct(tree[at].road) /\ OwnBoxes(tree[at].road)
                                   /\ Entitled(tree[at].road, tree[at].dirs) /\ Planless(tree[at].road, tree[at].dirs)
    BY <1>2, <1>3, <1>4 DEF Legible
<1> QED BY <1>1, <1>5 DEF NumbersInv, ViewInv, ViewPlace, ViewDraft, Drafting, At

LEMMA DirectoryFound ==
    ASSUME NEW dirs \in SUBSET Directories, NEW id
    PROVE  /\ id \in DirIds(dirs) => DirOf(dirs, id) \in dirs /\ DirOf(dirs, id).id = id /\ DirOf(dirs, id) # None
           /\ id \notin DirIds(dirs) => DirOf(dirs, id) = None
<1>1. CASE id \in DirIds(dirs)
    <2>1. \E d \in dirs : d.id = id
        BY <1>1 DEF DirIds
    <2>2. DirOf(dirs, id) = CHOOSE d \in dirs : d.id = id
        BY <2>1 DEF DirOf
    <2>3. DirOf(dirs, id) \in dirs /\ DirOf(dirs, id).id = id
        BY <2>1, <2>2
    <2> QED BY <1>1, <2>3, FilesAssumption
<1>2. CASE id \notin DirIds(dirs)
    BY <1>2 DEF DirIds, DirOf
<1> QED BY <1>1, <1>2

\* What the commands answer on a phase of the roadmap.
LEMMA Answers ==
    ASSUME NEW at \in Places, NEW id, Listed(at, id), tree[at].dirs \subseteq Directories
    PROVE  LET d == DirOf(tree[at].dirs, id)
               x == IF id \in DirIds(tree[at].dirs) THEN Inventory(d) ELSE Undrawn
           IN  /\ ForExecution(at, id) = {[dir |-> x.dir, plans |-> x.plans, open |-> x.open, reqs |-> Wanted(at, id)]}
               /\ {a.dir : a \in ForPlanning(at, id)} = {x.dir}
               /\ {a.dir : a \in ForVerification(at, id)} = {x.dir}
               /\ {a.dir : a \in ForDiscussion(at, id)} = {x.dir}
<1> DEFINE d == DirOf(tree[at].dirs, id)
           x == IF id \in DirIds(tree[at].dirs) THEN Inventory(d) ELSE Undrawn
<1>1. Located(at, id) = {x}
    BY DEF Located, Findable
<1> HIDE DEF x
<1>2. ForExecution(at, id) = {[dir |-> x.dir, plans |-> x.plans, open |-> x.open, reqs |-> Wanted(at, id)]}
    BY <1>1 DEF ForExecution
<1>3. {a.dir : a \in ForPlanning(at, id)} = {x.dir}
    <2>1. ForPlanning(at, id) = {[dir |-> x.dir, plans |-> x.plans, notes |-> x.notes, reqs |-> Wanted(at, id)]}
        BY <1>1 DEF ForPlanning
    <2> QED BY <2>1
<1>4. {a.dir : a \in ForVerification(at, id)} = {x.dir}
    <2>1. ForVerification(at, id) = {[dir |-> x.dir]}
        BY <1>1 DEF ForVerification
    <2> QED BY <2>1
<1>5. {a.dir : a \in ForDiscussion(at, id)} = {x.dir}
    <2>1. ForDiscussion(at, id) = {[dir |-> x.dir, plans |-> x.plans, notes |-> x.notes]}
        BY <1>1 DEF ForDiscussion
    <2> QED BY <2>1
<1> QED BY <1>2, <1>3, <1>4, <1>5 DEF x

LEMMA OwnPhase ==
    ASSUME TypeInv, NEW at \in Places, tree[at].road # None, Entitled(tree[at].road, tree[at].dirs),
           NEW i \in DOMAIN tree[at].road
    PROVE  LET id == tree[at].road[i].id
               started == ForExecution(at, id)
               Dirs(answers) == {a.dir : a \in answers}
           IN  /\ Dirs(ForPlanning(at, id)) = Dirs(started)
               /\ Dirs(ForVerification(at, id)) = Dirs(started)
               /\ Dirs(ForDiscussion(at, id)) = Dirs(started)
               /\ Cardinality(started) = 1
               /\ \A x \in started : OfferedDecimal(at, id).found <=> x.dir # None
               /\ \A x \in started :
                    \/ x.dir = None /\ x.plans = 0 /\ PlanIndex(at, id) = {}
                    \/ /\ x.dir \in tree[at].dirs /\ x.dir.name = tree[at].road[i].name
                       /\ PlanIndex(at, id) = {[plans |-> x.plans, open |-> x.open]}
                       /\ FindPhase(at, id) = {x.dir}
                       /\ Completeness(at, id) = {[dir |-> x.dir, complete |-> x.open = 0]}
<1> DEFINE road == tree[at].road
           dirs == tree[at].dirs
           id == road[i].id
           d == DirOf(dirs, id)
           y == IF id \in DirIds(dirs) THEN Inventory(d) ELSE Undrawn
           started == ForExecution(at, id)
           only == [dir |-> y.dir, plans |-> y.plans, open |-> y.open, reqs |-> Wanted(at, id)]
<1>1. road \in Seq(Sections) /\ dirs \subseteq Directories
    BY DEF TypeInv, FilesOK, TreesOK, Trees, Roadmaps
<1>2. Listed(at, id)
    <2>1. SectionOf(road, id) # 0
        BY <1>1, SectionFound
    <2> QED BY <2>1 DEF Listed
<1>3. /\ started = {only}
      /\ {a.dir : a \in ForPlanning(at, id)} = {y.dir} /\ {a.dir : a \in ForVerification(at, id)} = {y.dir}
      /\ {a.dir : a \in ForDiscussion(at, id)} = {y.dir}
    BY <1>1, <1>2, Answers
<1>4. /\ id \in DirIds(dirs) => d \in dirs /\ d.id = id /\ d # None
      /\ id \notin DirIds(dirs) => d = None
    BY <1>1, DirectoryFound
<1>5. id \in DirIds(dirs) => d.name = road[i].name
    <2>1. road[i] \in Range(road)
        BY DEF Range
    <2> QED BY <1>4, <2>1 DEF Entitled
<1>6. OfferedDecimal(at, id).found <=> id \in DirIds(dirs)
    BY DEF OfferedDecimal
<1>7. PlanIndex(at, id) = {[plans |-> e.plans, open |-> Open(e)] : e \in {d} \ {None}}
    BY DEF PlanIndex
<1>8. id \in DirIds(dirs) => Findable(at, id) = {d}
    BY DEF Findable
<1>9. id \in DirIds(dirs) => FindPhase(at, id) = {d}
    BY <1>8 DEF FindPhase
<1>10. id \in DirIds(dirs) => Completeness(at, id) = {[dir |-> d, complete |-> Open(d) = 0]}
    BY <1>8 DEF Completeness
<1>11. /\ only.dir = y.dir /\ only.plans = y.plans /\ only.open = y.open
       /\ id \in DirIds(dirs) => y.dir = d /\ y.plans = d.plans /\ y.open = Open(d)
       /\ id \notin DirIds(dirs) => y.dir = None /\ y.plans = 0
    BY DEF Inventory, Undrawn
<1> HIDE DEF only, started, y, d, id, road, dirs
<1>12. {a.dir : a \in started} = {y.dir} /\ Cardinality(started) = 1
    <2>1. Cardinality({only}) = 1
        BY FS_Singleton
    <2> QED BY <1>3, <1>11, <2>1
<1>13. OfferedDecimal(at, id).found <=> only.dir # None
    BY <1>4, <1>6, <1>11
<1>14. CASE id \in DirIds(dirs)
    <2>1. {d} \ {None} = {d}
        BY <1>4, <1>14
    <2>2. PlanIndex(at, id) = {[plans |-> only.plans, open |-> only.open]}
        BY <1>7, <1>11, <1>14, <2>1
    <2>3. Completeness(at, id) = {[dir |-> only.dir, complete |-> only.open = 0]}
        BY <1>10, <1>11, <1>14
    <2>4. /\ only.dir \in dirs /\ only.dir.name = road[i].name /\ FindPhase(at, id) = {only.dir}
        BY <1>4, <1>5, <1>9, <1>11, <1>14
    <2> QED BY <1>3, <1>12, <1>13, <2>2, <2>3, <2>4 DEF id, road, dirs, started
<1>15. CASE id \notin DirIds(dirs)
    <2>1. {d} \ {None} = {}
        BY <1>4, <1>15
    <2>2. PlanIndex(at, id) = {}
        BY <1>7, <2>1
    <2>3. only.dir = None /\ only.plans = 0
        BY <1>11, <1>15
    <2> QED BY <1>3, <1>12, <1>13, <2>2, <2>3 DEF id, road, dirs, started
<1> QED BY <1>14, <1>15

\* The commands that start work on a phase of the roadmap hand out one and the same
\* directory, that of this planning directory with the name of the section, or none when
\* it has none, and all commands count the same open plans in it: whatever phases are
\* added, inserted, completed, cleared and archived at once, whatever agents do in the
\* directories, and whoever is killed (init.cjs; core.cjs, findPhaseInternal).
THEOREM WorkStartsInPlace ==
    ASSUME \A start \in Starts : Legible(start.tree)
    PROVE  WsSpec => [](~Ran({"ws-create", "ws-complete"}) => WorkStartsOnOwnPhase)
<1>1. WsInit => TypeInv /\ Unbegun /\ NumbersInv /\ ViewInv
    BY TypeInvInit, UnbegunInit, LegibleStarts
<1>2. TypeInv /\ Unbegun /\ NumbersInv /\ ViewInv /\ [WsNext]_wsvars => (TypeInv /\ Unbegun /\ NumbersInv /\ ViewInv)'
    BY TypeInvKept, UnbegunKept, NumbersInvKept, ViewInvKept
<1>3. TypeInv /\ ViewInv => (~Ran({"ws-create", "ws-complete"}) => WorkStartsOnOwnPhase)
    <2> SUFFICES ASSUME TypeInv, ViewInv, ~Ran({"ws-create", "ws-complete"}), ~robbed, ~Ran({"remove"})
                 PROVE  WorkStartsOnOwnPhase
        BY DEF WorkStartsOnOwnPhase
    <2>1. ~Ran(Moving)
        BY DEF Ran, Moving
    <2>2. \A at \in Places : tree[at].road # None => Entitled(tree[at].road, tree[at].dirs)
        BY <2>1 DEF ViewInv, ViewPlace
    <2> QED BY <2>2, OwnPhase DEF WorkStartsOnOwnPhase
<1> QED BY <1>1, <1>2, <1>3, PTL DEF WsSpec

-----------------------------------------------------------------------------
(* The views agree. *)

LEMMA OneBox ==
    ASSUME NEW road \in Seq(Sections), Distinct(road), OwnBoxes(road), NEW i \in DOMAIN road
    PROVE  /\ FirstBoxTicked(road, road[i].id) <=> road[i].ticked
           /\ LastBoxTicked(road, road[i].id) <=> road[i].ticked
<1> DEFINE id == road[i].id
           boxes == BoxesNaming(road, id)
<1>1. DOMAIN road = 1..Len(road) /\ Len(road) \in Nat /\ \A k \in DOMAIN road : road[k].box = road[k].id
    BY DEF OwnBoxes, Range
<1>2. boxes = {i}
    BY <1>1 DEF BoxesNaming, Distinct
<1>3. Min({i}) = i /\ Max({i}) = i
    <2>a. i \in Nat
        BY <1>1
    <2>b. {i} \in SUBSET Nat /\ {i} # {}
        BY ONLY <2>a
    <2>c. IsFiniteSet({i})
        BY FS_Singleton
    <2>1. {i} \in SUBSET Nat /\ {i} # {} /\ IsFiniteSet({i})
        BY ONLY <2>b, <2>c
    <2>2. Min({i}) \in {i}
        BY <2>1, LeastNumber
    <2>3. Max({i}) \in {i}
        BY <2>1, GreatestNumber
    <2> QED BY <2>2, <2>3
<1>4. FirstOf(road, {i}) = i
    <2>1. {j \in {i} : road[j].listed} \in {{}, {i}}
        OBVIOUS
    <2> QED BY <1>3, <2>1 DEF FirstOf
<1>5. LastOf(road, {i}) = i
    <2>1. {j \in {i} : ~road[j].listed} \in {{}, {i}}
        OBVIOUS
    <2> QED BY <1>3, <2>1 DEF LastOf
<1> QED BY <1>2, <1>4, <1>5 DEF FirstBoxTicked, LastBoxTicked

\* The status of a phase by the one directory that it has.
LEMMA DiskComplete ==
    ASSUME NEW dirs \in SUBSET Directories, Single(dirs), NEW d \in dirs, Executed(d)
    PROVE  DiskStatus(dirs, d.id) = "complete"
<1>1. d.id \in DirIds(dirs)
    BY DEF DirIds
<1>2. DirOf(dirs, d.id) = d /\ d # None
    BY <1>1, DirectoryFound DEF Single
<1>3. d.done >= d.plans /\ d.plans > 0
    BY DEF Executed
<1> DEFINE x == DirOf(dirs, d.id)
<1> HIDE DEF x
<1>4. DiskStatus(dirs, d.id) =
        CASE x = None -> "no_directory"
          [] x # None /\ x.done >= x.plans /\ x.plans > 0 -> "complete"
          [] x # None /\ x.done > 0 /\ (x.done < x.plans \/ x.plans = 0) -> "partial"
          [] x # None /\ x.done = 0 /\ x.plans > 0 -> "planned"
          [] x # None /\ x.done = 0 /\ x.plans = 0 /\ x.notes -> "discussed"
          [] OTHER -> "empty"
    BY DEF DiskStatus, x
<1>5. x = d /\ x # None
    BY <1>2 DEF x
<1>6. d.plans \in Nat /\ d.done \in Nat
    BY DEF Directories
<1> QED BY ONLY <1>3, <1>4, <1>5, <1>6

LEMMA OnlyVerifiedComplete ==
    ASSUME NEW d \in Directories, NEW verified, StatusOf(d, verified, "Not Started") = "Complete"
    PROVE  Executed(d)
<1>1. d.plans \in Nat /\ d.done \in Nat
    BY DEF Directories
<1>2. CASE d.plans = 0
    BY <1>1, <1>2 DEF StatusOf
<1>3. CASE d.plans > 0 /\ d.done < d.plans /\ d.done > 0
    BY <1>1, <1>3 DEF StatusOf
<1>4. CASE d.plans > 0 /\ d.done < d.plans /\ d.done = 0
    BY <1>1, <1>4 DEF StatusOf
<1>5. CASE d.plans > 0 /\ d.done >= d.plans
    BY <1>5 DEF Executed
<1>6. \/ d.plans = 0
      \/ d.plans > 0 /\ d.done < d.plans /\ d.done > 0
      \/ d.plans > 0 /\ d.done < d.plans /\ d.done = 0
      \/ d.plans > 0 /\ d.done >= d.plans
    BY ONLY <1>1
<1> QED BY <1>2, <1>3, <1>4, <1>5, <1>6

\* What a place in order looks like.
Orderly(v) ==
    /\ tree[v].road \in Seq(Sections) /\ tree[v].dirs \subseteq Directories /\ Sound(tree[v].dirs)
    /\ Distinct(tree[v].road) /\ OwnBoxes(tree[v].road)
    /\ Single(tree[v].dirs) /\ Planless(tree[v].road, tree[v].dirs)

LEMMA ViewsOfStatus ==
    ASSUME NEW at \in Places, Orderly(at), NEW verified
    PROVE  StatusesAgree(at, verified)
<1> DEFINE t == tree[at]
           road == t.road
           dirs == t.dirs
           complete == ProgressComplete(t) \cup Stats(at, verified).complete
           listed == WorkstreamStatus(at)
<1>1. /\ road \in Seq(Sections) /\ dirs \subseteq Directories /\ Sound(dirs)
      /\ Distinct(road) /\ OwnBoxes(road) /\ Single(dirs)
    BY DEF Orderly
<1>2. SUFFICES ASSUME NEW i \in DOMAIN road
               PROVE  LET analyzed == Analyzed(t, i)
                          d == DirOf(dirs, road[i].id)
                      IN  /\ analyzed = Managed(t, i)
                          /\ road[i].id \in complete => analyzed = "complete"
                          /\ d # None /\ listed[d] = "complete" => analyzed = "complete"
    BY DEF StatusesAgree
<1> DEFINE id == road[i].id
           analyzed == Analyzed(t, i)
           d == DirOf(dirs, id)
<1>3. /\ FirstBoxTicked(road, id) <=> road[i].ticked
      /\ LastBoxTicked(road, id) <=> road[i].ticked
    BY <1>1, OneBox
<1>4. analyzed = IF road[i].ticked THEN "complete" ELSE DiskStatus(dirs, id)
    BY <1>3 DEF Analyzed
<1>5. Managed(t, i) = IF road[i].ticked THEN "complete" ELSE DiskStatus(dirs, id)
    BY <1>3 DEF Managed
<1>6. ASSUME NEW e \in dirs, Executed(e), e.id = id
      PROVE  analyzed = "complete"
    BY <1>1, <1>4, <1>6, DiskComplete
<1>7. ASSUME id \in ProgressComplete(t)
      PROVE  analyzed = "complete"
    <2>1. CASE \E e \in dirs : e.id = id /\ e.done >= e.plans /\ e.plans > 0
        BY <1>6, <2>1 DEF Executed
    <2>2. CASE LastBoxTicked(road, id)
        BY <1>3, <1>4, <2>2
    <2> QED BY <1>7, <2>1, <2>2 DEF ProgressComplete
<1>8. ASSUME id \in Stats(at, verified).complete
      PROVE  analyzed = "complete"
    <2>1. PICK e \in dirs : e.id = id /\ StatusOf(e, verified, "Not Started") = "Complete"
        BY <1>8 DEF Stats
    <2> QED BY <1>1, <1>6, <2>1, OnlyVerifiedComplete
<1>9. ASSUME d # None, listed[d] = "complete"
      PROVE  analyzed = "complete"
    <2>1. d \in dirs /\ d.id = id
        BY <1>1, <1>9, DirectoryFound
    <2>2. listed[d] = IF Executed(d) THEN "complete" ELSE IF d.plans > 0 THEN "in_progress" ELSE "pending"
        BY <2>1 DEF WorkstreamStatus
    <2>3. Executed(d)
        <3> HIDE DEF d, listed
        <3> QED BY <1>9, <2>2
    <2> QED BY <1>6, <2>1, <2>3
<1> HIDE DEF analyzed, listed, d, complete
<1>10. id \in complete => analyzed = "complete"
    BY <1>7, <1>8 DEF complete
<1> QED BY <1>4, <1>5, <1>9, <1>10 DEF analyzed, d

-----------------------------------------------------------------------------
(* The counts agree. *)

Milestone(at) == {d \in tree[at].dirs : InMilestone(RoadIds(tree[at].road), d)}

\* A directory outside the milestone holds no plans.
LEMMA OutsideNothing ==
    ASSUME NEW at \in Places, Orderly(at), NEW d \in tree[at].dirs \ Milestone(at)
    PROVE  d.plans = 0 /\ d.done = 0
<1>1. d.id \notin RoadIds(tree[at].road)
    BY DEF Milestone, InMilestone
<1>2. d.plans = 0 /\ d.done <= d.plans /\ d.done \in Nat
    BY <1>1 DEF Orderly, Planless, Sound, Directories
<1> QED BY <1>2

LEMMA SameCounts ==
    ASSUME NEW at \in Places, Orderly(at)
    PROVE  /\ PlansIn(tree[at].dirs) = PlansIn(Milestone(at))
           /\ DoneIn(tree[at].dirs) = DoneIn(Milestone(at))
           /\ MapThenSumSet(LAMBDA d : Min({d.done, d.plans}), tree[at].dirs) = DoneIn(Milestone(at))
<1> DEFINE dirs == tree[at].dirs
           some == Milestone(at)
           capped == MapThenSumSet(LAMBDA d : Min({d.done, d.plans}), dirs)
<1>1. /\ dirs \in SUBSET Directories /\ some \in SUBSET Directories /\ some \in SUBSET dirs
      /\ IsFiniteSet(dirs) /\ IsFiniteSet(some)
    <2>1. dirs \in SUBSET Directories /\ IsFiniteSet(dirs) /\ some \in SUBSET dirs
        BY DEF Orderly, Sound, Milestone
    <2> HIDE DEF dirs, some
    <2>2. IsFiniteSet(some)
        BY <2>1, FS_Subset
    <2> QED BY <2>1, <2>2
<1>2. \A d \in dirs : d.plans \in Nat /\ d.done \in Nat /\ Min({d.done, d.plans}) = d.done
    <2> SUFFICES ASSUME NEW d \in dirs
                 PROVE  d.plans \in Nat /\ d.done \in Nat /\ Min({d.done, d.plans}) = d.done
        OBVIOUS
    <2>1. d.plans \in Nat /\ d.done \in Nat /\ d.done <= d.plans
        BY <1>1 DEF Orderly, Sound, Directories
    <2> DEFINE S == {d.done, d.plans}
    <2>2. S \in SUBSET Nat /\ S # {} /\ d.done \in S /\ \A n \in S : d.done <= n
        BY <2>1
    <2>3. Min(S) \in S /\ \A n \in S : Min(S) <= n
        <3> HIDE DEF S
        <3> QED BY <2>2, LeastNumber
    <2>4. Min(S) <= d.done /\ d.done <= Min(S) /\ Min(S) \in Nat
        BY <2>2, <2>3
    <2>5. Min(S) = d.done
        BY ONLY <2>1, <2>4
    <2> QED BY <2>1, <2>5
<1>3. \A d \in dirs \ some : d.plans = 0 /\ d.done = 0
    BY OutsideNothing
<1>4. /\ Summed([d \in dirs |-> d.plans], dirs, PlansIn(dirs))
      /\ Summed([d \in dirs |-> d.done], dirs, DoneIn(dirs))
      /\ Summed([d \in dirs |-> Min({d.done, d.plans})], dirs, capped)
    BY <1>1, ViewSums
<1>5. /\ Summed([d \in some |-> d.plans], some, PlansIn(some))
      /\ Summed([d \in some |-> d.done], some, DoneIn(some))
    BY <1>1, ViewSums
<1>6. [d \in dirs |-> Min({d.done, d.plans})] = [d \in dirs |-> d.done]
    BY <1>2
<1> HIDE DEF dirs, some, capped
<1>7. PlansIn(dirs) = PlansIn(some)
    <2> DEFINE f == [d \in dirs |-> d.plans]
               e == [d \in some |-> d.plans]
    <2>1. f \in [dirs -> Nat] /\ e \in [some -> Nat] /\ \A d \in some : e[d] = f[d]
        BY <1>1, <1>2
    <2>2. \A d \in dirs \ some : f[d] = 0
        BY <1>3
    <2>3. Summed(f, dirs, PlansIn(dirs)) /\ Summed(e, some, PlansIn(some))
        BY <1>4, <1>5
    <2> HIDE DEF f, e
    <2> QED BY <1>1, <2>1, <2>2, <2>3, SameSum
<1>8. ASSUME NEW n, Summed([d \in dirs |-> d.done], dirs, n)
      PROVE  n = DoneIn(some)
    <2> DEFINE f == [d \in dirs |-> d.done]
               e == [d \in some |-> d.done]
    <2>1. f \in [dirs -> Nat] /\ e \in [some -> Nat] /\ \A d \in some : e[d] = f[d]
        BY <1>1, <1>2
    <2>2. \A d \in dirs \ some : f[d] = 0
        BY <1>3
    <2>3. Summed(f, dirs, n) /\ Summed(e, some, DoneIn(some))
        BY <1>5, <1>8
    <2> HIDE DEF f, e
    <2> QED BY <1>1, <2>1, <2>2, <2>3, SameSum
<1>9. capped = DoneIn(some)
    BY <1>4, <1>6, <1>8
<1> QED BY <1>4, <1>7, <1>8, <1>9 DEF dirs, some, capped

\* What is executed, what is verified, what has begun.
LEMMA VerifiedExecuted ==
    ASSUME NEW at \in Places, Orderly(at), NEW verified
    PROVE  /\ IsFiniteSet(Stats(at, verified).complete)
           /\ Cardinality(Stats(at, verified).complete) \in Nat
           /\ Cardinality(Stats(at, verified).complete) <= Cardinality({d \in tree[at].dirs : Executed(d)})
<1> DEFINE done == {d \in tree[at].dirs : Executed(d)}
           those == {e \in Milestone(at) : StatusOf(e, verified, "Not Started") = "Complete"}
           ids == {d.id : d \in those}
           f == [d \in those |-> d.id]
<1>1. Stats(at, verified).complete = ids
    BY DEF Stats, Milestone
<1>2. those \in SUBSET done
    <2> SUFFICES ASSUME NEW e \in those
                 PROVE  e \in done
        OBVIOUS
    <2>1. e \in tree[at].dirs /\ e \in Directories
        BY DEF Milestone, Orderly
    <2> QED BY <2>1, OnlyVerifiedComplete
<1>3. IsFiniteSet(done)
    <2>1. IsFiniteSet(tree[at].dirs) /\ done \in SUBSET tree[at].dirs
        BY DEF Orderly, Sound
    <2> HIDE DEF done
    <2> QED BY <2>1, FS_Subset
<1>4. f \in Surjection(those, ids)
    <2> HIDE DEF those
    <2> QED BY DEF Surjection
<1> HIDE DEF done, those, ids, f
<1>5. IsFiniteSet(those) /\ Cardinality(those) <= Cardinality(done)
    BY <1>2, <1>3, FS_Subset
<1>6. IsFiniteSet(ids) /\ Cardinality(ids) <= Cardinality(those)
    BY <1>4, <1>5, FS_Surjection
<1>7. Cardinality(done) \in Nat /\ Cardinality(those) \in Nat /\ Cardinality(ids) \in Nat
    BY <1>3, <1>5, <1>6, FS_CardinalityType
<1>8. Cardinality(ids) <= Cardinality(done)
    BY ONLY <1>5, <1>6, <1>7
<1> QED BY <1>1, <1>6, <1>7, <1>8 DEF done

\* The sections whose phase has begun.
UnderWay(at) ==
    {i \in DOMAIN tree[at].road : tree[at].road[i].id \in {d.id : d \in {e \in tree[at].dirs : e.done > 0}}}

LEMMA BegunSections ==
    ASSUME NEW at \in Places, Orderly(at)
    PROVE  /\ IsFiniteSet(UnderWay(at)) /\ Cardinality(UnderWay(at)) \in Nat /\ Len(tree[at].road) \in Nat
           /\ Cardinality(UnderWay(at)) <= Len(tree[at].road)
           /\ Cardinality(UnderWay(at)) = Len(tree[at].road) => UnderWay(at) = DOMAIN tree[at].road
<1> DEFINE n == Len(tree[at].road)
<1>1. n \in Nat /\ DOMAIN tree[at].road = 1..n /\ UnderWay(at) \in SUBSET (1..n)
    BY DEF Orderly, UnderWay
<1>2. IsFiniteSet(1..n) /\ Cardinality(1..n) = n
    <2>1. n \in Nat
        BY <1>1
    <2> HIDE DEF n
    <2>2. IsFiniteSet(1..n) /\ Cardinality(1..n) = IF 1 > n THEN 0 ELSE n - 1 + 1
        BY <2>1, FS_Interval
    <2> QED BY ONLY <2>1, <2>2
<1> HIDE DEF n
<1>3. /\ IsFiniteSet(UnderWay(at)) /\ Cardinality(UnderWay(at)) <= n
      /\ Cardinality(1..n) = Cardinality(UnderWay(at)) => 1..n = UnderWay(at)
    BY <1>1, <1>2, FS_Subset
<1>4. Cardinality(UnderWay(at)) \in Nat
    BY <1>3, FS_CardinalityType
<1> QED BY <1>1, <1>2, <1>3, <1>4 DEF n

LEMMA ExecutedBegun ==
    ASSUME NEW at \in Places, Orderly(at)
    PROVE  LET executed == {d \in tree[at].dirs : Executed(d)}
           IN  /\ IsFiniteSet(executed) /\ Cardinality(executed) \in Nat
               /\ Cardinality(executed) <= Cardinality(tree[at].dirs)
               /\ Cardinality(executed) <= Cardinality({d \in tree[at].dirs : d.done > 0})
               /\ Cardinality(executed) <= Cardinality(UnderWay(at))
<1> DEFINE dirs == tree[at].dirs
           road == tree[at].road
           executed == {d \in dirs : Executed(d)}
           started == {d \in dirs : d.done > 0}
<1>1. IsFiniteSet(dirs) /\ executed \in SUBSET dirs /\ started \in SUBSET dirs
    BY DEF Orderly, Sound
<1>2. \A d \in executed : d \in dirs /\ d.done > 0 /\ d.plans > 0
    <2> SUFFICES ASSUME NEW d \in executed
                 PROVE  d \in dirs /\ d.done > 0 /\ d.plans > 0
        OBVIOUS
    <2>1. d.plans > 0 /\ d.done >= d.plans /\ d.plans \in Nat /\ d.done \in Nat
        BY DEF Executed, Orderly, Directories
    <2> QED BY <2>1
<1>3. executed \in SUBSET started
    BY <1>2
<1>4. Single(dirs) /\ Planless(road, dirs) /\ road \in Seq(Sections)
    BY DEF Orderly
<1>5. \A d \in executed : \E i \in UnderWay(at) : road[i].id = d.id
    <2> SUFFICES ASSUME NEW d \in executed
                 PROVE  \E i \in UnderWay(at) : road[i].id = d.id
        OBVIOUS
    <2>1. d.id \in RoadIds(road)
        <3>1. d.plans # 0 /\ d \in dirs
            <4>1. d.plans > 0 /\ d \in dirs
                BY <1>2
            <4> HIDE DEF executed, dirs
            <4> QED BY <4>1
        <3> HIDE DEF executed, dirs
        <3> QED BY <1>4, <3>1 DEF Planless
    <2>2. PICK i \in DOMAIN road : road[i].id = d.id
        BY <1>4, <2>1, RoadIdsOf DEF Numbered
    <2>3. i \in UnderWay(at)
        BY <1>2, <2>2 DEF UnderWay
    <2> QED BY <2>2, <2>3
<1> DEFINE f == [d \in executed |-> CHOOSE i \in UnderWay(at) : road[i].id = d.id]
<1> HIDE DEF executed, started
<1>6. \A d \in executed : f[d] \in UnderWay(at) /\ road[f[d]].id = d.id
    BY <1>5
<1>7. f \in Injection(executed, UnderWay(at))
    <2>1. f \in [executed -> UnderWay(at)]
        BY <1>6
    <2>2. \A d, e \in executed : f[d] = f[e] => d = e
        <3> HIDE DEF f
        <3>1. \A d, e \in executed : f[d] = f[e] => d.id = e.id
            BY <1>6
        <3> QED BY <1>2, <1>4, <3>1 DEF Single
    <2>3. DOMAIN f = executed
        OBVIOUS
    <2> HIDE DEF f
    <2> QED BY <2>1, <2>2, <2>3 DEF Injection, IsInjective
<1>8. Cardinality(executed) <= Cardinality(UnderWay(at))
    <2> HIDE DEF f
    <2> QED BY <1>7, BegunSections, FS_Injection
<1> HIDE DEF dirs
<1>9. IsFiniteSet(executed) /\ Cardinality(executed) <= Cardinality(dirs) /\ Cardinality(executed) \in Nat
    BY <1>1, FS_Subset, FS_CardinalityType
<1>10. Cardinality(executed) <= Cardinality(started)
    <2>1. IsFiniteSet(started)
        BY <1>1, FS_Subset
    <2> QED BY <1>3, <2>1, FS_Subset
<1> QED BY <1>8, <1>9, <1>10 DEF executed, started, dirs

LEMMA QuotientBelow ==
    ASSUME NEW a \in Nat, NEW b \in Nat, b > 0
    PROVE  a \div b \in Int /\ b * (a \div b) <= a
    OBVIOUS

LEMMA AtMostHundred ==
    ASSUME NEW part \in Nat, NEW whole \in Nat, part <= whole, whole # 0
    PROVE  Percentage(part, whole) <= 100
<1> DEFINE q == Percentage(part, whole)
<1>1. q = (200 * part + whole) \div (2 * whole)
    BY DEF Percentage
<1> HIDE DEF q
<1>2. 200 * part + whole \in Nat /\ 2 * whole \in Nat /\ 2 * whole > 0
    OBVIOUS
<1>3. q \in Int /\ (2 * whole) * q <= 200 * part + whole
    <2> DEFINE a == 200 * part + whole
               b == 2 * whole
    <2>1. a \in Nat /\ b \in Nat /\ b > 0 /\ q = a \div b
        BY <1>1, <1>2
    <2> HIDE DEF a, b
    <2>2. a \div b \in Int /\ b * (a \div b) <= a
        BY ONLY <2>1, QuotientBelow
    <2>3. q \in Int /\ b * q <= a
        BY <2>1, <2>2
    <2> QED BY <2>3 DEF a, b
<1>4. 200 * part + whole <= 200 * whole + whole
    OBVIOUS
<1>5. (2 * whole) * 101 = 202 * whole
    OBVIOUS
<1>6. ASSUME q >= 101
      PROVE  FALSE
    <2>1. (2 * whole) * 101 <= (2 * whole) * q
        BY <1>2, <1>3, <1>6
    <2> DEFINE big == (2 * whole) * q
    <2>2. big \in Int
        BY <1>3
    <2> HIDE DEF big
    <2>3. big \in Int /\ 202 * whole <= big /\ big <= 201 * whole
        BY <1>3, <1>4, <1>5, <2>1, <2>2 DEF big
    <2> QED BY ONLY <2>3, whole \in Nat, whole # 0
<1>7. q <= 100
    BY <1>3, <1>6
<1> QED BY <1>7 DEF q

LEMMA CountsInOrder ==
    ASSUME NEW at \in Places, Orderly(at), tree[at].road # None, NEW verified
    PROVE  CountsAgree(at, verified)
<1> DEFINE road == tree[at].road
           dirs == tree[at].dirs
           ids == RoadIds(road)
           stats == Stats(at, verified)
           work == WorkstreamProgress(at)
           progress == Progress(at)
           milestone == MilestoneOp(at)
           executed == {d \in dirs : Executed(d)}
           started == {d \in dirs : d.done > 0}
<1>1. stats.plans = PlansIn(Milestone(at)) /\ stats.done = DoneIn(Milestone(at))
    BY DEF Stats, Milestone
<1>2. progress.plans = PlansIn(dirs) /\ progress.done = DoneIn(dirs)
    BY DEF Progress
<1>3. /\ work.plans = PlansIn(dirs) /\ work.done = MapThenSumSet(LAMBDA d : Min({d.done, d.plans}), dirs)
      /\ work.complete = Cardinality(executed)
    BY DEF WorkstreamProgress
<1>4. PlansListed(at, FALSE) = PlansIn(dirs)
    BY DEF PlansListed, PlansIn
<1>5. /\ progress.plans = stats.plans /\ progress.done = stats.done
      /\ work.plans = stats.plans /\ work.done = stats.done
      /\ PlansListed(at, FALSE) = stats.plans
    BY <1>1, <1>2, <1>3, <1>4, SameCounts
<1>6. Cardinality(stats.complete) <= work.complete /\ work.complete = ListedWorkstream(at).complete
    BY <1>3, VerifiedExecuted DEF ListedWorkstream
<1>7. /\ Cardinality(executed) \in Nat /\ Cardinality(executed) <= Cardinality(dirs)
      /\ Cardinality(executed) <= Cardinality(started)
      /\ Cardinality(executed) <= Cardinality(UnderWay(at))
    BY ExecutedBegun
<1>8. work.complete <= milestone.complete
    <2>1. milestone.complete = IF ids = {} THEN Cardinality(started) ELSE Cardinality(UnderWay(at))
        BY DEF MilestoneOp, UnderWay
    <2> HIDE DEF work, milestone, started, executed, ids
    <2> QED BY <1>3, <1>7, <2>1
<1>9. IsFiniteSet(dirs) /\ Cardinality(dirs) \in Nat
    <2>1. IsFiniteSet(dirs)
        BY DEF Orderly, Sound
    <2> QED BY <2>1, FS_CardinalityType
<1>10. work.percent <= 100
    <2> DEFINE phases == IF ids = {} THEN Cardinality(dirs) ELSE Len(road)
               part == Cardinality(executed)
    <2>1. work.percent = IF phases = 0 THEN 0 ELSE Percentage(part, phases)
        BY DEF WorkstreamProgress
    <2>2. phases \in Nat /\ part \in Nat /\ part <= phases
        <3>1. Cardinality(UnderWay(at)) \in Nat /\ Len(road) \in Nat /\ Cardinality(UnderWay(at)) <= Len(road)
            BY BegunSections
        <3> HIDE DEF road, dirs, executed, ids
        <3> QED BY <1>7, <1>9, <3>1
    <2> HIDE DEF phases, part, work
    <2> QED BY <2>1, <2>2, AtMostHundred
<1>11. milestone.all => ids \subseteq DirIds(dirs)
    <2> SUFFICES ASSUME milestone.all, ids # {}
                 PROVE  ids \subseteq DirIds(dirs)
        OBVIOUS
    <2>1. milestone.all <=> Len(road) > 0 /\ Len(road) = Cardinality(UnderWay(at))
        BY DEF MilestoneOp, UnderWay
    <2>2. UnderWay(at) = DOMAIN road
        BY <2>1, BegunSections
    <2>3. \A i \in DOMAIN road : road[i].id \in DirIds(dirs)
        BY <2>2 DEF UnderWay, DirIds
    <2>4. ids = {road[i].id : i \in DOMAIN road}
        BY DEF RoadIds
    <2> QED BY <2>3, <2>4
<1>12. ids \subseteq ProgressComplete(tree[at]) /\ road # <<>> => ManagerDone(at)
    <2> SUFFICES ASSUME ids \subseteq ProgressComplete(tree[at]), road # <<>>, NEW i \in DOMAIN road
                 PROVE  Managed(tree[at], i) = "complete"
        BY DEF ManagerDone
    <2>1. road[i].id \in ProgressComplete(tree[at])
        BY DEF RoadIds
    <2>2. StatusesAgree(at, verified)
        BY ViewsOfStatus
    <2> QED BY <2>1, <2>2 DEF StatusesAgree
<1> HIDE DEF stats, work, progress, milestone
<1> QED BY <1>5, <1>6, <1>8, <1>10, <1>11, <1>12 DEF CountsAgree, stats, work, progress, milestone

\* What the commands that only look say of the phases agrees: the status that each of
\* them derives, the plans that they count, the order of verified, executed and begun
\* phases, the percentages, and when a milestone is finished, whatever phases are
\* added, inserted, completed, cleared and archived at once, whatever agents do in the
\* directories, and whoever is killed (roadmap.cjs, analyze; init.cjs, manager and
\* milestone-op; commands.cjs, progress and stats; workstream.cjs, list and progress).
THEOREM ViewsAlwaysAgree ==
    ASSUME \A start \in Starts : Legible(start.tree)
    PROVE  WsSpec => [](~Ran({"ws-create", "ws-complete"}) => ViewsAgree)
<1>1. WsInit => TypeInv /\ Unbegun /\ NumbersInv /\ ViewInv
    BY TypeInvInit, UnbegunInit, LegibleStarts
<1>2. TypeInv /\ Unbegun /\ NumbersInv /\ ViewInv /\ [WsNext]_wsvars => (TypeInv /\ Unbegun /\ NumbersInv /\ ViewInv)'
    BY TypeInvKept, UnbegunKept, NumbersInvKept, ViewInvKept
<1>3. TypeInv /\ NumbersInv /\ ViewInv => (~Ran({"ws-create", "ws-complete"}) => ViewsAgree)
    <2> SUFFICES ASSUME TypeInv, NumbersInv, ViewInv, ~Ran({"ws-create", "ws-complete"}), ~robbed, ~Ran({"remove"}),
                        NEW at \in Places, tree[at].road # None
                 PROVE  LET verified == DirIds(tree[at].dirs)
                        IN  StatusesAgree(at, verified) /\ CountsAgree(at, verified)
        BY DEF ViewsAgree
    <2>1. ~Ran(Moving)
        BY DEF Ran, Moving
    <2>2. OwnBoxes(tree[at].road) /\ Planless(tree[at].road, tree[at].dirs)
        BY <2>1 DEF ViewInv, ViewPlace
    <2>3. Distinct(tree[at].road) /\ Single(tree[at].dirs)
        BY <2>1 DEF NumbersInv
    <2>4. tree[at].road \in Seq(Sections) /\ tree[at].dirs \subseteq Directories /\ Sound(tree[at].dirs)
        BY DEF TypeInv, FilesOK, TreesOK, Trees, Roadmaps
    <2>5. Orderly(at)
        BY <2>2, <2>3, <2>4 DEF Orderly
    <2> QED BY <2>5, ViewsOfStatus, CountsInOrder
<1> QED BY <1>1, <1>2, <1>3, PTL DEF WsSpec
=============================================================================
