------------------------ MODULE WorkstreamsOutcomes ------------------------
(***************************************************************************)
(* What creating and completing workstreams leaves of a project, for any   *)
(* number of processes, commands, faults and kills: no directory of a      *)
(* phase is lost while the commands of all the others go on; and a project *)
(* on which one process works alone stays in one piece when a rename fails.*)
(***************************************************************************)
EXTENDS PlanningPhasesProofs

\* Two migrations beside a completion: the one may delete what the other moves.
Creating(p) == proc[p].cmd # None /\ Op(p) = "ws-create"
OneCreates == \A p, q \in Procs : Creating(p) /\ Creating(q) => p = q
Guarded == Ran({"ws-complete"}) => OneCreates

\* A migration under way; and one whose destination will be deleted if a move fails.
Migrates(p) == At(p, "moving") \/ At(p, "moveback")
Undecided(p) == (At(p, "moving") /\ proc[p].todo # <<>>) \/ At(p, "moveback")
Doomed(at) == \E p \in Procs : Undecided(p) /\ proc[p].cmd.into = at

\* There is a directory of this name that nothing is about to delete.
Stored(name) ==
    \/ \E at \in Places : ~Doomed(at) /\ name \in Named(tree[at].dirs)
    \/ \E at \in Places : name \in Named(shelf.dirs[at])
    \/ \E p \in Procs : name \in Named(attic[p].dirs)

(* The invariant, in parts. *)
MadeInv == \A at \in Places : tree[at].dirs # {} => at \in made

\* phases/ is the last part to be moved, so it is never one to be moved back.
Without(parts) == \A k \in DOMAIN parts : parts[k] # "dirs"
Endmost(parts) == \A k \in DOMAIN parts : parts[k] = "dirs" <=> k = Len(parts)
LastOK(p, r, a) ==
    /\ r.pc = "moving" => Endmost(r.todo) /\ (r.todo # <<>> => Without(r.next))
    /\ r.pc \in {"moveback", "restore"} => Without(r.todo)
    /\ r.pc = "archiving" /\ r.todo # {} => Without(r.next)
    /\ a.dirs # {} => (r.pc = "archiving" /\ r.todo = {}) \/ r.pc \in {"done", "killed"}
LastInv == \A p \in Procs : LastOK(p, proc[p], attic[p])

\* One migration at a time: workstreams/ is there until it is over.
AloneInv ==
    Guarded => \A p, q \in Procs :
        /\ Migrates(p) /\ Migrates(q) => p = q
        /\ Migrates(p) /\ ~Ran({"ws-complete"}) => Root \in made

StoredInv ==
    Guarded /\ ~Ran({"remove", "clear"}) =>
        \E start \in Starts : \A d \in start.tree.dirs : Stored(d.name)
DirsInv == MadeInv /\ LastInv /\ AloneInv /\ StoredInv

-----------------------------------------------------------------------------
(* What the steps do. *)

LEMMA CommandsElsewhere ==
    ASSUME NEW p \in Procs, Command(p) \/ Locking(p)
    PROVE  proc[p].pc \notin Migrating \cup Archiving \cup {"idle", "done", "killed"}
<1>1. CASE Locking(p)
    BY <1>1 DEF Locking, Acquire, SeeStale, BreakStale, GiveUpWaiting, LastTry, Release, Fail, At, Migrating, Archiving
<1>2. CASE Command(p)
    BY <1>2 DEF Command, ReadForAdd, MakeDirectory, DeleteDirectory, RenameNext, Renamed, ReadRoadmap, WriteRoadmap,
        ReadRequirements, WriteRequirements, LookUpNext, MoveState, Mark, ArchiveRoadmap, Register, CloseState, Shelve,
        Shelved, ClearNext, Cleared, WriteConfig, EnsureConfig, Repair, AddKey, Repaired, At, Migrating, Archiving
<1> QED BY <1>1, <1>2

\* Any step but those of a migration or an archiving under way.
Plain(p) == (PhaseStep(p) /\ attic' = attic) \/ WsBegin(p)
Underway == {"moving", "moveback", "archiving", "restore"}

LEMMA BeginningTurns ==
    ASSUME TypeInv, NEW p \in Procs, BeginCommand(p) \/ WsBegin(p)
    PROVE  proc'[p].pc \notin Underway /\ made' = made /\ shelf' = shelf
<1>a. DOMAIN proc = Procs /\ DOMAIN proc[p] = DOMAIN Idle
    BY Facts
<1> DEFINE Bare(entered) == entered.pc \notin Underway
<1>1. PICK c \in Menu[p] :
        \/ AddBegins(p, c) \/ InsertBegins(p, c) \/ RemoveBegins(p, c) \/ CompleteBegins(p, c)
        \/ ProgressBegins(p, c) \/ AnnotateBegins(p, c) \/ MarkBegins(p, c) \/ MilestoneBegins(p, c)
        \/ ClearBegins(p, c) \/ SetBegins(p, c) \/ EnsureBegins(p, c) \/ RepairBegins(p, c)
        \/ CreateBegins(p, c) \/ WsCompleteBegins(p, c) \/ SetPointer(p, c)
    BY DEF BeginCommand, WsBegin
<1>2. /\ Bare(Refused) /\ Bare(Nothing)
      /\ \A pc \in {"lock", "rmdir", "lookup", "mark", "archive", "clear", "ensure", "repair", "migrate",
                    "open", "deactivate"} :
            /\ Bare(Enter(pc))
            /\ \A v : /\ Bare([Enter(pc) EXCEPT !.next = v]) /\ Bare([Enter(pc) EXCEPT !.todo = v])
                      /\ Bare([Enter(pc) EXCEPT !.reqs = v]) /\ Bare([Enter(pc) EXCEPT !.counts = v])
                      /\ \A w : Bare([Enter(pc) EXCEPT !.todo = v, !.next = w])
    BY DEF Refused, Nothing, Enter, Idle, Underway
<1>3. ASSUME NEW entered, Begin(p, c, entered), Bare(entered)
      PROVE  proc'[p].pc \notin Underway /\ made' = made /\ shelf' = shelf
    <2>1. proc'[p].pc = entered.pc
        BY <1>a, <1>3 DEF Begin
    <2> QED BY <1>3, <2>1 DEF Begin
<1>4. CASE SetPointer(p, c)
    <2>1. proc'[p].pc = "done"
        BY <1>a, <1>4 DEF SetPointer, Nothing, Refused, Idle
    <2> QED BY <1>4, <2>1 DEF SetPointer, Underway
<1>5. CASE ~SetPointer(p, c)
    <2> HIDE DEF Bare
    <2>1. \E entered : Begin(p, c, entered) /\ Bare(entered)
        <3>1. CASE AddBegins(p, c) \/ InsertBegins(p, c) \/ SetBegins(p, c)
            BY <1>2, <3>1 DEF AddBegins, InsertBegins, SetBegins
        <3>2. CASE RemoveBegins(p, c) \/ CompleteBegins(p, c)
            BY <1>2, <3>2 DEF RemoveBegins, CompleteBegins
        <3>3. CASE ProgressBegins(p, c) \/ AnnotateBegins(p, c)
            BY <1>2, <3>3 DEF ProgressBegins, AnnotateBegins, CountAndLock
        <3>4. CASE MarkBegins(p, c) \/ MilestoneBegins(p, c) \/ ClearBegins(p, c)
            BY <1>2, <3>4 DEF MarkBegins, MilestoneBegins, ClearBegins
        <3>5. CASE EnsureBegins(p, c) \/ RepairBegins(p, c)
            BY <1>2, <3>5 DEF EnsureBegins, RepairBegins
        <3>6. CASE CreateBegins(p, c) \/ WsCompleteBegins(p, c)
            BY <1>2, <3>6 DEF CreateBegins, WsCompleteBegins
        <3> QED BY <1>1, <1>5, <3>1, <3>2, <3>3, <3>4, <3>5, <3>6
    <2> QED BY <1>3, <2>1
<1> QED BY <1>4, <1>5

LEMMA PlainTurns ==
    ASSUME TypeInv, NEW p \in Procs, Plain(p)
    PROVE  /\ proc'[p].pc \notin Underway /\ made \subseteq made' /\ attic' = attic
           /\ Kill(p) => proc'[p].pc = "killed" 
           /\ ~Kill(p) => proc[p].pc \notin Underway \cup {"done", "killed"}
<1>a. DOMAIN proc = Procs /\ DOMAIN proc[p] = DOMAIN Idle
    BY Facts
<1>b. Underway \subseteq Migrating \cup Archiving
    BY DEF Underway, Migrating, Archiving
<1>1. CASE BeginCommand(p) \/ WsBegin(p)
    <2>1. attic' = attic
        BY <1>1 DEF Plain, WsBegin, CreateBegins, WsCompleteBegins, SetPointer, BeginCommand, PhaseStep
    <2>2. proc[p].pc = "idle"
        BY <1>1 DEF BeginCommand, WsBegin, At
    <2> QED BY <1>1, <2>1, <2>2, BeginningTurns DEF Kill, Working, Underway
<1>2. CASE Locking(p) /\ attic' = attic
    <2>1. made \subseteq made'
        BY <1>2 DEF Locking, Acquire, Create, SeeStale, BreakStale, GiveUpWaiting, LastTry, Release, Fail, disk
    <2>2. proc'[p].pc \in {"fail", "configwrite", "read", "stale", "lock", "last", "lookup", "done"}
        <3>1. CASE \E pc \in {"fail", "stale", "lock", "last", "lookup"} : Goto(p, pc)
            BY <1>a, <3>1 DEF Goto, Idle
        <3>2. CASE \E ok : Finish(p, ok)
            BY <3>2, FinishOnward
        <3>3. CASE Create(p) /\ ~Goto(p, "fail")
            BY <1>a, <3>3 DEF Create, FirstStep, Idle
        <3> QED BY <1>2, <3>1, <3>2, <3>3 DEF Locking, Acquire, SeeStale, BreakStale, GiveUpWaiting, LastTry, Release, Fail
    <2>3. Kill(p) => proc'[p].pc = "killed"
        BY <1>a DEF Kill, Idle
    <2> QED BY <1>2, <1>b, <2>1, <2>2, <2>3, CommandsElsewhere DEF Underway
<1>3. CASE Command(p) /\ attic' = attic
    <2>1. made \subseteq made'
        BY <1>3 DEF Command, ReadForAdd, MakeDirectory, DeleteDirectory, RenameNext, Renamed, ReadRoadmap, WriteRoadmap,
            ReadRequirements, WriteRequirements, LookUpNext, MoveState, Mark, ArchiveRoadmap, Register, CloseState, Shelve,
            Shelved, ClearNext, Cleared, WriteConfig, EnsureConfig, Repair, AddKey, Repaired, disk
    <2>2. proc[p].pc \notin Migrating \cup Archiving \cup {"idle", "done", "killed"}
        BY <1>3, CommandsElsewhere
    <2>3. Follows(p)
        BY <1>3, CommandProceeds DEF Proceeds, TypeInv
    <2>4. proc'[p].pc \notin Migrating \cup Archiving
        BY <2>2, <2>3 DEF Follows
    <2>5. Kill(p) => proc'[p].pc = "killed"
        BY <1>a DEF Kill, Idle
    <2> QED BY <1>3, <1>b, <2>1, <2>2, <2>4, <2>5
<1>4. CASE Kill(p) /\ attic' = attic
    <2>1. proc'[p].pc = "killed" /\ made' = made
        BY <1>a, <1>4 DEF Kill, Idle
    <2> QED BY <1>4, <2>1 DEF Underway
<1> QED BY <1>1, <1>2, <1>3, <1>4 DEF Plain, PhaseStep

LEMMA WorkstreamTurns ==
    ASSUME TypeInv, NEW p \in Procs, WsCommand(p)
    PROVE  /\ proc'[p].pc = "moving" => MovePart(p) \/ (MigrateBegins(p) /\ ~RootExists)
           /\ proc'[p].pc = "moveback" => MoveFails(p) \/ MoveBack(p)
           /\ proc'[p].pc = "archiving" => Deactivate(p) \/ ArchiveEntry(p)
           /\ proc'[p].pc = "restore" => Deactivate(p) \/ ArchiveFails(p) \/ Restore(p)
           /\ ~(ArchiveEntry(p) \/ Restore(p) \/ Restored(p)) => attic' = attic
           /\ ~(Abandon(p) \/ Archived(p)) => made \subseteq made'
           /\ shelf' = shelf
<1>a. DOMAIN proc = Procs /\ DOMAIN proc[p] = DOMAIN Idle
    BY Facts
<1>b. \A ok : Finish(p, ok) => proc'[p].pc = "done"
    BY FinishOnward
<1>1. CASE MigrateBegins(p)
    <2>1. CASE RootExists
        BY <1>b, <1>1, <2>1 DEF MigrateBegins
    <2>2. CASE ~RootExists
        BY <1>a, <1>1, <2>2 DEF MigrateBegins, Idle
    <2> QED BY <2>1, <2>2
<1>2. CASE MovePart(p)
    <2>1. proc'[p].pc = "moving"
        BY <1>a, <1>2 DEF MovePart, Idle, At
    <2> QED BY <1>2, <2>1 DEF MovePart
<1>3. CASE Moved(p) \/ OpenWorkstream(p)
    <2>1. proc'[p].pc \in {"open", "activate"}
        BY <1>a, <1>3 DEF Moved, OpenWorkstream, Goto, Idle
    <2> QED BY <1>3, <2>1 DEF Moved, OpenWorkstream, disk
<1>4. CASE MoveFails(p) \/ MoveBack(p)
    <2>1. proc'[p].pc = "moveback"
        BY <1>a, <1>4 DEF MoveFails, MoveBack, Idle, At
    <2> QED BY <1>4, <2>1 DEF MoveFails, MoveBack, disk
<1>5. CASE Abandon(p)
    BY <1>b, <1>5 DEF Abandon
<1>6. CASE Activate(p)
    BY <1>b, <1>6 DEF Activate
<1>7. CASE Deactivate(p)
    <2>1. proc'[p].pc \in {"archiving", "restore"}
        BY <1>a, <1>7 DEF Deactivate, Idle
    <2> QED BY <1>7, <2>1 DEF Deactivate
<1>8. CASE ArchiveEntry(p)
    <2>1. proc'[p].pc = "archiving"
        BY <1>a, <1>8 DEF ArchiveEntry, Idle, At
    <2> QED BY <1>8, <2>1 DEF ArchiveEntry
<1>9. CASE ArchiveFails(p) \/ Restore(p)
    <2>1. proc'[p].pc = "restore"
        BY <1>a, <1>9 DEF ArchiveFails, Restore, Idle, At
    <2> QED BY <1>9, <2>1 DEF ArchiveFails, Restore, disk
<1>10. CASE Restored(p)
    BY <1>b, <1>10 DEF Restored
<1>11. CASE Archived(p)
    BY <1>b, <1>11 DEF Archived
<1> QED BY <1>1, <1>2, <1>3, <1>4, <1>5, <1>6, <1>7, <1>8, <1>9, <1>10, <1>11 DEF WsCommand

\* Directories come, go or are renamed by few steps.
Handles(p) ==
    \/ Shelve(p) \/ DeleteDirectory(p) \/ RenameNext(p) \/ ClearNext(p)
    \/ MovePart(p) \/ MoveBack(p) \/ Abandon(p) \/ ArchiveEntry(p) \/ Restore(p)
LEMMA DirsChange ==
    ASSUME TypeInv, NEW p \in Procs, Advance(p), NEW v \in Places
    PROVE  tree'[v].dirs = tree[v].dirs \/ (MakeDirectory(p) /\ v = proc[p].at) \/ Handles(p)
<1>a. proc[p].at \in Places
    BY Facts
<1>b. ASSUME NEW x, tree' = [tree EXCEPT ![proc[p].at].config = x] \/ tree' = [tree EXCEPT ![proc[p].at].road = x]
      PROVE  tree'[v].dirs = tree[v].dirs
    BY <1>a, <1>b, OneFile
<1>c. \A x : tree' = [tree EXCEPT ![proc[p].at].dirs = x] => v = proc[p].at \/ tree'[v].dirs = tree[v].dirs
    BY <1>a, OneFile
<1>1. CASE Settled(p)
    BY <1>1 DEF Settled, SameFiles
<1>2. CASE Torn(p)
    BY <1>2, <1>b DEF Torn
<1>3. CASE Stirs(p)
    <2>1. CASE Create(p) \/ Release(p) \/ ReadForAdd(p) \/ ReadRoadmap(p)
        BY <2>1 DEF Create, Release, ReadForAdd, ReadRoadmap, disk
    <2>2. CASE MakeDirectory(p)
        <3>1. \E x : tree' = [tree EXCEPT ![proc[p].at].dirs = x]
            BY <2>2 DEF MakeDirectory
        <3> QED BY <2>2, <1>c, <3>1
    <2>3. CASE WriteRoadmap(p)
        <3>1. tree' = tree \/ \E x : tree' = [tree EXCEPT ![proc[p].at].road = x]
            BY <2>3 DEF WriteRoadmap
        <3> QED BY <1>b, <3>1
    <2>4. CASE WriteConfig(p) \/ EnsureConfig(p) \/ AddKey(p)
        <3>1. tree' = tree \/ \E x : tree' = [tree EXCEPT ![proc[p].at].config = x]
            BY <2>4 DEF WriteConfig, EnsureConfig, AddKey
        <3> QED BY <1>b, <3>1
    <2>5. CASE Repair(p)
        BY <2>5, RepairLeaves
    <2>6. CASE Handles(p)
        BY <2>6
    <2> QED BY <1>3, <2>1, <2>2, <2>3, <2>4, <2>5, <2>6 DEF Stirs, Handles
<1> QED BY <1>1, <1>2, <1>3, MostSettle

LEMMA ShelfGrows ==
    ASSUME TypeInv, NEW p \in Procs, Advance(p), NEW v \in Places
    PROVE  shelf.dirs[v] \subseteq shelf'.dirs[v]
<1>a. shelf \in [roads : SUBSET Places, entries : SUBSET Places, dirs : [Places -> SUBSET Directories]]
      /\ proc[p].at \in Places
    BY Facts DEF TypeInv, FilesOK, ShelfOK
<1>1. CASE Shelve(p)
    <2>1. PICK x : shelf' = shelf \/ shelf' = [shelf EXCEPT !.dirs[proc[p].at] = @ \cup x]
        BY <1>1 DEF Shelve
    <2> QED BY <1>a, <2>1
<1>2. CASE ArchiveRoadmap(p) \/ Register(p) \/ Repair(p)
    <2>1. shelf'.dirs = shelf.dirs
        BY <1>a, <1>2 DEF ArchiveRoadmap, Register, Repair
    <2> QED BY <2>1
<1>3. CASE BeginCommand(p) \/ WsBegin(p)
    BY <1>3, BeginningTurns
<1>4. CASE WsCommand(p)
    BY <1>4, WorkstreamTurns
<1>5. CASE Locking(p) \/ Kill(p)
    BY <1>5 DEF Locking, Acquire, Create, SeeStale, BreakStale, GiveUpWaiting, LastTry, Release, Fail, disk, Kill
<1>6. CASE Command(p) /\ ~(Shelve(p) \/ ArchiveRoadmap(p) \/ Register(p) \/ Repair(p))
    BY <1>6 DEF Command, ReadForAdd, MakeDirectory, DeleteDirectory, RenameNext, Renamed, ReadRoadmap, WriteRoadmap,
        ReadRequirements, WriteRequirements, LookUpNext, MoveState, Mark, CloseState,
        Shelved, ClearNext, Cleared, WriteConfig, EnsureConfig, AddKey, Repaired, disk
<1> QED BY <1>1, <1>2, <1>3, <1>4, <1>5, <1>6 DEF Advance, PhaseStep

\* Moving phases/, and moving anything else.
LEMMA MoveDirs ==
    ASSUME TypeInv, NEW from \in Places, NEW to \in Places, from # to, NEW part \in PartNames,
           Move(from, to, part)
    PROVE  /\ part # "dirs" => \A v \in Places : tree'[v].dirs = tree[v].dirs
           /\ part = "dirs" => /\ tree'[from].dirs = {} /\ tree'[to].dirs = tree[from].dirs
                               /\ \A v \in Places \ {from, to} : tree'[v].dirs = tree[v].dirs
<1> DEFINE left == [tree[from] EXCEPT ![part] = NoTree[part]]
           got == [tree[to] EXCEPT ![part] = tree[from][part]]
<1>1. tree \in [Places -> Trees] /\ part \in TreeFields
    BY DEF TypeInv, FilesOK, TreesOK, PartNames, TreeFields
<1>2. DOMAIN tree[from] = TreeFields /\ DOMAIN tree[to] = TreeFields
    BY <1>1 DEF Trees, TreeFields
<1>3. /\ part # "dirs" => left.dirs = tree[from].dirs /\ got.dirs = tree[to].dirs
      /\ part = "dirs" => left.dirs = {} /\ got.dirs = tree[from].dirs
    BY <1>1, <1>2 DEF TreeFields, NoTree
<1>4. tree' = [tree EXCEPT ![from] = left, ![to] = got]
    BY <1>1 DEF Move, Absent
<1> HIDE DEF left, got
<1>5. tree' = [v \in Places |-> IF v = to THEN got ELSE IF v = from THEN left ELSE tree[v]]
    BY <1>1, <1>4
<1> QED BY <1>3, <1>5

\* A process at work on a workstream, and its names.
LEMMA WorkstreamFacts ==
    ASSUME TypeInv, NEW p \in Procs
    PROVE  /\ proc[p].pc \in Migrating =>
                /\ Op(p) = "ws-create" /\ proc[p].cmd # None
                /\ proc[p].cmd.into \in Names /\ proc[p].cmd.into \in Places /\ proc[p].cmd.into # Flat
           /\ proc[p].pc \in Archiving =>
                /\ Op(p) = "ws-complete" /\ proc[p].cmd # None
                /\ proc[p].cmd.name \in Names /\ proc[p].cmd.name \in Places
<1>1. proc[p].pc \in Migrating \cup Archiving => Working(p) /\ proc[p].cmd \in Menu[p] /\ proc[p].cmd # None
    BY Facts, MenuAssumption DEF Working, Migrating, Archiving
<1>2. /\ proc[p].pc \in Migrating => Op(p) = "ws-create"
      /\ proc[p].pc \in Archiving => Op(p) = "ws-complete"
    BY DEF TypeInv, LockInv, Types, ProcOK, OneOK
<1>3. Flat \notin Names
    BY PlacesAssumption
<1> QED BY <1>1, <1>2, <1>3, Parameters DEF Op, Places

-----------------------------------------------------------------------------
(* phases/ is moved last. *)

LEMMA EndmostTail ==
    ASSUME NEW T, NEW s \in Seq(T), s # <<>>, Endmost(s)
    PROVE  /\ Tail(s) \in Seq(T) /\ Endmost(Tail(s))
           /\ Head(s) = "dirs" => Tail(s) = <<>>
<1>1. /\ Len(s) \in Nat \ {0} /\ Tail(s) \in Seq(T) /\ Len(Tail(s)) = Len(s) - 1 /\ Head(s) = s[1]
      /\ \A k \in 1..Len(s) - 1 : Tail(s)[k] = s[k + 1]
    BY HeadTailProperties, EmptySeq
<1>2. DOMAIN s = 1..Len(s) /\ DOMAIN Tail(s) = 1..Len(s) - 1
    BY <1>1
<1> DEFINE n == Len(s)
           t == Tail(s)
<1>3. n \in Nat \ {0} /\ Len(t) = n - 1
    BY <1>1
<1>4. ASSUME NEW k \in 1..n - 1
      PROVE  t[k] = "dirs" <=> k = n - 1
    <2>1. k + 1 \in 1..n /\ t[k] = s[k + 1]
        BY <1>1, <1>3
    <2>2. s[k + 1] = "dirs" <=> k + 1 = n
        BY <1>2, <2>1 DEF Endmost
    <2> HIDE DEF n, t
    <2> QED BY <1>3, <2>1, <2>2
<1>5. Endmost(t)
    <2>1. DOMAIN t = 1..n - 1 /\ Len(t) = n - 1
        BY <1>2, <1>3
    <2> HIDE DEF n, t
    <2> QED BY <1>4, <2>1 DEF Endmost
<1>6. ASSUME Head(s) = "dirs"
      PROVE  t = <<>>
    <2>1. 1 \in 1..n
        BY <1>3
    <2>2. n = 1
        BY <1>1, <1>2, <1>6, <2>1 DEF Endmost
    <2>3. t \in Seq(T) /\ Len(t) = 0
        BY <1>1, <1>3, <2>2
    <2> HIDE DEF n, t
    <2> QED BY <2>3, EmptySeq
<1> QED BY <1>1, <1>5, <1>6

LEMMA WithoutParts ==
    ASSUME NEW T, NEW s \in Seq(T), Without(s)
    PROVE  /\ s # <<>> => Head(s) # "dirs" /\ Without(Tail(s))
           /\ \A part \in T : part # "dirs" => Without(<<part>> \o s)
           /\ Without(Reverse(s))
<1>1. DOMAIN s = 1..Len(s) /\ Len(s) \in Nat
    OBVIOUS
<1>2. ASSUME s # <<>>
      PROVE  Head(s) # "dirs" /\ Without(Tail(s))
    <2>1. /\ Len(s) \in Nat \ {0} /\ Len(Tail(s)) = Len(s) - 1 /\ Head(s) = s[1] /\ Tail(s) \in Seq(T)
          /\ \A k \in 1..Len(s) - 1 : Tail(s)[k] = s[k + 1]
        BY <1>2, HeadTailProperties, EmptySeq
    <2>2. \A k \in 1..Len(s) - 1 : k + 1 \in 1..Len(s)
        BY <2>1
    <2>3. DOMAIN Tail(s) = 1..Len(s) - 1
        BY <2>1
    <2> QED BY <1>1, <2>1, <2>2, <2>3 DEF Without
<1>3. ASSUME NEW part \in T, part # "dirs"
      PROVE  Without(<<part>> \o s)
    <2>1. /\ Len(<<part>> \o s) = Len(s) + 1 /\ DOMAIN (<<part>> \o s) = 1..Len(s) + 1
          /\ \A k \in 1..Len(s) + 1 : (<<part>> \o s)[k] = IF k = 1 THEN part ELSE s[k - 1]
        BY <1>1
    <2>2. \A k \in 1..Len(s) + 1 : k = 1 \/ k - 1 \in 1..Len(s)
        BY <1>1
    <2> QED BY <1>1, <1>3, <2>1, <2>2 DEF Without
<1>4. Without(Reverse(s))
    <2>1. Reverse(s) = [i \in 1..Len(s) |-> s[Len(s) - i + 1]]
        BY DEF Reverse
    <2>2. \A i \in 1..Len(s) : Len(s) - i + 1 \in 1..Len(s)
        BY <1>1
    <2> QED BY <1>1, <2>1, <2>2 DEF Without
<1> QED BY <1>2, <1>3, <1>4

LEMMA DirsComeLast ==
    ASSUME NEW entries \in SUBSET EntryNames, entries # {}, FirstEntry(entries) = "dirs"
    PROVE  entries = {"dirs"}
<1> DEFINE found == {k \in 1..6 : Entries[k] \in entries}
<1>1. DOMAIN Entries = 1..6 /\ \A k \in 1..6 : Entries[k] = "dirs" <=> k = 6
    BY DEF Entries
<1>2. \A entry \in EntryNames : \E k \in 1..6 : Entries[k] = entry
    BY DEF EntryNames, Entries
<1>3. found # {} /\ found \subseteq Nat
    BY <1>2
<1>4. Min(found) \in found /\ \A k \in found : Min(found) <= k
    <2> HIDE DEF found
    <2> QED BY <1>3, LeastNumber
<1>5. Entries[Min(found)] = "dirs"
    BY <1>1 DEF FirstEntry
<1>6. Min(found) = 6
    BY <1>1, <1>4, <1>5
<1>7. \A k \in found : k = 6
    BY <1>4, <1>6
<1> QED BY <1>1, <1>2, <1>7

\* A step of an archiving.
LEMMA EntryArchived ==
    ASSUME TypeInv, NEW p \in Procs, ArchiveEntry(p)
    PROVE  LET entry == FirstEntry(proc[p].todo)
               name == proc[p].cmd.name
           IN  /\ entry \in proc[p].todo /\ proc[p].todo \in SUBSET EntryNames /\ proc[p].next \in Seq(EntryNames)
               /\ proc'[p].todo = proc[p].todo \ {entry} /\ proc'[p].next = <<entry>> \o proc[p].next
               /\ proc[p].pc = "archiving" /\ proc'[p].pc = "archiving" /\ proc[p].todo # {}
               /\ \A q \in Procs \ {p} : attic'[q] = attic[q]
               /\ \A v \in Places \ {name} : tree'[v].dirs = tree[v].dirs
               /\ entry # "dirs" => tree'[name].dirs = tree[name].dirs /\ attic'[p].dirs = attic[p].dirs
               /\ entry = "dirs" => tree'[name].dirs = {} /\ attic'[p].dirs = tree[name].dirs
<1> DEFINE entry == FirstEntry(proc[p].todo)
           name == proc[p].cmd.name
<1>1. proc[p].pc = "archiving" /\ proc[p].todo # {}
    BY DEF ArchiveEntry, At
<1>2. /\ proc[p].todo \in SUBSET EntryNames /\ proc[p].next \in Seq(EntryNames) /\ name \in Places
      /\ DOMAIN proc = Procs /\ DOMAIN proc[p] = DOMAIN Idle
    BY <1>1, Facts, WorkstreamFacts DEF Carried, Archiving
<1>3. entry \in proc[p].todo /\ entry \in EntryNames
    BY <1>1, <1>2, FirstEntryFound
<1>4. /\ tree \in [Places -> Trees] /\ attic \in [Procs -> Attics]
      /\ DOMAIN tree[name] = TreeFields /\ DOMAIN attic[p] = AtticFields
    BY <1>2 DEF TypeInv, FilesOK, TreesOK, ArchivesOK, Trees, Attics, TreeFields, AtticFields
<1> HIDE DEF entry, name
<1>5. CASE entry = "lock"
    <2>1. tree' = tree /\ attic' = [attic EXCEPT ![p].lock = lock[name]]
        BY <1>5 DEF ArchiveEntry, entry, name
    <2>2. attic'[p].dirs = attic[p].dirs /\ \A q \in Procs \ {p} : attic'[q] = attic[q]
        BY <1>4, <2>1
    <2>3. /\ proc'[p].todo = proc[p].todo \ {entry} /\ proc'[p].next = <<entry>> \o proc[p].next
          /\ proc'[p].pc = "archiving"
        BY <1>1, <1>2 DEF ArchiveEntry, entry, Idle
    <2> QED BY <1>1, <1>2, <1>3, <1>5, <2>1, <2>2, <2>3 DEF entry, name
<1>6. CASE entry # "lock"
    <2>1. /\ tree' = [tree EXCEPT ![name][entry] = NoTree[entry]]
          /\ attic' = [attic EXCEPT ![p][entry] = tree[name][entry]]
        BY <1>6 DEF ArchiveEntry, entry, name, Absent
    <2>2. entry \in TreeFields /\ entry \in AtticFields
        BY <1>3, <1>6 DEF TreeFields, AtticFields, EntryNames
    <2>3. /\ \A q \in Procs \ {p} : attic'[q] = attic[q]
          /\ \A v \in Places \ {name} : tree'[v].dirs = tree[v].dirs
        BY <1>4, <2>1
    <2>4. entry # "dirs" => tree'[name].dirs = tree[name].dirs /\ attic'[p].dirs = attic[p].dirs
        BY <1>2, <1>4, <2>1, <2>2 DEF TreeFields, AtticFields
    <2>5. entry = "dirs" => tree'[name].dirs = {} /\ attic'[p].dirs = tree[name].dirs
        BY <1>2, <1>4, <2>1, <2>2 DEF TreeFields, AtticFields, NoTree
    <2>6. /\ proc'[p].todo = proc[p].todo \ {entry} /\ proc'[p].next = <<entry>> \o proc[p].next
          /\ proc'[p].pc = "archiving"
        BY <1>1, <1>2 DEF ArchiveEntry, entry, Idle
    <2> QED BY <1>1, <1>2, <1>3, <1>6, <2>3, <2>4, <2>5, <2>6 DEF entry, name
<1> QED BY <1>5, <1>6

\* Putting back anything but phases/.
LEMMA EntryRestored ==
    ASSUME TypeInv, NEW p \in Procs, Restore(p), Head(proc[p].todo) # "dirs"
    PROVE  /\ \A v \in Places : tree'[v].dirs = tree[v].dirs
           /\ \A q \in Procs : attic'[q].dirs = attic[q].dirs
<1> DEFINE entry == Head(proc[p].todo)
           name == proc[p].cmd.name
<1>1. proc[p].pc = "restore" /\ proc[p].todo # <<>>
    BY DEF Restore, At
<1>2. proc[p].todo \in Seq(EntryNames) /\ name \in Places
    BY <1>1, Facts, WorkstreamFacts DEF Carried, Archiving
<1>3. entry \in EntryNames
    BY <1>1, <1>2, HeadAndTail
<1>4. /\ tree \in [Places -> Trees] /\ attic \in [Procs -> Attics]
      /\ DOMAIN tree[name] = TreeFields /\ DOMAIN attic[p] = AtticFields
    BY <1>2 DEF TypeInv, FilesOK, TreesOK, ArchivesOK, Trees, Attics, TreeFields, AtticFields
<1>5. \/ tree' = tree /\ attic' = attic
      \/ tree' = tree /\ attic' = [attic EXCEPT ![p].lock = None]
      \/ /\ entry # "lock"
         /\ tree' = [tree EXCEPT ![name][entry] = attic[p][entry]]
         /\ attic' = [attic EXCEPT ![p][entry] = NoTree[entry]]
    BY DEF Restore, Absent
<1> HIDE DEF entry, name
<1>6. CASE tree' = tree /\ attic' = [attic EXCEPT ![p].lock = None]
    BY <1>4, <1>6
<1>7. CASE /\ entry # "lock" /\ tree' = [tree EXCEPT ![name][entry] = attic[p][entry]]
           /\ attic' = [attic EXCEPT ![p][entry] = NoTree[entry]]
    <2>1. entry \in TreeFields /\ entry \in AtticFields /\ entry # "dirs"
        BY <1>3, <1>7 DEF TreeFields, AtticFields, EntryNames, entry
    <2>2. tree'[name].dirs = tree[name].dirs /\ \A v \in Places \ {name} : tree'[v] = tree[v]
        BY <1>2, <1>4, <1>7, <2>1 DEF TreeFields
    <2>3. attic'[p].dirs = attic[p].dirs /\ \A q \in Procs \ {p} : attic'[q] = attic[q]
        BY <1>4, <1>7, <2>1 DEF AtticFields
    <2> QED BY <2>2, <2>3
<1> QED BY <1>5, <1>6, <1>7

\* A step of a migration.
LEMMA PartMoved ==
    ASSUME TypeInv, NEW p \in Procs, MovePart(p)
    PROVE  LET part == Head(proc[p].todo)
               into == proc[p].cmd.into
           IN  /\ part \in PartNames /\ proc[p].todo \in Seq(PartNames) /\ proc[p].next \in Seq(PartNames)
               /\ proc[p].pc = "moving" /\ proc'[p].pc = "moving" /\ proc[p].todo # <<>>
               /\ proc'[p].todo = Tail(proc[p].todo) /\ proc'[p].next \in {proc[p].next, <<part>> \o proc[p].next}
               /\ \/ \A v \in Places : tree'[v].dirs = tree[v].dirs
                  \/ /\ part = "dirs" /\ into \in made /\ tree[into].dirs = {}
                     /\ tree'[Flat].dirs = {} /\ tree'[into].dirs = tree[Flat].dirs
                     /\ \A v \in Places \ {Flat, into} : tree'[v].dirs = tree[v].dirs
<1> DEFINE part == Head(proc[p].todo)
           into == proc[p].cmd.into
<1>1. proc[p].pc = "moving" /\ proc[p].todo # <<>>
    BY DEF MovePart, At
<1>2. /\ proc[p].todo \in Seq(PartNames) /\ proc[p].next \in Seq(PartNames)
      /\ into \in Places /\ Flat \in Places /\ into # Flat
      /\ DOMAIN proc = Procs /\ DOMAIN proc[p] = DOMAIN Idle
    BY <1>1, Facts, WorkstreamFacts DEF Carried, Migrating, Places
<1>3. part \in PartNames
    BY <1>1, <1>2, HeadAndTail
<1>4. tree' = tree \/ (CanMove(into, part) /\ Move(Flat, into, part))
    BY DEF MovePart
<1>5. /\ proc'[p].pc = "moving" /\ proc'[p].todo = Tail(proc[p].todo)
      /\ proc'[p].next \in {proc[p].next, <<part>> \o proc[p].next}
    <2>1. \/ proc' = [proc EXCEPT ![p].todo = Tail(@), ![p].next = <<part>> \o @]
          \/ proc' = [proc EXCEPT ![p].todo = Tail(@)]
        BY DEF MovePart
    <2>2. \A x : proc' = [proc EXCEPT ![p].todo = Tail(@), ![p].next = x]
                    => proc'[p].pc = proc[p].pc /\ proc'[p].todo = Tail(proc[p].todo) /\ proc'[p].next = x
        BY <1>2 DEF Idle
    <2>3. proc' = [proc EXCEPT ![p].todo = Tail(@)]
            => proc'[p].pc = proc[p].pc /\ proc'[p].todo = Tail(proc[p].todo) /\ proc'[p].next = proc[p].next
        BY <1>2 DEF Idle
    <2> HIDE DEF part
    <2> QED BY <1>1, <2>1, <2>2, <2>3
<1> HIDE DEF part, into
<1>6. \/ \A v \in Places : tree'[v].dirs = tree[v].dirs
      \/ /\ part = "dirs" /\ into \in made /\ tree[into].dirs = {}
         /\ tree'[Flat].dirs = {} /\ tree'[into].dirs = tree[Flat].dirs
         /\ \A v \in Places \ {Flat, into} : tree'[v].dirs = tree[v].dirs
    BY <1>2, <1>3, <1>4, MoveDirs DEF CanMove
<1> QED BY <1>1, <1>2, <1>3, <1>5, <1>6 DEF part, into

LEMMA PartMovedBack ==
    ASSUME TypeInv, NEW p \in Procs, MoveBack(p), Head(proc[p].todo) # "dirs"
    PROVE  \A v \in Places : tree'[v].dirs = tree[v].dirs
<1> DEFINE part == Head(proc[p].todo)
           into == proc[p].cmd.into
<1>1. proc[p].pc = "moveback" /\ proc[p].todo # <<>>
    BY DEF MoveBack, At
<1>2. proc[p].todo \in Seq(PartNames) /\ into \in Places /\ Flat \in Places /\ into # Flat
    BY <1>1, Facts, WorkstreamFacts DEF Carried, Migrating, Places
<1>3. part \in PartNames
    BY <1>1, <1>2, HeadAndTail
<1>4. tree' = tree \/ Move(into, Flat, part)
    BY DEF MoveBack
<1> QED BY <1>2, <1>3, <1>4, MoveDirs

LEMMA AtticsApart ==
    ASSUME TypeInv, NEW p \in Procs, Advance(p), NEW q \in Procs, q # p
    PROVE  attic'[q] = attic[q]
<1>1. CASE Plain(p)
    BY <1>1, PlainTurns
<1>2. CASE WsCommand(p)
    <2>1. \/ attic' = attic
          \/ ArchiveEntry(p) \/ Restore(p) \/ Restored(p)
        BY <1>2, WorkstreamTurns
    <2>2. CASE ArchiveEntry(p)
        BY <2>2, EntryArchived
    <2>3. CASE Restore(p) \/ Restored(p)
        <3>1. attic' = attic \/ \E x : attic' = [attic EXCEPT ![p] = x]
            BY <2>3 DEF Restore, Restored
        <3> QED BY <3>1 DEF TypeInv, FilesOK, ArchivesOK
    <2> QED BY <2>1, <2>2, <2>3
<1> QED BY <1>1, <1>2 DEF Advance, Plain

-----------------------------------------------------------------------------
(* Each part of the invariant is kept. *)

LEMMA LastStep ==
    ASSUME TypeInv, LastInv, NEW p \in Procs, Advance(p)
    PROVE  LastOK(p, proc'[p], attic'[p])
<1>a. LastOK(p, proc[p], attic[p]) /\ DOMAIN proc = Procs /\ DOMAIN proc[p] = DOMAIN Idle /\ Carried(p, proc[p])
    BY Facts DEF LastInv
<1>b. \A r, a : r.pc \notin Underway /\ (a.dirs # {} => r.pc \in {"done", "killed"}) => LastOK(p, r, a)
    BY DEF LastOK, Underway
<1>c. \A ok : Finish(p, ok) => proc'[p].pc = "done"
    BY FinishOnward
<1>1. CASE Plain(p)
    <2>1. /\ proc'[p].pc \notin Underway /\ attic' = attic
          /\ proc'[p].pc = "killed" \/ proc[p].pc \notin Underway \cup {"done", "killed"}
        BY <1>1, PlainTurns
    <2>2. attic'[p].dirs # {} => proc'[p].pc = "killed"
        BY <1>a, <2>1 DEF LastOK, Underway
    <2> QED BY <1>b, <2>1, <2>2
<1>2. CASE WsCommand(p)
    <2>1. CASE Abandon(p) \/ Activate(p) \/ Restored(p) \/ Archived(p)
        <3>1. proc'[p].pc = "done"
            BY <1>c, <2>1 DEF Abandon, Activate, Restored, Archived
        <3> QED BY <1>b, <3>1 DEF Underway
    <2>2. CASE MigrateBegins(p)
        <3>1. attic' = attic /\ proc[p].pc = "migrate"
            BY <2>2 DEF MigrateBegins, At
        <3>2. attic'[p].dirs = {}
            BY <1>a, <3>1 DEF LastOK
        <3>3. CASE proc'[p].pc = "done"
            BY <1>b, <3>3 DEF Underway
        <3>4. CASE ~RootExists
            <4>1. proc'[p].pc = "moving" /\ proc'[p].todo = Parts /\ proc'[p].next = <<>>
                BY <1>a, <2>2, <3>4 DEF MigrateBegins, Idle
            <4>2. Endmost(Parts) /\ Without(<<>>)
                BY DEF Endmost, Without, Parts
            <4> QED BY <3>2, <4>1, <4>2 DEF LastOK
        <3> QED BY <1>c, <2>2, <3>3, <3>4 DEF MigrateBegins
    <2>3. CASE MovePart(p)
        <3> DEFINE part == Head(proc[p].todo)
        <3>1. /\ part \in PartNames /\ proc[p].todo \in Seq(PartNames) /\ proc[p].next \in Seq(PartNames)
              /\ proc[p].pc = "moving" /\ proc'[p].pc = "moving" /\ proc[p].todo # <<>>
              /\ proc'[p].todo = Tail(proc[p].todo) /\ proc'[p].next \in {proc[p].next, <<part>> \o proc[p].next}
              /\ attic' = attic
            BY <2>3, PartMoved DEF MovePart
        <3>2. Endmost(proc[p].todo) /\ Without(proc[p].next) /\ attic[p].dirs = {}
            BY <1>a, <3>1 DEF LastOK
        <3>3. Endmost(Tail(proc[p].todo)) /\ (part = "dirs" => Tail(proc[p].todo) = <<>>)
            BY <3>1, <3>2, EndmostTail
        <3>4. part # "dirs" => Without(<<part>> \o proc[p].next)
            BY <3>1, <3>2, WithoutParts
        <3> HIDE DEF part
        <3> QED BY <3>1, <3>2, <3>3, <3>4 DEF LastOK
    <2>4. CASE Moved(p) \/ OpenWorkstream(p)
        <3>1. proc'[p].pc \in {"open", "activate"} /\ attic' = attic /\ proc[p].pc \in {"moving", "open"}
            BY <1>a, <2>4 DEF Moved, OpenWorkstream, Goto, Idle, At
        <3>2. attic'[p].dirs = {}
            BY <1>a, <3>1 DEF LastOK
        <3> QED BY <1>b, <3>1, <3>2 DEF Underway
    <2>5. CASE MoveFails(p)
        <3>1. /\ proc[p].pc = "moving" /\ proc[p].todo # <<>> /\ attic' = attic
              /\ proc'[p].pc = "moveback" /\ proc'[p].todo = Reverse(proc[p].next)
            BY <1>a, <2>5 DEF MoveFails, At, Idle
        <3>2. Without(proc[p].next) /\ attic[p].dirs = {} /\ proc[p].next \in Seq(PartNames)
            BY <1>a, <3>1 DEF LastOK, Carried
        <3> QED BY <3>1, <3>2, WithoutParts DEF LastOK
    <2>6. CASE MoveBack(p)
        <3>1. /\ proc[p].pc = "moveback" /\ proc[p].todo # <<>> /\ attic' = attic
              /\ proc'[p].pc = "moveback" /\ proc'[p].todo = Tail(proc[p].todo)
            BY <1>a, <2>6 DEF MoveBack, At, Idle
        <3>2. Without(proc[p].todo) /\ attic[p].dirs = {} /\ proc[p].todo \in Seq(PartNames)
            BY <1>a, <3>1 DEF LastOK, Carried
        <3>3. Without(Tail(proc[p].todo))
            BY <3>1, <3>2, WithoutParts
        <3> QED BY <3>1, <3>2, <3>3 DEF LastOK
    <2>7. CASE Deactivate(p)
        <3>1. /\ proc[p].pc = "deactivate" /\ attic' = attic /\ proc'[p].next = <<>>
              /\ proc'[p].pc = "archiving" \/ (proc'[p].pc = "restore" /\ proc'[p].todo = <<>>)
            BY <1>a, <2>7 DEF Deactivate, At, Idle
        <3>2. attic[p].dirs = {} /\ Without(<<>>)
            BY <1>a, <3>1 DEF LastOK, Without
        <3> QED BY <3>1, <3>2 DEF LastOK
    <2>8. CASE ArchiveEntry(p)
        <3> DEFINE entry == FirstEntry(proc[p].todo)
        <3>1. /\ proc[p].todo \in SUBSET EntryNames /\ proc[p].next \in Seq(EntryNames) /\ entry \in proc[p].todo
              /\ proc'[p].todo = proc[p].todo \ {entry} /\ proc'[p].next = <<entry>> \o proc[p].next
              /\ proc[p].pc = "archiving" /\ proc'[p].pc = "archiving" /\ proc[p].todo # {}
              /\ entry # "dirs" => attic'[p].dirs = attic[p].dirs
            BY <2>8, EntryArchived
        <3>2. Without(proc[p].next) /\ attic[p].dirs = {}
            BY <1>a, <3>1 DEF LastOK
        <3>3. CASE entry = "dirs"
            <4>1. proc'[p].todo = {}
                BY <3>1, <3>3, DirsComeLast
            <4> QED BY <3>1, <4>1 DEF LastOK
        <3>4. CASE entry # "dirs"
            <4>1. Without(<<entry>> \o proc[p].next)
                BY <3>1, <3>2, <3>4, WithoutParts
            <4> HIDE DEF entry
            <4> QED BY <3>1, <3>2, <3>4, <4>1 DEF LastOK
        <3> QED BY <3>3, <3>4
    <2>9. CASE ArchiveFails(p)
        <3>1. /\ proc[p].pc = "archiving" /\ proc[p].todo # {} /\ attic' = attic
              /\ proc'[p].pc = "restore" /\ proc'[p].todo = Reverse(proc[p].next)
            BY <1>a, <2>9 DEF ArchiveFails, At, Idle
        <3>2. Without(proc[p].next) /\ attic[p].dirs = {} /\ proc[p].next \in Seq(EntryNames)
            BY <1>a, <3>1 DEF LastOK, Carried
        <3> QED BY <3>1, <3>2, WithoutParts DEF LastOK
    <2>10. CASE Restore(p)
        <3>1. /\ proc[p].pc = "restore" /\ proc[p].todo # <<>>
              /\ proc'[p].pc = "restore" /\ proc'[p].todo = Tail(proc[p].todo)
            BY <1>a, <2>10 DEF Restore, At, Idle
        <3>2. Without(proc[p].todo) /\ attic[p].dirs = {} /\ proc[p].todo \in Seq(EntryNames)
            BY <1>a, <3>1 DEF LastOK, Carried
        <3>3. Head(proc[p].todo) # "dirs" /\ Without(Tail(proc[p].todo))
            BY <3>1, <3>2, WithoutParts
        <3>4. attic'[p].dirs = {}
            BY <2>10, <3>2, <3>3, EntryRestored
        <3> QED BY <3>1, <3>3, <3>4 DEF LastOK
    <2> QED BY <1>2, <2>1, <2>2, <2>3, <2>4, <2>5, <2>6, <2>7, <2>8, <2>9, <2>10 DEF WsCommand
<1> QED BY <1>1, <1>2 DEF Advance, Plain

\* Directories lie in directories that exist.
LEMMA MadeStep ==
    ASSUME TypeInv, MadeInv, LastInv, NEW p \in Procs, Advance(p), NEW v \in Places, tree'[v].dirs # {}
    PROVE  v \in made'
<1>a. /\ LastOK(p, proc[p], attic[p]) /\ DOMAIN proc = Procs /\ DOMAIN proc[p] = DOMAIN Idle
      /\ Carried(p, proc[p]) /\ proc[p].at \in Places /\ Flat \in made
      /\ tree[v].dirs # {} => v \in made
    BY Facts DEF LastInv, MadeInv, TypeInv, FilesOK, RootOK
<1>b. tree \in [Places -> Trees] /\ Root \notin Places
    BY PlacesAssumption DEF TypeInv, FilesOK, TreesOK
<1>c. made \subseteq made' \/ Abandon(p) \/ Archived(p)
    BY PlainTurns, WorkstreamTurns DEF Advance, Plain
<1>1. CASE Abandon(p)
    <2>1. proc[p].cmd.into \in Places
        BY <1>1, WorkstreamFacts DEF Abandon, At, Migrating
    <2>2. /\ tree' = [tree EXCEPT ![proc[p].cmd.into] = NoTree]
          /\ made \ {proc[p].cmd.into, Root} \subseteq made'
        BY <1>1 DEF Abandon
    <2>3. v # proc[p].cmd.into
        BY <1>b, <2>1, <2>2 DEF NoTree
    <2>4. tree'[v] = tree[v]
        BY <1>b, <2>2, <2>3
    <2> QED BY <1>a, <1>b, <2>2, <2>3, <2>4
<1>2. CASE Archived(p)
    <2>1. /\ tree' = tree
          /\ \/ made \ {Root} \subseteq made'
             \/ tree[proc[p].cmd.name] = NoTree /\ made \ {proc[p].cmd.name, Root} \subseteq made'
        BY <1>2 DEF Archived
    <2>2. tree[proc[p].cmd.name] = NoTree => v # proc[p].cmd.name
        BY <2>1 DEF NoTree
    <2> QED BY <1>a, <1>b, <2>1, <2>2
<1>3. CASE made \subseteq made' /\ tree'[v].dirs = tree[v].dirs
    BY <1>a, <1>3
<1>4. CASE MakeDirectory(p) /\ v = proc[p].at
    BY <1>4 DEF MakeDirectory, Ancestors
<1>5. CASE Shelve(p) \/ DeleteDirectory(p) \/ RenameNext(p) \/ ClearNext(p)
    <2>1. \/ tree' = tree
          \/ \E x : /\ tree[proc[p].at].dirs = {} => x = {}
                    /\ tree' = [tree EXCEPT ![proc[p].at].dirs = x]
        BY <1>5 DEF Shelve, DeleteDirectory, RenameNext, ClearNext, Here
    <2>2. made' = made
        BY <1>5 DEF Shelve, DeleteDirectory, RenameNext, ClearNext
    <2>3. ASSUME NEW x, tree[proc[p].at].dirs = {} => x = {}, tree' = [tree EXCEPT ![proc[p].at].dirs = x]
          PROVE  tree[v].dirs # {}
        <3>1. tree'[proc[p].at].dirs = x /\ (v # proc[p].at => tree'[v].dirs = tree[v].dirs)
            BY <1>a, <2>3, OneFile
        <3> QED BY <2>3, <3>1
    <2> QED BY <1>a, <2>1, <2>2, <2>3
<1>6. CASE MovePart(p)
    <2>1. made' = made
        BY <1>6 DEF MovePart
    <2> QED BY <1>a, <1>6, <2>1, PartMoved
<1>7. CASE MoveBack(p)
    <2>1. made' = made /\ proc[p].pc = "moveback" /\ proc[p].todo # <<>>
        BY <1>7 DEF MoveBack, At
    <2>2. Head(proc[p].todo) # "dirs"
        BY <1>a, <2>1, WithoutParts DEF LastOK, Carried
    <2> QED BY <1>a, <1>7, <2>1, <2>2, PartMovedBack
<1>8. CASE ArchiveEntry(p)
    <2>1. made' = made
        BY <1>8 DEF ArchiveEntry
    <2>2. proc[p].cmd.name \in Places
        BY <1>8, WorkstreamFacts DEF ArchiveEntry, At, Archiving
    <2>3. tree'[v].dirs = tree[v].dirs \/ tree'[v].dirs = {}
        BY <1>8, EntryArchived
    <2> QED BY <1>a, <2>1, <2>3
<1>9. CASE Restore(p)
    <2>1. made' = made /\ proc[p].pc = "restore" /\ proc[p].todo # <<>>
        BY <1>9 DEF Restore, At
    <2>2. Head(proc[p].todo) # "dirs"
        BY <1>a, <2>1, WithoutParts DEF LastOK, Carried
    <2> QED BY <1>a, <1>9, <2>1, <2>2, EntryRestored
<1> QED BY <1>c, <1>1, <1>2, <1>3, <1>4, <1>5, <1>6, <1>7, <1>8, <1>9, DirsChange DEF Handles

\* What ran before has run, and a process that creates did so before.
LEMMA GuardedBefore ==
    ASSUME TypeInv, Unbegun, NEW p \in Procs, Advance(p)
    PROVE  /\ Guarded' => Guarded
           /\ \A ops : Ran(ops) => Ran(ops)'
<1>1. \A q \in Procs : proc[q].cmd # None => proc'[q].cmd = proc[q].cmd
    <2>1. ASSUME NEW q \in Procs, proc[q].cmd # None
          PROVE  proc'[q].cmd = proc[q].cmd
        <3>1. CASE q = p
            <4>1. ~At(p, "idle")
                BY <2>1, <3>1 DEF Unbegun
            <4> QED BY <3>1, <4>1, AdvanceOnward DEF Onward
        <3>2. CASE q # p
            BY <3>2, OthersStay DEF Advance, TypeInv
        <3> QED BY <3>1, <3>2
    <2> QED BY <2>1
<1>2. \A ops : Ran(ops) => Ran(ops)'
    BY <1>1 DEF Ran, Op
<1>3. OneCreates' => OneCreates
    BY <1>1 DEF OneCreates, Creating, Op
<1> QED BY <1>2, <1>3 DEF Guarded

LEMMA AloneStep ==
    ASSUME TypeInv, TypeInv', Unbegun, AloneInv, NEW p \in Procs, Advance(p)
    PROVE  AloneInv'
<1>a. Guarded' => Guarded /\ \A ops : Ran(ops) => Ran(ops)'
    BY GuardedBefore
<1>b. \A q \in Procs \ {p} : proc'[q] = proc[q]
    BY OthersStay DEF Advance, TypeInv
<1>1. SUFFICES ASSUME Guarded'
               PROVE  \A q, r \in Procs : /\ Migrates(q)' /\ Migrates(r)' => q = r
                                          /\ Migrates(q)' /\ ~Ran({"ws-complete"})' => Root \in made'
    BY DEF AloneInv
<1>2. \A q, r \in Procs : /\ Migrates(q) /\ Migrates(r) => q = r
                          /\ Migrates(q) /\ ~Ran({"ws-complete"}) => Root \in made
    BY <1>1, <1>a DEF AloneInv
<1>c. \A q \in Procs : Migrates(q)' => Op(q)' = "ws-create" /\ proc'[q].cmd # None
    <2>1. \A q \in Procs : Migrates(q)' => Op(q)' = "ws-create" /\ proc'[q].cmd \in Menu[q]
        BY DEF Migrates, At, TypeInv, LockInv, Types, ProcOK, OneOK, Working, Migrating
    <2> QED BY <2>1, MenuAssumption
\* After a completion only one process creates.
<1>3. CASE Ran({"ws-complete"})'
    <2>1. OneCreates'
        BY <1>1, <1>3 DEF Guarded
    <2> QED BY <1>3, <1>c, <2>1 DEF OneCreates, Creating
<1>4. CASE ~Ran({"ws-complete"})'
    <2>1. ~Ran({"ws-complete"})
        BY <1>4, GuardedBefore
    <2>2. Migrates(p)' => Migrates(p) \/ (MigrateBegins(p) /\ ~RootExists)
        <3>1. CASE Plain(p)
            BY <3>1, PlainTurns DEF Migrates, At, Underway
        <3>2. CASE WsCommand(p)
            <4>1. Migrates(p)' => MovePart(p) \/ MoveFails(p) \/ MoveBack(p) \/ (MigrateBegins(p) /\ ~RootExists)
                BY <3>2, WorkstreamTurns DEF Migrates, At
            <4> QED BY <4>1 DEF MovePart, MoveFails, MoveBack, Migrates
        <3> QED BY <3>1, <3>2 DEF Advance, Plain
    <2>3. \A q \in Procs \ {p} : Migrates(q)' = Migrates(q)
        BY <1>b DEF Migrates, At
    <2>4. CASE MigrateBegins(p) /\ ~RootExists
        <3>1. \A q \in Procs : ~Migrates(q)
            BY <1>2, <2>1, <2>4 DEF RootExists
        <3>2. Root \in made'
            BY <2>4 DEF MigrateBegins
        <3> QED BY <2>3, <3>1, <3>2
    <2>5. CASE ~(MigrateBegins(p) /\ ~RootExists)
        <3>1. \A q \in Procs : Migrates(q)' => Migrates(q)
            BY <2>2, <2>3, <2>5
        <3>2. ASSUME NEW q \in Procs, Migrates(q)'
              PROVE  Root \in made'
            <4>1. Root \in made
                BY <1>2, <2>1, <3>1, <3>2
            <4>2. CASE made \subseteq made'
                BY <4>1, <4>2
            <4>3. CASE Abandon(p)
                <5>1. Migrates(p)
                    BY <4>3 DEF Abandon, Migrates
                <5>2. ~Migrates(p)'
                    BY <4>3, FinishOnward DEF Abandon, Migrates, At
                <5> QED BY <1>2, <3>1, <3>2, <5>1, <5>2
            <4>4. CASE Archived(p)
                <5>1. proc[p].pc \in Archiving /\ Working(p)
                    BY <4>4 DEF Archived, At, Archiving, Working
                <5>2. Ran({"ws-complete"})
                    BY <5>1, WorkstreamFacts, RunsIts
                <5> QED BY <2>1, <5>2
            <4> QED BY <4>2, <4>3, <4>4, PlainTurns, WorkstreamTurns DEF Advance, Plain
        <3> QED BY <1>2, <3>1, <3>2
    <2> QED BY <2>4, <2>5
<1> QED BY <1>3, <1>4

\* A destination is doomed when a migration begins, and is then a new directory.
LEMMA DoomedBefore ==
    ASSUME TypeInv, MadeInv, NEW p \in Procs, Advance(p), NEW v \in Places, Doomed(v)', tree[v].dirs # {}
    PROVE  Doomed(v)
<1>1. PICK q \in Procs : Undecided(q)' /\ proc'[q].cmd.into = v
    BY DEF Doomed
<1>2. CASE q # p
    <2>1. proc'[q] = proc[q]
        BY <1>2, OthersStay DEF Advance, TypeInv
    <2> QED BY <1>1, <2>1 DEF Doomed, Undecided, At
<1>3. CASE q = p
    <2>1. WsCommand(p)
        BY <1>1, <1>3, PlainTurns DEF Undecided, At, Underway, Advance, Plain
    <2>2. proc'[p].cmd = proc[p].cmd
        BY <2>1, AdvanceOnward DEF Onward, At, WsCommand, MigrateBegins, MovePart, Moved, MoveFails, MoveBack, Abandon,
           OpenWorkstream, Activate, Deactivate, ArchiveEntry, ArchiveFails, Restore, Restored, Archived
    <2>3. MovePart(p) \/ MoveFails(p) \/ MoveBack(p) \/ (MigrateBegins(p) /\ ~RootExists)
        BY <1>1, <1>3, <2>1, WorkstreamTurns DEF Undecided, At
    <2>4. CASE MigrateBegins(p) /\ ~RootExists
        <3>1. proc[p].cmd.into \in Names
            BY <2>4, WorkstreamFacts DEF MigrateBegins, At, Migrating
        <3>2. v \notin made
            BY <1>1, <1>3, <2>2, <2>4, <3>1 DEF RootExists, TypeInv, FilesOK, RootOK
        <3> QED BY <3>2 DEF MadeInv
    <2>5. CASE MovePart(p) \/ MoveFails(p) \/ MoveBack(p)
        <3>1. Undecided(p)
            BY <2>5 DEF MovePart, MoveFails, MoveBack, Undecided
        <3> QED BY <1>1, <1>3, <2>2, <3>1 DEF Doomed
    <2> QED BY <2>3, <2>4, <2>5
<1> QED BY <1>2, <1>3

\* Whatever is stored stays stored.
LEMMA StoredStep ==
    ASSUME TypeInv, TypeInv', DirsInv, AloneInv', Guarded', ~Ran({"remove", "clear"})',
           Unbegun, NEW p \in Procs, Advance(p), NEW name, Stored(name)
    PROVE  Stored(name)'
<1>a. /\ LastOK(p, proc[p], attic[p]) /\ Carried(p, proc[p]) /\ proc[p].at \in Places /\ Flat \in Places
      /\ MadeInv /\ LastInv
    BY Facts DEF DirsInv, LastInv, Places
<1>b. \A v \in Places : Doomed(v)' /\ tree[v].dirs # {} => Doomed(v)
    BY <1>a, DoomedBefore
<1>c. \A dirs : name \in Named(dirs) => dirs # {}
    BY DEF Named
<1>d. \A few, many : few \subseteq many => Named(few) \subseteq Named(many)
    BY DEF Named
<1>1. CASE \E v \in Places : name \in Named(shelf.dirs[v])
    BY <1>1, <1>d, ShelfGrows DEF Stored
<1>2. ASSUME NEW q \in Procs, name \in Named(attic[q].dirs)
      PROVE  Stored(name)'
    <2>1. SUFFICES attic'[q].dirs = attic[q].dirs
        BY <1>2 DEF Stored
    <2>2. CASE q # p
        BY <2>2, AtticsApart
    <2>3. CASE q = p
        <3>1. (proc[p].pc = "archiving" /\ proc[p].todo = {}) \/ proc[p].pc \in {"done", "killed"}
            BY <1>2, <1>a, <1>c, <2>3 DEF LastOK
        <3>2. ~(ArchiveEntry(p) \/ Restore(p) \/ Restored(p))
            BY <3>1 DEF ArchiveEntry, Restore, Restored, At
        <3>3. attic' = attic
            BY <3>2, PlainTurns, WorkstreamTurns DEF Advance, Plain
        <3> QED BY <3>3
    <2> QED BY <2>2, <2>3
<1>3. ASSUME NEW v \in Places, ~Doomed(v), name \in Named(tree[v].dirs)
      PROVE  Stored(name)'
    <2>a. tree[v].dirs # {} /\ ~Doomed(v)'
        BY <1>3, <1>b, <1>c
    <2>1. CASE tree[v].dirs \subseteq tree'[v].dirs
        BY <1>3, <1>d, <2>1, <2>a DEF Stored
    <2>2. CASE MakeDirectory(p) /\ v = proc[p].at
        <3>1. \E x : tree' = [tree EXCEPT ![v].dirs = tree[v].dirs \cup x]
            BY <2>2 DEF MakeDirectory
        <3> QED BY <2>1, <3>1, OneFile
    <2>3. CASE Shelve(p)
        <3>1. PICK same \in SUBSET Here(p).dirs :
                \/ tree' = tree
                \/ /\ tree' = [tree EXCEPT ![proc[p].at].dirs = Here(p).dirs \ same]
                   /\ shelf' = [shelf EXCEPT !.dirs[proc[p].at] = @ \cup same]
            BY <2>3 DEF Shelve, Here
        <3>2. CASE tree' = tree
            BY <2>1, <3>2
        <3>3. CASE /\ tree' = [tree EXCEPT ![proc[p].at].dirs = Here(p).dirs \ same]
                   /\ shelf' = [shelf EXCEPT !.dirs[proc[p].at] = @ \cup same]
            <4>1. /\ tree'[proc[p].at].dirs = Here(p).dirs \ same
                  /\ v # proc[p].at => tree'[v].dirs = tree[v].dirs
                BY <1>a, <3>3, OneFile
            <4>2. shelf'.dirs[proc[p].at] = shelf.dirs[proc[p].at] \cup same
                BY <1>a, <3>3 DEF TypeInv, FilesOK, ShelfOK
            <4>3. CASE v = proc[p].at
                <5>1. name \in Named(tree'[v].dirs) \/ name \in Named(shelf'.dirs[v])
                    BY <1>3, <4>1, <4>2, <4>3 DEF Named, Here
                <5> QED BY <2>a, <5>1 DEF Stored
            <4> QED BY <2>1, <4>1, <4>3
        <3> QED BY <3>1, <3>2, <3>3
    <2>4. CASE DeleteDirectory(p) \/ RenameNext(p) \/ ClearNext(p)
        <3>1. Working(p) /\ Op(p) \in {"remove", "clear"}
            BY <1>a, <2>4 DEF DeleteDirectory, RenameNext, ClearNext, At, Working, Op, Carried
        <3>2. Ran({"remove", "clear"})'
            BY <3>1, RunsIts, GuardedBefore
        <3> QED BY <3>2
    <2>5. CASE MovePart(p)
        <3>a. PICK into \in Places : into = proc[p].cmd.into
            BY <2>5, WorkstreamFacts DEF MovePart, At, Migrating
        <3>1. /\ proc[p].todo \in Seq(PartNames) /\ proc[p].pc = "moving" /\ proc'[p].pc = "moving"
              /\ proc[p].todo # <<>> /\ proc'[p].todo = Tail(proc[p].todo)
            BY <2>5, PartMoved
        <3>2. CASE tree'[v].dirs = tree[v].dirs
            BY <2>1, <3>2
        <3>3. CASE tree'[v].dirs # tree[v].dirs
            <4>1. /\ Head(proc[p].todo) = "dirs" /\ tree[into].dirs = {}
                  /\ tree'[into].dirs = tree[Flat].dirs
                  /\ \A u \in Places \ {Flat, into} : tree'[u].dirs = tree[u].dirs
                BY <2>5, <3>a, <3>3, PartMoved
            <4>2. v = Flat
                BY <2>a, <3>3, <4>1
            <4>3. proc'[p].todo = <<>>
                BY <1>a, <3>1, <4>1, EndmostTail DEF LastOK
            <4>4. \A q \in Procs : Undecided(q)' => q = p
                BY <3>1 DEF AloneInv, Migrates, Undecided, At
            <4>5. ~Doomed(into)'
                BY <3>1, <4>3, <4>4 DEF Doomed, Undecided, At
            <4>7. name \in Named(tree'[into].dirs)
                BY <1>3, <4>1, <4>2
            <4> QED BY <4>5, <4>7 DEF Stored
        <3> QED BY <3>2, <3>3
    <2>6. CASE MoveBack(p)
        <3>1. proc[p].pc = "moveback" /\ proc[p].todo # <<>>
            BY <2>6 DEF MoveBack, At
        <3>2. Head(proc[p].todo) # "dirs"
            BY <1>a, <3>1, WithoutParts DEF LastOK, Carried
        <3> QED BY <2>1, <2>6, <3>2, PartMovedBack
    <2>7. CASE Abandon(p)
        <3>1. v # proc[p].cmd.into
            BY <1>3, <2>7 DEF Abandon, Doomed, Undecided
        <3>2. tree'[v] = tree[v]
            BY <2>7, <3>1 DEF Abandon, TypeInv, FilesOK, TreesOK
        <3> QED BY <2>1, <3>2
    <2>8. CASE ArchiveEntry(p)
        <3>1. tree'[v].dirs = tree[v].dirs \/ attic'[p].dirs = tree[v].dirs
            BY <2>8, EntryArchived
        <3>2. CASE attic'[p].dirs = tree[v].dirs
            BY <1>3, <3>2 DEF Stored
        <3> QED BY <2>1, <3>1, <3>2
    <2>9. CASE Restore(p)
        <3>1. proc[p].pc = "restore" /\ proc[p].todo # <<>>
            BY <2>9 DEF Restore, At
        <3>2. Head(proc[p].todo) # "dirs"
            BY <1>a, <3>1, WithoutParts DEF LastOK, Carried
        <3> QED BY <2>1, <2>9, <3>2, EntryRestored
    <2> QED BY <2>1, <2>2, <2>3, <2>4, <2>5, <2>6, <2>7, <2>8, <2>9, DirsChange DEF Handles
<1> QED BY <1>1, <1>2, <1>3 DEF Stored

LEMMA NamesOfMarks ==
    ASSUME NEW dirs, NEW others, Marks(dirs) = Marks(others)
    PROVE  Named(dirs) = Named(others) /\ (dirs # {} => others # {})
<1>1. \A d \in dirs : \E e \in others : e.name = d.name
    <2>1. \A d \in dirs : <<d.id, d.name>> \in Marks(others)
        BY DEF Marks
    <2>2. \A label \in Marks(others) : \E e \in others : e.name = label[2]
        BY DEF Marks
    <2> QED BY <2>1, <2>2
<1>2. \A e \in others : \E d \in dirs : d.name = e.name
    <2>1. \A e \in others : <<e.id, e.name>> \in Marks(dirs)
        BY DEF Marks
    <2>2. \A label \in Marks(dirs) : \E d \in dirs : d.name = label[2]
        BY DEF Marks
    <2> QED BY <2>1, <2>2
<1> QED BY <1>1, <1>2 DEF Named

LEMMA DirsInvKept ==
    TypeInv /\ Unbegun /\ DirsInv /\ [WsNext]_wsvars => DirsInv'
<1> SUFFICES ASSUME TypeInv, Unbegun, DirsInv, [WsNext]_wsvars
             PROVE  DirsInv'
    OBVIOUS
<1>a. TypeInv' /\ MadeInv /\ LastInv /\ AloneInv /\ StoredInv
    BY TypeInvKept DEF DirsInv
<1>1. ASSUME NEW p \in Procs, Advance(p)
      PROVE  DirsInv'
    <2>1. MadeInv'
        BY <1>1, <1>a, MadeStep DEF MadeInv
    <2>2. LastInv'
        <3>1. LastOK(p, proc'[p], attic'[p])
            BY <1>1, <1>a, LastStep
        <3>2. ASSUME NEW q \in Procs, q # p
              PROVE  LastOK(q, proc'[q], attic'[q])
            <4>1. proc'[q] = proc[q] /\ attic'[q] = attic[q]
                BY <1>1, <3>2, OthersStay, AtticsApart DEF Advance, TypeInv
            <4> QED BY <1>a, <4>1 DEF LastInv
        <3>3. \A q \in Procs : LastOK(q, proc[q], attic[q])'
            BY <3>1, <3>2 DEF LastOK, Endmost, Without
        <3> QED BY <3>3 DEF LastInv
    <2>3. AloneInv'
        BY <1>1, <1>a, AloneStep
    <2>4. StoredInv'
        <3>1. SUFFICES ASSUME Guarded', ~Ran({"remove", "clear"})'
                       PROVE  \E start \in Starts : \A d \in start.tree.dirs : Stored(d.name)'
            BY DEF StoredInv
        <3>2. Guarded /\ ~Ran({"remove", "clear"})
            BY <1>1, <3>1, GuardedBefore
        <3>3. PICK start \in Starts : \A d \in start.tree.dirs : Stored(d.name)
            BY <1>a, <3>2 DEF StoredInv
        <3>4. \A name : Stored(name) => Stored(name)'
            BY <1>1, <1>a, <2>3, <3>1, StoredStep
        <3> QED BY <3>3, <3>4
    <2> QED BY <2>1, <2>2, <2>3, <2>4 DEF DirsInv
<1>2. ASSUME proc' = proc, attic' = attic, shelf' = shelf, made' = made,
             \A v \in Places : Marks(tree'[v].dirs) = Marks(tree[v].dirs)
      PROVE  DirsInv'
    <2>1. \A v \in Places : Named(tree'[v].dirs) = Named(tree[v].dirs) /\ (tree'[v].dirs # {} => tree[v].dirs # {})
        <3>2. ASSUME NEW v \in Places
              PROVE  Named(tree'[v].dirs) = Named(tree[v].dirs) /\ (tree'[v].dirs # {} => tree[v].dirs # {})
            <4>1. Marks(tree'[v].dirs) = Marks(tree[v].dirs)
                BY <1>2
            <4> QED BY <4>1, NamesOfMarks
        <3> QED BY <3>2
    <2>2. MadeInv'
        BY <1>2, <1>a, <2>1 DEF MadeInv
    <2>3. LastInv'
        BY <1>2, <1>a DEF LastInv, LastOK, Endmost, Without
    <2>4. /\ Guarded' = Guarded /\ \A ops : Ran(ops)' = Ran(ops)
          /\ \A q \in Procs : Migrates(q)' = Migrates(q) /\ Undecided(q)' = Undecided(q)
        BY <1>2 DEF Guarded, OneCreates, Creating, Ran, Op, Migrates, Undecided, At
    <2>5. AloneInv'
        BY <1>2, <1>a, <2>4 DEF AloneInv
    <2>6. \A v : Doomed(v)' = Doomed(v)
        BY <1>2, <2>4 DEF Doomed
    <2>7. \A name : Stored(name)' = Stored(name)
        BY <1>2, <2>1, <2>6 DEF Stored
    <2>8. StoredInv'
        BY <1>a, <2>4, <2>7 DEF StoredInv
    <2> QED BY <2>2, <2>3, <2>5, <2>8 DEF DirsInv
<1>3. ASSUME NEW at \in Places, Work(at) \/ Age(at), attic' = attic
      PROVE  DirsInv'
    <2>1. \A v \in Places : Marks(tree'[v].dirs) = Marks(tree[v].dirs)
        BY <1>3, WorkLeaves DEF Age
    <2> QED BY <1>2, <1>3, <2>1 DEF Work, Age
<1>4. CASE UNCHANGED wsvars
    BY <1>2, <1>4 DEF wsvars, vars
<1> QED BY <1>1, <1>3, <1>4 DEF WsNext, PhaseNext, Surroundings, Rest, Advance

LEMMA DirsInvInit == WsInit => DirsInv
<1> SUFFICES ASSUME WsInit
             PROVE  DirsInv
    OBVIOUS
<1>1. PICK start \in Starts :
        /\ proc = [p \in Procs |-> IF p = start.dead THEN [Idle EXCEPT !.pc = "killed"] ELSE Idle]
        /\ tree = [at \in Places |-> IF at = start.at THEN start.tree ELSE NoTree]
        /\ made = {Flat} \cup Ancestors(start.at)
    BY DEF WsInit, Init
<1>2. \A p \in Procs : proc[p].pc \in {"idle", "killed"} /\ attic[p].dirs = {}
    BY <1>1 DEF WsInit, Idle, NoAttic
<1>3. start.at \in Places /\ start.at \in made
    BY <1>1, StartsAssumption DEF Ancestors
<1>4. MadeInv
    BY <1>1, <1>3 DEF MadeInv, NoTree
<1>5. LastInv
    BY <1>2 DEF LastInv, LastOK
<1>6. AloneInv
    BY <1>2 DEF AloneInv, Migrates, At
<1>7. StoredInv
    <2>1. ~Doomed(start.at)
        BY <1>2 DEF Doomed, Undecided, At
    <2>2. \A d \in start.tree.dirs : d.name \in Named(tree[start.at].dirs)
        BY <1>1, <1>3 DEF Named
    <2> QED BY <1>3, <2>1, <2>2 DEF StoredInv, Stored
<1> QED BY <1>4, <1>5, <1>6, <1>7 DEF DirsInv

\* No command but remove and clear loses a directory of a phase: from the start on each
\* is in a planning directory, in the milestone archive or with an archived workstream,
\* however many renames fail, wherever processes are killed and whatever locks are stolen.
\* A failed migration deletes its destination, but phases/ is moved last, so it is not
\* there yet (workstream.cjs, migrateToWorkstreams and cmdWorkstreamCreate).  Two
\* migrations at once are possible when a completion removes workstreams/ under the
\* first; the first may then delete what the second moved, so they are excluded.
\* It holds for every set of starts, so also for each start alone.
THEOREM DirectoriesStay == WsSpec => []((Ran({"ws-complete"}) => OneCreates) => DirsConserved)
<1>1. WsInit => TypeInv /\ Unbegun /\ DirsInv
    BY TypeInvInit, UnbegunInit, DirsInvInit
<1>2. TypeInv /\ Unbegun /\ DirsInv /\ [WsNext]_wsvars => (TypeInv /\ Unbegun /\ DirsInv)'
    BY TypeInvKept, UnbegunKept, DirsInvKept
<1>3. DirsInv => ((Ran({"ws-complete"}) => OneCreates) => DirsConserved)
    <2> SUFFICES ASSUME DirsInv, Guarded, ~Ran({"remove", "clear"})
                 PROVE  \E start \in Starts :
                          Named(start.tree.dirs) \subseteq
                              UNION ({Named(tree[at].dirs) : at \in Places} \cup {Named(shelf.dirs[at]) : at \in Places}
                                     \cup {Named(attic[p].dirs) : p \in Procs})
        BY DEF DirsConserved, Guarded
    <2>1. PICK start \in Starts : \A d \in start.tree.dirs : Stored(d.name)
        BY DEF DirsInv, StoredInv
    <2>2. ASSUME NEW name, Stored(name)
          PROVE  name \in UNION ({Named(tree[at].dirs) : at \in Places} \cup {Named(shelf.dirs[at]) : at \in Places}
                                 \cup {Named(attic[p].dirs) : p \in Procs})
        BY <2>2 DEF Stored
    <2>3. \A name \in Named(start.tree.dirs) : Stored(name)
        BY <2>1 DEF Named
    <2> QED BY <2>2, <2>3
<1> QED BY <1>1, <1>2, <1>3, PTL DEF WsSpec

-----------------------------------------------------------------------------
(* A process that works alone leaves the project in one piece. *)

\* What a tree or an archive holds of a part; of phases/ the names matter.
Content(x, part) == IF part = "dirs" THEN Named(x.dirs) ELSE x[part]
Bare(x, part) == Content(x, part) = Content(NoTree, part)
Has(x, start, part) == Content(x, part) = Content(start.tree, part)
Whole(x, start) == \A part \in PartNames : Has(x, start, part)

Among(part, parts) == \E k \in DOMAIN parts : parts[k] = part
Once(parts) == \A i, j \in DOMAIN parts : parts[i] = parts[j] => i = j

\* Nothing but the start has happened to the files.
Untouched(start) ==
    \A at \in Places : \A part \in PartNames :
        Content(tree[at], part) = Content(IF at = start.at THEN start.tree ELSE NoTree, part)
\* No rename can fail any more.
Spent == faults >= MaxFaults

\* A migration: each part is here and not there; what is back cannot be lost.
Only(here, there, start, part) == Has(tree[here], start, part) /\ Bare(tree[there], part)
MovingOK(into, todo, next, start) ==
    /\ into \in made
    /\ \A part \in PartNames :
        \/ Only(Flat, into, start, part) /\ (Among(part, todo) \/ Only(into, Flat, start, part))
        \/ Only(into, Flat, start, part) /\ Among(part, next)
MovingBackOK(into, todo, start) ==
    /\ Spent
    /\ \A part \in PartNames :
        Only(Flat, into, start, part) \/ (Only(into, Flat, start, part) /\ Among(part, todo))

\* An archiving: the project is elsewhere, or each part is in the directory or the archive.
Elsewhere(name, start) == \E at \in Places \ {name} : Whole(tree[at], start)
ArchivingOK(name, todo, next, archive, start) ==
    \/ Elsewhere(name, start)
    \/ /\ name \in made /\ Once(next)
       /\ \A entry \in todo : Holds(name, entry) /\ ~Among(entry, next)
       /\ \A part \in PartNames :
            IF part \in todo THEN Has(tree[name], start, part)
            ELSE Has(archive, start, part) /\ (Among(part, next) \/ Has(tree[name], start, part))
RestoringOK(name, todo, archive, start) ==
    \/ Elsewhere(name, start)
    \/ /\ todo # <<>> => name \in made /\ Spent
       /\ Once(todo)
       /\ \A part \in PartNames :
            IF Among(part, todo) THEN Has(archive, start, part) ELSE Has(tree[name], start, part)

\* Where the project lies before the new workstream is opened.
Settling(p, start) == \E at \in {start.at, proc[p].cmd.into} \cap Places : Whole(tree[at], start)
WholeOK(p, start) ==
    /\ proc[p].pc \in {"idle", "migrate", "deactivate"} => Untouched(start)
    /\ proc[p].pc \in {"idle", "deactivate"} => attic[p] = NoAttic
    /\ At(p, "migrate") => start.at = Flat
    /\ At(p, "moving") => MovingOK(proc[p].cmd.into, proc[p].todo, proc[p].next, start)
    /\ At(p, "moveback") => MovingBackOK(proc[p].cmd.into, proc[p].todo, start)
    /\ At(p, "archiving") => ArchivingOK(proc[p].cmd.name, proc[p].todo, proc[p].next, attic[p], start)
    /\ At(p, "restore") => RestoringOK(proc[p].cmd.name, proc[p].todo, attic[p], start)
    /\ At(p, "open") => Settling(p, start)
    /\ At(p, "activate") \/ (At(p, "done") /\ Op(p) \in {"ws-create", "ws-complete"}) =>
         (\E at \in Places : Whole(tree[at], start)) \/ Whole(attic[p], start)

\* One failing rename at most; a new workstream gets a STATE.md of its own.
OneFault == MaxFaults <= 1
OwnState ==
    \A start \in Starts : start.tree.state # None \/
        \A p \in Procs : \A c \in Menu[p] : c.op = "ws-create" => c.name \notin {c.into, start.at}
WholeInv ==
    /\ faults \in Nat
    /\ OneFault /\ OwnState => \E start \in Starts : \A p \in Procs : Alone(p) => WholeOK(p, start)

(* Sequences of parts. *)

LEMMA AmongParts ==
    ASSUME NEW T, NEW s \in Seq(T)
    PROVE  /\ s # <<>> => \A x : Among(x, s) <=> x = Head(s) \/ Among(x, Tail(s))
           /\ \A e \in T : \A x : Among(x, <<e>> \o s) <=> x = e \/ Among(x, s)
           /\ \A x : Among(x, Reverse(s)) <=> Among(x, s)
           /\ s = <<>> => \A x : ~Among(x, s)
<1>1. DOMAIN s = 1..Len(s) /\ Len(s) \in Nat
    OBVIOUS
<1>2. ASSUME s # <<>>, NEW x
      PROVE  Among(x, s) <=> x = Head(s) \/ Among(x, Tail(s))
    <2> DEFINE n == Len(s)
    <2>1. /\ n \in Nat \ {0} /\ Head(s) = s[1] /\ DOMAIN Tail(s) = 1..n - 1
          /\ \A k \in 1..n - 1 : Tail(s)[k] = s[k + 1]
        BY <1>2, HeadTailProperties, EmptySeq
    <2>2. /\ \A k \in 1..n : k = 1 \/ (k - 1 \in 1..n - 1 /\ (k - 1) + 1 = k)
          /\ \A k \in 1..n - 1 : k + 1 \in 1..n
          /\ 1 \in 1..n
        BY <2>1
    <2>3. DOMAIN s = 1..n
        BY <1>1
    <2> HIDE DEF n
    <2>4. ASSUME NEW k \in 1..n, s[k] = x
          PROVE  x = Head(s) \/ Among(x, Tail(s))
        <3>1. CASE k = 1
            BY <2>1, <2>4, <3>1
        <3>2. CASE k # 1
            <4>1. k - 1 \in 1..n - 1 /\ Tail(s)[k - 1] = s[k]
                BY <2>1, <2>2, <3>2
            <4> QED BY <2>1, <2>4, <4>1 DEF Among
        <3> QED BY <3>1, <3>2
    <2>5. x = Head(s) => Among(x, s)
        BY <2>1, <2>2, <2>3 DEF Among
    <2>6. ASSUME NEW k \in 1..n - 1, Tail(s)[k] = x
          PROVE  Among(x, s)
        <3>1. k + 1 \in 1..n /\ s[k + 1] = x
            BY <2>1, <2>2, <2>6
        <3> QED BY <2>3, <3>1 DEF Among
    <2>7. Among(x, s) => x = Head(s) \/ Among(x, Tail(s))
        BY <2>3, <2>4 DEF Among
    <2>8. Among(x, Tail(s)) => Among(x, s)
        BY <2>1, <2>6 DEF Among
    <2> QED BY <2>5, <2>7, <2>8
<1>3. ASSUME NEW e \in T, NEW x
      PROVE  Among(x, <<e>> \o s) <=> x = e \/ Among(x, s)
    <2> DEFINE t == <<e>> \o s
               n == Len(s)
    <2>1. /\ DOMAIN t = 1..n + 1 /\ DOMAIN s = 1..n /\ n \in Nat /\ t[1] = e
          /\ \A k \in 1..n : t[k + 1] = s[k]
        BY <1>1
    <2>2. /\ \A k \in 1..n + 1 : k = 1 \/ (k - 1 \in 1..n /\ (k - 1) + 1 = k)
          /\ \A k \in 1..n : k + 1 \in 1..n + 1
          /\ 1 \in 1..n + 1
        BY <2>1
    <2> HIDE DEF t, n
    <2>3. ASSUME NEW k \in 1..n + 1, t[k] = x
          PROVE  x = e \/ Among(x, s)
        <3>1. CASE k = 1
            BY <2>1, <2>3, <3>1
        <3>2. CASE k # 1
            <4>1. k - 1 \in 1..n /\ s[k - 1] = x
                BY <2>1, <2>2, <2>3, <3>2
            <4> QED BY <2>1, <4>1 DEF Among
        <3> QED BY <3>1, <3>2
    <2>4. ASSUME NEW k \in 1..n, s[k] = x
          PROVE  Among(x, t)
        <3>1. k + 1 \in 1..n + 1 /\ t[k + 1] = x
            BY <2>1, <2>2, <2>4
        <3> QED BY <2>1, <3>1 DEF Among
    <2>5. x = e => Among(x, t)
        BY <2>1, <2>2 DEF Among
    <2>6. Among(x, t) <=> x = e \/ Among(x, s)
        BY <2>1, <2>3, <2>4, <2>5 DEF Among
    <2> QED BY <2>6 DEF t
<1>4. \A x : Among(x, Reverse(s)) <=> Among(x, s)
    <2>1. Reverse(s) = [i \in 1..Len(s) |-> s[Len(s) - i + 1]]
        BY DEF Reverse
    <2>2. \A i \in 1..Len(s) : Len(s) - i + 1 \in 1..Len(s) /\ Len(s) - (Len(s) - i + 1) + 1 = i
        BY <1>1
    <2> DEFINE t == Reverse(s)
               n == Len(s)
    <2>3. /\ DOMAIN t = 1..n /\ DOMAIN s = 1..n /\ \A i \in 1..n : t[i] = s[n - i + 1]
          /\ \A i \in 1..n : n - i + 1 \in 1..n /\ n - (n - i + 1) + 1 = i
        BY <1>1, <2>1, <2>2
    <2> HIDE DEF t, n
    <2>4. ASSUME NEW x, NEW i \in 1..n, s[i] = x
          PROVE  Among(x, t)
        <3>1. n - i + 1 \in 1..n /\ t[n - i + 1] = x
            <4>1. n - i + 1 \in 1..n /\ t[n - i + 1] = s[n - (n - i + 1) + 1]
                BY <2>3
            <4>2. n - (n - i + 1) + 1 = i
                BY <2>3
            <4> QED BY <2>4, <4>1, <4>2
        <3> QED BY <2>3, <3>1 DEF Among
    <2>5. ASSUME NEW x, NEW i \in 1..n, t[i] = x
          PROVE  Among(x, s)
        <3>1. n - i + 1 \in 1..n /\ s[n - i + 1] = x
            BY <2>3, <2>5
        <3> QED BY <2>3, <3>1 DEF Among
    <2>6. \A x : Among(x, t) <=> Among(x, s)
        BY <2>3, <2>4, <2>5 DEF Among
    <2> QED BY <2>6 DEF t
<1>5. s = <<>> => \A x : ~Among(x, s)
    BY <1>1 DEF Among
<1> QED BY <1>2, <1>3, <1>4, <1>5

LEMMA OnceParts ==
    ASSUME NEW T, NEW s \in Seq(T), Once(s)
    PROVE  /\ s # <<>> => Once(Tail(s)) /\ ~Among(Head(s), Tail(s))
           /\ \A e \in T : ~Among(e, s) => Once(<<e>> \o s)
           /\ Once(Reverse(s))
<1> DEFINE n == Len(s)
<1>1. DOMAIN s = 1..n /\ n \in Nat
    OBVIOUS
<1>2. \A i, j \in 1..n : s[i] = s[j] => i = j
    BY <1>1 DEF Once
<1>3. ASSUME s # <<>>
      PROVE  Once(Tail(s)) /\ ~Among(Head(s), Tail(s))
    <2> DEFINE t == Tail(s)
    <2>1. /\ n \in Nat \ {0} /\ Head(s) = s[1] /\ DOMAIN t = 1..n - 1
          /\ \A k \in 1..n - 1 : t[k] = s[k + 1]
        BY <1>3, HeadTailProperties, EmptySeq
    <2> HIDE DEF n, t
    <2>2. \A k \in 1..n - 1 : k + 1 \in 1..n /\ k + 1 # 1
        BY <2>1
    <2>3. 1 \in 1..n
        BY <2>1
    <2>4. \A i, j \in 1..n - 1 : t[i] = t[j] => i = j
        <3>1. ASSUME NEW i \in 1..n - 1, NEW j \in 1..n - 1, t[i] = t[j]
              PROVE  i = j
            <4>1. s[i + 1] = s[j + 1] /\ i + 1 \in 1..n /\ j + 1 \in 1..n
                BY <2>1, <2>2, <3>1
            <4>2. i + 1 = j + 1
                BY <1>2, <4>1
            <4> QED BY <1>1, <4>2
        <3> QED BY <3>1
    <2>5. \A k \in 1..n - 1 : t[k] # s[1]
        <3>1. ASSUME NEW k \in 1..n - 1, t[k] = s[1]
              PROVE  FALSE
            <4>1. s[k + 1] = s[1] /\ k + 1 \in 1..n /\ k + 1 # 1
                BY <2>1, <2>2, <3>1
            <4> QED BY <1>2, <2>3, <4>1
        <3> QED BY <3>1
    <2>6. Once(t)
        BY <2>1, <2>4 DEF Once
    <2>7. ~Among(Head(s), t)
        BY <2>1, <2>5 DEF Among
    <2> QED BY <2>6, <2>7 DEF t
<1>4. ASSUME NEW e \in T, ~Among(e, s)
      PROVE  Once(<<e>> \o s)
    <2> DEFINE t == <<e>> \o s
    <2>1. /\ DOMAIN t = 1..n + 1 /\ t[1] = e /\ \A k \in 1..n : t[k + 1] = s[k]
        BY <1>1
    <2> HIDE DEF n, t
    <2>2. \A k \in 1..n + 1 : k = 1 \/ (k - 1 \in 1..n /\ (k - 1) + 1 = k)
        BY <1>1
    <2>3. \A k \in 1..n : s[k] # e
        BY <1>1, <1>4 DEF Among
    <2>4. ASSUME NEW i \in 1..n + 1, NEW j \in 1..n + 1, t[i] = t[j]
          PROVE  i = j
        <3>1. \A k \in 1..n + 1 : k # 1 => t[k] = s[k - 1] /\ k - 1 \in 1..n
            BY <2>1, <2>2
        <3>2. CASE i = 1 \/ j = 1
            BY <2>1, <2>3, <2>4, <3>1, <3>2
        <3>3. CASE i # 1 /\ j # 1
            <4>1. s[i - 1] = s[j - 1] /\ i - 1 \in 1..n /\ j - 1 \in 1..n
                BY <2>4, <3>1, <3>3
            <4>2. i - 1 = j - 1
                BY <1>2, <4>1
            <4> QED BY <1>1, <4>2
        <3> QED BY <3>2, <3>3
    <2>5. Once(t)
        BY <2>1, <2>4 DEF Once
    <2> QED BY <2>5 DEF t
<1>5. Once(Reverse(s))
    <2> DEFINE t == Reverse(s)
    <2>1. Reverse(s) = [i \in 1..n |-> s[n - i + 1]]
        BY DEF Reverse
    <2>2. DOMAIN t = 1..n /\ \A i \in 1..n : t[i] = s[n - i + 1]
        BY <2>1
    <2> HIDE DEF n, t
    <2>3. ASSUME NEW i \in 1..n, NEW j \in 1..n, t[i] = t[j]
          PROVE  i = j
        <3>1. s[n - i + 1] = s[n - j + 1] /\ n - i + 1 \in 1..n /\ n - j + 1 \in 1..n
            BY <1>1, <2>2, <2>3
        <3>2. n - i + 1 = n - j + 1
            BY <1>2, <3>1
        <3> QED BY <1>1, <3>2
    <2>4. Once(t)
        BY <2>2, <2>3 DEF Once
    <2> QED BY <2>4 DEF t
<1> QED BY <1>3, <1>4, <1>5

(* Parts of trees. *)

LEMMA SameContent ==
    ASSUME NEW x, NEW y, NEW part \in PartNames
    PROVE  /\ x[part] = y[part] => Content(x, part) = Content(y, part)
           /\ Bare(x, part) <=> x[part] = NoTree[part]
<1>1. Named(x.dirs) = Named({}) <=> x.dirs = {}
    BY DEF Named
<1>2. NoTree.dirs = {}
    BY DEF NoTree
<1>3. CASE part = "dirs"
    BY <1>1, <1>2, <1>3 DEF Content, Bare
<1>4. CASE part # "dirs"
    BY <1>4 DEF Content, Bare
<1> QED BY <1>3, <1>4

\* A move moves one part.
LEMMA MovedContents ==
    ASSUME TypeInv, NEW from \in Places, NEW to \in Places, from # to, NEW part \in PartNames,
           Move(from, to, part)
    PROVE  /\ Content(tree'[to], part) = Content(tree[from], part) /\ Bare(tree'[from], part)
           /\ \A v \in Places : \A other \in PartNames :
                 v \notin {from, to} \/ other # part => Content(tree'[v], other) = Content(tree[v], other)
<1> DEFINE left == [tree[from] EXCEPT ![part] = NoTree[part]]
           got == [tree[to] EXCEPT ![part] = tree[from][part]]
<1>1. tree \in [Places -> Trees] /\ part \in TreeFields
    BY DEF TypeInv, FilesOK, TreesOK, PartNames, TreeFields
<1>2. DOMAIN tree[from] = TreeFields /\ DOMAIN tree[to] = TreeFields
    BY <1>1 DEF Trees, TreeFields
<1>3. /\ left[part] = NoTree[part] /\ got[part] = tree[from][part]
      /\ \A other \in PartNames : other # part => left[other] = tree[from][other] /\ got[other] = tree[to][other]
    BY <1>1, <1>2 DEF TreeFields, PartNames
<1>4. tree' = [tree EXCEPT ![from] = left, ![to] = got]
    BY <1>1 DEF Move, Absent
<1> HIDE DEF left, got
<1>5. tree' = [v \in Places |-> IF v = to THEN got ELSE IF v = from THEN left ELSE tree[v]]
    BY <1>1, <1>4
<1>6. tree'[to] = got /\ tree'[from] = left /\ \A v \in Places \ {from, to} : tree'[v] = tree[v]
    BY <1>5
<1>7. Content(got, part) = Content(tree[from], part) /\ Bare(left, part)
    BY <1>3, SameContent
<1>8. \A other \in PartNames : other # part => /\ Content(left, other) = Content(tree[from], other)
                                               /\ Content(got, other) = Content(tree[to], other)
    BY <1>3, SameContent
<1> QED BY <1>6, <1>7, <1>8

(* Migrating. *)

\* What a step leaves alone, it leaves at rest.
LEMMA OnlyStays ==
    ASSUME NEW here \in Places, NEW there \in Places, NEW start, NEW part,
           Content(tree'[here], part) = Content(tree[here], part),
           Content(tree'[there], part) = Content(tree[there], part)
    PROVE  Only(here, there, start, part)' <=> Only(here, there, start, part)
BY DEF Only, Has, Bare, Content

LEMMA MovingStep ==
    ASSUME TypeInv, NEW p \in Procs, MovePart(p), NEW start,
           MovingOK(proc[p].cmd.into, proc[p].todo, proc[p].next, start)
    PROVE  MovingOK(proc[p].cmd.into, proc[p].todo, proc[p].next, start)'
<1>1. proc[p].pc = "moving" /\ proc[p].todo # <<>>
    BY DEF MovePart, At
<1>2. /\ proc[p].todo \in Seq(PartNames) /\ proc[p].next \in Seq(PartNames)
      /\ proc[p].cmd.into \in Places /\ Flat \in Places /\ proc[p].cmd.into # Flat
      /\ DOMAIN proc = Procs /\ DOMAIN proc[p] = DOMAIN Idle
    BY <1>1, Facts, WorkstreamFacts DEF Carried, Migrating, Places
<1>3. PICK into \in Places, todo \in Seq(PartNames), next \in Seq(PartNames) :
        into = proc[p].cmd.into /\ todo = proc[p].todo /\ next = proc[p].next /\ into # Flat
    BY <1>2
<1>4. PICK part \in PartNames : part = Head(todo)
    BY <1>1, <1>3, HeadAndTail
<1>5. /\ proc'[p].cmd.into = into /\ proc'[p].todo = Tail(todo) /\ made' = made
      /\ IF Present(Flat, part) THEN Move(Flat, into, part) /\ proc'[p].next = <<part>> \o next
         ELSE tree' = tree /\ proc'[p].next = next
    <2>1. Present(Flat, part) => proc' = [proc EXCEPT ![p].todo = Tail(@), ![p].next = <<part>> \o @]
        BY <1>3, <1>4 DEF MovePart
    <2>2. ~Present(Flat, part) => proc' = [proc EXCEPT ![p].todo = Tail(@)]
        BY <1>3, <1>4 DEF MovePart
    <2>3. \A x : proc' = [proc EXCEPT ![p].todo = Tail(@), ![p].next = x]
                   => proc'[p].cmd = proc[p].cmd /\ proc'[p].todo = Tail(todo) /\ proc'[p].next = x
        BY <1>2, <1>3 DEF Idle
    <2>4. proc' = [proc EXCEPT ![p].todo = Tail(@)]
            => proc'[p].cmd = proc[p].cmd /\ proc'[p].todo = Tail(todo) /\ proc'[p].next = next
        BY <1>2, <1>3 DEF Idle
    <2>5. Present(Flat, part) => proc'[p].cmd = proc[p].cmd /\ proc'[p].todo = Tail(todo) /\ proc'[p].next = <<part>> \o next
        BY <1>3, <2>1, <2>3
    <2> QED BY <1>3, <1>4, <2>2, <2>4, <2>5 DEF MovePart
<1>6. /\ into \in made
      /\ \A q \in PartNames :
            \/ Only(Flat, into, start, q) /\ (Among(q, todo) \/ Only(into, Flat, start, q))
            \/ Only(into, Flat, start, q) /\ Among(q, next)
    BY <1>3 DEF MovingOK
<1>7. \A q : /\ Among(q, todo) <=> q = part \/ Among(q, Tail(todo))
             /\ Among(q, <<part>> \o next) <=> q = part \/ Among(q, next)
    BY <1>1, <1>3, <1>4, AmongParts
<1>8. CASE Present(Flat, part)
    <2>1. ASSUME NEW q \in PartNames, q # part
          PROVE  \/ Only(Flat, into, start, q)' /\ (Among(q, Tail(todo)) \/ Only(into, Flat, start, q)')
                 \/ Only(into, Flat, start, q)' /\ Among(q, <<part>> \o next)
        <3>1. /\ Content(tree'[into], q) = Content(tree[into], q)
              /\ Content(tree'[Flat], q) = Content(tree[Flat], q)
            BY <1>2, <1>3, <1>5, <1>8, <2>1, MovedContents
        <3>2. /\ Only(Flat, into, start, q)' <=> Only(Flat, into, start, q)
              /\ Only(into, Flat, start, q)' <=> Only(into, Flat, start, q)
            BY <1>2, <3>1, OnlyStays
        <3> QED BY <1>6, <1>7, <2>1, <3>2
    <2>2. Only(into, Flat, start, part)'
        <3>1. ~Bare(tree[Flat], part)
            BY <1>8, SameContent DEF Present, Absent
        <3>2. Has(tree[Flat], start, part)
            BY <1>6, <3>1 DEF Only
        <3>3. Content(tree'[into], part) = Content(tree[Flat], part) /\ Bare(tree'[Flat], part)
            BY <1>2, <1>3, <1>5, <1>8, MovedContents
        <3> QED BY <3>2, <3>3 DEF Only, Has, Bare, Content
    <2> QED BY <1>5, <1>6, <1>7, <1>8, <2>1, <2>2 DEF MovingOK
<1>9. CASE ~Present(Flat, part)
    <2>1. Bare(tree[Flat], part)
        BY <1>9, SameContent DEF Present, Absent
    <2>2. Only(Flat, into, start, part) => Only(into, Flat, start, part)
        BY <2>1 DEF Only, Has, Bare
    <2>3. \A q : /\ Only(Flat, into, start, q)' <=> Only(Flat, into, start, q)
                 /\ Only(into, Flat, start, q)' <=> Only(into, Flat, start, q)
        BY <1>5, <1>9 DEF Only, Has, Bare, Content
    <2> QED BY <1>5, <1>6, <1>7, <1>9, <2>2, <2>3 DEF MovingOK
<1> QED BY <1>8, <1>9

\* No move fails by itself in a migration that works alone, so one that fails is the last to.
LEMMA MovingFails ==
    ASSUME TypeInv, NEW p \in Procs, MoveFails(p), NEW start, OneFault, faults \in Nat,
           MovingOK(proc[p].cmd.into, proc[p].todo, proc[p].next, start)
    PROVE  MovingBackOK(proc[p].cmd.into, proc[p].todo, start)'
<1>1. proc[p].pc = "moving" /\ proc[p].todo # <<>>
    BY DEF MoveFails, At
<1>2. /\ proc[p].todo \in Seq(PartNames) /\ proc[p].next \in Seq(PartNames)
      /\ proc[p].cmd.into \in Places /\ Flat \in Places
      /\ DOMAIN proc = Procs /\ DOMAIN proc[p] = DOMAIN Idle
    BY <1>1, Facts, WorkstreamFacts DEF Carried, Migrating, Places
<1>3. PICK into \in Places, todo \in Seq(PartNames), next \in Seq(PartNames) :
        into = proc[p].cmd.into /\ todo = proc[p].todo /\ next = proc[p].next
    BY <1>2
<1>4. PICK part \in PartNames : part = Head(todo) /\ Present(Flat, part)
    BY <1>1, <1>3, HeadAndTail DEF MoveFails
<1>5. proc'[p].cmd.into = into /\ proc'[p].todo = Reverse(next) /\ tree' = tree
    BY <1>2, <1>3 DEF MoveFails, Idle, disk
<1>6. /\ into \in made
      /\ \A q \in PartNames :
            \/ Only(Flat, into, start, q) /\ (Among(q, todo) \/ Only(into, Flat, start, q))
            \/ Only(into, Flat, start, q) /\ Among(q, next)
    BY <1>3 DEF MovingOK
<1>7. CanMove(into, part)
    <2>1. ~Bare(tree[Flat], part)
        BY <1>4, SameContent DEF Present, Absent
    <2>2. Bare(tree[into], part)
        BY <1>6, <2>1 DEF Only
    <2>3. part = "dirs" => tree[into].dirs = {}
        BY <2>2, SameContent DEF NoTree
    <2> QED BY <1>6, <2>3 DEF CanMove
<1>8. Spent'
    <2>1. faults' = faults + 1
        BY <1>3, <1>4, <1>7 DEF MoveFails
    <2> QED BY <2>1, FaultsAssumption DEF Spent, OneFault
<1>9. \A q : Among(q, Reverse(next)) <=> Among(q, next)
    BY AmongParts
<1>10. \A q : /\ Only(Flat, into, start, q)' <=> Only(Flat, into, start, q)
              /\ Only(into, Flat, start, q)' <=> Only(into, Flat, start, q)
    BY <1>5 DEF Only, Has, Bare, Content
<1> QED BY <1>5, <1>6, <1>8, <1>9, <1>10 DEF MovingBackOK

LEMMA MovingBackStep ==
    ASSUME TypeInv, NEW p \in Procs, MoveBack(p), NEW start, faults \in Nat,
           MovingBackOK(proc[p].cmd.into, proc[p].todo, start)
    PROVE  MovingBackOK(proc[p].cmd.into, proc[p].todo, start)'
<1>1. proc[p].pc = "moveback" /\ proc[p].todo # <<>>
    BY DEF MoveBack, At
<1>2. /\ proc[p].todo \in Seq(PartNames) /\ Flat \in made
      /\ proc[p].cmd.into \in Places /\ Flat \in Places /\ proc[p].cmd.into # Flat
      /\ DOMAIN proc = Procs /\ DOMAIN proc[p] = DOMAIN Idle
    BY <1>1, Facts, WorkstreamFacts DEF Carried, Migrating, Places, TypeInv, FilesOK, RootOK
<1>3. PICK into \in Places, todo \in Seq(PartNames) :
        into = proc[p].cmd.into /\ todo = proc[p].todo /\ into # Flat
    BY <1>2
<1>4. PICK part \in PartNames : part = Head(todo)
    BY <1>1, <1>3, HeadAndTail
<1>5. proc'[p].cmd.into = into /\ proc'[p].todo = Tail(todo)
    BY <1>2, <1>3 DEF MoveBack, Idle
<1>6. /\ Spent
      /\ \A q \in PartNames :
            Only(Flat, into, start, q) \/ (Only(into, Flat, start, q) /\ Among(q, todo))
    BY <1>3 DEF MovingBackOK
<1>7. /\ faults' = faults
      /\ IF Present(into, part) /\ CanMove(Flat, part) THEN Move(into, Flat, part) ELSE tree' = tree
    <2>1. ~(faults < MaxFaults)
        BY <1>6, FaultsAssumption DEF Spent
    <2> QED BY <1>3, <1>4, <2>1 DEF MoveBack
<1>8. Spent'
    BY <1>6, <1>7 DEF Spent
<1>9. \A q : Among(q, todo) <=> q = part \/ Among(q, Tail(todo))
    BY <1>1, <1>3, <1>4, AmongParts
<1>10. CASE Present(into, part)
    <2>1. ~Bare(tree[into], part)
        BY <1>10, SameContent DEF Present, Absent
    <2>2. Has(tree[into], start, part) /\ Bare(tree[Flat], part)
        BY <1>6, <2>1 DEF Only
    <2>3. CanMove(Flat, part)
        <3>1. part = "dirs" => tree[Flat].dirs = {}
            BY <2>2, SameContent DEF NoTree
        <3> QED BY <1>2, <3>1 DEF CanMove
    <2>4. Only(Flat, into, start, part)'
        <3>1. Content(tree'[Flat], part) = Content(tree[into], part) /\ Bare(tree'[into], part)
            BY <1>2, <1>3, <1>7, <1>10, <2>3, MovedContents
        <3> QED BY <2>2, <3>1 DEF Only, Has, Bare, Content
    <2>5. ASSUME NEW q \in PartNames, q # part
          PROVE  Only(Flat, into, start, q)' \/ (Only(into, Flat, start, q)' /\ Among(q, Tail(todo)))
        <3>1. /\ Content(tree'[into], q) = Content(tree[into], q)
              /\ Content(tree'[Flat], q) = Content(tree[Flat], q)
            BY <1>2, <1>3, <1>7, <1>10, <2>3, <2>5, MovedContents
        <3>2. /\ Only(Flat, into, start, q)' <=> Only(Flat, into, start, q)
              /\ Only(into, Flat, start, q)' <=> Only(into, Flat, start, q)
            BY <1>2, <3>1, OnlyStays
        <3> QED BY <1>6, <1>9, <2>5, <3>2
    <2> QED BY <1>5, <1>8, <2>4, <2>5 DEF MovingBackOK
<1>11. CASE ~Present(into, part)
    <2>1. Bare(tree[into], part)
        BY <1>11, SameContent DEF Present, Absent
    <2>2. Only(into, Flat, start, part) => Only(Flat, into, start, part)
        BY <2>1 DEF Only, Has, Bare
    <2>3. \A q : /\ Only(Flat, into, start, q)' <=> Only(Flat, into, start, q)
                 /\ Only(into, Flat, start, q)' <=> Only(into, Flat, start, q)
        BY <1>7, <1>11 DEF Only, Has, Bare, Content
    <2> QED BY <1>5, <1>6, <1>8, <1>9, <2>2, <2>3 DEF MovingBackOK
<1> QED BY <1>10, <1>11

(* Archiving. *)

\* The fields that a planning directory and an archive have.
LEMMA Fields ==
    ASSUME TypeInv, NEW p \in Procs, NEW name \in Places
    PROVE  /\ DOMAIN tree = Places /\ DOMAIN attic = Procs
           /\ DOMAIN tree[name] = TreeFields /\ DOMAIN attic[p] = AtticFields
           /\ EntryNames \ {"lock"} \subseteq TreeFields /\ TreeFields \subseteq AtticFields
<1>1. tree \in [Places -> Trees] /\ attic \in [Procs -> Attics]
    BY DEF TypeInv, FilesOK, TreesOK, ArchivesOK
<1> QED BY <1>1 DEF Trees, Attics, TreeFields, AtticFields, EntryNames

LEMMA LockPut ==
    ASSUME TypeInv, NEW p \in Procs, NEW x, attic' = [attic EXCEPT ![p].lock = x]
    PROVE  \A other \in EntryNames \ {"lock"} : attic'[p][other] = attic[p][other]
<1>1. attic \in [Procs -> Attics] /\ DOMAIN attic[p] = AtticFields
    BY DEF TypeInv, FilesOK, ArchivesOK, Attics, AtticFields, TreeFields
<1> QED BY <1>1 DEF AtticFields, TreeFields, EntryNames

LEMMA HasStays ==
    ASSUME NEW start, NEW name \in Places, NEW p \in Procs, NEW part \in PartNames
    PROVE  /\ tree'[name][part] = tree[name][part] => (Has(tree[name], start, part)' <=> Has(tree[name], start, part))
           /\ attic'[p][part] = attic[p][part] => (Has(attic[p], start, part)' <=> Has(attic[p], start, part))
<1>1. /\ tree'[name][part] = tree[name][part] => Content(tree'[name], part) = Content(tree[name], part)
      /\ attic'[p][part] = attic[p][part] => Content(attic'[p], part) = Content(attic[p], part)
    BY SameContent
<1> QED BY <1>1 DEF Has, Content

LEMMA ElsewhereStays ==
    ASSUME NEW name \in Places, NEW start, Elsewhere(name, start), \A v \in Places \ {name} : tree'[v] = tree[v]
    PROVE  Elsewhere(name, start)'
<1>1. PICK at \in Places \ {name} : Whole(tree[at], start)
    BY DEF Elsewhere
<1>2. Whole(tree[at], start)'
    BY <1>1 DEF Whole, Has, Content
<1> QED BY <1>2 DEF Elsewhere

LEMMA ArchivingStep ==
    ASSUME TypeInv, NEW p \in Procs, ArchiveEntry(p), NEW start,
           ArchivingOK(proc[p].cmd.name, proc[p].todo, proc[p].next, attic[p], start)
    PROVE  ArchivingOK(proc[p].cmd.name, proc[p].todo, proc[p].next, attic[p], start)'
<1>1. proc[p].pc = "archiving" /\ proc[p].todo # {}
    BY DEF ArchiveEntry, At
<1>2. /\ proc[p].todo \in SUBSET EntryNames /\ proc[p].next \in Seq(EntryNames) /\ proc[p].cmd.name \in Places
      /\ DOMAIN proc = Procs /\ DOMAIN proc[p] = DOMAIN Idle
    BY <1>1, Facts, WorkstreamFacts DEF Carried, Archiving
<1>3. PICK name \in Places, todo \in SUBSET EntryNames, next \in Seq(EntryNames) :
        name = proc[p].cmd.name /\ todo = proc[p].todo /\ next = proc[p].next
    BY <1>2
<1>4. PICK entry \in EntryNames : entry = FirstEntry(todo) /\ entry \in todo
    BY <1>1, <1>3, FirstEntryFound
<1>5. proc'[p].cmd.name = name /\ proc'[p].todo = todo \ {entry} /\ proc'[p].next = <<entry>> \o next
    BY <1>2, <1>3, <1>4 DEF ArchiveEntry, Idle
<1>6. /\ made' = made
      /\ entry = "lock" => tree' = tree /\ \E x : attic' = [attic EXCEPT ![p].lock = x]
      /\ entry # "lock" => /\ tree' = [tree EXCEPT ![name][entry] = NoTree[entry]]
                           /\ attic' = [attic EXCEPT ![p][entry] = tree[name][entry]]
                           /\ lock' = lock
    BY <1>3, <1>4 DEF ArchiveEntry, Absent
<1>7. /\ \A v \in Places \ {name} : tree'[v] = tree[v]
      /\ \A other \in EntryNames \ {"lock", entry} :
            tree'[name][other] = tree[name][other] /\ attic'[p][other] = attic[p][other]
      /\ entry # "lock" => attic'[p][entry] = tree[name][entry]
    <2>1. CASE entry = "lock"
        BY <1>6, <2>1, LockPut
    <2>2. CASE entry # "lock"
        <3>1. /\ tree' = [tree EXCEPT ![name][entry] = NoTree[entry]]
              /\ attic' = [attic EXCEPT ![p][entry] = tree[name][entry]]
            BY <1>6, <2>2
        <3>2. /\ DOMAIN tree = Places /\ DOMAIN attic = Procs
              /\ entry \in DOMAIN tree[name] /\ entry \in DOMAIN attic[p]
              /\ EntryNames \ {"lock"} \subseteq DOMAIN tree[name] /\ EntryNames \ {"lock"} \subseteq DOMAIN attic[p]
            BY <2>2, Fields
        <3> QED BY <2>2, <3>1, <3>2
    <2> QED BY <2>1, <2>2
<1>8. CASE Elsewhere(name, start)
    BY <1>3, <1>5, <1>7, <1>8, ElsewhereStays DEF ArchivingOK
<1>9. CASE /\ name \in made /\ Once(next)
           /\ \A e \in todo : Holds(name, e) /\ ~Among(e, next)
           /\ \A part \in PartNames :
                IF part \in todo THEN Has(tree[name], start, part)
                ELSE Has(attic[p], start, part) /\ (Among(part, next) \/ Has(tree[name], start, part))
    <2>1. Once(<<entry>> \o next) /\ \A q : Among(q, <<entry>> \o next) <=> q = entry \/ Among(q, next)
        BY <1>4, <1>9, OnceParts, AmongParts
    <2>3. ASSUME NEW e \in todo \ {entry}
          PROVE  Holds(name, e)' /\ ~Among(e, <<entry>> \o next)
        <3>1. Holds(name, e) /\ ~Among(e, next)
            BY <1>9, <2>3
        <3>2. CASE e = "lock"
            BY <1>6, <2>1, <2>3, <3>1, <3>2 DEF Holds
        <3>3. CASE e # "lock"
            BY <1>7, <2>1, <2>3, <3>1, <3>3 DEF Holds, Present
        <3> QED BY <3>2, <3>3
    <2>4. ASSUME NEW part \in PartNames
          PROVE  IF part \in todo \ {entry} THEN Has(tree[name], start, part)'
                 ELSE Has(attic[p], start, part)' /\ (Among(part, <<entry>> \o next) \/ Has(tree[name], start, part)')
        <3>1. part \in EntryNames \ {"lock"}
            BY DEF PartNames, EntryNames
        <3>2. CASE part = entry
            <4>1. attic'[p][part] = tree[name][part]
                BY <1>7, <3>1, <3>2
            <4>2. Content(attic'[p], part) = Content(tree[name], part)
                BY <4>1, SameContent
            <4>3. Has(tree[name], start, part)
                BY <1>4, <1>9, <3>2
            <4> QED BY <2>1, <3>2, <4>2, <4>3 DEF Has, Content
        <3>3. CASE part # entry
            <4>1. /\ Has(tree[name], start, part)' <=> Has(tree[name], start, part)
                  /\ Has(attic[p], start, part)' <=> Has(attic[p], start, part)
                BY <1>7, <3>1, <3>3, HasStays
            <4> QED BY <1>9, <2>1, <3>3, <4>1
        <3> QED BY <3>2, <3>3
    <2> QED BY <1>3, <1>5, <1>6, <1>9, <2>1, <2>3, <2>4 DEF ArchivingOK
<1> QED BY <1>3, <1>8, <1>9 DEF ArchivingOK

\* No entry is gone when its turn comes in an archiving that works alone.
LEMMA ArchivingFails ==
    ASSUME TypeInv, NEW p \in Procs, ArchiveFails(p), NEW start, OneFault, faults \in Nat,
           ArchivingOK(proc[p].cmd.name, proc[p].todo, proc[p].next, attic[p], start)
    PROVE  RestoringOK(proc[p].cmd.name, proc[p].todo, attic[p], start)'
<1>1. proc[p].pc = "archiving" /\ proc[p].todo # {}
    BY DEF ArchiveFails, At
<1>2. /\ proc[p].todo \in SUBSET EntryNames /\ proc[p].next \in Seq(EntryNames) /\ proc[p].cmd.name \in Places
      /\ DOMAIN proc = Procs /\ DOMAIN proc[p] = DOMAIN Idle
    BY <1>1, Facts, WorkstreamFacts DEF Carried, Archiving
<1>3. PICK name \in Places, todo \in SUBSET EntryNames, next \in Seq(EntryNames) :
        name = proc[p].cmd.name /\ todo = proc[p].todo /\ next = proc[p].next
    BY <1>2
<1>4. FirstEntry(todo) \in todo
    BY <1>1, <1>3, FirstEntryFound
<1>5. proc'[p].cmd.name = name /\ proc'[p].todo = Reverse(next) /\ tree' = tree /\ attic' = attic /\ made' = made
    BY <1>2, <1>3 DEF ArchiveFails, Idle, disk
<1>6. \A x, part : Has(x, start, part)' = Has(x', start, part)
    BY DEF Has, Content
<1>7. CASE Elsewhere(name, start)
    BY <1>3, <1>5, <1>7, ElsewhereStays DEF RestoringOK
<1>8. CASE /\ name \in made /\ Once(next)
           /\ \A e \in todo : Holds(name, e) /\ ~Among(e, next)
           /\ \A part \in PartNames :
                IF part \in todo THEN Has(tree[name], start, part)
                ELSE Has(attic[p], start, part) /\ (Among(part, next) \/ Has(tree[name], start, part))
    <2>1. faults' = faults + 1
        BY <1>3, <1>4, <1>8 DEF ArchiveFails
    <2>2. Spent'
        BY <2>1, FaultsAssumption DEF Spent, OneFault
    <2>3. Once(Reverse(next)) /\ \A q : Among(q, Reverse(next)) <=> Among(q, next)
        BY <1>8, OnceParts, AmongParts
    <2>4. ASSUME NEW part \in PartNames
          PROVE  IF Among(part, Reverse(next)) THEN Has(attic[p], start, part)' ELSE Has(tree[name], start, part)'
        <3>1. /\ Has(tree[name], start, part)' <=> Has(tree[name], start, part)
              /\ Has(attic[p], start, part)' <=> Has(attic[p], start, part)
            BY <1>5, HasStays
        <3> QED BY <1>8, <2>3, <3>1
    <2> QED BY <1>3, <1>5, <1>8, <2>2, <2>3, <2>4 DEF RestoringOK
<1> QED BY <1>3, <1>7, <1>8 DEF ArchivingOK

LEMMA RestoringStep ==
    ASSUME TypeInv, NEW p \in Procs, LastOK(p, proc[p], attic[p]), Restore(p), NEW start, faults \in Nat,
           RestoringOK(proc[p].cmd.name, proc[p].todo, attic[p], start)
    PROVE  RestoringOK(proc[p].cmd.name, proc[p].todo, attic[p], start)'
<1>1. proc[p].pc = "restore" /\ proc[p].todo # <<>>
    BY DEF Restore, At
<1>2. /\ proc[p].todo \in Seq(EntryNames) /\ proc[p].cmd.name \in Places /\ Without(proc[p].todo)
      /\ DOMAIN proc = Procs /\ DOMAIN proc[p] = DOMAIN Idle
    BY <1>1, Facts, WorkstreamFacts DEF Carried, Archiving, LastOK
<1>3. PICK name \in Places, todo \in Seq(EntryNames) : name = proc[p].cmd.name /\ todo = proc[p].todo
    BY <1>2
<1>4. PICK entry \in EntryNames : entry = Head(todo) /\ entry # "dirs"
    BY <1>1, <1>2, <1>3, HeadAndTail, WithoutParts
<1>5. proc'[p].cmd.name = name /\ proc'[p].todo = Tail(todo) /\ made' = made
    BY <1>2, <1>3 DEF Restore, Idle
<1> DEFINE Back ==
        /\ faults' = faults
        /\ entry = "lock" => tree' = tree /\ attic' = [attic EXCEPT ![p].lock = None]
        /\ entry # "lock" => /\ tree' = [tree EXCEPT ![name][entry] = attic[p][entry]]
                             /\ attic' = [attic EXCEPT ![p][entry] = NoTree[entry]]
<1>6. \/ name \in made /\ Back
      \/ (name \in made => faults < MaxFaults) /\ tree' = tree /\ attic' = attic
    BY <1>3, <1>4 DEF Restore, Absent
<1>7. /\ \A v \in Places \ {name} : tree'[v] = tree[v]
      /\ Back => /\ \A other \in EntryNames \ {"lock", entry} :
                        tree'[name][other] = tree[name][other] /\ attic'[p][other] = attic[p][other]
                 /\ entry # "lock" => tree'[name][entry] = attic[p][entry]
    <2>1. CASE ~Back
        BY <1>6, <2>1
    <2>2. CASE Back /\ entry = "lock"
        BY <2>2, LockPut
    <2>3. CASE Back /\ entry # "lock"
        <3>1. /\ tree' = [tree EXCEPT ![name][entry] = attic[p][entry]]
              /\ attic' = [attic EXCEPT ![p][entry] = NoTree[entry]]
            BY <2>3
        <3>2. /\ DOMAIN tree = Places /\ DOMAIN attic = Procs
              /\ entry \in DOMAIN tree[name] /\ entry \in DOMAIN attic[p]
              /\ EntryNames \ {"lock"} \subseteq DOMAIN tree[name] /\ EntryNames \ {"lock"} \subseteq DOMAIN attic[p]
            BY <2>3, Fields
        <3> QED BY <2>3, <3>1, <3>2
    <2> QED BY <1>6, <2>1, <2>2, <2>3
<1>8. CASE Elsewhere(name, start)
    BY <1>3, <1>5, <1>7, <1>8, ElsewhereStays DEF RestoringOK
<1>9. CASE /\ todo # <<>> => name \in made /\ Spent
           /\ Once(todo)
           /\ \A part \in PartNames :
                IF Among(part, todo) THEN Has(attic[p], start, part) ELSE Has(tree[name], start, part)
    <2>1. Once(Tail(todo)) /\ ~Among(entry, Tail(todo)) /\ \A q : Among(q, todo) <=> q = entry \/ Among(q, Tail(todo))
        BY <1>1, <1>3, <1>4, <1>9, OnceParts, AmongParts
    <2>2. name \in made /\ Spent /\ Back
        BY <1>1, <1>3, <1>6, <1>9, FaultsAssumption DEF Spent
    <2>4. ASSUME NEW part \in PartNames
          PROVE  IF Among(part, Tail(todo)) THEN Has(attic[p], start, part)' ELSE Has(tree[name], start, part)'
        <3>1. part \in EntryNames \ {"lock"}
            BY DEF PartNames, EntryNames
        <3>2. CASE part = entry
            <4>1. tree'[name][part] = attic[p][part]
                BY <1>7, <2>2, <3>1, <3>2
            <4>2. Content(tree'[name], part) = Content(attic[p], part)
                BY <4>1, SameContent
            <4>3. Has(attic[p], start, part)
                BY <1>9, <2>1, <3>2
            <4> QED BY <2>1, <3>2, <4>2, <4>3 DEF Has, Content
        <3>3. CASE part # entry
            <4>1. /\ Has(tree[name], start, part)' <=> Has(tree[name], start, part)
                  /\ Has(attic[p], start, part)' <=> Has(attic[p], start, part)
                BY <1>7, <2>2, <3>1, <3>3, HasStays
            <4> QED BY <1>9, <2>1, <3>3, <4>1
        <3> QED BY <3>2, <3>3
    <2>5. Spent'
        BY <2>2 DEF Spent
    <2> QED BY <1>3, <1>5, <2>1, <2>2, <2>4, <2>5 DEF RestoringOK
<1> QED BY <1>3, <1>8, <1>9 DEF RestoringOK

(* The steps of a process that works alone. *)

\* A command of another kind than these two is never at their steps.
LEMMA OtherCommands ==
    ASSUME TypeInv, NEW p \in Procs, Locking(p) \/ Command(p)
    PROVE  Op(p) \notin {"ws-create", "ws-complete"} /\ ~At(p, "idle")
<1>1. Carried(p, proc[p]) /\ Op(p) = proc[p].cmd.op
    BY Facts DEF Op
<1>2. CASE Locking(p)
    <2>1. proc[p].pc \in Queued \cup Held
        BY <1>2 DEF Locking, Acquire, SeeStale, BreakStale, GiveUpWaiting, LastTry, Release, Fail, At, Queued, Held
    <2>2. Op(p) \in Rewriting \cup {"set"}
        BY <1>1, <2>1 DEF Carried
    <2>3. proc[p].pc # "idle"
        BY <2>1 DEF Queued, Held
    <2> QED BY <2>2, <2>3 DEF Rewriting, At
<1>3. CASE Command(p)
    <2>1. proc[p].pc \in {"read", "make", "write", "rmdir", "rename", "reqread", "reqwrite", "lookup", "state", "mark",
                          "archive", "register", "close", "shelve", "clear", "configwrite", "ensure", "repair", "addkey"}
        BY <1>3 DEF Command, ReadForAdd, MakeDirectory, DeleteDirectory, RenameNext, Renamed, ReadRoadmap, WriteRoadmap,
            ReadRequirements, WriteRequirements, LookUpNext, MoveState, Mark, ArchiveRoadmap, Register, CloseState, Shelve,
            Shelved, ClearNext, Cleared, WriteConfig, EnsureConfig, Repair, AddKey, Repaired, At
    <2>2. Op(p) \in Rewriting \cup {"set", "mark", "milestone", "clear", "ensure", "repair"}
        BY <1>1, <2>1 DEF Carried, Queued, Held, Rewriting
    <2> QED BY <2>1, <2>2 DEF Rewriting, At
<1> QED BY <1>2, <1>3

\* Only a flat project is migrated.
LEMMA MigratesFlat ==
    ASSUME TypeInv, TypeInv', NEW p \in Procs, BeginCommand(p) \/ WsBegin(p), proc'[p].pc = "migrate"
    PROVE  \E part \in PartNames : Present(Flat, part)
<1>a. DOMAIN proc = Procs /\ DOMAIN proc[p] = DOMAIN Idle
    BY Facts
<1>b. Op(p)' = "ws-create"
    BY DEF TypeInv, LockInv, Types, ProcOK, OneOK, Migrating
<1>1. PICK c \in Menu[p] :
        \/ AddBegins(p, c) \/ InsertBegins(p, c) \/ RemoveBegins(p, c) \/ CompleteBegins(p, c)
        \/ ProgressBegins(p, c) \/ AnnotateBegins(p, c) \/ MarkBegins(p, c) \/ MilestoneBegins(p, c)
        \/ ClearBegins(p, c) \/ SetBegins(p, c) \/ EnsureBegins(p, c) \/ RepairBegins(p, c)
        \/ CreateBegins(p, c) \/ WsCompleteBegins(p, c) \/ SetPointer(p, c)
    BY DEF BeginCommand, WsBegin
<1>c. ASSUME NEW entered, Begin(p, c, entered)
      PROVE  proc'[p].pc = entered.pc /\ proc'[p].cmd = c
    <2>1. proc'[p] = [entered EXCEPT !.cmd = c, !.at = PlaceOf(p, c)]
        BY <1>a, <1>c DEF Begin
    <2>2. (proc[p].pc = "idle") /\ proc'[p].cmd.op = "ws-create"
        BY <1>b, <1>c DEF Begin, At, Op
    <2>3. DOMAIN proc'[p] = DOMAIN Idle
        BY DEF TypeInv, LockInv, Types, ProcOK, OneOK
    <2> QED BY <2>1, <2>3 DEF Idle
<1>2. CASE CreateBegins(p, c)
    <2> DEFINE exists == c.name \in made /\ tree[c.name].state # None
               work == tree[Flat].road # None \/ tree[Flat].state # None \/ tree[Flat].dirs # {}
               entered == IF exists THEN Refused ELSE IF ~RootExists /\ work THEN Enter("migrate") ELSE Enter("open")
    <2>1. Begin(p, c, entered)
        BY <1>2 DEF CreateBegins
    <2>2. entered.pc = "migrate"
        BY <1>c, <2>1
    <2>3. work
        BY <2>2 DEF Refused, Enter, Idle
    <2> QED BY <2>3 DEF PartNames, Present, Absent, NoTree
<1>3. CASE SetPointer(p, c)
    <2>1. proc'[p].pc = "done"
        BY <1>a, <1>3 DEF SetPointer, Nothing, Refused, Idle
    <2> QED BY <2>1
<1>4. CASE ~CreateBegins(p, c) /\ ~SetPointer(p, c)
    <2>1. c.op # "ws-create" /\ \E entered : Begin(p, c, entered)
        <3>1. CASE AddBegins(p, c) \/ InsertBegins(p, c) \/ SetBegins(p, c)
            BY <3>1 DEF AddBegins, InsertBegins, SetBegins
        <3>2. CASE RemoveBegins(p, c) \/ CompleteBegins(p, c)
            BY <3>2 DEF RemoveBegins, CompleteBegins
        <3>3. CASE ProgressBegins(p, c) \/ AnnotateBegins(p, c)
            BY <3>3 DEF ProgressBegins, AnnotateBegins, CountAndLock
        <3>4. CASE MarkBegins(p, c) \/ MilestoneBegins(p, c) \/ ClearBegins(p, c)
            BY <3>4 DEF MarkBegins, MilestoneBegins, ClearBegins
        <3>5. CASE EnsureBegins(p, c) \/ RepairBegins(p, c) \/ WsCompleteBegins(p, c)
            BY <3>5 DEF EnsureBegins, RepairBegins, WsCompleteBegins
        <3> QED BY <1>1, <1>4, <3>1, <3>2, <3>3, <3>4, <3>5
    <2> QED BY <1>b, <1>c, <2>1 DEF Op
<1> QED BY <1>2, <1>3, <1>4

LEMMA WholeHere ==
    ASSUME NEW start \in Starts, Untouched(start)
    PROVE  /\ start.at \in Places /\ Whole(tree[start.at], start)
           /\ \A v \in Places \ {start.at} : \A part \in PartNames : Bare(tree[v], part)
<1>1. start.at \in Places
    BY StartsAssumption
<1> QED BY <1>1 DEF Untouched, Whole, Has, Bare

LEMMA BeginningWhole ==
    ASSUME TypeInv, TypeInv', NEW p \in Procs, NEW start \in Starts, WholeOK(p, start),
           BeginCommand(p) \/ WsBegin(p), attic' = attic
    PROVE  WholeOK(p, start)'
<1>1. proc[p].pc = "idle" /\ Untouched(start) /\ attic[p] = NoAttic
    <2>1. proc[p].pc = "idle"
        BY DEF BeginCommand, WsBegin, At
    <2> QED BY <2>1 DEF WholeOK
<1>2. tree' = tree /\ proc'[p].pc \notin Underway
    <2>1. tree' = tree
        BY DEF BeginCommand, WsBegin, AddBegins, InsertBegins, SetBegins, RemoveBegins, CompleteBegins,
           ProgressBegins, AnnotateBegins, CountAndLock, MarkBegins, MilestoneBegins, ClearBegins, EnsureBegins,
           RepairBegins, CreateBegins, WsCompleteBegins, SetPointer, Begin
    <2> QED BY <2>1, BeginningTurns
<1>3. Untouched(start)' /\ Whole(tree[start.at], start)' /\ start.at \in Places
    <2>1. start.at \in Places /\ Whole(tree[start.at], start)
        BY <1>1, WholeHere
    <2> QED BY <1>1, <1>2, <2>1 DEF Untouched, Whole, Has, Content
<1>4. At(p, "migrate")' => start.at = Flat
    <2>1. SUFFICES ASSUME proc'[p].pc = "migrate"
                   PROVE  start.at = Flat
        BY DEF At
    <2>2. PICK part \in PartNames : Present(Flat, part)
        BY <2>1, MigratesFlat
    <2>3. ~Bare(tree[Flat], part)
        BY <2>2, SameContent DEF Present, Absent
    <2> QED BY <1>1, <2>3, WholeHere DEF Places
<1> QED BY <1>1, <1>2, <1>3, <1>4 DEF WholeOK, At, Underway, Settling

LEMMA MigrationWhole ==
    ASSUME TypeInv, NEW p \in Procs, NEW start \in Starts, OneFault, OwnState, faults \in Nat, WholeOK(p, start),
           \/ MigrateBegins(p) \/ MovePart(p) \/ Moved(p) \/ MoveFails(p) \/ MoveBack(p) \/ Abandon(p)
           \/ OpenWorkstream(p) \/ Activate(p)
    PROVE  WholeOK(p, start)'
<1>a. DOMAIN proc = Procs /\ DOMAIN proc[p] = DOMAIN Idle
    BY Facts
<1>b. proc[p].pc \in Migrating
    BY DEF MigrateBegins, MovePart, Moved, MoveFails, MoveBack, Abandon, OpenWorkstream, Activate, At, Migrating
<1>c. PICK into \in Places : into = proc[p].cmd.into /\ into # Flat /\ Flat \in Places
    BY <1>b, WorkstreamFacts DEF Places
<1>d. \A ok : Finish(p, ok) => proc'[p].pc = "done" /\ proc'[p].cmd = proc[p].cmd
    BY FinishOnward
<1>e. ASSUME NEW at \in Places, Whole(tree[at], start), tree'[at] = tree[at]
      PROVE  Whole(tree[at], start)'
    BY <1>e DEF Whole, Has, Content
<1>1. CASE MigrateBegins(p)
    <2>1. Untouched(start) /\ start.at = Flat
        BY <1>1 DEF MigrateBegins, At, WholeOK
    <2>2. Whole(tree[Flat], start) /\ \A part \in PartNames : Bare(tree[into], part)
        BY <1>c, <2>1, WholeHere
    <2>3. tree' = tree
        BY <1>1 DEF MigrateBegins
    <2>4. CASE RootExists
        <3>1. proc'[p].pc = "done"
            BY <1>1, <1>d, <2>4 DEF MigrateBegins
        <3>2. Whole(tree[Flat], start)'
            BY <1>c, <1>e, <2>2, <2>3
        <3> QED BY <1>c, <3>1, <3>2 DEF WholeOK, At
    <2>5. CASE ~RootExists
        <3>1. /\ proc'[p].pc = "moving" /\ proc'[p].todo = Parts /\ proc'[p].cmd = proc[p].cmd
              /\ into \in made'
            BY <1>1, <1>a, <1>c, <2>5 DEF MigrateBegins, Idle
        <3>2. \A part \in PartNames : Among(part, Parts)
            <4>1. DOMAIN Parts = 1..4 /\ Parts[1] = "road" /\ Parts[2] = "state" /\ Parts[3] = "reqs" /\ Parts[4] = "dirs"
                BY DEF Parts
            <4> QED BY <4>1 DEF PartNames, Among
        <3>3. \A part \in PartNames : Only(Flat, into, start, part)'
            BY <2>2, <2>3 DEF Only, Has, Bare, Whole, Content
        <3>4. MovingOK(into, Parts, proc[p].next, start)'
            BY <3>1, <3>2, <3>3 DEF MovingOK
        <3> QED BY <1>c, <3>1, <3>4 DEF WholeOK, At
    <2> QED BY <2>4, <2>5
<1>2. CASE MovePart(p)
    <2>1. MovingOK(proc[p].cmd.into, proc[p].todo, proc[p].next, start)
        BY <1>2 DEF MovePart, At, WholeOK
    <2>2. proc'[p].pc = "moving"
        BY <1>a, <1>2 DEF MovePart, Idle, At
    <2> QED BY <1>2, <2>1, <2>2, MovingStep DEF WholeOK, At
<1>3. CASE Moved(p)
    <2>1. MovingOK(into, <<>>, proc[p].next, start)
        BY <1>3, <1>c DEF Moved, At, WholeOK
    <2>2. Whole(tree[into], start)
        <3>1. \A x : ~Among(x, <<>>)
            BY DEF Among
        <3> QED BY <2>1, <3>1 DEF MovingOK, Only, Whole
    <2>3. tree' = tree /\ proc'[p].pc = "open" /\ proc'[p].cmd = proc[p].cmd
        BY <1>a, <1>3 DEF Moved, Goto, Idle, disk
    <2>4. Whole(tree[into], start)'
        BY <1>c, <1>e, <2>2, <2>3
    <2> QED BY <1>c, <2>3, <2>4 DEF WholeOK, At, Settling
<1>4. CASE MoveFails(p)
    <2>1. MovingOK(proc[p].cmd.into, proc[p].todo, proc[p].next, start)
        BY <1>4 DEF MoveFails, At, WholeOK
    <2>2. proc'[p].pc = "moveback"
        BY <1>a, <1>4 DEF MoveFails, Idle
    <2> QED BY <1>4, <2>1, <2>2, MovingFails DEF WholeOK, At
<1>5. CASE MoveBack(p)
    <2>1. MovingBackOK(proc[p].cmd.into, proc[p].todo, start)
        BY <1>5 DEF MoveBack, At, WholeOK
    <2>2. proc'[p].pc = "moveback"
        BY <1>a, <1>5 DEF MoveBack, Idle, At
    <2> QED BY <1>5, <2>1, <2>2, MovingBackStep DEF WholeOK, At
<1>6. CASE Abandon(p)
    <2>1. MovingBackOK(into, <<>>, start)
        BY <1>6, <1>c DEF Abandon, At, WholeOK
    <2>2. Whole(tree[Flat], start)
        <3>1. \A x : ~Among(x, <<>>)
            BY DEF Among
        <3> QED BY <2>1, <3>1 DEF MovingBackOK, Only, Whole
    <2>3. tree'[Flat] = tree[Flat]
        BY <1>6, <1>c DEF Abandon, TypeInv, FilesOK, TreesOK
    <2>4. proc'[p].pc = "done"
        BY <1>6, <1>d DEF Abandon
    <2>5. Whole(tree[Flat], start)'
        BY <1>c, <1>e, <2>2, <2>3
    <2> QED BY <1>c, <2>4, <2>5 DEF WholeOK, At
<1>7. CASE OpenWorkstream(p)
    <2> DEFINE name == proc[p].cmd.name
               new(x) == IF x = None THEN [phase |-> None, refs |-> {}, closed |-> FALSE] ELSE x
    <2>1. PICK at \in {start.at, into} \cap Places : Whole(tree[at], start)
        BY <1>7, <1>c DEF OpenWorkstream, At, WholeOK, Settling
    <2>2. tree' = [tree EXCEPT ![name].state = new(@)] /\ proc'[p].pc = "activate"
        BY <1>7, <1>a DEF OpenWorkstream, Goto, Idle
    <2>3. start.tree.state # None \/ name \notin {into, start.at}
        <3>1. proc[p].cmd \in Menu[p] /\ proc[p].cmd.op = "ws-create"
            <4>1. Working(p) /\ Op(p) = "ws-create"
                BY <1>b, WorkstreamFacts DEF Working, Migrating
            <4> QED BY <4>1, Facts DEF Op
        <3> QED BY <1>c, <3>1 DEF OwnState
    <2>4. tree'[at] = tree[at]
        <3>1. tree \in [Places -> Trees]
            BY DEF TypeInv, FilesOK, TreesOK
        <3>2. CASE at # name
            BY <2>1, <2>2, <3>1, <3>2
        <3>3. CASE at = name
            <4>1. tree[at].state # None
                <5>1. Has(tree[at], start, "state")
                    BY <2>1 DEF Whole, PartNames
                <5> QED BY <2>1, <2>3, <3>3, <5>1 DEF Has, Content
            <4>2. new(tree[at].state) = tree[at].state
                BY <4>1
            <4> HIDE DEF new
            <4>3. tree'[at] = [tree[at] EXCEPT !.state = tree[at].state]
                BY <2>1, <2>2, <3>1, <3>3, <4>2
            <4> QED BY <2>1, <3>1, <4>3 DEF Trees
        <3> QED BY <3>2, <3>3
    <2>5. Whole(tree[at], start)'
        BY <1>e, <2>1, <2>4
    <2> QED BY <2>2, <2>5 DEF WholeOK, At
<1>8. CASE Activate(p)
    <2>1. (\E at \in Places : Whole(tree[at], start)) \/ Whole(attic[p], start)
        BY <1>8 DEF Activate, At, WholeOK
    <2>2. tree' = tree /\ attic' = attic /\ proc'[p].pc = "done"
        BY <1>8, <1>d DEF Activate
    <2>3. (\E at \in Places : Whole(tree[at], start)') \/ Whole(attic[p], start)'
        BY <2>1, <2>2 DEF Whole, Has, Content
    <2> QED BY <2>2, <2>3 DEF WholeOK, At
<1> QED BY <1>1, <1>2, <1>3, <1>4, <1>5, <1>6, <1>7, <1>8

LEMMA ArchivingWhole ==
    ASSUME TypeInv, LastInv, NEW p \in Procs, NEW start \in Starts, OneFault, faults \in Nat, WholeOK(p, start),
           Deactivate(p) \/ ArchiveEntry(p) \/ ArchiveFails(p) \/ Restore(p) \/ Restored(p) \/ Archived(p)
    PROVE  WholeOK(p, start)'
<1>a. DOMAIN proc = Procs /\ DOMAIN proc[p] = DOMAIN Idle
    BY Facts
<1>b. proc[p].pc \in Archiving
    BY DEF Deactivate, ArchiveEntry, ArchiveFails, Restore, Restored, Archived, At, Archiving
<1>c. PICK name \in Places : name = proc[p].cmd.name
    BY <1>b, WorkstreamFacts
<1>d. \A ok : Finish(p, ok) => proc'[p].pc = "done" /\ proc'[p].cmd = proc[p].cmd
    BY FinishOnward
<1>e. ASSUME NEW at \in Places, Whole(tree[at], start), tree'[at] = tree[at]
      PROVE  Whole(tree[at], start)'
    BY <1>e DEF Whole, Has, Content
<1>1. CASE Deactivate(p)
    <2>1. Untouched(start) /\ attic[p] = NoAttic /\ tree' = tree /\ made' = made /\ lock' = lock /\ attic' = attic
        BY <1>1 DEF Deactivate, At, WholeOK
    <2>2. /\ proc'[p].pc = IF name \in made THEN "archiving" ELSE "restore"
          /\ proc'[p].next = <<>> /\ proc'[p].cmd = proc[p].cmd
          /\ proc'[p].todo = IF name \in made THEN {entry \in Range(Entries) : Holds(name, entry)} ELSE <<>>
        BY <1>1, <1>a, <1>c DEF Deactivate, Idle
    <2>3. start.at \in Places /\ Whole(tree[start.at], start)
        BY <2>1, WholeHere
    <2>4. CASE start.at # name
        <3>1. Elsewhere(name, start)'
            BY <2>1, <2>3, <2>4 DEF Elsewhere, Whole, Has, Content
        <3>2. ArchivingOK(name, proc[p].todo, proc[p].next, attic[p], start)'
            BY <3>1 DEF ArchivingOK
        <3>3. RestoringOK(name, proc[p].todo, attic[p], start)'
            BY <3>1 DEF RestoringOK
        <3> QED BY <1>c, <2>2, <3>2, <3>3 DEF WholeOK, At
    <2>5. CASE start.at = name /\ name \in made
        <3>0. PICK todo : todo = {entry \in Range(Entries) : Holds(name, entry)}
            OBVIOUS
        <3>1. Once(<<>>) /\ \A x : ~Among(x, <<>>)
            BY DEF Once, Among
        <3>2. \A entry \in todo : Holds(name, entry)'
            BY <2>1, <3>0 DEF Holds, Present
        <3>3. ASSUME NEW part \in PartNames
              PROVE  Has(tree[name], start, part)' /\ (part \notin todo => Has(attic[p], start, part)')
            <4>1. Has(tree[name], start, part)
                BY <2>3, <2>5 DEF Whole
            <4>2. ASSUME part \notin todo
                  PROVE  Has(attic[p], start, part)
                <5>1. part \in Range(Entries) /\ part # "lock"
                    <6>1. DOMAIN Entries = 1..6 /\ \E k \in 1..6 : Entries[k] = part
                        BY DEF PartNames, Entries
                    <6> QED BY <6>1 DEF PartNames, Range
                <5>2. ~Present(name, part)
                    BY <3>0, <4>2, <5>1 DEF Holds
                <5>3. Bare(tree[name], part)
                    BY <5>2, SameContent DEF Present, Absent
                <5>4. Bare(NoAttic, part)
                    BY SameContent DEF NoAttic, NoTree, PartNames
                <5> QED BY <2>1, <4>1, <5>3, <5>4 DEF Has, Bare
            <4> QED BY <2>1, <4>1, <4>2 DEF Has, Content
        <3>4. ArchivingOK(name, todo, <<>>, attic[p], start)'
            <4>1. \A part \in PartNames :
                    IF part \in todo THEN Has(tree[name], start, part)'
                    ELSE Has(attic[p], start, part)' /\ (Among(part, <<>>) \/ Has(tree[name], start, part)')
                BY <3>3
            <4>2. name \in made'
                BY <2>1, <2>5
            <4> QED BY <3>1, <3>2, <4>1, <4>2 DEF ArchivingOK
        <3>5. proc'[p].todo = todo /\ proc'[p].next = <<>> /\ proc'[p].cmd.name = name /\ proc'[p].pc = "archiving"
            BY <1>c, <2>2, <2>5, <3>0
        <3> QED BY <3>4, <3>5 DEF WholeOK, At
    <2>6. CASE start.at = name /\ name \notin made
        <3>1. Once(<<>>) /\ \A x : ~Among(x, <<>>)
            BY DEF Once, Among
        <3>2. Whole(tree[name], start)'
            BY <1>c, <1>e, <2>1, <2>3, <2>6
        <3>3. RestoringOK(name, <<>>, attic[p], start)'
            BY <3>1, <3>2 DEF RestoringOK, Whole
        <3>4. proc'[p].todo = <<>> /\ proc'[p].cmd.name = name /\ proc'[p].pc = "restore"
            BY <1>c, <2>2, <2>6
        <3> QED BY <3>3, <3>4 DEF WholeOK, At
    <2> QED BY <2>4, <2>5, <2>6
<1>2. CASE ArchiveEntry(p)
    <2>1. ArchivingOK(proc[p].cmd.name, proc[p].todo, proc[p].next, attic[p], start)
        BY <1>2 DEF ArchiveEntry, At, WholeOK
    <2>2. proc'[p].pc = "archiving"
        BY <1>a, <1>2 DEF ArchiveEntry, Idle, At
    <2> QED BY <1>2, <2>1, <2>2, ArchivingStep DEF WholeOK, At
<1>3. CASE ArchiveFails(p)
    <2>1. ArchivingOK(proc[p].cmd.name, proc[p].todo, proc[p].next, attic[p], start)
        BY <1>3 DEF ArchiveFails, At, WholeOK
    <2>2. proc'[p].pc = "restore"
        BY <1>a, <1>3 DEF ArchiveFails, Idle
    <2> QED BY <1>3, <2>1, <2>2, ArchivingFails DEF WholeOK, At
<1>4. CASE Restore(p)
    <2>1. RestoringOK(proc[p].cmd.name, proc[p].todo, attic[p], start)
        BY <1>4 DEF Restore, At, WholeOK
    <2>2. proc'[p].pc = "restore"
        BY <1>a, <1>4 DEF Restore, Idle, At
    <2> QED BY <1>4, <2>1, <2>2, RestoringStep DEF WholeOK, At, LastInv
<1>5. CASE Restored(p)
    <2>1. RestoringOK(name, <<>>, attic[p], start)
        BY <1>5, <1>c DEF Restored, At, WholeOK
    <2>2. \E at \in Places : Whole(tree[at], start)
        <3>1. \A x : ~Among(x, <<>>)
            BY DEF Among
        <3> QED BY <2>1, <3>1 DEF RestoringOK, Elsewhere, Whole
    <2>3. tree' = tree /\ proc'[p].pc = "done"
        BY <1>5, <1>d DEF Restored
    <2>4. \E at \in Places : Whole(tree[at], start)'
        BY <1>e, <2>2, <2>3
    <2> QED BY <2>3, <2>4 DEF WholeOK, At
<1>6. CASE Archived(p)
    <2>1. ArchivingOK(name, {}, proc[p].next, attic[p], start)
        BY <1>6, <1>c DEF Archived, At, WholeOK
    <2>2. (\E at \in Places : Whole(tree[at], start)) \/ Whole(attic[p], start)
        BY <2>1 DEF ArchivingOK, Elsewhere, Whole
    <2>3. tree' = tree /\ attic' = attic /\ proc'[p].pc = "done"
        BY <1>6, <1>d DEF Archived
    <2>4. (\E at \in Places : Whole(tree[at], start)') \/ Whole(attic[p], start)'
        BY <2>2, <2>3 DEF Whole, Has, Content
    <2> QED BY <2>3, <2>4 DEF WholeOK, At
<1> QED BY <1>1, <1>2, <1>3, <1>4, <1>5, <1>6

LEMMA WholeStep ==
    ASSUME TypeInv, TypeInv', LastInv, NEW p \in Procs, NEW start \in Starts, OneFault, OwnState, faults \in Nat,
           WholeOK(p, start), Advance(p)
    PROVE  WholeOK(p, start)'
<1>1. CASE (BeginCommand(p) /\ attic' = attic) \/ WsBegin(p)
    <2>1. attic' = attic
        BY <1>1, PlainTurns DEF Plain, PhaseStep
    <2> QED BY <1>1, <2>1, BeginningWhole
<1>2. CASE Kill(p)
    <2>1. proc'[p].pc = "killed"
        BY <1>2, Facts DEF Kill, Idle
    <2> QED BY <2>1 DEF WholeOK, At
<1>3. CASE Locking(p) \/ Command(p)
    <2>1. Op(p)' \notin {"ws-create", "ws-complete"} /\ proc'[p].pc # "idle"
        BY <1>3, OtherCommands, AdvanceOnward DEF Onward, Op
    <2>2. proc'[p].pc \notin Migrating \cup Archiving
        BY <2>1 DEF TypeInv, LockInv, Types, ProcOK, OneOK, Migrating, Archiving
    <2> QED BY <2>1, <2>2 DEF WholeOK, At, Migrating, Archiving
<1>4. CASE WsCommand(p)
    BY <1>4, MigrationWhole, ArchivingWhole DEF WsCommand
<1> QED BY <1>1, <1>2, <1>3, <1>4 DEF Advance, PhaseStep

\* What is done around a process changes no part of the project.
LEMMA WholeAround ==
    ASSUME TypeInv, NEW p \in Procs, NEW start \in Starts, WholeOK(p, start),
           proc' = proc, attic' = attic, faults' = faults, made' = made, lock' = lock,
           \A v \in Places :
               /\ tree'[v].config = tree[v].config
               /\ \A part \in PartNames : Content(tree'[v], part) = Content(tree[v], part)
    PROVE  WholeOK(p, start)'
<1>1. \A v \in Places : \A part \in PartNames :
        /\ Has(tree[v], start, part)' = Has(tree[v], start, part)
        /\ Bare(tree[v], part)' = Bare(tree[v], part)
    BY DEF Has, Bare, Content
<1>2. /\ \A v \in Places : Whole(tree[v], start)' = Whole(tree[v], start)
      /\ Has(attic[p], start, "dirs")' = Has(attic[p], start, "dirs")
      /\ \A part : Has(attic[p], start, part)' = Has(attic[p], start, part)
      /\ Whole(attic[p], start)' = Whole(attic[p], start)
    BY <1>1 DEF Whole, Has, Content
<1>3. Untouched(start)' = Untouched(start)
    BY DEF Untouched, Content
<1>4. At(p, "moving") => MovingOK(proc[p].cmd.into, proc[p].todo, proc[p].next, start)'
    <2>1. SUFFICES ASSUME At(p, "moving")
                   PROVE  MovingOK(proc[p].cmd.into, proc[p].todo, proc[p].next, start)'
        OBVIOUS
    <2>2. proc[p].cmd.into \in Places /\ Flat \in Places
        BY <2>1, WorkstreamFacts DEF At, Migrating, Places
    <2>3. MovingOK(proc[p].cmd.into, proc[p].todo, proc[p].next, start)
        BY <2>1 DEF WholeOK
    <2> QED BY <1>1, <2>2, <2>3 DEF MovingOK, Only
<1>5. At(p, "moveback") => MovingBackOK(proc[p].cmd.into, proc[p].todo, start)'
    <2>1. SUFFICES ASSUME At(p, "moveback")
                   PROVE  MovingBackOK(proc[p].cmd.into, proc[p].todo, start)'
        OBVIOUS
    <2>2. proc[p].cmd.into \in Places /\ Flat \in Places
        BY <2>1, WorkstreamFacts DEF At, Migrating, Places
    <2>3. MovingBackOK(proc[p].cmd.into, proc[p].todo, start)
        BY <2>1 DEF WholeOK
    <2> QED BY <1>1, <2>2, <2>3 DEF MovingBackOK, Only, Spent
<1>6. At(p, "archiving") => ArchivingOK(proc[p].cmd.name, proc[p].todo, proc[p].next, attic[p], start)'
    <2>1. SUFFICES ASSUME At(p, "archiving")
                   PROVE  ArchivingOK(proc[p].cmd.name, proc[p].todo, proc[p].next, attic[p], start)'
        OBVIOUS
    <2>2. PICK name \in Places : name = proc[p].cmd.name
        BY <2>1, WorkstreamFacts DEF At, Archiving
    <2>3. ArchivingOK(name, proc[p].todo, proc[p].next, attic[p], start)
        BY <2>1, <2>2 DEF WholeOK
    <2>4. \A entry \in proc[p].todo : Holds(name, entry) => Holds(name, entry)'
        <3>1. ASSUME NEW entry \in proc[p].todo, Holds(name, entry)
              PROVE  Holds(name, entry)'
            <4>1. entry \in {"lock", "config"} \cup PartNames
                BY <2>1, Facts DEF Carried, At, EntryNames, PartNames
            <4>2. CASE entry \in {"lock", "config"}
                BY <2>2, <3>1, <4>2 DEF Holds, Present, Absent
            <4>3. CASE entry \in PartNames
                <5>1. ~Bare(tree[name], entry)
                    BY <3>1, <4>3, SameContent DEF Holds, Present, Absent, PartNames
                <5>2. ~Bare(tree'[name], entry)
                    BY <2>2, <4>3, <5>1 DEF Bare
                <5> QED BY <4>3, <5>2, SameContent DEF Holds, Present, Absent, PartNames
            <4> QED BY <4>1, <4>2, <4>3
        <3> QED BY <3>1
    <2>5. ArchivingOK(name, proc[p].todo, proc[p].next, attic[p], start)'
        BY <1>1, <1>2, <2>2, <2>3, <2>4 DEF ArchivingOK, Elsewhere
    <2> QED BY <2>2, <2>5
<1>7. At(p, "restore") => RestoringOK(proc[p].cmd.name, proc[p].todo, attic[p], start)'
    <2>1. SUFFICES ASSUME At(p, "restore")
                   PROVE  RestoringOK(proc[p].cmd.name, proc[p].todo, attic[p], start)'
        OBVIOUS
    <2>2. PICK name \in Places : name = proc[p].cmd.name
        BY <2>1, WorkstreamFacts DEF At, Archiving
    <2>3. RestoringOK(name, proc[p].todo, attic[p], start)
        BY <2>1, <2>2 DEF WholeOK
    <2>5. RestoringOK(name, proc[p].todo, attic[p], start)'
        BY <1>1, <1>2, <2>2, <2>3 DEF RestoringOK, Elsewhere, Spent
    <2> QED BY <2>2, <2>5
<1> QED BY <1>2, <1>3, <1>4, <1>5, <1>6, <1>7 DEF WholeOK, At, Op, Settling

LEMMA FaultsCounted ==
    ASSUME NEW p \in Procs, WsBegin(p) \/ WsCommand(p)
    PROVE  faults' \in {faults, faults + 1}
    BY DEF WsBegin, CreateBegins, WsCompleteBegins, SetPointer, WsCommand, MigrateBegins, MovePart, Moved, MoveFails, MoveBack,
           Abandon, OpenWorkstream, Activate, Deactivate, ArchiveEntry, ArchiveFails, Restore, Restored, Archived

LEMMA WholeInvKept ==
    TypeInv /\ LastInv /\ WholeInv /\ [WsNext]_wsvars => WholeInv'
<1> SUFFICES ASSUME TypeInv, LastInv, WholeInv, [WsNext]_wsvars
             PROVE  WholeInv'
    OBVIOUS
<1>1. TypeInv' /\ faults \in Nat
    BY TypeInvKept DEF WholeInv
<1>2. ASSUME NEW p \in Procs, Advance(p), faults' \in {faults, faults + 1}
      PROVE  WholeInv'
    <2>1. faults' \in Nat
        BY <1>1, <1>2
    <2>2. ASSUME OneFault, OwnState
          PROVE  \E start \in Starts : \A q \in Procs : Alone(q)' => WholeOK(q, start)'
        <3>1. PICK start \in Starts : \A q \in Procs : Alone(q) => WholeOK(q, start)
            BY <2>2 DEF WholeInv
        <3>2. ASSUME NEW q \in Procs, Alone(q)'
              PROVE  WholeOK(q, start)'
            <4>1. q = p
                <5>1. proc'[p].pc # "idle"
                    BY <1>2, AdvanceOnward DEF Onward
                <5> QED BY <3>2, <5>1 DEF Alone, At
            <4>2. Alone(p)
                BY <1>2, <3>2, <4>1, OthersStay DEF Alone, At, Advance, TypeInv
            <4> QED BY <1>1, <1>2, <2>2, <3>1, <4>1, <4>2, WholeStep
        <3> QED BY <3>2
    <2> QED BY <2>1, <2>2 DEF WholeInv, OneFault, OwnState
<1>3. ASSUME proc' = proc, attic' = attic, faults' = faults, made' = made, lock' = lock,
             \A v \in Places :
                 /\ tree'[v].config = tree[v].config
                 /\ \A part \in PartNames : Content(tree'[v], part) = Content(tree[v], part)
      PROVE  WholeInv'
    <2>1. ASSUME OneFault, OwnState
          PROVE  \E start \in Starts : \A q \in Procs : Alone(q)' => WholeOK(q, start)'
        <3>1. PICK start \in Starts : \A q \in Procs : Alone(q) => WholeOK(q, start)
            BY <2>1 DEF WholeInv
        <3>2. \A q \in Procs : Alone(q)' = Alone(q)
            BY <1>3 DEF Alone, At
        <3> QED BY <1>3, <3>1, <3>2, WholeAround
    <2> QED BY <1>1, <1>3, <2>1 DEF WholeInv, OneFault, OwnState
<1>4. ASSUME NEW at \in Places, Work(at), attic' = attic, faults' = faults
      PROVE  WholeInv'
    <2>1. tree \in [Places -> Trees] /\ \E dirs : tree' = [tree EXCEPT ![at].dirs = dirs]
        BY <1>4 DEF TypeInv, FilesOK, TreesOK, Work
    <2>2. \A t \in Trees : DOMAIN t = {"road", "dirs", "reqs", "state", "config"}
        BY DEF Trees
    <2>3. \A v \in Places : /\ tree'[v].config = tree[v].config /\ tree'[v].state = tree[v].state
                            /\ tree'[v].road = tree[v].road /\ tree'[v].reqs = tree[v].reqs
        BY <2>1, <2>2
    <2>4. \A v \in Places : Named(tree'[v].dirs) = Named(tree[v].dirs)
        <3>1. \A v \in Places : Marks(tree'[v].dirs) = Marks(tree[v].dirs)
            BY <1>4, WorkLeaves
        <3> QED BY <3>1, NamesOfMarks
    <2>5. \A v \in Places : \A part \in PartNames : Content(tree'[v], part) = Content(tree[v], part)
        BY <2>3, <2>4 DEF Content, PartNames
    <2> QED BY <1>3, <1>4, <2>3, <2>5 DEF Work
<1>5. ASSUME NEW at \in Places, Age(at), attic' = attic, faults' = faults
      PROVE  WholeInv'
    <2>1. PICK r \in Procs : At(r, "lock")
        BY <1>5 DEF Age
    <2>2. proc' = proc
        BY <1>5 DEF Age
    <2>3. ASSUME NEW start \in Starts, NEW q \in Procs, Alone(q)'
          PROVE  WholeOK(q, start)'
        <3>1. proc'[q].pc = "lock"
            BY <2>1, <2>2, <2>3 DEF Alone, At
        <3> QED BY <3>1 DEF WholeOK, At
    <2>4. OneFault /\ OwnState => \E start \in Starts : TRUE
        BY DEF WholeInv
    <2> QED BY <1>1, <1>5, <2>3, <2>4 DEF WholeInv, OneFault, OwnState
<1>6. CASE UNCHANGED wsvars
    BY <1>3, <1>6 DEF wsvars, vars, Content
<1> QED BY <1>2, <1>4, <1>5, <1>6, FaultsCounted DEF WsNext, PhaseNext, Surroundings, Rest, Advance

LEMMA WholeInvInit == WsInit => WholeInv
<1> SUFFICES ASSUME WsInit
             PROVE  WholeInv
    OBVIOUS
<1>1. PICK start \in Starts :
        /\ proc = [p \in Procs |-> IF p = start.dead THEN [Idle EXCEPT !.pc = "killed"] ELSE Idle]
        /\ tree = [at \in Places |-> IF at = start.at THEN start.tree ELSE NoTree]
    BY DEF WsInit, Init
<1>2. \A p \in Procs : proc[p].pc \in {"idle", "killed"} /\ attic[p] = NoAttic
    BY <1>1 DEF WsInit, Idle
<1>3. Untouched(start)
    BY <1>1 DEF Untouched
<1>4. \A p \in Procs : WholeOK(p, start)
    BY <1>2, <1>3 DEF WholeOK, At
<1> QED BY <1>4 DEF WsInit, WholeInv

\* A process that creates or completes a workstream while nobody else works leaves the
\* project in one piece: roadmap, STATE.md, requirements and phase directories are in
\* one planning directory or in one archive, the same as at the start, also when one
\* rename fails and what was moved before it is moved back (workstream.cjs,
\* migrateToWorkstreams, cmdWorkstreamCreate and cmdWorkstreamComplete).  A second
\* failing rename may leave a part behind, and a project without a STATE.md gets one
\* when the workstream it is migrated to, or lies in, is opened; both are excluded.
THEOREM ProjectsStayWhole == WsSpec => [](OneFault /\ OwnState => ProjectWhole)
<1>1. WsInit => TypeInv /\ Unbegun /\ DirsInv /\ WholeInv
    BY TypeInvInit, UnbegunInit, DirsInvInit, WholeInvInit
<1>2. TypeInv /\ Unbegun /\ DirsInv /\ WholeInv /\ [WsNext]_wsvars => (TypeInv /\ Unbegun /\ DirsInv /\ WholeInv)'
    BY TypeInvKept, UnbegunKept, DirsInvKept, WholeInvKept DEF DirsInv
<1>3. WholeInv => (OneFault /\ OwnState => ProjectWhole)
    <2>1. SUFFICES ASSUME WholeInv, OneFault, OwnState, NEW p \in Procs,
                          At(p, "done") /\ Op(p) \in {"ws-create", "ws-complete"} /\ Alone(p)
                   PROVE  \E start \in Starts : \E whole \in {tree[at] : at \in Places} \cup {attic[q] : q \in Procs} :
                            /\ whole.road = start.tree.road /\ whole.state = start.tree.state
                            /\ whole.reqs = start.tree.reqs /\ Named(whole.dirs) = Named(start.tree.dirs)
        BY DEF ProjectWhole
    <2>2. PICK start \in Starts : WholeOK(p, start)
        BY <2>1 DEF WholeInv
    <2>3. (\E at \in Places : Whole(tree[at], start)) \/ Whole(attic[p], start)
        BY <2>1, <2>2 DEF WholeOK
    <2>4. PICK whole \in {tree[at] : at \in Places} \cup {attic[q] : q \in Procs} : Whole(whole, start)
        BY <2>3
    <2>5. /\ whole.road = start.tree.road /\ whole.state = start.tree.state
          /\ whole.reqs = start.tree.reqs /\ Named(whole.dirs) = Named(start.tree.dirs)
        BY <2>4 DEF Whole, Has, Content, PartNames
    <2> QED BY <2>5
<1> QED BY <1>1, <1>2, <1>3, PTL DEF WsSpec
=============================================================================
