-------------------------- MODULE PlanningPhases --------------------------
(***************************************************************************)
(* Commands of gsd-tools as concurrent processes over the planning         *)
(* directories of one repository: the phases of ROADMAP.md and of phases/, *)
(* requirements, milestones, configuration and health repairs.  Flat is    *)
(* .planning itself, a name is .planning/workstreams/<name>.               *)
(*                                                                         *)
(* A process runs one command.  A step is one access to the disk, or       *)
(* several that follow each other without a window the others could tell   *)
(* apart.  STATE.md is rewritten in one step: PlanningState has its lock.  *)
(* Not modelled: the instant between making a directory that a lock needs  *)
(* and creating the lock, and temporary files left by a killed process.    *)
(***************************************************************************)
EXTENDS PlanningTree

CONSTANTS
    Procs, Flat, Names,     \* processes, .planning, the workstreams' names
    Root,                   \* the directory .planning/workstreams
    Menu,                   \* Menu[p]: the commands p may run
    Starts,                 \* the planning trees there may be at the start, where, the
                            \* process that died earlier and left a lock there, if one did,
                            \* and the processes that have a session of their own
    MaxKills,               \* bound: processes that are killed
    Patience                \* TRUE: a holder is never outwaited while it lives

Places == {Flat} \cup Names

\* The key of the shared pointer, which lies in .planning.
Shared == Flat

\* What a lock file tells: who wrote it, and whether it is 30 s old.
Locks == [by : Procs, old : BOOLEAN]

ASSUME PlacesAssumption ==
    /\ Flat \notin Names /\ Root \notin Places
    /\ None \notin Places \cup Procs \cup {Root} \cup Locks \cup Numbers \cup States
    /\ MaxKills \in Nat /\ Patience \in BOOLEAN
ASSUME FilesAssumption == None \notin Seq(Sections) /\ None \notin Directories
ASSUME SettingsAssumption == Defaults \cup RepairDefaults \subseteq Settings
ASSUME StartsAssumption ==
    \A start \in Starts :
        /\ start.at \in Places /\ start.dead \in Procs \cup {None} /\ start.own \subseteq Procs
        /\ start.tree \in Trees /\ IsFiniteSet(start.tree.dirs)
        /\ \A d \in start.tree.dirs : d.done <= d.plans

\* The commands, with the workstream that --ws gives.
Given == Names \cup {None}
Commands ==
    [op : {"add"}, ws : Given, names : Seq(Titles) \ {<<>>}]
    \cup [op : {"insert"}, ws : Given, base : Numbers, names : {<<title>> : title \in Titles}]
    \cup [op : {"remove"}, ws : Given, id : Numbers, force : BOOLEAN]
    \cup [op : {"complete", "progress", "annotate"}, ws : Given, id : Numbers]
    \cup [op : {"mark"}, ws : Given, req : Requirements]
    \cup [op : {"milestone", "clear", "ensure", "repair"}, ws : Given]
    \cup [op : {"set"}, ws : Given, key : Settings]
    \cup [op : {"ws-create"}, ws : Given, name : Names, into : Names]
    \cup [op : {"ws-complete", "ws-set", "ws-clear"}, ws : Given, name : Names]
ASSUME MenuAssumption == Menu \in [Procs -> SUBSET Commands] /\ \A p \in Procs : None \notin Menu[p]

VARIABLES
    tree,       \* tree[at]: the files of a planning directory
    made,       \* the directories that exist
    lock,       \* lock[at]: the .lock file, who wrote it and whether it is 30 s old
    shelf,      \* .planning/milestones and MILESTONES.md, shared by all places
    pointer,    \* the active workstream, of each session and of those without a session
    proc,       \* the command of each process and where it stands
    robbed,     \* some lock was deleted while its owner was at work
    kills       \* how many processes have been killed

vars == <<tree, made, lock, shelf, pointer, proc, robbed, kills>>
disk == <<tree, made, lock, shelf, pointer, robbed, kills>>

NoTree == [road |-> None, dirs |-> {}, reqs |-> None, state |-> None, config |-> NoConfig]

Idle == [cmd |-> None, pc |-> "idle", at |-> Flat, ok |-> FALSE, road |-> None, reqs |-> None,
         todo |-> <<>>, num |-> 0, counts |-> None, next |-> None]

Ancestors(at) == IF at = Flat THEN {Flat} ELSE {at, Root}

Init ==
    /\ \E start \in Starts :
          /\ lock = [at \in Places |-> IF at = start.at /\ start.dead # None
                                      THEN [by |-> start.dead, old |-> FALSE] ELSE None]
          /\ proc = [p \in Procs |-> IF p = start.dead THEN [Idle EXCEPT !.pc = "killed"] ELSE Idle]
          /\ tree = [at \in Places |-> IF at = start.at THEN start.tree ELSE NoTree]
          /\ made = {Flat} \cup Ancestors(start.at)
          /\ pointer = [s \in start.own \cup {Shared} |-> IF start.at = Flat THEN None ELSE start.at]
    /\ shelf = [roads |-> {}, entries |-> {}, dirs |-> [at \in Places |-> {}]]
    /\ robbed = FALSE /\ kills = 0

-----------------------------------------------------------------------------
(* Control. *)

At(p, pc) == proc[p].pc = pc
Op(p) == proc[p].cmd.op
Here(p) == tree[proc[p].at]

Goto(p, pc) == proc' = [proc EXCEPT ![p].pc = pc]

\* The command is over; what it ran and whether it succeeded are remembered.
Over(p, ok) == [Idle EXCEPT !.cmd = proc[p].cmd, !.at = proc[p].at, !.pc = "done", !.ok = ok]
Finish(p, ok) == proc' = [proc EXCEPT ![p] = Over(p, ok)]

\* A process whose terminal or agent names a session has a pointer of its own.
SessionOf(p) == IF p \in DOMAIN pointer THEN p ELSE Shared
ActiveOf(p) == pointer[SessionOf(p)]
SetActive(p, name) == pointer' = [pointer EXCEPT ![SessionOf(p)] = name]

\* --ws, or the active workstream, or the flat layout; a pointer to a directory
\* that is gone is cleared on the way.
PlaceOf(p, c) == IF c.ws # None THEN c.ws ELSE IF ActiveOf(p) \in made THEN ActiveOf(p) ELSE Flat
Resolve(p, c) ==
    IF c.ws = None /\ ActiveOf(p) \notin made THEN SetActive(p, None) ELSE UNCHANGED pointer

Begin(p, c, entered) ==
    /\ At(p, "idle") /\ c \in Menu[p]
    /\ Resolve(p, c)
    /\ proc' = [proc EXCEPT ![p] = [entered EXCEPT !.cmd = c, !.at = PlaceOf(p, c)]]
    /\ UNCHANGED <<tree, made, lock, shelf, robbed, kills>>

Enter(pc) == [Idle EXCEPT !.pc = pc]
Refused == [Idle EXCEPT !.pc = "done"]
Nothing == [Idle EXCEPT !.pc = "done", !.ok = TRUE]

\* A write into a directory that is gone fails and ends the command.
Writable(p) == proc[p].at \in made

-----------------------------------------------------------------------------
(* withPlanningLock. *)

\* Where a process works under the lock, and where it works at all.
Held == {"read", "make", "write", "reqread", "reqwrite", "configwrite", "release", "fail"}
Section(p) == proc[p].pc \in Held
Working(p) == proc[p].pc \notin {"idle", "done", "killed"}

\* Deleting a lock file robs its owner if that is still at work under it.
Robs(p, at) == lock[at] # None /\ lock[at].by # p /\ Section(lock[at].by) /\ proc[lock[at].by].at = at
Unlink(p) ==
    /\ lock' = [lock EXCEPT ![proc[p].at] = None]
    /\ robbed' = (robbed \/ Robs(p, proc[p].at))

FirstStep(p) == IF Op(p) = "set" THEN "configwrite" ELSE "read"

\* Mutant of Create: not exclusive.
CreateAnyway(p) ==
    LET at == proc[p].at IN
    /\ lock' = [lock EXCEPT ![at] = [by |-> p, old |-> FALSE]]
    /\ made' = made \cup Ancestors(at)
    /\ IF Op(p) = "set" /\ Here(p).config = Corrupt THEN Goto(p, "fail")
       ELSE proc' = [proc EXCEPT ![p].pc = FirstStep(p),
                                 ![p].reqs = IF Op(p) = "set" THEN Here(p).config.keys ELSE None]
    /\ UNCHANGED <<tree, shelf, pointer, robbed, kills>>

\* The directory is made if it is missing and the lock file created, exclusively;
\* config-set reads the file it changes right away.
Create(p) ==
    LET at == proc[p].at IN
    /\ lock[at] = None
    /\ lock' = [lock EXCEPT ![at] = [by |-> p, old |-> FALSE]]
    /\ made' = made \cup Ancestors(at)
    /\ IF Op(p) = "set" /\ Here(p).config = Corrupt THEN Goto(p, "fail")
       ELSE proc' = [proc EXCEPT ![p].pc = FirstStep(p),
                                 ![p].reqs = IF Op(p) = "set" THEN Here(p).config.keys ELSE None]
    /\ UNCHANGED <<tree, shelf, pointer, robbed, kills>>

Acquire(p) == At(p, "lock") /\ Create(p)

\* The file exists and is more than 30 s old ...
SeeStale(p) ==
    /\ At(p, "lock") /\ lock[proc[p].at] # None /\ lock[proc[p].at].old
    /\ Goto(p, "stale") /\ UNCHANGED disk

\* ... so the file of that name is deleted, and creating it is tried again.
BreakStale(p) ==
    /\ At(p, "stale") /\ Unlink(p) /\ Goto(p, "lock")
    /\ UNCHANGED <<tree, made, shelf, pointer, kills>>

\* After 10 s of waiting the file is deleted whoever it belongs to ...
GiveUpWaiting(p) ==
    /\ At(p, "lock") /\ lock[proc[p].at] # None
    /\ Patience => ~Robs(p, proc[p].at)
    /\ Unlink(p) /\ Goto(p, "last")
    /\ UNCHANGED <<tree, made, shelf, pointer, kills>>

\* ... and the lock is created, or the command fails.
LastTry(p) ==
    \/ At(p, "last") /\ Create(p)
    \/ At(p, "last") /\ lock[proc[p].at] # None /\ Finish(p, FALSE) /\ UNCHANGED disk

\* The lock file is deleted on the way out, whoever it belongs to: by `finally`,
\* and by the exit handler if the command fails.
Release(p) ==
    /\ At(p, "release") /\ Unlink(p)
    /\ IF Op(p) = "complete" THEN Goto(p, "lookup") ELSE Finish(p, TRUE)
    /\ UNCHANGED <<tree, made, shelf, pointer, kills>>
Fail(p) ==
    /\ At(p, "fail") /\ Unlink(p) /\ Finish(p, FALSE)
    /\ UNCHANGED <<tree, made, shelf, pointer, kills>>

-----------------------------------------------------------------------------
(* phase add, add-batch and insert. *)

\* Mutant of AddBegins: without the lock.
AddUnlocked(p, c) ==
    c.op = "add" /\ Begin(p, c, IF tree[PlaceOf(p, c)].road = None THEN Refused ELSE Enter("read"))

AddBegins(p, c) ==
    c.op = "add" /\ Begin(p, c, IF tree[PlaceOf(p, c)].road = None THEN Refused ELSE Enter("lock"))
InsertBegins(p, c) ==
    c.op = "insert" /\ Begin(p, c, IF tree[PlaceOf(p, c)].road = None THEN Refused ELSE Enter("lock"))

\* Under the lock ROADMAP.md is read, and the directories are listed for the
\* next number; a batch takes the numbers that follow.
ReadForAdd(p) ==
    /\ At(p, "read") /\ Op(p) \in {"add", "insert"}
    /\ LET road == Here(p).road
           c == proc[p].cmd
       IN  IF road = None \/ (c.op = "insert" /\ SectionOf(road, c.base) = 0) THEN Goto(p, "fail")
           ELSE proc' = [proc EXCEPT ![p].pc = "make", ![p].road = road, ![p].todo = c.names,
                    ![p].num = IF c.op = "insert" THEN NextDecimal(road, Here(p).dirs, c.base)
                               ELSE NextInteger(road, Here(p).dirs)]
    /\ UNCHANGED disk

\* The directory comes first, then the section in the text that is held.
MakeDirectory(p) ==
    /\ At(p, "make")
    /\ LET c == proc[p].cmd
           n == proc[p].num
           name == Head(proc[p].todo)
           id == IF c.op = "insert" THEN <<c.base[1], n>> ELSE <<n, 0>>
       IN  /\ tree' = [tree EXCEPT ![proc[p].at].dirs = @ \cup {Directory(id, name)}]
           /\ proc' = [proc EXCEPT
                 ![p].pc = IF Len(proc[p].todo) = 1 THEN "write" ELSE "make",
                 ![p].todo = Tail(@), ![p].num = n + 1,
                 ![p].road = IF c.op = "insert" THEN InsertedAfter(@, c.base, n, name)
                             ELSE Appended(@, n, name)]
    /\ made' = made \cup Ancestors(proc[p].at)
    /\ UNCHANGED <<lock, shelf, pointer, robbed, kills>>

-----------------------------------------------------------------------------
(* phase remove: the directories without the lock, then the roadmap with it. *)

RemoveBegins(p, c) ==
    /\ c.op = "remove"
    /\ LET t == tree[PlaceOf(p, c)]
           d == DirOf(t.dirs, c.id)
       IN  Begin(p, c, IF t.road = None \/ (d # None /\ d.done > 0 /\ ~c.force) THEN Refused
                       ELSE [Enter("rmdir") EXCEPT !.next = d])

\* The directory is deleted and the later ones are listed.
DeleteDirectory(p) ==
    /\ At(p, "rmdir")
    /\ LET gone == proc[p].next
           left == {d \in Here(p).dirs : gone = None \/ d.id # gone.id \/ d.name # gone.name}
       IN  /\ tree' = [tree EXCEPT ![proc[p].at].dirs = left]
           /\ proc' = [proc EXCEPT ![p].pc = "rename", ![p].todo = Later(left, proc[p].cmd.id)]
    /\ UNCHANGED <<made, lock, shelf, pointer, robbed, kills>>

\* One directory is renamed; if it is gone the rest are left as they are.
RenameNext(p) ==
    /\ At(p, "rename") /\ proc[p].todo # {}
    /\ LET target == Highest(proc[p].todo)
           same == {d \in Here(p).dirs : d.id = target.id /\ d.name = target.name}
       IN  IF same = {} THEN /\ proc' = [proc EXCEPT ![p].pc = "lock", ![p].todo = {}]
                             /\ UNCHANGED tree
           ELSE /\ tree' = [tree EXCEPT ![proc[p].at].dirs =
                       (@ \ same) \cup {[d EXCEPT !.id = Shifted(@, proc[p].cmd.id)] : d \in same}]
                /\ proc' = [proc EXCEPT ![p].todo = @ \ {target}]
    /\ UNCHANGED <<made, lock, shelf, pointer, robbed, kills>>
Renamed(p) == At(p, "rename") /\ proc[p].todo = {} /\ Goto(p, "lock") /\ UNCHANGED disk

-----------------------------------------------------------------------------
(* phase complete, roadmap update-plan-progress and annotate-dependencies. *)

\* findPhaseInternal: the place's directory, or else one of the archives'.
Findable(at, id) ==
    IF id \in DirIds(tree[at].dirs) THEN {DirOf(tree[at].dirs, id)}
    ELSE UNION {{d \in shelf.dirs[v] : d.id = id} : v \in Places}

\* Mutant of CompleteBegins: without the lock.
CompleteUnlocked(p, c) ==
    /\ c.op = "complete"
    /\ LET t == tree[PlaceOf(p, c)]
           found == Findable(PlaceOf(p, c), c.id)
       IN  \/ found = {} /\ Begin(p, c, Refused)
           \/ \E d \in found :
                 Begin(p, c, [Enter(IF t.road = None THEN "lookup" ELSE "read") EXCEPT !.counts = Counts(d)])

\* The plans are counted before the lock is asked for.
CompleteBegins(p, c) ==
    /\ c.op = "complete"
    /\ LET t == tree[PlaceOf(p, c)]
           found == Findable(PlaceOf(p, c), c.id)
       IN  \/ found = {} /\ Begin(p, c, Refused)
           \/ \E d \in found :
                 Begin(p, c, [Enter(IF t.road = None THEN "lookup" ELSE "lock") EXCEPT !.counts = Counts(d)])

\* The plans are counted before the lock here, too.
CountAndLock(p, c, d) ==
    Begin(p, c, IF d.plans = 0 \/ tree[PlaceOf(p, c)].road = None THEN Nothing
                ELSE [Enter("lock") EXCEPT !.counts = Counts(d)])
ProgressBegins(p, c) ==
    /\ c.op = "progress"
    /\ LET found == Findable(PlaceOf(p, c), c.id)
       IN  (found = {} /\ Begin(p, c, Refused)) \/ \E d \in found : CountAndLock(p, c, d)
AnnotateBegins(p, c) ==
    /\ c.op = "annotate"
    /\ LET found == Findable(PlaceOf(p, c), c.id)
       IN  (found = {} /\ Begin(p, c, Nothing)) \/ \E d \in found : CountAndLock(p, c, d)

\* Every other command that rewrites the roadmap reads it under the lock.
ReadRoadmap(p) ==
    /\ At(p, "read") /\ Op(p) \in {"remove", "complete", "progress", "annotate"}
    /\ IF Here(p).road = None THEN Goto(p, "fail")
       ELSE proc' = [proc EXCEPT ![p].pc = "write", ![p].road = Here(p).road]
    /\ UNCHANGED disk

Rewritten(p) ==
    LET c == proc[p].cmd
        road == proc[p].road
    IN  CASE c.op = "remove" -> Removed(road, c.id)
          [] c.op = "complete" -> Completed(road, c.id, proc[p].counts)
          [] c.op = "progress" -> PlanProgressed(road, c.id, proc[p].counts)
          [] c.op = "annotate" -> Annotated(road, c.id)
          [] c.op \in {"add", "insert"} -> road

AfterWrite(p) ==
    IF Op(p) = "complete" /\ Here(p).reqs # None THEN "reqread" ELSE "release"

WriteRoadmap(p) ==
    /\ At(p, "write")
    /\ IF Op(p) = "annotate" /\ Rewritten(p) = proc[p].road THEN Goto(p, "release") /\ UNCHANGED tree
       ELSE IF Writable(p)
       THEN /\ tree' = [tree EXCEPT ![proc[p].at].road = Rewritten(p)]
            /\ proc' = [proc EXCEPT ![p].pc = AfterWrite(p), ![p].road = Rewritten(p)]
       ELSE Goto(p, "fail") /\ UNCHANGED tree
    /\ UNCHANGED <<made, lock, shelf, pointer, robbed, kills>>

\* The requirements of the completed phase are ticked, still under the lock.
ReadRequirements(p) ==
    /\ At(p, "reqread")
    /\ IF Here(p).reqs = None THEN Goto(p, "fail")
       ELSE proc' = [proc EXCEPT ![p].pc = "reqwrite", ![p].reqs = Here(p).reqs]
    /\ UNCHANGED disk
WriteRequirements(p) ==
    /\ At(p, "reqwrite")
    /\ IF Writable(p)
       THEN /\ tree' = [tree EXCEPT ![proc[p].at].reqs =
                           proc[p].reqs \cup RequirementsOf(proc[p].road, proc[p].cmd.id)]
            /\ Goto(p, "release")
       ELSE Goto(p, "fail") /\ UNCHANGED tree
    /\ UNCHANGED <<made, lock, shelf, pointer, robbed, kills>>

\* After the lock: the next phase is looked up, and STATE.md moves to it.
LookUpNext(p) ==
    /\ At(p, "lookup")
    /\ proc' = [proc EXCEPT ![p].pc = "state",
                            ![p].next = NextPhase(Here(p).road, Here(p).dirs, proc[p].cmd.id)]
    /\ UNCHANGED disk
MoveState(p) ==
    /\ At(p, "state")
    /\ tree' = IF Here(p).state = None THEN tree
               ELSE [tree EXCEPT ![proc[p].at].state = Advanced(@, proc[p].cmd.id, proc[p].next)]
    /\ Finish(p, TRUE)
    /\ UNCHANGED <<made, lock, shelf, pointer, robbed, kills>>

-----------------------------------------------------------------------------
(* requirements mark-complete: a read and a write without the lock. *)

MarkBegins(p, c) ==
    /\ c.op = "mark"
    /\ LET reqs == tree[PlaceOf(p, c)].reqs
           idle == IF reqs = None THEN TRUE ELSE c.req \in reqs
       IN  Begin(p, c, IF idle THEN Nothing ELSE [Enter("mark") EXCEPT !.reqs = reqs])
Mark(p) ==
    /\ At(p, "mark")
    /\ IF Writable(p)
       THEN /\ tree' = [tree EXCEPT ![proc[p].at].reqs = proc[p].reqs \cup {proc[p].cmd.req}]
            /\ Finish(p, TRUE)
       ELSE Finish(p, FALSE) /\ UNCHANGED tree
    /\ UNCHANGED <<made, lock, shelf, pointer, robbed, kills>>

-----------------------------------------------------------------------------
(* milestone complete and phases clear: no lock at all. *)

\* The numbers of the roadmap decide which directories belong to the milestone.
MilestoneBegins(p, c) ==
    /\ c.op = "milestone"
    /\ Begin(p, c, [Enter("archive") EXCEPT !.next = RoadIds(tree[PlaceOf(p, c)].road)])

\* Roadmap and requirements are copied to the archive, MILESTONES.md is read ...
ArchiveRoadmap(p) ==
    /\ At(p, "archive")
    /\ shelf' = IF Here(p).road = None THEN shelf ELSE [shelf EXCEPT !.roads = @ \cup {proc[p].at}]
    /\ proc' = [proc EXCEPT ![p].pc = "register", ![p].reqs = shelf.entries]
    /\ UNCHANGED <<tree, made, lock, pointer, robbed, kills>>

\* ... and written back with the new entry.
Register(p) ==
    /\ At(p, "register")
    /\ shelf' = [shelf EXCEPT !.entries = proc[p].reqs \cup {proc[p].at}]
    /\ Goto(p, "close")
    /\ UNCHANGED <<tree, made, lock, pointer, robbed, kills>>

\* STATE.md is closed; then the directories are listed ...
CloseState(p) ==
    /\ At(p, "close")
    /\ tree' = IF Here(p).state = None THEN tree
               ELSE [tree EXCEPT ![proc[p].at].state = [@ EXCEPT !.refs = {}, !.closed = TRUE]]
    /\ proc' = [proc EXCEPT ![p].pc = "shelve", ![p].todo =
                   SetToSeq({d \in Here(p).dirs : InMilestone(proc[p].next, d)})]
    /\ UNCHANGED <<made, lock, shelf, pointer, robbed, kills>>

\* ... and moved into the archive one by one; one that is gone ends the moving.
Shelve(p) ==
    /\ At(p, "shelve") /\ proc[p].todo # <<>>
    /\ LET target == Head(proc[p].todo)
           same == {d \in Here(p).dirs : d.id = target.id /\ d.name = target.name}
       IN  IF same = {} THEN Finish(p, TRUE) /\ UNCHANGED <<tree, shelf>>
           ELSE /\ tree' = [tree EXCEPT ![proc[p].at].dirs = @ \ same]
                /\ shelf' = [shelf EXCEPT !.dirs[proc[p].at] = @ \cup same]
                /\ proc' = [proc EXCEPT ![p].todo = Tail(@)]
    /\ UNCHANGED <<made, lock, pointer, robbed, kills>>
Shelved(p) == At(p, "shelve") /\ proc[p].todo = <<>> /\ Finish(p, TRUE) /\ UNCHANGED disk

ClearBegins(p, c) ==
    /\ c.op = "clear"
    /\ Begin(p, c, [Enter("clear") EXCEPT !.todo = SetToSeq(tree[PlaceOf(p, c)].dirs)])
ClearNext(p) ==
    /\ At(p, "clear") /\ proc[p].todo # <<>>
    /\ LET target == Head(proc[p].todo)
       IN  tree' = [tree EXCEPT ![proc[p].at].dirs =
                       {d \in @ : d.id # target.id \/ d.name # target.name}]
    /\ proc' = [proc EXCEPT ![p].todo = Tail(@)]
    /\ UNCHANGED <<made, lock, shelf, pointer, robbed, kills>>
Cleared(p) == At(p, "clear") /\ proc[p].todo = <<>> /\ Finish(p, TRUE) /\ UNCHANGED disk

-----------------------------------------------------------------------------
(* config-set under the lock; config-new-project and config-ensure-section   *)
(* check for the file and write it.                                          *)

\* Mutant of SetBegins: config.json is read before the lock, and written without.
SetUnlocked(p, c) ==
    c.op = "set" /\ Begin(p, c, [Enter("configwrite") EXCEPT !.reqs = tree[PlaceOf(p, c)].config.keys])
SetBegins(p, c) == c.op = "set" /\ Begin(p, c, Enter("lock"))
WriteConfig(p) ==
    /\ At(p, "configwrite")
    /\ IF Writable(p)
       THEN /\ tree' = [tree EXCEPT ![proc[p].at].config = Config(proc[p].reqs \cup {proc[p].cmd.key})]
            /\ Goto(p, "release")
       ELSE Goto(p, "fail") /\ UNCHANGED tree
    /\ UNCHANGED <<made, lock, shelf, pointer, robbed, kills>>

EnsureBegins(p, c) ==
    /\ c.op = "ensure"
    /\ Begin(p, c, IF tree[PlaceOf(p, c)].config = NoConfig THEN Enter("ensure") ELSE Nothing)
EnsureConfig(p) ==
    /\ At(p, "ensure")
    /\ tree' = [tree EXCEPT ![proc[p].at].config = Config(Defaults)]
    /\ made' = made \cup Ancestors(proc[p].at)
    /\ Finish(p, TRUE)
    /\ UNCHANGED <<lock, shelf, pointer, robbed, kills>>

-----------------------------------------------------------------------------
(* validate health --repair: the diagnosis, then its repairs, without a lock. *)

\* The archive that health takes the phases of: only .planning has one.
ActiveArchive(at) ==
    LET filled == {v \in Places : shelf.dirs[v] # {}}
    IN  IF at # Flat \/ filled = {} THEN {}
        ELSE DirIds(shelf.dirs[IF Flat \in filled THEN Flat ELSE CHOOSE v \in filled : TRUE])

Unlisted(at) == at = Flat /\ ~(shelf.roads \subseteq shelf.entries)
Health(at) == Diagnosis(tree[at], ActiveArchive(at), Unlisted(at))

RepairBegins(p, c) ==
    /\ c.op = "repair"
    /\ LET at == PlaceOf(p, c)
       IN  Begin(p, c, IF at \notin made THEN Refused
                       ELSE [Enter("repair") EXCEPT !.todo = Health(at) \cap Repairable,
                                                    !.next = shelf.roads \ shelf.entries])

\* config.json is rewritten with defaults, STATE.md regenerated, the entries
\* found missing are added to MILESTONES.md.
Repair(p) ==
    /\ At(p, "repair") /\ proc[p].todo # {}
    /\ LET at == proc[p].at
           code == FirstRepair(proc[p].todo)
           fresh == [phase |-> None, refs |-> {}, closed |-> FALSE]
       IN  /\ tree' = IF ~Writable(p) THEN tree ELSE [tree EXCEPT
                         ![at].config = IF code \in {"W003", "E005"} THEN Config(RepairDefaults) ELSE @,
                         ![at].state = IF code = "E004" THEN fresh ELSE @]
           /\ shelf' = [shelf EXCEPT !.entries = IF code = "W018" THEN @ \cup proc[p].next ELSE @]
           /\ proc' = IF code \in {"W008", "W016"}
                      THEN [proc EXCEPT ![p].pc = "addkey", ![p].reqs = Here(p).config]
                      ELSE [proc EXCEPT ![p].todo = @ \ {code}]
    /\ UNCHANGED <<made, lock, pointer, robbed, kills>>

\* A missing key goes into the text that was read; a file that was not JSON then
\* is left alone.
AddKey(p) ==
    /\ At(p, "addkey")
    /\ LET code == FirstRepair(proc[p].todo)
           key == IF code = "W008" THEN "nyquist" ELSE "ai"
           read == proc[p].reqs
       IN  /\ tree' = IF read.kind # "keys" \/ key \in read.keys \/ ~Writable(p) THEN tree
                      ELSE [tree EXCEPT ![proc[p].at].config = Config(read.keys \cup {key})]
           /\ proc' = [proc EXCEPT ![p].pc = "repair", ![p].todo = @ \ {code}, ![p].reqs = None]
    /\ UNCHANGED <<made, lock, shelf, pointer, robbed, kills>>
Repaired(p) == At(p, "repair") /\ proc[p].todo = {} /\ Finish(p, TRUE) /\ UNCHANGED disk

-----------------------------------------------------------------------------
(* The surroundings. *)

\* An agent finishes a plan of a phase, or takes notes for one without plans.
Work(at) ==
    \E d \in tree[at].dirs :
        LET after == IF d.plans = 0 THEN [d EXCEPT !.notes = TRUE] ELSE [d EXCEPT !.done = @ + 1]
        IN  /\ d.done < d.plans \/ (d.plans = 0 /\ ~d.notes)
            /\ tree' = [tree EXCEPT ![at].dirs = (@ \ {d}) \cup {after}]
            /\ UNCHANGED <<made, lock, shelf, pointer, proc, robbed, kills>>

\* 30 s pass while somebody waits for a lock.
Age(at) ==
    /\ lock[at] # None /\ ~lock[at].old
    /\ Patience => proc[lock[at].by].pc = "killed"
    /\ \E p \in Procs : At(p, "lock") /\ proc[p].at = at
    /\ lock' = [lock EXCEPT ![at].old = TRUE]
    /\ UNCHANGED <<tree, made, shelf, pointer, proc, robbed, kills>>

\* A process is killed: its lock stays; a config.json that a repair was writing
\* (not atomically) is left truncated.
Kill(p) ==
    /\ Working(p) /\ kills < MaxKills
    /\ kills' = kills + 1
    /\ proc' = [proc EXCEPT ![p] = [Idle EXCEPT !.cmd = proc[p].cmd, !.at = proc[p].at, !.pc = "killed"]]
    /\ tree' \in {tree} \cup
         IF (At(p, "repair") /\ proc[p].todo # {} /\ FirstRepair(proc[p].todo) \in {"W003", "E005"})
            \/ (At(p, "addkey") /\ proc[p].reqs.kind = "keys")
         THEN {[tree EXCEPT ![proc[p].at].config = Corrupt]} ELSE {}
    /\ UNCHANGED <<made, lock, shelf, pointer, robbed>>

-----------------------------------------------------------------------------
BeginCommand(p) ==
    At(p, "idle") /\ \E c \in Menu[p] :
        \/ AddBegins(p, c) \/ InsertBegins(p, c) \/ RemoveBegins(p, c) \/ CompleteBegins(p, c)
        \/ ProgressBegins(p, c) \/ AnnotateBegins(p, c) \/ MarkBegins(p, c) \/ MilestoneBegins(p, c) \/ ClearBegins(p, c) \/ SetBegins(p, c)
        \/ EnsureBegins(p, c) \/ RepairBegins(p, c)

Locking(p) ==
    Acquire(p) \/ SeeStale(p) \/ BreakStale(p) \/ GiveUpWaiting(p) \/ LastTry(p)
    \/ Release(p) \/ Fail(p)

Command(p) ==
    \/ ReadForAdd(p) \/ MakeDirectory(p) \/ DeleteDirectory(p) \/ RenameNext(p) \/ Renamed(p)
    \/ ReadRoadmap(p) \/ WriteRoadmap(p) \/ ReadRequirements(p) \/ WriteRequirements(p)
    \/ LookUpNext(p) \/ MoveState(p) \/ Mark(p)
    \/ ArchiveRoadmap(p) \/ Register(p) \/ CloseState(p) \/ Shelve(p) \/ Shelved(p)
    \/ ClearNext(p) \/ Cleared(p) \/ WriteConfig(p) \/ EnsureConfig(p)
    \/ Repair(p) \/ AddKey(p) \/ Repaired(p)

PhaseStep(p) == BeginCommand(p) \/ Locking(p) \/ Command(p) \/ Kill(p)
Surroundings == \E at \in Places : Work(at) \/ Age(at)

PhaseNext == (\E p \in Procs : PhaseStep(p)) \/ Surroundings
PhaseSpec == Init /\ [][PhaseNext]_vars
-----------------------------------------------------------------------------
(* Properties. *)

AtRest == \A p \in Procs : ~Working(p)
Ran(ops) == \E p \in Procs : proc[p].cmd # None /\ Op(p) \in ops
\* Commands that take directories or whole planning directories away from others.
Taking == {"remove", "clear", "ws-create", "ws-complete"}
Alone(p) == \A q \in Procs \ {p} : At(q, "idle")
Acknowledged(p, ops) == At(p, "done") /\ proc[p].ok /\ Op(p) \in ops

\* Types: every tree, lock, archive and process stays within what the code can
\* hold: a phase has a natural number after any renumbering, no more plans are done
\* than there are, workstreams/ exists as long as a workstream does.
TypeOK ==
    /\ tree \in [Places -> Trees] /\ \A at \in Places : \A d \in tree[at].dirs : d.done <= d.plans
    /\ shelf \in [roads : SUBSET Places, entries : SUBSET Places, dirs : [Places -> SUBSET Directories]]
    /\ lock \in [Places -> Locks \cup {None}]
    /\ Flat \in made /\ made \subseteq Places \cup {Root}
    /\ Names \cap made # {} => Root \in made
    /\ \A s \in DOMAIN pointer : pointer[s] \in Names \cup {None}
    /\ \A p \in Procs : proc[p].at \in Places /\ proc[p].ok \in BOOLEAN
    /\ robbed \in BOOLEAN /\ kills \in 0..MaxKills

\* Two processes work under the lock of a directory at once only after somebody
\* deleted the lock of one of them: exclusive creation is enough, and a lock is
\* given back on every way out.
LockExcludes ==
    ~robbed => \A p, q \in Procs : Section(p) /\ Section(q) /\ proc[p].at = proc[q].at => p = q

\* A phase whose addition was acknowledged has a section, and a directory of the
\* same number, whatever ran beside it and even if it was killed; only removals,
\* clearing and stolen locks undo it.
PhasesKept ==
    \A p \in Procs :
        Acknowledged(p, {"add", "insert"}) /\ ~robbed /\ ~Ran(Taking \cup {"milestone"}) =>
            LET t == Here(p)
                given == {proc[p].cmd.names[k] : k \in DOMAIN proc[p].cmd.names}
            IN  \A name \in given :
                    \E i \in DOMAIN t.road : t.road[i].name = name
                        /\ \E d \in t.dirs : d.name = name /\ d.id = t.road[i].id

\* Numbers are given once: no two sections and no two directories of a place share
\* one, unless phases are removed or a lock is stolen, or, which takes three processes,
\* phases are added before and after a migration that fails.
NumbersUnique ==
    ~robbed /\ ~Ran({"remove"}) =>
        \A at \in Places :
            /\ tree[at].road # None => Cardinality(RoadIds(tree[at].road)) = Len(tree[at].road)
            /\ \A d, e \in tree[at].dirs : d.id = e.id => d = e

\* A completion that was acknowledged is in the roadmap, where there is one, and its
\* requirements are ticked, unless a lock was stolen or the requirements were marked by
\* hand, which is done without the lock.
CompletionRecorded ==
    \A p \in Procs :
        Acknowledged(p, {"complete"}) /\ ~robbed /\ ~Ran(Taking \cup {"mark"}) =>
            LET t == Here(p)
                i == SectionOf(t.road, proc[p].cmd.id)
            IN  t.road # None /\ i # 0 =>
                    /\ t.road[i].ticked
                    /\ t.reqs # None => t.road[i].reqs \subseteq t.reqs

\* The manager always has something to offer or sees work in progress until every
\* phase is complete: the dependencies that adding and inserting write down never
\* wait for a phase that does not exist.
ManagerNeverStalls ==
    kills = 0 /\ ~robbed /\ ~Ran(Taking) =>
        \A at \in Places : tree[at].road # None =>
            \A active \in SUBSET DirIds(tree[at].dirs) :
                \/ \A i \in DOMAIN tree[at].road : Managed(tree[at], i) = "complete"
                \/ Offered(tree[at], active) # {}
                \/ Executing(tree[at], active) \cup Planning(tree[at], active) # {}

\* When all is done without a kill, a stolen lock or a removal, the health check of
\* .planning finds roadmap, directories and STATE.md consistent and no number
\* missing (W011 is left out: it fires for every milestone that ends normally).
HealthyAtRest ==
    AtRest /\ kills = 0 /\ ~robbed /\ ~Ran(Taking) /\ tree[Flat].road # None =>
        /\ Health(Flat) \cap {"W002", "W006", "W007"} = {}
        /\ Dense(DirIds(tree[Flat].dirs) \cup ActiveArchive(Flat))

\* A repair that ran alone leaves nothing it could repair, but for the key (W016)
\* that its own default configuration lacks.
RepairConverges ==
    \A p \in Procs :
        Acknowledged(p, {"repair"}) /\ Alone(p) =>
            Health(proc[p].at) \cap Repairable \subseteq {"W016"}

\* After an undisturbed removal every section has the number of its directory.
RemovalKeepsNumbers ==
    \A p \in Procs :
        Acknowledged(p, {"remove"}) /\ Alone(p) =>
            \A i \in DOMAIN Here(p).road : \A d \in Here(p).dirs :
                Here(p).road[i].name = d.name => Here(p).road[i].id = d.id
===========================================================================
