---------------------------- MODULE Workstreams ----------------------------
(***************************************************************************)
(* Workstreams over PlanningPhases: a flat project is migrated by moving   *)
(* its files one at a time, a completed workstream is archived the same    *)
(* way, and both put back what they moved when a move fails.  Meanwhile    *)
(* the other processes go on with their commands.                          *)
(***************************************************************************)
EXTENDS PlanningPhases

CONSTANTS
    MaxFaults           \* bound: renames that fail

ASSUME FaultsAssumption == MaxFaults \in Nat
VARIABLES
    attic,      \* attic[p]: the archive directory that p's ws-complete fills
    faults      \* how many renames have failed

wsvars == <<vars, attic, faults>>

NoAttic == [lock |-> None, road |-> None, dirs |-> {}, reqs |-> None, state |-> None,
            config |-> NoConfig]

\* Mutant of Parts: phases/ first.
PartsPhasesFirst == <<"dirs", "road", "state", "reqs">>
\* The parts of a tree that are moved, in order; a move takes what is there.
Parts == <<"road", "state", "reqs", "dirs">>
Absent(part) == NoTree[part]
Present(at, part) == tree[at][part] # Absent(part)
\* Nothing moves into a directory that is gone, nor phases/ onto another's phases.
CanMove(to, part) == to \in made /\ (part = "dirs" => tree[to].dirs = {})
Move(from, to, part) ==
    tree' = [tree EXCEPT ![from][part] = Absent(part), ![to][part] = tree[from][part]]

RootExists == Root \in made
Workstreams == Names \cap made

-----------------------------------------------------------------------------
(* workstream create. *)

\* The command ends without a migration, or goes on to one, or to the directory.
CreateBegins(p, c) ==
    /\ c.op = "ws-create"
    /\ LET exists == c.name \in made /\ tree[c.name].state # None
           work == tree[Flat].road # None \/ tree[Flat].state # None \/ tree[Flat].dirs # {}
       IN  Begin(p, c, IF exists THEN Refused
                       ELSE IF ~RootExists /\ work THEN Enter("migrate") ELSE Enter("open"))
    /\ UNCHANGED <<attic, faults>>

\* Somebody else may have made workstreams/ since: then the migration is refused.
MigrateBegins(p) ==
    /\ At(p, "migrate")
    /\ IF RootExists THEN Finish(p, FALSE) /\ UNCHANGED made
       ELSE /\ made' = made \cup {Root, proc[p].cmd.into}
            /\ proc' = [proc EXCEPT ![p].pc = "moving", ![p].todo = Parts, ![p].next = <<>>]
    /\ UNCHANGED <<tree, lock, shelf, pointer, robbed, kills, attic, faults>>

\* One part is moved, if it is there.
MovePart(p) ==
    /\ At(p, "moving") /\ proc[p].todo # <<>>
    /\ LET part == Head(proc[p].todo)
           into == proc[p].cmd.into
       IN  IF Present(Flat, part)
           THEN /\ CanMove(into, part)
                /\ Move(Flat, into, part)
                /\ proc' = [proc EXCEPT ![p].todo = Tail(@), ![p].next = <<part>> \o @]
           ELSE /\ proc' = [proc EXCEPT ![p].todo = Tail(@)]
                /\ UNCHANGED tree
    /\ UNCHANGED <<made, lock, shelf, pointer, robbed, kills, attic, faults>>
Moved(p) ==
    /\ At(p, "moving") /\ proc[p].todo = <<>>
    /\ Goto(p, "open") /\ UNCHANGED <<disk, attic, faults>>

\* Mutant of MoveFails: nothing is moved back.
MoveFailsForGood(p) ==
    /\ At(p, "moving") /\ proc[p].todo # <<>> /\ Present(Flat, Head(proc[p].todo))
    /\ \/ faults < MaxFaults /\ faults' = faults + 1
       \/ ~CanMove(proc[p].cmd.into, Head(proc[p].todo)) /\ UNCHANGED faults
    /\ proc' = [proc EXCEPT ![p].pc = "moveback", ![p].todo = <<>>]
    /\ UNCHANGED <<disk, attic>>

\* A move fails: what has been moved is moved back, as far as it goes ...
MoveFails(p) ==
    /\ At(p, "moving") /\ proc[p].todo # <<>> /\ Present(Flat, Head(proc[p].todo))
    /\ \/ faults < MaxFaults /\ faults' = faults + 1
       \/ ~CanMove(proc[p].cmd.into, Head(proc[p].todo)) /\ UNCHANGED faults
    /\ proc' = [proc EXCEPT ![p].pc = "moveback", ![p].todo = Reverse(proc[p].next)]
    /\ UNCHANGED <<disk, attic>>
MoveBack(p) ==
    /\ At(p, "moveback") /\ proc[p].todo # <<>>
    /\ LET part == Head(proc[p].todo)
           from == proc[p].cmd.into
       IN  \/ /\ IF Present(from, part) /\ CanMove(Flat, part) THEN Move(from, Flat, part) ELSE UNCHANGED tree
              /\ UNCHANGED faults
           \/ faults < MaxFaults /\ faults' = faults + 1 /\ UNCHANGED tree
    /\ proc' = [proc EXCEPT ![p].todo = Tail(@)]
    /\ UNCHANGED <<made, lock, shelf, pointer, robbed, kills, attic>>

\* ... and the new directory is deleted with whatever is left in it.
Abandon(p) ==
    /\ At(p, "moveback") /\ proc[p].todo = <<>>
    /\ LET into == proc[p].cmd.into
       IN  /\ tree' = [tree EXCEPT ![into] = NoTree]
           /\ lock' = [lock EXCEPT ![into] = None]
           /\ robbed' = (robbed \/ Robs(p, into))
           /\ made' = (made \ {into}) \ IF Workstreams \subseteq {into} THEN {Root} ELSE {}
    /\ Finish(p, FALSE)
    /\ UNCHANGED <<shelf, pointer, kills, attic, faults>>

\* The directory of the new workstream, its first STATE.md unless it has one ...
OpenWorkstream(p) ==
    /\ At(p, "open")
    /\ LET name == proc[p].cmd.name
           fresh == [phase |-> None, refs |-> {}, closed |-> FALSE]
       IN  /\ made' = made \cup {Root, name}
           /\ tree' = [tree EXCEPT ![name].state = IF @ = None THEN fresh ELSE @]
    /\ Goto(p, "activate")
    /\ UNCHANGED <<lock, shelf, pointer, robbed, kills, attic, faults>>

\* ... and the pointer, which makes the directory again if it is gone.
Activate(p) ==
    /\ At(p, "activate")
    /\ made' = made \cup {Root, proc[p].cmd.name}
    /\ SetActive(p, proc[p].cmd.name)
    /\ Finish(p, TRUE)
    /\ UNCHANGED <<tree, lock, shelf, robbed, kills, attic, faults>>

-----------------------------------------------------------------------------
(* workstream complete. *)

WsCompleteBegins(p, c) ==
    /\ c.op = "ws-complete"
    /\ Begin(p, c, IF c.name \in made THEN Enter("deactivate") ELSE Refused)
    /\ UNCHANGED <<attic, faults>>

\* What a directory holds, in the order readdir lists it.
Entries == <<"lock", "reqs", "road", "state", "config", "dirs">>
FirstEntry(entries) == Entries[Min({k \in DOMAIN Entries : Entries[k] \in entries})]
Holds(name, entry) == IF entry = "lock" THEN lock[name] # None ELSE Present(name, entry)

\* The pointer is cleared if it points here, the contents are listed ...
Deactivate(p) ==
    /\ At(p, "deactivate")
    /\ LET name == proc[p].cmd.name
           active == ActiveOf(p) = name /\ name \in made
       IN  /\ SetActive(p, IF active \/ ActiveOf(p) \notin made THEN None ELSE ActiveOf(p))
           /\ proc' = [proc EXCEPT ![p].pc = IF name \in made THEN "archiving" ELSE "restore",
                          ![p].next = <<>>, ![p].num = IF active THEN 1 ELSE 0,
                          ![p].todo = IF name \in made THEN {entry \in Range(Entries) : Holds(name, entry)}
                                      ELSE <<>>]
    /\ UNCHANGED <<tree, made, lock, shelf, robbed, kills, attic, faults>>

\* ... and moved to an archive directory of the command's own one by one, a lock
\* that somebody works under too.
ArchiveEntry(p) ==
    /\ At(p, "archiving") /\ proc[p].todo # {}
    /\ LET entry == FirstEntry(proc[p].todo)
           name == proc[p].cmd.name
       IN  /\ Holds(name, entry)
           /\ IF entry = "lock"
              THEN /\ attic' = [attic EXCEPT ![p].lock = lock[name]]
                   /\ lock' = [lock EXCEPT ![name] = None]
                   /\ robbed' = (robbed \/ Robs(p, name))
                   /\ UNCHANGED tree
              ELSE /\ attic' = [attic EXCEPT ![p][entry] = tree[name][entry]]
                   /\ tree' = [tree EXCEPT ![name][entry] = Absent(entry)]
                   /\ UNCHANGED <<lock, robbed>>
           /\ proc' = [proc EXCEPT ![p].todo = @ \ {entry}, ![p].next = <<entry>> \o @]
    /\ UNCHANGED <<made, shelf, pointer, kills, faults>>

\* A move fails, also when the entry is gone by now; then what was moved is moved
\* back, first come first, as far as it goes.
ArchiveFails(p) ==
    /\ At(p, "archiving") /\ proc[p].todo # {}
    /\ \/ faults < MaxFaults /\ faults' = faults + 1
       \/ ~Holds(proc[p].cmd.name, FirstEntry(proc[p].todo)) /\ UNCHANGED faults
    /\ proc' = [proc EXCEPT ![p].pc = "restore", ![p].todo = Reverse(proc[p].next)]
    /\ UNCHANGED <<disk, attic>>
Restore(p) ==
    /\ At(p, "restore") /\ proc[p].todo # <<>>
    /\ LET entry == Head(proc[p].todo)
           name == proc[p].cmd.name
           possible == name \in made /\ (entry = "dirs" => tree[name].dirs = {})
       IN  \/ /\ possible
              /\ IF entry = "lock"
                 THEN /\ lock' = [lock EXCEPT ![name] = attic[p].lock]
                      /\ robbed' = (robbed \/ Robs(p, name))
                      /\ attic' = [attic EXCEPT ![p].lock = None]
                      /\ UNCHANGED tree
                 ELSE /\ tree' = [tree EXCEPT ![name][entry] = attic[p][entry]]
                      /\ attic' = [attic EXCEPT ![p][entry] = Absent(entry)]
                      /\ UNCHANGED <<lock, robbed>>
              /\ UNCHANGED faults
           \/ /\ IF possible THEN faults < MaxFaults /\ faults' = faults + 1 ELSE UNCHANGED faults
              /\ UNCHANGED <<tree, lock, attic, robbed>>
    /\ proc' = [proc EXCEPT ![p].todo = Tail(@)]
    /\ UNCHANGED <<made, shelf, pointer, kills>>

\* The archive is deleted with what is left in it, and the pointer set again, which
\* makes the directory.
Restored(p) ==
    /\ At(p, "restore") /\ proc[p].todo = <<>>
    /\ LET name == proc[p].cmd.name
       IN  /\ attic' = [attic EXCEPT ![p] = NoAttic]
           /\ IF proc[p].num = 1 THEN SetActive(p, name) /\ made' = made \cup {Root, name}
              ELSE UNCHANGED <<pointer, made>>
    /\ Finish(p, FALSE)
    /\ UNCHANGED <<tree, lock, shelf, robbed, kills, faults>>

\* Mutant of Archived: workstreams/ goes, whatever else is in it.
ArchivedWithRoot(p) ==
    /\ At(p, "archiving") /\ proc[p].todo = {}
    /\ LET name == proc[p].cmd.name
           empty == tree[name] = NoTree /\ lock[name] = None
       IN  made' = made \ (IF empty THEN {name, Root} ELSE {Root})
    /\ Finish(p, TRUE)
    /\ UNCHANGED <<tree, lock, shelf, pointer, robbed, kills, attic, faults>>

\* The empty directory goes, and workstreams/ with the last one.
Archived(p) ==
    /\ At(p, "archiving") /\ proc[p].todo = {}
    /\ LET name == proc[p].cmd.name
           empty == tree[name] = NoTree /\ lock[name] = None
           gone == IF empty THEN {name} ELSE {}
       IN  made' = (made \ gone) \ IF Workstreams \subseteq gone THEN {Root} ELSE {}
    /\ Finish(p, TRUE)
    /\ UNCHANGED <<tree, lock, shelf, pointer, robbed, kills, attic, faults>>

-----------------------------------------------------------------------------
(* workstream set; `ws-clear` is its --clear. *)
SetPointer(p, c) ==
    /\ c.op \in {"ws-set", "ws-clear"} /\ At(p, "idle") /\ c \in Menu[p]
    /\ LET known == c.op = "ws-clear" \/ c.name \in made
       IN  /\ IF known THEN SetActive(p, IF c.op = "ws-set" THEN c.name ELSE None) ELSE Resolve(p, c)
           /\ proc' = [proc EXCEPT ![p] = [IF known THEN Nothing ELSE Refused EXCEPT !.cmd = c]]
    /\ UNCHANGED <<tree, made, lock, shelf, robbed, kills, attic, faults>>

-----------------------------------------------------------------------------
WsBegin(p) == At(p, "idle") /\ \E c \in Menu[p] : CreateBegins(p, c) \/ WsCompleteBegins(p, c) \/ SetPointer(p, c)
WsCommand(p) ==
    \/ MigrateBegins(p) \/ MovePart(p) \/ Moved(p) \/ MoveFails(p) \/ MoveBack(p) \/ Abandon(p)
    \/ OpenWorkstream(p) \/ Activate(p)
    \/ Deactivate(p) \/ ArchiveEntry(p) \/ ArchiveFails(p) \/ Restore(p) \/ Restored(p) \/ Archived(p)

WsInit == Init /\ attic = [p \in Procs |-> NoAttic] /\ faults = 0
\* Nobody works: any other state without a step is a command that hangs.
Rest == AtRest /\ UNCHANGED wsvars
WsNext ==
    \/ PhaseNext /\ UNCHANGED <<attic, faults>>
    \/ \E p \in Procs : WsBegin(p) \/ WsCommand(p)
    \/ Rest
WsSpec == WsInit /\ [][WsNext]_wsvars
-----------------------------------------------------------------------------
(* Properties. *)

Named(dirs) == {d.name : d \in dirs}

\* No phase directory is ever lost: through milestones, migrations, archiving, one
\* failed move, killed processes and stolen locks, every directory there was at the
\* start is in a planning directory, in the milestone archive or with an archived
\* workstream; only removing and clearing delete.
DirsConserved ==
    ~Ran({"remove", "clear"}) =>
        \E start \in Starts :
            Named(start.tree.dirs) \subseteq
                UNION ({Named(tree[at].dirs) : at \in Places} \cup {Named(shelf.dirs[at]) : at \in Places}
                       \cup {Named(attic[p].dirs) : p \in Procs})

\* One process that creates or completes a workstream leaves a project in one piece,
\* even if a move fails: roadmap, STATE.md, requirements and directories are in the
\* same place.
ProjectWhole ==
    \A p \in Procs :
        At(p, "done") /\ Op(p) \in {"ws-create", "ws-complete"} /\ Alone(p) =>
            \E start \in Starts : \E whole \in {tree[at] : at \in Places} \cup {attic[q] : q \in Procs} :
                /\ whole.road = start.tree.road /\ whole.state = start.tree.state
                /\ whole.reqs = start.tree.reqs /\ Named(whole.dirs) = Named(start.tree.dirs)
===========================================================================
