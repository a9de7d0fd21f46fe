---------------------- MODULE PlanningPhasesProofs ----------------------
(***************************************************************************)
(* The files of the planning directories under concurrent commands, for    *)
(* any number of processes, commands, phases, workstreams, faults and      *)
(* kills: that the lock of a directory excludes as long as nobody deletes  *)
(* the lock of one who works under it, what the files hold, that phases    *)
(* which were added stay and numbers are given once, that settings stay,   *)
(* and that a repair made alone leaves nothing to repair.                  *)
(***************************************************************************)
EXTENDS PlanningViews, FiniteSetTheorems, WellFoundedInduction, SequenceTheorems, TLAPS

-----------------------------------------------------------------------------
(* Processes, and the commands whose parameters name a workstream. *)
Migrating == {"migrate", "moving", "moveback", "open", "activate"}
Archiving == {"deactivate", "archiving", "restore"}
OneOK(p) ==
    /\ DOMAIN proc[p] = DOMAIN Idle
    /\ proc[p].at \in Places
    /\ Working(p) => proc[p].cmd \in Menu[p]
    /\ proc[p].pc \in Migrating => Op(p) = "ws-create"
    /\ proc[p].pc \in Archiving => Op(p) = "ws-complete"
ProcOK == DOMAIN proc = Procs /\ \A p \in Procs : OneOK(p)

LocksOK   == lock \in [Places -> Locks \cup {None}] /\ robbed \in BOOLEAN
PointerOK == pointer \in [DOMAIN pointer -> Names \cup {None}] /\ Shared \in DOMAIN pointer
MadeOK    == made \subseteq Places \cup {Root}
AtticOK   ==
    /\ DOMAIN attic = Procs
    /\ \A p \in Procs : DOMAIN attic[p] = DOMAIN NoAttic /\ attic[p].lock \in Locks \cup {None}
Types == ProcOK /\ LocksOK /\ PointerOK /\ MadeOK /\ AtticOK

\* The strengthening of LockExcludes: whoever works under a lock wrote the file.
Holding(p) == lock[proc[p].at] # None /\ lock[proc[p].at].by = p
OwnLock == ~robbed => \A p \in Procs : Section(p) => Holding(p)
LockInv == Types /\ OwnLock

\* What each command carries.
LEMMA Parameters ==
    ASSUME NEW p \in Procs, NEW c \in Menu[p]
    PROVE  /\ c \in Commands /\ c.ws \in Given
           /\ c.op = "add" => c.names \in Seq(Titles) \ {<<>>}
           /\ c.op = "insert" => c.base \in Numbers /\ \E title \in Titles : c.names = <<title>>
           /\ c.op \in {"remove", "complete", "progress", "annotate"} => c.id \in Numbers
           /\ c.op = "mark" => c.req \in Requirements
           /\ c.op = "set" => c.key \in Settings
           /\ c.op = "ws-create" => c.name \in Names /\ c.into \in Names
           /\ c.op \in {"ws-complete", "ws-set"} => c.name \in Names
<1>1. c \in Commands
    BY MenuAssumption
<1> QED BY <1>1 DEF Commands

-----------------------------------------------------------------------------
(* What a step of one process can be. *)

\* It goes on with its command.
Follows(p) ==
    /\ DOMAIN proc' = Procs /\ \A q \in Procs \ {p} : proc'[q] = proc[q]
    /\ DOMAIN proc'[p] = DOMAIN Idle
    /\ proc'[p].at = proc[p].at /\ proc'[p].cmd = proc[p].cmd
    /\ Working(p)
    /\ proc'[p].pc \in Migrating => proc[p].pc \in Migrating
    /\ proc'[p].pc \in Archiving => proc[p].pc \in Archiving
\* It leaves the locks alone and does not begin to work under one.
Quiet(p) ==
    /\ lock' = lock /\ robbed' = robbed
    /\ \A q \in Procs \ {p} : proc'[q] = proc[q]
    /\ Section(p)' => Section(p) /\ proc'[p].at = proc[p].at
\* It replaces the lock of a directory, robbing whoever works under it.
Replaces(p, at) ==
    /\ \E new : lock' = [lock EXCEPT ![at] = new]
    /\ robbed' = (robbed \/ Robs(p, at))
    /\ \A q \in Procs \ {p} : proc'[q] = proc[q]
    /\ ~Section(p)'

LEMMA FollowsOK ==
    ASSUME ProcOK, NEW p \in Procs, Follows(p)
    PROVE  ProcOK'
<1>1. OneOK(p)'
    BY DEF ProcOK, OneOK, Follows, Working, Op
<1>2. ASSUME NEW q \in Procs \ {p}
      PROVE  OneOK(q)'
    BY DEF ProcOK, OneOK, Follows, Working, Op
<1> QED BY <1>1, <1>2 DEF ProcOK, Follows

LEMMA QuietKeeps ==
    ASSUME LockInv, NEW p \in Procs, Quiet(p)
    PROVE  OwnLock'
    BY DEF LockInv, OwnLock, Holding, Quiet, Section

LEMMA ReplacingKeeps ==
    ASSUME LockInv, NEW p \in Procs, NEW at \in Places, Replaces(p, at)
    PROVE  OwnLock'
<1>1. SUFFICES ASSUME ~robbed', NEW q \in Procs, Section(q)'
               PROVE  Holding(q)'
    BY DEF OwnLock
<1>2. ~robbed /\ ~Robs(p, at)
    BY <1>1 DEF Replaces
<1>3. q # p /\ proc'[q] = proc[q]
    BY <1>1 DEF Replaces
<1>4. Section(q) /\ Holding(q)
    BY <1>1, <1>2, <1>3 DEF LockInv, OwnLock, Section
<1>5. proc[q].at # at
    BY <1>2, <1>3, <1>4 DEF Robs, Holding
<1>6. proc[q].at \in Places /\ lock \in [Places -> Locks \cup {None}]
    BY DEF LockInv, Types, ProcOK, OneOK, LocksOK
<1>7. lock'[proc[q].at] = lock[proc[q].at]
    BY <1>5, <1>6 DEF Replaces
<1> QED BY <1>3, <1>4, <1>7 DEF Holding

-----------------------------------------------------------------------------
(* Commands begin. *)

\* A command's first state: none of them works under a lock yet.
Entered(entered, c) ==
    /\ DOMAIN entered = DOMAIN Idle
    /\ entered.pc \notin Held
    /\ entered.pc \in Migrating => c.op = "ws-create"
    /\ entered.pc \in Archiving => c.op = "ws-complete"

LEMMA PlaceOK ==
    ASSUME PointerOK, MadeOK, NEW p \in Procs, NEW c \in Menu[p]
    PROVE  PlaceOf(p, c) \in Places /\ (Resolve(p, c) => PointerOK')
<1>1. c.ws \in Names \cup {None}
    BY Parameters DEF Given
<1>2. SessionOf(p) \in DOMAIN pointer
    BY DEF SessionOf, PointerOK
<1>3. ActiveOf(p) \in Names \cup {None}
    BY <1>2 DEF ActiveOf, PointerOK
<1>4. PlaceOf(p, c) \in Places
    BY <1>1, <1>3, PlacesAssumption DEF PlaceOf, MadeOK, Places
<1>5. ASSUME Resolve(p, c)
      PROVE  PointerOK'
    BY <1>2, <1>5 DEF Resolve, SetActive, PointerOK
<1> QED BY <1>4, <1>5

LEMMA Begins ==
    ASSUME LockInv, NEW p \in Procs, NEW c \in Menu[p], NEW entered, Begin(p, c, entered),
           Entered(entered, c), attic' = attic
    PROVE  LockInv'
<1> DEFINE place == PlaceOf(p, c)
<1>1. place \in Places /\ PointerOK'
    BY PlaceOK DEF Begin, LockInv, Types
<1> HIDE DEF place
<1>2. proc' = [proc EXCEPT ![p] = [entered EXCEPT !.cmd = c, !.at = place]]
    BY DEF Begin, place
<1>3. /\ DOMAIN proc' = Procs /\ \A q \in Procs \ {p} : proc'[q] = proc[q]
      /\ DOMAIN proc'[p] = DOMAIN Idle
      /\ proc'[p].pc = entered.pc /\ proc'[p].cmd = c /\ proc'[p].at = place
    BY <1>2 DEF LockInv, Types, ProcOK, Entered, Idle
<1>4. OneOK(p)'
    BY <1>1, <1>3 DEF OneOK, Entered, Op
<1>5. ProcOK'
    <2>1. ASSUME NEW q \in Procs \ {p}
          PROVE  OneOK(q)'
        BY <1>3 DEF LockInv, Types, ProcOK, OneOK, Working, Op
    <2> QED BY <1>3, <1>4, <2>1 DEF ProcOK
<1>6. Quiet(p)
    BY <1>3 DEF Quiet, Section, Entered, Begin
<1>7. LocksOK' /\ MadeOK' /\ AtticOK'
    BY DEF LockInv, Types, LocksOK, MadeOK, AtticOK, Begin
<1> QED BY <1>1, <1>5, <1>6, <1>7, QuietKeeps DEF LockInv, Types

LEMMA FirstStates ==
    ASSUME NEW c
    PROVE  /\ Entered(Refused, c) /\ Entered(Nothing, c)
           /\ \A pc \in {"lock", "rmdir", "lookup", "mark", "archive", "clear", "ensure", "repair"} :
                Entered(Enter(pc), c)
           /\ \A pc \in Migrating : c.op = "ws-create" => Entered(Enter(pc), c)
           /\ \A pc \in Archiving : c.op = "ws-complete" => Entered(Enter(pc), c)
    BY DEF Entered, Refused, Nothing, Enter, Idle, Held, Migrating, Archiving

LEMMA EnteredKeeps ==
    ASSUME NEW c, NEW entered, Entered(entered, c), NEW v
    PROVE  /\ Entered([entered EXCEPT !.next = v], c)
           /\ Entered([entered EXCEPT !.todo = v], c)
           /\ Entered([entered EXCEPT !.reqs = v], c)
           /\ Entered([entered EXCEPT !.counts = v], c)
    BY DEF Entered, Idle

LEMMA PhaseCommandsBegin ==
    ASSUME LockInv, NEW p \in Procs, BeginCommand(p), attic' = attic
    PROVE  LockInv'
<1>1. PICK c \in Menu[p] :
        \/ AddBegins(p, c) \/ InsertBegins(p, c) \/ RemoveBegins(p, c) \/ CompleteBegins(p, c)
        \/ ProgressBegins(p, c) \/ AnnotateBegins(p, c) \/ MarkBegins(p, c) \/ MilestoneBegins(p, c)
        \/ ClearBegins(p, c) \/ SetBegins(p, c) \/ EnsureBegins(p, c) \/ RepairBegins(p, c)
    BY DEF BeginCommand
<1>2. SUFFICES \E entered : Begin(p, c, entered) /\ Entered(entered, c)
    BY Begins
<1>3. CASE AddBegins(p, c)
    BY <1>3, FirstStates, EnteredKeeps DEF AddBegins
<1>4. CASE InsertBegins(p, c)
    BY <1>4, FirstStates, EnteredKeeps DEF InsertBegins
<1>5. CASE RemoveBegins(p, c)
    BY <1>5, FirstStates, EnteredKeeps DEF RemoveBegins
<1>6. CASE CompleteBegins(p, c)
    BY <1>6, FirstStates, EnteredKeeps DEF CompleteBegins
<1>7. CASE ProgressBegins(p, c)
    BY <1>7, FirstStates, EnteredKeeps DEF ProgressBegins, CountAndLock
<1>8. CASE AnnotateBegins(p, c)
    BY <1>8, FirstStates, EnteredKeeps DEF AnnotateBegins, CountAndLock
<1>9. CASE MarkBegins(p, c)
    BY <1>9, FirstStates, EnteredKeeps DEF MarkBegins
<1>10. CASE MilestoneBegins(p, c)
    BY <1>10, FirstStates, EnteredKeeps DEF MilestoneBegins
<1>11. CASE ClearBegins(p, c)
    BY <1>11, FirstStates, EnteredKeeps DEF ClearBegins
<1>12. CASE SetBegins(p, c)
    BY <1>12, FirstStates, EnteredKeeps DEF SetBegins
<1>13. CASE EnsureBegins(p, c)
    BY <1>13, FirstStates, EnteredKeeps DEF EnsureBegins
<1>14. CASE RepairBegins(p, c)
    BY <1>14, FirstStates, EnteredKeeps DEF RepairBegins
<1> QED BY <1>1, <1>3, <1>4, <1>5, <1>6, <1>7, <1>8, <1>9, <1>10, <1>11, <1>12, <1>13, <1>14

LEMMA PointerSet ==
    ASSUME PointerOK, NEW p \in Procs, NEW name \in Names \cup {None}, SetActive(p, name)
    PROVE  PointerOK'
    BY DEF PointerOK, SetActive, SessionOf

LEMMA WorkstreamCommandsBegin ==
    ASSUME LockInv, NEW p \in Procs, WsBegin(p)
    PROVE  LockInv'
<1>1. PICK c \in Menu[p] : CreateBegins(p, c) \/ WsCompleteBegins(p, c) \/ SetPointer(p, c)
    BY DEF WsBegin
<1>2. CASE CreateBegins(p, c)
    <2>1. \E entered : Begin(p, c, entered) /\ Entered(entered, c)
        BY <1>2, FirstStates DEF CreateBegins, Migrating
    <2> QED BY <1>2, <2>1, Begins DEF CreateBegins
<1>3. CASE WsCompleteBegins(p, c)
    <2>1. \E entered : Begin(p, c, entered) /\ Entered(entered, c)
        BY <1>3, FirstStates DEF WsCompleteBegins, Archiving
    <2> QED BY <1>3, <2>1, Begins DEF WsCompleteBegins
<1>4. CASE SetPointer(p, c)
    <2>1. PICK known \in BOOLEAN :
              proc' = [proc EXCEPT ![p] = [IF known THEN Nothing ELSE Refused EXCEPT !.cmd = c]]
        BY <1>4 DEF SetPointer
    <2>2. /\ DOMAIN proc' = Procs /\ \A q \in Procs \ {p} : proc'[q] = proc[q]
          /\ DOMAIN proc'[p] = DOMAIN Idle
          /\ proc'[p].pc = "done" /\ proc'[p].at = Flat
        BY <2>1 DEF LockInv, Types, ProcOK, Nothing, Refused, Idle
    <2>3. ProcOK'
        <3>1. OneOK(p)'
            BY <2>2 DEF OneOK, Working, Places, Migrating, Archiving
        <3>2. ASSUME NEW q \in Procs \ {p}
              PROVE  OneOK(q)'
            BY <2>2 DEF LockInv, Types, ProcOK, OneOK, Working, Op
        <3> QED BY <2>2, <3>1, <3>2 DEF ProcOK
    <2>4. Quiet(p)
        BY <1>4, <2>2 DEF Quiet, SetPointer, Section, Held
    <2>5. PointerOK'
        <3>1. c.op = "ws-set" => c.name \in Names
            BY <1>4, Parameters DEF SetPointer
        <3> QED BY <1>4, <3>1, PointerSet, PlaceOK DEF LockInv, Types, SetPointer
    <2>6. LocksOK' /\ MadeOK' /\ AtticOK'
        BY <1>4 DEF LockInv, Types, LocksOK, MadeOK, AtticOK, SetPointer
    <2> QED BY <2>3, <2>4, <2>5, <2>6, QuietKeeps DEF LockInv, Types
<1> QED BY <1>1, <1>2, <1>3, <1>4

-----------------------------------------------------------------------------
(* The steps of the lock. *)

\* What a step leaves alone.
Apart(p) == pointer' = pointer /\ attic' = attic /\ MadeOK'

LEMMA AncestorsMade ==
    ASSUME MadeOK, NEW at \in Places
    PROVE  made \cup Ancestors(at) \subseteq Places \cup {Root}
    BY DEF MadeOK, Ancestors, Places

\* A process that goes on with its command and replaces no lock but by deleting one.
LEMMA Deletes ==
    ASSUME LockInv, NEW p \in Procs, Follows(p), Unlink(p), ~Section(p)', Apart(p)
    PROVE  LockInv'
<1>1. proc[p].at \in Places
    BY DEF LockInv, Types, ProcOK, OneOK
<1>2. LocksOK'
    BY <1>1 DEF LockInv, Types, LocksOK, Unlink, Robs
<1>3. Replaces(p, proc[p].at)
    BY DEF Replaces, Unlink, Follows
<1>4. PointerOK' /\ AtticOK' /\ MadeOK'
    BY DEF LockInv, Types, PointerOK, AtticOK, Apart
<1> QED BY <1>1, <1>2, <1>3, <1>4, FollowsOK, ReplacingKeeps DEF LockInv, Types

LEMMA Creates ==
    ASSUME LockInv, NEW p \in Procs, Working(p), ~Section(p), Create(p), attic' = attic
    PROVE  LockInv'
<1>1. proc[p].at \in Places
    BY DEF LockInv, Types, ProcOK, OneOK
<1>2. /\ lock[proc[p].at] = None
      /\ lock' = [lock EXCEPT ![proc[p].at] = [by |-> p, old |-> FALSE]]
      /\ made' = made \cup Ancestors(proc[p].at)
      /\ robbed' = robbed /\ pointer' = pointer
    BY DEF Create
<1>3. Follows(p)
    BY DEF Create, Follows, Goto, FirstStep, LockInv, Types, ProcOK, OneOK, Idle, Migrating, Archiving
<1>4. [by |-> p, old |-> FALSE] \in Locks /\ [by |-> p, old |-> FALSE] # None
    <2>1. [by |-> p, old |-> FALSE] \in Locks
        BY DEF Locks
    <2>2. None \notin Locks
        BY PlacesAssumption
    <2> QED BY <2>1, <2>2
<1>5. LocksOK'
    BY <1>1, <1>2, <1>4 DEF LockInv, Types, LocksOK
<1>6. MadeOK' /\ PointerOK' /\ AtticOK'
    BY <1>1, <1>2, AncestorsMade DEF LockInv, Types, MadeOK, PointerOK, AtticOK
<1>7. ASSUME ~robbed', NEW q \in Procs, Section(q)'
      PROVE  Holding(q)'
    <2>1. lock'[proc[p].at] = [by |-> p, old |-> FALSE]
        BY <1>1, <1>2 DEF LockInv, Types, LocksOK
    <2>2. CASE q = p
        BY <1>3, <1>4, <2>1, <2>2 DEF Holding, Follows
    <2>3. CASE q # p
        <3>1. proc'[q] = proc[q]
            BY <1>3, <2>3 DEF Follows
        <3>2. Section(q) /\ Holding(q)
            BY <1>2, <1>7, <3>1 DEF LockInv, OwnLock, Section
        <3>3. proc[q].at # proc[p].at /\ proc[q].at \in Places
            BY <1>2, <3>2 DEF Holding, LockInv, Types, ProcOK, OneOK
        <3>4. lock'[proc[q].at] = lock[proc[q].at]
            BY <1>1, <1>2, <3>3 DEF LockInv, Types, LocksOK
        <3> QED BY <3>1, <3>2, <3>4 DEF Holding
    <2> QED BY <2>2, <2>3
<1> QED BY <1>3, <1>5, <1>6, <1>7, FollowsOK DEF LockInv, Types, OwnLock

\* A process that goes on with its command and leaves the locks alone.
LEMMA GoesOn ==
    ASSUME LockInv, NEW p \in Procs, Follows(p), lock' = lock, robbed' = robbed,
           Section(p)' => Section(p), Apart(p)
    PROVE  LockInv'
<1>1. Quiet(p)
    BY DEF Quiet, Follows
<1>2. LocksOK' /\ PointerOK' /\ AtticOK' /\ MadeOK'
    BY DEF LockInv, Types, LocksOK, PointerOK, AtticOK, Apart
<1> QED BY <1>1, <1>2, FollowsOK, QuietKeeps DEF LockInv, Types

LEMMA Finishes ==
    ASSUME ProcOK, NEW p \in Procs, NEW ok, Working(p), Finish(p, ok)
    PROVE  Follows(p) /\ proc'[p].pc = "done"
    BY DEF ProcOK, OneOK, Finish, Over, Follows, Idle, Migrating, Archiving

LEMMA LockingKeeps ==
    ASSUME LockInv, NEW p \in Procs, Locking(p), attic' = attic
    PROVE  LockInv'
<1>1. DOMAIN proc = Procs /\ DOMAIN proc[p] = DOMAIN Idle /\ MadeOK
    BY DEF LockInv, Types, ProcOK, OneOK
<1>2. CASE Acquire(p)
    BY <1>2, Creates DEF Acquire, At, Working, Section, Held
<1>3. CASE SeeStale(p)
    <2>1. Follows(p) /\ ~Section(p)' /\ lock' = lock /\ robbed' = robbed /\ Apart(p)
        BY <1>1, <1>3 DEF SeeStale, disk, Follows, Goto, At, Working, Idle, Migrating, Archiving,
                          Section, Held, Apart, MadeOK
    <2> QED BY <2>1, GoesOn
<1>4. CASE BreakStale(p)
    <2>1. Follows(p) /\ ~Section(p)' /\ Unlink(p) /\ Apart(p)
        BY <1>1, <1>4 DEF BreakStale, Follows, Goto, At, Working, Idle, Migrating, Archiving,
                          Section, Held, Apart, MadeOK
    <2> QED BY <2>1, Deletes
<1>5. CASE GiveUpWaiting(p)
    <2>1. Follows(p) /\ ~Section(p)' /\ Unlink(p) /\ Apart(p)
        BY <1>1, <1>5 DEF GiveUpWaiting, Follows, Goto, At, Working, Idle, Migrating, Archiving,
                          Section, Held, Apart, MadeOK
    <2> QED BY <2>1, Deletes
<1>6. CASE LastTry(p)
    <2>1. CASE At(p, "last") /\ Create(p)
        BY <2>1, Creates DEF At, Working, Section, Held
    <2>2. CASE At(p, "last") /\ Finish(p, FALSE) /\ UNCHANGED disk
        <3>1. Follows(p) /\ ~Section(p)' /\ lock' = lock /\ robbed' = robbed /\ Apart(p)
            BY <1>1, <2>2 DEF disk, Follows, Finish, Over, At, Working, Idle, Migrating, Archiving,
                              Section, Held, Apart, MadeOK
        <3> QED BY <3>1, GoesOn
    <2> QED BY <1>6, <2>1, <2>2 DEF LastTry
<1>7. CASE Release(p)
    <2>1. Follows(p) /\ ~Section(p)'
        <3>1. CASE Goto(p, "lookup")
            BY <1>1, <1>7, <3>1 DEF Release, Follows, Goto, At, Working, Idle, Migrating, Archiving,
                                    Section, Held
        <3>2. CASE Finish(p, TRUE)
            BY <1>7, <3>2, Finishes DEF Release, At, Working, Section, Held, LockInv, Types
        <3> QED BY <1>7, <3>1, <3>2 DEF Release
    <2>2. Unlink(p) /\ Apart(p)
        BY <1>1, <1>7 DEF Release, Apart, MadeOK
    <2> QED BY <2>1, <2>2, Deletes
<1>8. CASE Fail(p)
    <2>1. Follows(p) /\ ~Section(p)' /\ Unlink(p) /\ Apart(p)
        BY <1>1, <1>8 DEF Fail, Follows, Finish, Over, At, Working, Idle, Migrating, Archiving,
                          Section, Held, Apart, MadeOK
    <2> QED BY <2>1, Deletes
<1> QED BY <1>2, <1>3, <1>4, <1>5, <1>6, <1>7, <1>8 DEF Locking

-----------------------------------------------------------------------------
(* The steps of the other commands of PlanningPhases. *)

\* None of them changes a lock, or begins to work under one.
Proceeds(p) ==
    /\ Follows(p) /\ (Section(p)' => Section(p))
    /\ lock' = lock /\ robbed' = robbed /\ Apart(p)

LEMMA Ends ==
    ASSUME ProcOK, NEW p \in Procs, NEW ok, Working(p), Finish(p, ok)
    PROVE  Follows(p) /\ ~Section(p)'
    BY Finishes DEF Section, Held

LEMMA CommandProceeds ==
    ASSUME LockInv, NEW p \in Procs, Command(p), attic' = attic
    PROVE  Proceeds(p)
<1>1. /\ DOMAIN proc = Procs /\ DOMAIN proc[p] = DOMAIN Idle /\ proc[p].at \in Places
      /\ MadeOK /\ ProcOK
    BY DEF LockInv, Types, ProcOK, OneOK
<1> DEFINE Turns == Follows(p) /\ (Section(p)' => Section(p))
<1>2. CASE ReadForAdd(p)
    <2>1. Turns
        BY <1>1, <1>2 DEF ReadForAdd, Follows, Goto, At, Working, Idle, Migrating, Archiving, Section, Held
    <2>2. lock' = lock /\ robbed' = robbed /\ Apart(p)
        BY <1>1, <1>2 DEF ReadForAdd, disk, Apart, MadeOK
    <2> QED BY <2>1, <2>2 DEF Proceeds
<1>3. CASE MakeDirectory(p)
    <2>1. Turns
        BY <1>1, <1>3 DEF MakeDirectory, Follows, Goto, At, Working, Idle, Migrating, Archiving, Section, Held
    <2>2. lock' = lock /\ robbed' = robbed /\ Apart(p)
        BY <1>1, <1>3, AncestorsMade DEF MakeDirectory, Apart, MadeOK
    <2> QED BY <2>1, <2>2 DEF Proceeds
<1>4. CASE DeleteDirectory(p)
    <2>1. Turns
        BY <1>1, <1>4 DEF DeleteDirectory, Follows, Goto, At, Working, Idle, Migrating, Archiving, Section, Held
    <2>2. lock' = lock /\ robbed' = robbed /\ Apart(p)
        BY <1>1, <1>4 DEF DeleteDirectory, disk, Apart, MadeOK
    <2> QED BY <2>1, <2>2 DEF Proceeds
<1>5. CASE RenameNext(p)
    <2>1. Turns
        BY <1>1, <1>5 DEF RenameNext, Follows, Goto, At, Working, Idle, Migrating, Archiving, Section, Held
    <2>2. lock' = lock /\ robbed' = robbed /\ Apart(p)
        BY <1>1, <1>5 DEF RenameNext, disk, Apart, MadeOK
    <2> QED BY <2>1, <2>2 DEF Proceeds
<1>6. CASE Renamed(p)
    <2>1. Turns
        BY <1>1, <1>6 DEF Renamed, Follows, Goto, At, Working, Idle, Migrating, Archiving, Section, Held
    <2>2. lock' = lock /\ robbed' = robbed /\ Apart(p)
        BY <1>1, <1>6 DEF Renamed, disk, Apart, MadeOK
    <2> QED BY <2>1, <2>2 DEF Proceeds
<1>7. CASE ReadRoadmap(p)
    <2>1. Turns
        BY <1>1, <1>7 DEF ReadRoadmap, Follows, Goto, At, Working, Idle, Migrating, Archiving, Section, Held
    <2>2. lock' = lock /\ robbed' = robbed /\ Apart(p)
        BY <1>1, <1>7 DEF ReadRoadmap, disk, Apart, MadeOK
    <2> QED BY <2>1, <2>2 DEF Proceeds
<1>8. CASE WriteRoadmap(p)
    <2>1. Turns
        BY <1>1, <1>8 DEF WriteRoadmap, AfterWrite, Follows, Goto, At, Working, Idle, Migrating, Archiving, Section, Held
    <2>2. lock' = lock /\ robbed' = robbed /\ Apart(p)
        BY <1>1, <1>8 DEF WriteRoadmap, disk, Apart, MadeOK
    <2> QED BY <2>1, <2>2 DEF Proceeds
<1>9. CASE ReadRequirements(p)
    <2>1. Turns
        BY <1>1, <1>9 DEF ReadRequirements, Follows, Goto, At, Working, Idle, Migrating, Archiving, Section, Held
    <2>2. lock' = lock /\ robbed' = robbed /\ Apart(p)
        BY <1>1, <1>9 DEF ReadRequirements, disk, Apart, MadeOK
    <2> QED BY <2>1, <2>2 DEF Proceeds
<1>10. CASE WriteRequirements(p)
    <2>1. Turns
        BY <1>1, <1>10 DEF WriteRequirements, Follows, Goto, At, Working, Idle, Migrating, Archiving, Section, Held
    <2>2. lock' = lock /\ robbed' = robbed /\ Apart(p)
        BY <1>1, <1>10 DEF WriteRequirements, disk, Apart, MadeOK
    <2> QED BY <2>1, <2>2 DEF Proceeds
<1>11. CASE LookUpNext(p)
    <2>1. Turns
        BY <1>1, <1>11 DEF LookUpNext, Follows, Goto, At, Working, Idle, Migrating, Archiving, Section, Held
    <2>2. lock' = lock /\ robbed' = robbed /\ Apart(p)
        BY <1>1, <1>11 DEF LookUpNext, disk, Apart, MadeOK
    <2> QED BY <2>1, <2>2 DEF Proceeds
<1>12. CASE MoveState(p)
    <2>1. Turns
        BY <1>1, <1>12, Ends DEF MoveState, At, Working
    <2>2. lock' = lock /\ robbed' = robbed /\ Apart(p)
        BY <1>1, <1>12 DEF MoveState, disk, Apart, MadeOK
    <2> QED BY <2>1, <2>2 DEF Proceeds
<1>13. CASE Mark(p)
    <2>1. Turns
        BY <1>1, <1>13, Ends DEF Mark, At, Working
    <2>2. lock' = lock /\ robbed' = robbed /\ Apart(p)
        BY <1>1, <1>13 DEF Mark, disk, Apart, MadeOK
    <2> QED BY <2>1, <2>2 DEF Proceeds
<1>14. CASE ArchiveRoadmap(p)
    <2>1. Turns
        BY <1>1, <1>14 DEF ArchiveRoadmap, Follows, Goto, At, Working, Idle, Migrating, Archiving, Section, Held
    <2>2. lock' = lock /\ robbed' = robbed /\ Apart(p)
        BY <1>1, <1>14 DEF ArchiveRoadmap, disk, Apart, MadeOK
    <2> QED BY <2>1, <2>2 DEF Proceeds
<1>15. CASE Register(p)
    <2>1. Turns
        BY <1>1, <1>15 DEF Register, Follows, Goto, At, Working, Idle, Migrating, Archiving, Section, Held
    <2>2. lock' = lock /\ robbed' = robbed /\ Apart(p)
        BY <1>1, <1>15 DEF Register, disk, Apart, MadeOK
    <2> QED BY <2>1, <2>2 DEF Proceeds
<1>16. CASE CloseState(p)
    <2>1. Turns
        BY <1>1, <1>16 DEF CloseState, Follows, Goto, At, Working, Idle, Migrating, Archiving, Section, Held
    <2>2. lock' = lock /\ robbed' = robbed /\ Apart(p)
        BY <1>1, <1>16 DEF CloseState, disk, Apart, MadeOK
    <2> QED BY <2>1, <2>2 DEF Proceeds
<1>17. CASE Shelve(p)
    <2>1. CASE Finish(p, TRUE)
        BY <1>1, <1>17, <2>1, Ends DEF Shelve, At, Working, Proceeds, Apart, MadeOK
    <2>2. CASE proc' = [proc EXCEPT ![p].todo = Tail(@)]
        BY <1>1, <1>17, <2>2 DEF Shelve, Follows, Goto, At, Working, Idle, Migrating, Archiving, Section, Held, Proceeds, Apart, MadeOK
    <2> QED BY <1>17, <2>1, <2>2 DEF Shelve
<1>18. CASE Shelved(p)
    <2>1. Turns
        BY <1>1, <1>18, Ends DEF Shelved, At, Working
    <2>2. lock' = lock /\ robbed' = robbed /\ Apart(p)
        BY <1>1, <1>18 DEF Shelved, disk, Apart, MadeOK
    <2> QED BY <2>1, <2>2 DEF Proceeds
<1>19. CASE ClearNext(p)
    <2>1. Turns
        BY <1>1, <1>19 DEF ClearNext, Follows, Goto, At, Working, Idle, Migrating, Archiving, Section, Held
    <2>2. lock' = lock /\ robbed' = robbed /\ Apart(p)
        BY <1>1, <1>19 DEF ClearNext, disk, Apart, MadeOK
    <2> QED BY <2>1, <2>2 DEF Proceeds
<1>20. CASE Cleared(p)
    <2>1. Turns
        BY <1>1, <1>20, Ends DEF Cleared, At, Working
    <2>2. lock' = lock /\ robbed' = robbed /\ Apart(p)
        BY <1>1, <1>20 DEF Cleared, disk, Apart, MadeOK
    <2> QED BY <2>1, <2>2 DEF Proceeds
<1>21. CASE WriteConfig(p)
    <2>1. Turns
        BY <1>1, <1>21 DEF WriteConfig, Follows, Goto, At, Working, Idle, Migrating, Archiving, Section, Held
    <2>2. lock' = lock /\ robbed' = robbed /\ Apart(p)
        BY <1>1, <1>21 DEF WriteConfig, disk, Apart, MadeOK
    <2> QED BY <2>1, <2>2 DEF Proceeds
<1>22. CASE EnsureConfig(p)
    <2>1. Turns
        BY <1>1, <1>22, Ends DEF EnsureConfig, At, Working
    <2>2. lock' = lock /\ robbed' = robbed /\ Apart(p)
        BY <1>1, <1>22, AncestorsMade DEF EnsureConfig, Apart, MadeOK
    <2> QED BY <2>1, <2>2 DEF Proceeds
<1>23. CASE Repair(p)
    <2>1. Turns
        BY <1>1, <1>23 DEF Repair, Follows, Goto, At, Working, Idle, Migrating, Archiving, Section, Held
    <2>2. lock' = lock /\ robbed' = robbed /\ Apart(p)
        BY <1>1, <1>23 DEF Repair, disk, Apart, MadeOK
    <2> QED BY <2>1, <2>2 DEF Proceeds
<1>24. CASE AddKey(p)
    <2>1. Turns
        BY <1>1, <1>24 DEF AddKey, Follows, Goto, At, Working, Idle, Migrating, Archiving, Section, Held
    <2>2. lock' = lock /\ robbed' = robbed /\ Apart(p)
        BY <1>1, <1>24 DEF AddKey, disk, Apart, MadeOK
    <2> QED BY <2>1, <2>2 DEF Proceeds
<1>25. CASE Repaired(p)
    <2>1. Turns
        BY <1>1, <1>25, Ends DEF Repaired, At, Working
    <2>2. lock' = lock /\ robbed' = robbed /\ Apart(p)
        BY <1>1, <1>25 DEF Repaired, disk, Apart, MadeOK
    <2> QED BY <2>1, <2>2 DEF Proceeds
<1> QED BY <1>2, <1>3, <1>4, <1>5, <1>6, <1>7, <1>8, <1>9, <1>10, <1>11, <1>12, <1>13, <1>14, <1>15, <1>16, <1>17, <1>18, <1>19, <1>20, <1>21, <1>22, <1>23, <1>24, <1>25 DEF Command

-----------------------------------------------------------------------------
(* The steps of workstream create and workstream complete. *)

\* The workstreams that the commands under way name exist as places.
LEMMA NamesOK ==
    ASSUME LockInv, NEW p \in Procs
    PROVE  /\ proc[p].pc \in Migrating => proc[p].cmd.name \in Names /\ proc[p].cmd.into \in Names
           /\ proc[p].pc \in Archiving => proc[p].cmd.name \in Names
<1>1. OneOK(p)
    BY DEF LockInv, Types, ProcOK
<1>2. proc[p].pc \in Migrating \cup Archiving => proc[p].cmd \in Menu[p]
    BY <1>1 DEF OneOK, Working, Migrating, Archiving
<1> QED BY <1>1, <1>2, Parameters DEF OneOK, Op

LEMMA Carries ==
    ASSUME LockInv, NEW p \in Procs, Follows(p), PointerOK', MadeOK', AtticOK',
           \/ lock' = lock /\ robbed' = robbed /\ (Section(p)' => Section(p))
           \/ LocksOK' /\ \E at \in Places : Replaces(p, at)
    PROVE  LockInv'
<1>1. CASE lock' = lock /\ robbed' = robbed /\ (Section(p)' => Section(p))
    <2>1. Quiet(p)
        BY <1>1 DEF Quiet, Follows
    <2>2. LocksOK'
        BY <1>1 DEF LockInv, Types, LocksOK
    <2> QED BY <2>1, <2>2, FollowsOK, QuietKeeps DEF LockInv, Types
<1>2. CASE LocksOK' /\ \E at \in Places : Replaces(p, at)
    BY <1>2, FollowsOK, ReplacingKeeps DEF LockInv, Types
<1> QED BY <1>1, <1>2

LEMMA MigrationKeeps ==
    ASSUME LockInv, NEW p \in Procs,
           \/ MigrateBegins(p) \/ MovePart(p) \/ Moved(p) \/ MoveFails(p) \/ MoveBack(p)
           \/ Abandon(p) \/ OpenWorkstream(p) \/ Activate(p)
    PROVE  LockInv'
<1>1. /\ DOMAIN proc = Procs /\ DOMAIN proc[p] = DOMAIN Idle /\ ProcOK
      /\ MadeOK /\ PointerOK /\ AtticOK /\ LocksOK
    BY DEF LockInv, Types, ProcOK, OneOK
<1>2. proc[p].pc \in Migrating => proc[p].cmd.name \in Places /\ proc[p].cmd.into \in Places
    BY NamesOK DEF Places
<1>3. CASE MigrateBegins(p)
    <2>1. Follows(p) /\ ~Section(p)'
        <3>1. CASE Finish(p, FALSE)
            BY <1>1, <1>3, <3>1, Ends DEF MigrateBegins, At, Working
        <3>2. CASE ~RootExists
            BY <1>1, <1>3, <3>2 DEF MigrateBegins, Follows, Goto, At, Working, Idle, Migrating, Archiving, Section, Held
        <3> QED BY <1>3, <3>1, <3>2 DEF MigrateBegins
    <2>2. MadeOK'
        BY <1>1, <1>2, <1>3 DEF MigrateBegins, MadeOK, At, Migrating
    <2>3. PointerOK' /\ AtticOK' /\ lock' = lock /\ robbed' = robbed
        BY <1>1, <1>3 DEF MigrateBegins, PointerOK, AtticOK
    <2> QED BY <2>1, <2>2, <2>3, Carries
<1>4. CASE MovePart(p)
    <2>1. Follows(p) /\ ~Section(p)'
        BY <1>1, <1>4 DEF MovePart, Follows, Goto, At, Working, Idle, Migrating, Archiving, Section, Held
    <2>2. MadeOK' /\ PointerOK' /\ AtticOK' /\ lock' = lock /\ robbed' = robbed
        BY <1>1, <1>4 DEF MovePart, disk, MadeOK, PointerOK, AtticOK
    <2> QED BY <2>1, <2>2, Carries
<1>5. CASE Moved(p)
    <2>1. Follows(p) /\ ~Section(p)'
        BY <1>1, <1>5 DEF Moved, Follows, Goto, At, Working, Idle, Migrating, Archiving, Section, Held
    <2>2. MadeOK' /\ PointerOK' /\ AtticOK' /\ lock' = lock /\ robbed' = robbed
        BY <1>1, <1>5 DEF Moved, disk, MadeOK, PointerOK, AtticOK
    <2> QED BY <2>1, <2>2, Carries
<1>6. CASE MoveFails(p)
    <2>1. Follows(p) /\ ~Section(p)'
        BY <1>1, <1>6 DEF MoveFails, Follows, Goto, At, Working, Idle, Migrating, Archiving, Section, Held
    <2>2. MadeOK' /\ PointerOK' /\ AtticOK' /\ lock' = lock /\ robbed' = robbed
        BY <1>1, <1>6 DEF MoveFails, disk, MadeOK, PointerOK, AtticOK
    <2> QED BY <2>1, <2>2, Carries
<1>7. CASE MoveBack(p)
    <2>1. Follows(p) /\ ~Section(p)'
        BY <1>1, <1>7 DEF MoveBack, Follows, Goto, At, Working, Idle, Migrating, Archiving, Section, Held
    <2>2. MadeOK' /\ PointerOK' /\ AtticOK' /\ lock' = lock /\ robbed' = robbed
        BY <1>1, <1>7 DEF MoveBack, disk, MadeOK, PointerOK, AtticOK
    <2> QED BY <2>1, <2>2, Carries
<1>8. CASE Abandon(p)
    <2> DEFINE into == proc[p].cmd.into
    <2>1. into \in Places
        BY <1>2, <1>8 DEF Abandon, At, Migrating
    <2>2. Follows(p) /\ ~Section(p)'
        BY <1>1, <1>8, Ends DEF Abandon, At, Working
    <2>3. MadeOK' /\ PointerOK' /\ AtticOK'
        BY <1>1, <1>8 DEF Abandon, MadeOK, PointerOK, AtticOK
    <2>4. lock' = [lock EXCEPT ![into] = None] /\ robbed' = (robbed \/ Robs(p, into))
        BY <1>8 DEF Abandon
    <2> HIDE DEF into
    <2>5. LocksOK'
        BY <1>1, <2>4 DEF LocksOK, Robs
    <2>6. Replaces(p, into)
        BY <2>2, <2>4 DEF Replaces, Follows
    <2> QED BY <2>1, <2>2, <2>3, <2>5, <2>6, Carries
<1>9. CASE OpenWorkstream(p)
    <2>1. Follows(p) /\ ~Section(p)'
        BY <1>1, <1>9 DEF OpenWorkstream, Follows, Goto, At, Working, Idle, Migrating, Archiving, Section, Held
    <2>2. MadeOK'
        BY <1>1, <1>2, <1>9 DEF OpenWorkstream, MadeOK, At, Migrating
    <2>3. PointerOK' /\ AtticOK' /\ lock' = lock /\ robbed' = robbed
        BY <1>1, <1>9 DEF OpenWorkstream, PointerOK, AtticOK
    <2> QED BY <2>1, <2>2, <2>3, Carries
<1>10. CASE Activate(p)
    <2>1. Follows(p) /\ ~Section(p)'
        BY <1>1, <1>10, Ends DEF Activate, At, Working
    <2>2. MadeOK'
        BY <1>1, <1>2, <1>10 DEF Activate, MadeOK, At, Migrating
    <2>3. PointerOK'
        BY <1>1, <1>10, NamesOK, PointerSet DEF Activate, At, Migrating
    <2>4. AtticOK' /\ lock' = lock /\ robbed' = robbed
        BY <1>1, <1>10 DEF Activate, AtticOK
    <2> QED BY <2>1, <2>2, <2>3, <2>4, Carries
<1> QED BY <1>3, <1>4, <1>5, <1>6, <1>7, <1>8, <1>9, <1>10

LEMMA ArchivingKeeps ==
    ASSUME LockInv, NEW p \in Procs,
           \/ Deactivate(p) \/ ArchiveEntry(p) \/ ArchiveFails(p) \/ Restore(p) \/ Restored(p)
           \/ Archived(p)
    PROVE  LockInv'
<1> DEFINE name == proc[p].cmd.name
<1>1. /\ DOMAIN proc = Procs /\ DOMAIN proc[p] = DOMAIN Idle /\ ProcOK
      /\ MadeOK /\ PointerOK /\ AtticOK /\ LocksOK
    BY DEF LockInv, Types, ProcOK, OneOK
<1>2. proc[p].pc \in Archiving => name \in Names /\ name \in Places
    BY NamesOK DEF Places
<1> HIDE DEF name
<1>3. CASE Deactivate(p)
    <2>1. Follows(p) /\ ~Section(p)'
        BY <1>1, <1>3 DEF Deactivate, Follows, Goto, At, Working, Idle, Migrating, Archiving, Section, Held
    <2>2. ActiveOf(p) \in Names \cup {None}
        BY <1>1 DEF ActiveOf, SessionOf, PointerOK
    <2>3. PointerOK'
        BY <1>1, <1>3, <2>2, PointerSet DEF Deactivate
    <2>4. MadeOK' /\ AtticOK' /\ lock' = lock /\ robbed' = robbed
        BY <1>1, <1>3 DEF Deactivate, MadeOK, AtticOK
    <2> QED BY <2>1, <2>3, <2>4, Carries
<1>4. CASE ArchiveEntry(p)
    <2> DEFINE entry == FirstEntry(proc[p].todo)
    <2>1. Follows(p) /\ ~Section(p)'
        BY <1>1, <1>4 DEF ArchiveEntry, Follows, Goto, At, Working, Idle, Migrating, Archiving, Section, Held
    <2>2. name \in Places
        BY <1>2, <1>4 DEF ArchiveEntry, At, Archiving
    <2>3. MadeOK' /\ PointerOK'
        BY <1>1, <1>4 DEF ArchiveEntry, MadeOK, PointerOK
    <2>4. CASE entry = "lock"
        <3>1. /\ lock[name] \in Locks
              /\ attic' = [attic EXCEPT ![p].lock = lock[name]]
              /\ lock' = [lock EXCEPT ![name] = None]
              /\ robbed' = (robbed \/ Robs(p, name))
            BY <1>1, <1>4, <2>2, <2>4 DEF ArchiveEntry, Holds, LocksOK, name
        <3>2. LocksOK'
            BY <1>1, <3>1 DEF LocksOK, Robs
        <3>3. Replaces(p, name)
            BY <2>1, <3>1 DEF Replaces, Follows
        <3>4. AtticOK'
            BY <1>1, <3>1 DEF AtticOK, NoAttic
        <3> QED BY <2>1, <2>2, <2>3, <3>2, <3>3, <3>4, Carries
    <2>5. CASE entry # "lock"
        <3>1. attic' = [attic EXCEPT ![p][entry] = tree[name][entry]] /\ lock' = lock /\ robbed' = robbed
            BY <1>4, <2>5 DEF ArchiveEntry, name
        <3>2. AtticOK'
            BY <1>1, <2>5, <3>1 DEF AtticOK, NoAttic
        <3> QED BY <2>1, <2>3, <3>1, <3>2, Carries
    <2> QED BY <2>4, <2>5
<1>5. CASE ArchiveFails(p)
    <2>1. Follows(p) /\ ~Section(p)'
        BY <1>1, <1>5 DEF ArchiveFails, Follows, Goto, At, Working, Idle, Migrating, Archiving, Section, Held
    <2>2. MadeOK' /\ PointerOK' /\ AtticOK' /\ lock' = lock /\ robbed' = robbed
        BY <1>1, <1>5 DEF ArchiveFails, disk, MadeOK, PointerOK, AtticOK
    <2> QED BY <2>1, <2>2, Carries
<1>6. CASE Restore(p)
    <2> DEFINE entry == Head(proc[p].todo)
    <2>1. Follows(p) /\ ~Section(p)'
        BY <1>1, <1>6 DEF Restore, Follows, Goto, At, Working, Idle, Migrating, Archiving, Section, Held
    <2>2. name \in Places
        BY <1>2, <1>6 DEF Restore, At, Archiving
    <2>3. MadeOK' /\ PointerOK'
        BY <1>1, <1>6 DEF Restore, MadeOK, PointerOK
    <2>4. CASE UNCHANGED <<tree, lock, attic, robbed>>
        <3>1. AtticOK'
            BY <1>1, <2>4 DEF AtticOK
        <3> QED BY <2>1, <2>3, <2>4, <3>1, Carries
    <2>5. CASE entry = "lock" /\ ~UNCHANGED <<tree, lock, attic, robbed>>
        <3>1. /\ attic[p].lock \in Locks \cup {None}
              /\ attic' = [attic EXCEPT ![p].lock = None]
              /\ lock' = [lock EXCEPT ![name] = attic[p].lock]
              /\ robbed' = (robbed \/ Robs(p, name))
            BY <1>1, <1>6, <2>5 DEF Restore, AtticOK, name
        <3>2. LocksOK'
            BY <1>1, <3>1 DEF LocksOK, Robs
        <3>3. Replaces(p, name)
            BY <2>1, <3>1 DEF Replaces, Follows
        <3>4. AtticOK'
            BY <1>1, <3>1 DEF AtticOK, NoAttic
        <3> QED BY <2>1, <2>2, <2>3, <3>2, <3>3, <3>4, Carries
    <2>6. CASE entry # "lock" /\ ~UNCHANGED <<tree, lock, attic, robbed>>
        <3>1. attic' = [attic EXCEPT ![p][entry] = Absent(entry)] /\ lock' = lock /\ robbed' = robbed
            BY <1>6, <2>6 DEF Restore
        <3>2. AtticOK'
            BY <1>1, <2>6, <3>1 DEF AtticOK, NoAttic
        <3> QED BY <2>1, <2>3, <3>1, <3>2, Carries
    <2> QED BY <2>4, <2>5, <2>6
<1>7. CASE Restored(p)
    <2>1. Follows(p) /\ ~Section(p)'
        BY <1>1, <1>7, Ends DEF Restored, At, Working
    <2>2. name \in Names /\ name \in Places
        BY <1>2, <1>7 DEF Restored, At, Archiving
    <2>3. MadeOK'
        BY <1>1, <1>7, <2>2 DEF Restored, MadeOK, name
    <2>4. PointerOK'
        BY <1>1, <1>7, <2>2, PointerSet DEF Restored, PointerOK, name
    <2>5. AtticOK' /\ lock' = lock /\ robbed' = robbed
        BY <1>1, <1>7 DEF Restored, AtticOK, NoAttic
    <2> QED BY <2>1, <2>3, <2>4, <2>5, Carries
<1>8. CASE Archived(p)
    <2>1. Follows(p) /\ ~Section(p)'
        BY <1>1, <1>8, Ends DEF Archived, At, Working
    <2>2. MadeOK' /\ PointerOK' /\ AtticOK' /\ lock' = lock /\ robbed' = robbed
        BY <1>1, <1>8 DEF Archived, MadeOK, PointerOK, AtticOK
    <2> QED BY <2>1, <2>2, Carries
<1> QED BY <1>3, <1>4, <1>5, <1>6, <1>7, <1>8

-----------------------------------------------------------------------------
LEMMA KillKeeps ==
    ASSUME LockInv, NEW p \in Procs, Kill(p), attic' = attic
    PROVE  LockInv'
<1>1. /\ DOMAIN proc = Procs /\ DOMAIN proc[p] = DOMAIN Idle
      /\ MadeOK /\ PointerOK /\ AtticOK
    BY DEF LockInv, Types, ProcOK, OneOK
<1>2. proc' = [proc EXCEPT ![p] = [Idle EXCEPT !.cmd = proc[p].cmd, !.at = proc[p].at, !.pc = "killed"]]
    BY DEF Kill
<1>3. Follows(p) /\ ~Section(p)'
    BY <1>1, <1>2 DEF Kill, Follows, Idle, Migrating, Archiving, Section, Held
<1>4. lock' = lock /\ robbed' = robbed /\ MadeOK' /\ PointerOK' /\ AtticOK'
    BY <1>1 DEF Kill, MadeOK, PointerOK, AtticOK
<1> QED BY <1>3, <1>4, Carries

LEMMA AgeKeeps ==
    ASSUME LockInv, NEW at \in Places, Age(at), attic' = attic
    PROVE  LockInv'
<1>1. /\ lock[at] \in Locks /\ lock' = [lock EXCEPT ![at].old = TRUE]
      /\ proc' = proc /\ made' = made /\ pointer' = pointer /\ robbed' = robbed
    BY DEF Age, LockInv, Types, LocksOK
<1>2. [lock[at] EXCEPT !.old = TRUE] \in Locks /\ [lock[at] EXCEPT !.old = TRUE].by = lock[at].by
    BY <1>1 DEF Locks
<1>3. lock'[at] \in Locks /\ lock'[at].by = lock[at].by /\ \A b \in Places \ {at} : lock'[b] = lock[b]
    BY <1>1, <1>2 DEF LockInv, Types, LocksOK
<1>4. LocksOK'
    BY <1>1, <1>2 DEF LockInv, Types, LocksOK
<1>5. ProcOK' /\ PointerOK' /\ MadeOK' /\ AtticOK'
    BY <1>1 DEF LockInv, Types, ProcOK, OneOK, Working, Op, PointerOK, MadeOK, AtticOK
<1>6. ASSUME ~robbed', NEW q \in Procs, Section(q)'
      PROVE  Holding(q)'
    <2>1. Section(q) /\ Holding(q) /\ proc[q].at \in Places /\ proc'[q].at = proc[q].at
        BY <1>1, <1>6 DEF LockInv, OwnLock, Section, Types, ProcOK, OneOK
    <2>2. None \notin Locks
        BY PlacesAssumption
    <2> QED BY <1>3, <2>1, <2>2 DEF Holding
<1> QED BY <1>4, <1>5, <1>6 DEF LockInv, Types, OwnLock

LEMMA StutterKeeps ==
    ASSUME LockInv, UNCHANGED <<made, lock, pointer, proc, robbed, attic>>
    PROVE  LockInv'
    BY DEF LockInv, Types, ProcOK, OneOK, Working, Op, LocksOK, PointerOK, MadeOK, AtticOK,
           OwnLock, Section, Holding

-----------------------------------------------------------------------------
LEMMA InitHolds == WsInit => LockInv
<1>1. SUFFICES ASSUME WsInit
               PROVE  LockInv
    OBVIOUS
<1>2. PICK start \in Starts :
        /\ lock = [at \in Places |-> IF at = start.at /\ start.dead # None
                                    THEN [by |-> start.dead, old |-> FALSE] ELSE None]
        /\ proc = [p \in Procs |-> IF p = start.dead THEN [Idle EXCEPT !.pc = "killed"] ELSE Idle]
        /\ made = {Flat} \cup Ancestors(start.at)
        /\ pointer = [s \in start.own \cup {Shared} |-> IF start.at = Flat THEN None ELSE start.at]
    BY <1>1 DEF WsInit, Init
<1>3. start.at \in Places /\ start.dead \in Procs \cup {None}
    BY StartsAssumption
<1>4. \A p \in Procs : /\ DOMAIN proc[p] = DOMAIN Idle /\ proc[p].at = Flat
                       /\ proc[p].pc \in {"idle", "killed"}
    BY <1>2 DEF Idle
<1>5. ProcOK
    BY <1>2, <1>4 DEF ProcOK, OneOK, Working, Migrating, Archiving, Places
<1>6. \A q \in Procs : [by |-> q, old |-> FALSE] \in Locks
    BY DEF Locks
<1>7. LocksOK
    BY <1>1, <1>2, <1>3, <1>6 DEF LocksOK, WsInit, Init
<1>8. PointerOK
    BY <1>2, <1>3 DEF PointerOK, Places
<1>9. MadeOK
    BY <1>2, <1>3 DEF MadeOK, Ancestors, Places
<1>10. AtticOK
    BY <1>1 DEF WsInit, AtticOK, NoAttic
<1>11. OwnLock
    BY <1>4 DEF OwnLock, Section, Held
<1> QED BY <1>5, <1>7, <1>8, <1>9, <1>10, <1>11 DEF LockInv, Types

LEMMA NextKeeps ==
    LockInv /\ [WsNext]_wsvars => LockInv'
<1> SUFFICES ASSUME LockInv, [WsNext]_wsvars
             PROVE  LockInv'
    OBVIOUS
<1>1. ASSUME NEW p \in Procs, PhaseStep(p), attic' = attic
      PROVE  LockInv'
    <2>1. CASE BeginCommand(p)
        BY <1>1, <2>1, PhaseCommandsBegin
    <2>2. CASE Locking(p)
        BY <1>1, <2>2, LockingKeeps
    <2>3. CASE Command(p)
        BY <1>1, <2>3, CommandProceeds, GoesOn DEF Proceeds
    <2>4. CASE Kill(p)
        BY <1>1, <2>4, KillKeeps
    <2> QED BY <1>1, <2>1, <2>2, <2>3, <2>4 DEF PhaseStep
<1>2. ASSUME NEW at \in Places, Work(at) \/ Age(at), attic' = attic
      PROVE  LockInv'
    <2>1. CASE Work(at)
        BY <1>2, <2>1, StutterKeeps DEF Work
    <2>2. CASE Age(at)
        BY <1>2, <2>2, AgeKeeps
    <2> QED BY <1>2, <2>1, <2>2
<1>3. ASSUME NEW p \in Procs, WsBegin(p) \/ WsCommand(p)
      PROVE  LockInv'
    BY <1>3, WorkstreamCommandsBegin, MigrationKeeps, ArchivingKeeps DEF WsCommand
<1>4. CASE UNCHANGED wsvars
    BY <1>4, StutterKeeps DEF wsvars, vars
<1>5. CASE WsNext
    <2>1. CASE PhaseNext /\ UNCHANGED <<attic, faults>>
        BY <1>1, <1>2, <2>1 DEF PhaseNext, Surroundings
    <2>2. CASE Rest
        BY <1>4, <2>2 DEF Rest
    <2> QED BY <1>3, <1>5, <2>1, <2>2 DEF WsNext
<1> QED BY <1>4, <1>5

LEMMA LockInvExcludes == LockInv => LockExcludes
    BY DEF LockInv, OwnLock, Holding, LockExcludes

\* Of all the commands that work on a planning directory under its lock at most one
\* does at a time, whatever workstreams are created, archived and put back meanwhile,
\* however many renames fail and processes die, as long as no lock is deleted under
\* the hands of its owner (withPlanningLock).
THEOREM WorkstreamLocksExclude == WsSpec => []LockExcludes
<1>1. WsInit => LockInv
    BY InitHolds
<1>2. LockInv /\ [WsNext]_wsvars => LockInv'
    BY NextKeeps
<1>3. LockInv => LockExcludes
    BY LockInvExcludes
<1> QED BY <1>1, <1>2, <1>3, PTL DEF WsSpec

-----------------------------------------------------------------------------
(* Least and greatest elements. *)

LEMMA LeastNumber ==
    ASSUME NEW S \in SUBSET Nat, S # {}
    PROVE  Min(S) \in S /\ \A n \in S : Min(S) <= n
<1> DEFINE Below == OpToRel(<, Nat)
<1>1. IsWellFoundedOn(Below, Nat)
    BY NatLessThanWellFounded, Zenon
<1>2. \E m \in S : \A n \in S : <<n, m>> \notin Below
    <2> HIDE DEF Below
    <2> QED BY <1>1, WFMin
<1>3. ASSUME NEW m \in Nat, NEW n \in Nat, <<n, m>> \notin Below
      PROVE  m <= n
    BY <1>3 DEF OpToRel
<1>4. \E m \in S : \A n \in S : m <= n
    <2> HIDE DEF Below
    <2> QED BY <1>2, <1>3
<1> QED BY <1>4 DEF Min

\* The greatest is found by taking elements away until none is left.
LEMMA GreatestNumber ==
    ASSUME NEW S \in SUBSET Nat, S # {}, IsFiniteSet(S)
    PROVE  Max(S) \in S /\ \A n \in S : n <= Max(S)
<1> DEFINE Bounded(T) == \E m \in T : \A n \in T : n <= m
           Without == {T \in FiniteSubsetsOf(S) : T # {} /\ ~Bounded(T)}
<1>1. SUFFICES Bounded(S)
    BY DEF Max
<1>2. SUFFICES ASSUME Without # {}
               PROVE  FALSE
    BY DEF FiniteSubsetsOf
<1>3. PICK T \in Without : \A U \in Without : ~(<<U, T>> \in StrictSubsetOrdering(S))
    <2>1. Without \subseteq FiniteSubsetsOf(S)
        OBVIOUS
    <2>2. IsWellFoundedOn(StrictSubsetOrdering(S), FiniteSubsetsOf(S))
        BY FS_StrictSubsetOrderingWellFounded
    <2> HIDE DEF Without
    <2> QED BY <1>2, <2>1, <2>2, WFMin
<1>4. PICK x \in T : TRUE
    OBVIOUS
<1>5. T \subseteq S /\ IsFiniteSet(T) /\ ~Bounded(T)
    BY DEF FiniteSubsetsOf
<1>6. T \ {x} # {}
    BY <1>4, <1>5
<1>7. T \ {x} \in FiniteSubsetsOf(S)
    BY <1>5, FS_RemoveElement DEF FiniteSubsetsOf
<1>8. <<T \ {x}, T>> \in StrictSubsetOrdering(S)
    BY <1>4, <1>5 DEF StrictSubsetOrdering
<1>9. Bounded(T \ {x})
    BY <1>3, <1>6, <1>7, <1>8
<1>10. PICK m \in T \ {x} : \A n \in T \ {x} : n <= m
    BY <1>9
<1>11. \A n \in T : n <= IF x <= m THEN m ELSE x
    BY <1>4, <1>5, <1>10
<1> QED BY <1>4, <1>5, <1>10, <1>11

LEMMA ImageFinite ==
    ASSUME NEW S, IsFiniteSet(S), NEW T, NEW f \in [S -> T]
    PROVE  IsFiniteSet({f[x] : x \in S})
<1>1. f \in Surjection(S, {f[x] : x \in S})
    BY DEF Surjection
<1> QED BY <1>1, FS_Surjection

\* The first phase of a set of phases.
LEMMA FirstNumber ==
    ASSUME NEW S \in SUBSET Numbers, S # {}
    PROVE  \E a \in S : \A b \in S : ~Before(b, a)
<1> DEFINE heads == {a[1] : a \in S}
           n == Min(heads)
           tails == {a[2] : a \in {b \in S : b[1] = n}}
           m == Min(tails)
<1>1. heads \subseteq Nat /\ heads # {} /\ tails \subseteq Nat
    BY DEF Numbers
<1>2. n \in heads /\ \A k \in heads : n <= k
    BY <1>1, LeastNumber
<1>3. tails # {}
    BY <1>2
<1> HIDE DEF n
<1>4. m \in tails /\ \A k \in tails : m <= k
    BY <1>1, <1>3, LeastNumber
<1>5. PICK a \in S : a[1] = n /\ a[2] = m
    BY <1>4
<1>6. \A b \in S : ~Before(b, a)
    <2> SUFFICES ASSUME NEW b \in S
                 PROVE  ~Before(b, a)
        OBVIOUS
    <2>1. b[1] \in Nat /\ b[2] \in Nat /\ n \in Nat /\ m \in Nat
        BY <1>1, <1>2, <1>4 DEF Numbers
    <2>2. n <= b[1]
        BY <1>2
    <2>3. b[1] = n => m <= b[2]
        BY <1>4
    <2> HIDE DEF heads, tails, m
    <2> QED BY <1>5, <2>1, <2>2, <2>3 DEF Before
<1> QED BY <1>6

\* The directory with the highest number is one of them.
LEMMA HighestFound ==
    ASSUME NEW S \in SUBSET Directories, S # {}, IsFiniteSet(S)
    PROVE  Highest(S) \in S
<1> DEFINE heads == {d.id[1] : d \in S}
           n == Max(heads)
           top == {d \in S : d.id[1] = n}
           tails == {d.id[2] : d \in top}
           m == Max(tails)
<1>1. \A d \in S : d.id \in Numbers
    BY DEF Directories
<1>2. heads \subseteq Nat /\ heads # {} /\ tails \subseteq Nat
    BY <1>1 DEF Numbers
<1>3. IsFiniteSet(heads)
    <2> DEFINE f == [d \in S |-> d.id[1]]
    <2>1. f \in [S -> Nat]
        BY <1>1 DEF Numbers
    <2>2. {f[x] : x \in S} = heads
        OBVIOUS
    <2> HIDE DEF f
    <2>3. IsFiniteSet({f[x] : x \in S})
        BY <2>1, ImageFinite
    <2> QED BY <2>2, <2>3
<1>4. n \in heads /\ \A k \in heads : k <= n
    BY <1>2, <1>3, GreatestNumber
<1> HIDE DEF n
<1>5. tails # {}
    BY <1>4
<1>6. IsFiniteSet(tails)
    <2> DEFINE f == [d \in top |-> d.id[2]]
    <2>1. f \in [top -> Nat]
        BY <1>1 DEF Numbers
    <2>2. {f[x] : x \in top} = tails
        OBVIOUS
    <2>3. IsFiniteSet(top)
        BY FS_Subset
    <2> HIDE DEF f
    <2>4. IsFiniteSet({f[x] : x \in top})
        BY <2>1, <2>3, ImageFinite
    <2> QED BY <2>2, <2>4
<1>7. m \in tails /\ \A k \in tails : k <= m
    BY <1>2, <1>5, <1>6, GreatestNumber
<1> HIDE DEF m
<1>8. PICK d \in top : d.id[2] = m
    BY <1>7
<1>9. \A e \in S : ~Before(d.id, e.id)
    <2> SUFFICES ASSUME NEW e \in S
                 PROVE  ~Before(d.id, e.id)
        OBVIOUS
    <2>1. e.id[1] <= n /\ (e.id[1] = n => e.id[2] <= m)
        BY <1>4, <1>7
    <2>2. d.id[1] = n /\ d.id[2] = m /\ d.id \in Numbers /\ e.id \in Numbers
        BY <1>1, <1>8
    <2> QED BY <2>1, <2>2 DEF Before, Numbers
<1> QED BY <1>9 DEF Highest

-----------------------------------------------------------------------------
(* Roadmaps. *)

\* The first section of a number is found, if there is one.
LEMMA SectionFound ==
    ASSUME NEW road \in Seq(Sections), NEW id
    PROVE  /\ SectionOf(road, id) \in 0..Len(road)
           /\ SectionOf(road, id) # 0 =>
                 /\ road[SectionOf(road, id)].id = id
                 /\ \A i \in 1..(SectionOf(road, id) - 1) : road[i].id # id
           /\ SectionOf(road, id) = 0 => \A i \in DOMAIN road : road[i].id # id
<1> DEFINE found == {i \in 1..Len(road) : road[i].id = id}
           k == Min(found)
<1>1. SectionOf(road, id) = IF found # {} THEN k ELSE 0
    BY DEF SectionOf, SelectInSeq
<1>2. CASE found = {}
    BY <1>1, <1>2
<1>3. CASE found # {}
    <2>1. found \subseteq Nat
        OBVIOUS
    <2>2. k \in found /\ \A i \in found : k <= i
        BY <1>3, <2>1, LeastNumber
    <2> HIDE DEF k
    <2>3. \A i \in 1..(k - 1) : road[i].id # id
        BY <2>2
    <2> QED BY <1>1, <1>3, <2>2, <2>3
<1> QED BY <1>2, <1>3

\* What a rewrite leaves of a section, and of a roadmap's sections, in their order.
SameSection(a, b) ==
    /\ a.id = b.id /\ a.name = b.name /\ a.dep = b.dep /\ a.reqs = b.reqs /\ a.box = b.box
    /\ a.listed = b.listed /\ (a.ticked => b.ticked)
Edited(road, new) ==
    /\ new \in Seq(Sections) /\ Len(new) = Len(road)
    /\ \A i \in 1..Len(road) : SameSection(road[i], new[i])

LEMMA EditedTwice ==
    ASSUME NEW r \in Seq(Sections), NEW s, NEW t, Edited(r, s), Edited(s, t)
    PROVE  Edited(r, t)
    BY DEF Edited, SameSection

LEMMA NotEdited ==
    ASSUME NEW r \in Seq(Sections)
    PROVE  Edited(r, r)
    BY DEF Edited, SameSection

LEMMA TickedEdits ==
    ASSUME NEW road \in Seq(Sections), NEW id
    PROVE  Edited(road, Ticked(road, id))
<1>1. ASSUME NEW i \in 1..Len(road), NEW new, new = [road EXCEPT ![i].ticked = TRUE]
      PROVE  Edited(road, new)
    <2>1. road[i] \in Sections
        OBVIOUS
    <2>2. [road[i] EXCEPT !.ticked = TRUE] \in Sections
        BY <2>1 DEF Sections
    <2>3. new = [road EXCEPT ![i] = [road[i] EXCEPT !.ticked = TRUE]]
        BY <1>1
    <2>4. new \in Seq(Sections) /\ Len(new) = Len(road)
        BY <2>2, <2>3, ExceptSeq
    <2>5. ASSUME NEW j \in 1..Len(road)
          PROVE  SameSection(road[j], new[j])
        <3>1. road[j] \in Sections
            OBVIOUS
        <3> QED BY <2>3, <3>1 DEF SameSection, Sections
    <2> QED BY <2>4, <2>5 DEF Edited
<1>2. ASSUME NEW i, i \notin 1..Len(road), NEW new, new = [road EXCEPT ![i].ticked = TRUE]
      PROVE  Edited(road, new)
    <2>1. road = [j \in 1..Len(road) |-> road[j]]
        OBVIOUS
    <2>2. new = road
        BY <1>2, <2>1
    <2> QED BY <2>2, NotEdited
<1>3. Ticked(road, id) = road \/ \E i : Ticked(road, id) = [road EXCEPT ![i].ticked = TRUE]
    BY DEF Ticked
<1> QED BY <1>1, <1>2, <1>3, NotEdited

LEMMA TalliedEdits ==
    ASSUME NEW road \in Seq(Sections), NEW id, NEW counts \in Tallies
    PROVE  Edited(road, Tallied(road, id, counts))
<1> DEFINE i == SectionOf(road, id)
           new == [road EXCEPT ![i].tally = counts]
<1>1. i \in 0..Len(road)
    BY SectionFound
<1>2. CASE i = 0
    BY <1>2, NotEdited DEF Tallied
<1>3. CASE i # 0
    <2>1. Tallied(road, id, counts) = new
        BY <1>3 DEF Tallied
    <2> HIDE DEF i
    <2>2. i \in 1..Len(road) /\ road[i] \in Sections
        BY <1>1, <1>3
    <2>3. [road[i] EXCEPT !.tally = counts] \in Sections
        BY <2>2 DEF Sections
    <2>4. new = [road EXCEPT ![i] = [road[i] EXCEPT !.tally = counts]]
        OBVIOUS
    <2>5. new \in Seq(Sections) /\ Len(new) = Len(road)
        BY <2>2, <2>3, <2>4, ExceptSeq
    <2>6. ASSUME NEW j \in 1..Len(road)
          PROVE  SameSection(road[j], new[j])
        BY <2>2, <2>4 DEF SameSection, Sections
    <2> QED BY <2>1, <2>5, <2>6 DEF Edited
<1> QED BY <1>2, <1>3

LEMMA AnnotatedEdits ==
    ASSUME NEW road \in Seq(Sections), NEW id
    PROVE  Edited(road, Annotated(road, id))
<1> DEFINE i == SectionOf(road, id)
           new == [road EXCEPT ![i].waves = TRUE]
<1>1. i \in 0..Len(road)
    BY SectionFound
<1>2. CASE Annotated(road, id) = road
    BY <1>2, NotEdited
<1>3. CASE i # 0 /\ Annotated(road, id) = new
    <2> HIDE DEF i
    <2>2. i \in 1..Len(road) /\ road[i] \in Sections
        BY <1>1, <1>3
    <2>3. [road[i] EXCEPT !.waves = TRUE] \in Sections
        BY <2>2 DEF Sections
    <2>4. new = [road EXCEPT ![i] = [road[i] EXCEPT !.waves = TRUE]]
        OBVIOUS
    <2>5. new \in Seq(Sections) /\ Len(new) = Len(road)
        BY <2>2, <2>3, <2>4, ExceptSeq
    <2>6. ASSUME NEW j \in 1..Len(road)
          PROVE  SameSection(road[j], new[j])
        BY <2>2, <2>4 DEF SameSection, Sections
    <2> QED BY <1>3, <2>5, <2>6 DEF Edited
<1> QED BY <1>2, <1>3 DEF Annotated

LEMMA CompletedEdits ==
    ASSUME NEW road \in Seq(Sections), NEW id, NEW counts \in Tallies
    PROVE  Edited(road, Completed(road, id, counts)) /\ Edited(road, PlanProgressed(road, id, counts))
<1>1. Edited(road, Ticked(road, id)) /\ Edited(road, Tallied(road, id, counts))
    BY TickedEdits, TalliedEdits
<1>2. Ticked(road, id) \in Seq(Sections) /\ Tallied(road, id, counts) \in Seq(Sections)
    BY <1>1 DEF Edited
<1>3. Edited(Ticked(road, id), Completed(road, id, counts))
    BY <1>2, TalliedEdits DEF Completed
<1>4. Edited(Tallied(road, id, counts), PlanProgressed(road, id, counts))
    BY <1>2, TickedEdits, NotEdited DEF PlanProgressed
<1> QED BY <1>1, <1>2, <1>3, <1>4, EditedTwice

LEMMA NewSectionOK ==
    ASSUME NEW id \in Numbers, NEW name \in Titles, NEW dep \in Numbers
    PROVE  NewSection(id, name, dep) \in Sections
    BY DEF NewSection, Sections, Tallies

\* A section that is added leaves the others in their order.
LEMMA AppendedSection ==
    ASSUME NEW road \in Seq(Sections), NEW n \in Nat \ {0}, NEW name \in Titles
    PROVE  LET new == Appended(road, n, name)
           IN  /\ new \in Seq(Sections) /\ Len(new) = Len(road) + 1
               /\ \A i \in 1..Len(road) : new[i] = road[i]
               /\ new[Len(new)] = NewSection(<<n, 0>>, name, <<n - 1, 0>>)
<1>1. <<n, 0>> \in Numbers /\ <<n - 1, 0>> \in Numbers
    BY DEF Numbers
<1> DEFINE section == NewSection(<<n, 0>>, name, <<n - 1, 0>>)
<1>2. section \in Sections
    BY <1>1, NewSectionOK
<1> HIDE DEF section
<1>3. Appended(road, n, name) = Append(road, section)
    BY DEF Appended, section
<1> QED BY <1>2, <1>3, AppendProperties DEF section

LEMMA InsertedSection ==
    ASSUME NEW road \in Seq(Sections), NEW base \in Numbers, NEW d \in Nat, NEW name \in Titles,
           SectionOf(road, base) # 0
    PROVE  LET new == InsertedAfter(road, base, d, name)
               k == SectionOf(road, base) + 1
           IN  /\ new \in Seq(Sections) /\ Len(new) = Len(road) + 1 /\ k \in 2..Len(new)
               /\ \A i \in 1..(k - 1) : new[i] = road[i]
               /\ \A i \in k..Len(road) : new[i + 1] = road[i]
               /\ new[k] = NewSection(<<base[1], d>>, name, base)
<1> DEFINE section == NewSection(<<base[1], d>>, name, base)
           k == SectionOf(road, base) + 1
           front == SubSeq(road, 1, k - 1)
           back == SubSeq(road, k, Len(road))
           new == InsertedAfter(road, base, d, name)
<1>1. k \in 2..(Len(road) + 1)
    BY SectionFound
<1>2. section \in Sections
    <2>1. <<base[1], d>> \in Numbers
        BY DEF Numbers
    <2> QED BY <2>1, NewSectionOK
<1>3. new = front \o <<section>> \o back
    BY DEF InsertedAfter, InsertAt
<1> HIDE DEF section, k, new
<1>4. /\ front \in Seq(Sections) /\ Len(front) = k - 1
      /\ \A i \in 1..(k - 1) : front[i] = road[i]
    BY <1>1
<1>5. /\ back \in Seq(Sections) /\ Len(back) = Len(road) - k + 1
      /\ \A i \in 1..(Len(road) - k + 1) : back[i] = road[k + i - 1]
    BY <1>1
<1>6. <<section>> \in Seq(Sections) /\ Len(<<section>>) = 1 /\ <<section>>[1] = section
    BY <1>2
<1> HIDE DEF front, back
<1>7. /\ front \o <<section>> \in Seq(Sections) /\ Len(front \o <<section>>) = k
      /\ \A i \in 1..(k - 1) : (front \o <<section>>)[i] = road[i]
      /\ (front \o <<section>>)[k] = section
    BY <1>1, <1>4, <1>6, ConcatProperties
<1>8. /\ new \in Seq(Sections) /\ Len(new) = Len(road) + 1
      /\ \A i \in 1..k : new[i] = (front \o <<section>>)[i]
      /\ \A i \in 1..(Len(road) - k + 1) : new[k + i] = back[i]
    <2> DEFINE start == front \o <<section>>
    <2>1. start \in Seq(Sections) /\ Len(start) = k
        BY <1>7
    <2> HIDE DEF start
    <2>2. /\ start \o back \in Seq(Sections) /\ Len(start \o back) = Len(start) + Len(back)
          /\ \A i \in 1..(Len(start) + Len(back)) : (start \o back)[i] =
                IF i <= Len(start) THEN start[i] ELSE back[i - Len(start)]
        BY <1>5, <2>1, ConcatProperties
    <2>3. Len(start) = k /\ Len(back) = Len(road) - k + 1 /\ Len(road) \in Nat /\ k \in 1..(Len(road) + 1)
        BY <1>1, <1>5, <2>1
    <2>4. \A i \in 1..k : (start \o back)[i] = start[i]
        BY <2>2, <2>3
    <2>5. \A i \in 1..(Len(road) - k + 1) : (start \o back)[k + i] = back[i]
        BY <2>2, <2>3
    <2>6. new = start \o back
        BY <1>3 DEF start
    <2>7. new \in Seq(Sections) /\ Len(new) = Len(road) + 1
        BY <2>2, <2>3, <2>6
    <2>8. \A i \in 1..k : new[i] = (front \o <<section>>)[i]
        BY <2>4, <2>6 DEF start
    <2> QED BY <2>5, <2>6, <2>7, <2>8
<1>9. \A i \in k..Len(road) : new[i + 1] = road[i]
    <2> SUFFICES ASSUME NEW i \in k..Len(road)
                 PROVE  new[i + 1] = road[i]
        OBVIOUS
    <2> DEFINE j == i - k + 1
    <2>1. j \in 1..(Len(road) - k + 1) /\ i + 1 = k + j /\ i = k + j - 1
        BY <1>1
    <2> HIDE DEF j
    <2> QED BY <1>5, <1>8, <2>1
<1> QED BY <1>1, <1>7, <1>8, <1>9 DEF section, k, new

\* What is left of a roadmap after a removal is a roadmap.
LEMMA RemovedRoadmap ==
    ASSUME NEW road \in Seq(Sections), NEW id \in Numbers
    PROVE  Removed(road, id) \in Seq(Sections)
<1> DEFINE rest == RemoveFirstMatch(road, LAMBDA s : s.id = id)
           i == SectionOf(road, id)
<1>1. rest \in Seq(Sections)
    <2>1. i \in 0..Len(road) /\ ((\E j \in 1..Len(road) : road[j].id = id) => i # 0)
        BY SectionFound
    <2>2. SelectInSeq(road, LAMBDA s : s.id = id) = i
        BY DEF SectionOf
    <2>3. rest = IF \E j \in 1..Len(road) : road[j].id = id
                 THEN SubSeq(road, 1, i - 1) \o SubSeq(road, i + 1, Len(road)) ELSE road
        BY <2>2 DEF RemoveFirstMatch, RemoveAt
    <2> HIDE DEF i
    <2>4. CASE i # 0
        <3>1. SubSeq(road, 1, i - 1) \in Seq(Sections) /\ SubSeq(road, i + 1, Len(road)) \in Seq(Sections)
            BY <2>1, <2>4
        <3> HIDE DEF rest
        <3> QED BY <2>3, <3>1, ConcatProperties
    <2>5. CASE i = 0
        BY <2>1, <2>3, <2>5
    <2> QED BY <2>4, <2>5
<1> HIDE DEF rest
<1>2. WithoutPhase(road, id) \in Seq(Sections)
    <2> DEFINE without(s) == IF s.box = id THEN [s EXCEPT !.box = None, !.ticked = FALSE] ELSE s
    <2>1. \A s \in Sections : without(s) \in Sections
        BY DEF Sections
    <2>2. WithoutPhase(road, id) = [j \in 1..Len(rest) |-> without(rest[j])]
        BY <1>1 DEF WithoutPhase, rest
    <2> HIDE DEF without
    <2>3. \A j \in 1..Len(rest) : without(rest[j]) \in Sections
        BY <1>1, <2>1
    <2> QED BY <1>1, <2>2, <2>3
<1>3. ASSUME NEW gone \in Nat, NEW some \in Seq(Sections)
      PROVE  Renumbered(some, gone) \in Seq(Sections)
    <2> DEFINE lower(s) == [s EXCEPT !.id = Lowered(s.id, gone), !.dep = Lowered(s.dep, gone),
                                     !.box = IF s.listed THEN Lowered(s.box, gone) ELSE s.box]
    <2>1. \A number \in Numbers \cup {None} : Lowered(number, gone) \in Numbers \cup {None}
        BY DEF Lowered, Numbers
    <2>2. \A number \in Numbers : Lowered(number, gone) \in Numbers
        BY DEF Lowered, Numbers
    <2>3. \A s \in Sections : lower(s) \in Sections
        <3> HIDE DEF Lowered
        <3> QED BY <2>1, <2>2 DEF Sections
    <2>4. Renumbered(some, gone) = [j \in 1..Len(some) |-> lower(some[j])]
        BY DEF Renumbered
    <2> HIDE DEF lower
    <2>5. \A j \in 1..Len(some) : lower(some[j]) \in Sections
        BY <2>3
    <2> QED BY <2>4, <2>5
<1>4. id[1] \in Nat
    BY DEF Numbers
<1> QED BY <1>2, <1>3, <1>4 DEF Removed

-----------------------------------------------------------------------------
(* Numbers that are given. *)

LEMMA NumbersOf ==
    ASSUME NEW road \in Roadmaps, NEW dirs \in SUBSET Directories, IsFiniteSet(dirs)
    PROVE  /\ RoadIds(road) \in SUBSET Numbers /\ IsFiniteSet(RoadIds(road))
           /\ DirIds(dirs) \in SUBSET Numbers /\ IsFiniteSet(DirIds(dirs))
<1>1. RoadIds(road) \in SUBSET Numbers /\ IsFiniteSet(RoadIds(road))
    <2>1. CASE road = None
        BY <2>1, FS_EmptySet DEF RoadIds
    <2>2. CASE road # None
        <3> DEFINE f == [i \in 1..Len(road) |-> road[i].id]
        <3>1. road \in Seq(Sections)
            BY <2>2 DEF Roadmaps
        <3>2. \A i \in 1..Len(road) : road[i].id \in Numbers
            <4>1. \A i \in 1..Len(road) : road[i] \in Sections
                BY <3>1, ElementOfSeq
            <4>2. \A s \in Sections : s.id \in Numbers
                BY DEF Sections
            <4> QED BY <4>1, <4>2
        <3>3. f \in [1..Len(road) -> Numbers]
            BY <3>2
        <3>4. {f[i] : i \in 1..Len(road)} = RoadIds(road)
            BY <2>2, <3>1 DEF RoadIds
        <3> HIDE DEF f
        <3>5. IsFiniteSet(1..Len(road))
            BY <3>1, FS_Interval
        <3>6. IsFiniteSet({f[i] : i \in 1..Len(road)})
            BY <3>3, <3>5, ImageFinite
        <3> QED BY <3>3, <3>4, <3>6
    <2> QED BY <2>1, <2>2
<1>2. DirIds(dirs) \in SUBSET Numbers /\ IsFiniteSet(DirIds(dirs))
    <2> DEFINE f == [d \in dirs |-> d.id]
    <2>1. f \in [dirs -> Numbers]
        BY DEF Directories
    <2>2. {f[d] : d \in dirs} = DirIds(dirs)
        BY DEF DirIds
    <2> HIDE DEF f
    <2>3. IsFiniteSet({f[d] : d \in dirs})
        BY <2>1, ImageFinite
    <2> QED BY <2>1, <2>2, <2>3
<1> QED BY <1>1, <1>2

LEMMA AboveAll ==
    ASSUME NEW S \in SUBSET Nat, IsFiniteSet(S)
    PROVE  1 + Max({0} \cup S) \in Nat \ {0} /\ \A n \in S : n < 1 + Max({0} \cup S)
<1> DEFINE all == S \cup {0}
           m == Max(all)
<1>1. IsFiniteSet(all)
    BY FS_AddElement
<1>2. all \subseteq Nat /\ all # {} /\ S \subseteq all /\ all = {0} \cup S
    OBVIOUS
<1> HIDE DEF all
<1>3. m \in all /\ \A n \in all : n <= m
    BY <1>1, <1>2, GreatestNumber
<1> HIDE DEF m
<1>4. m \in Nat /\ \A n \in S : n \in Nat /\ n <= m
    BY <1>2, <1>3
<1>5. 1 + m \in Nat \ {0} /\ \A n \in S : n < 1 + m
    BY <1>4
<1> QED BY <1>2, <1>5 DEF m

\* An integer phase that is added gets a number above all others of the directory.
LEMMA NextIntegerAbove ==
    ASSUME NEW road \in Roadmaps, NEW dirs \in SUBSET Directories, IsFiniteSet(dirs)
    PROVE  /\ NextInteger(road, dirs) \in Nat \ {0}
           /\ \A id \in RoadIds(road) \cup DirIds(dirs) : id[1] < NextInteger(road, dirs)
<1> DEFINE ids == RoadIds(road) \cup DirIds(dirs)
           heads == {id[1] : id \in ids}
           f == [id \in ids |-> id[1]]
<1>1. ids \in SUBSET Numbers /\ IsFiniteSet(ids)
    BY NumbersOf, FS_Union
<1>2. NextInteger(road, dirs) = 1 + Max({0} \cup heads)
    BY DEF NextInteger
<1> HIDE DEF ids
<1>3. f \in [ids -> Nat] /\ {f[id] : id \in ids} = heads
    BY <1>1 DEF Numbers
<1> HIDE DEF f, heads
<1>4. IsFiniteSet({f[x] : x \in ids})
    BY <1>1, <1>3, ImageFinite
<1>5. IsFiniteSet(heads) /\ heads \in SUBSET Nat
    BY <1>3, <1>4
<1>6. \A id \in ids : id[1] \in heads
    BY DEF heads
<1> QED BY <1>2, <1>5, <1>6, AboveAll DEF ids

\* The same for the phases that are inserted after one.
LEMMA NextDecimalAbove ==
    ASSUME NEW road \in Roadmaps, NEW dirs \in SUBSET Directories, IsFiniteSet(dirs), NEW base \in Numbers
    PROVE  /\ NextDecimal(road, dirs, base) \in Nat \ {0}
           /\ \A id \in RoadIds(road) \cup DirIds(dirs) :
                id[1] = base[1] => id[2] < NextDecimal(road, dirs, base)
<1> DEFINE ids == {id \in RoadIds(road) \cup DirIds(dirs) : id[1] = base[1]}
           tails == {id[2] : id \in ids}
           f == [id \in ids |-> id[2]]
<1>1. ids \in SUBSET Numbers /\ IsFiniteSet(ids)
    <2>1. IsFiniteSet(RoadIds(road) \cup DirIds(dirs)) /\ RoadIds(road) \cup DirIds(dirs) \in SUBSET Numbers
        BY NumbersOf, FS_Union
    <2> QED BY <2>1, FS_Subset
<1>2. NextDecimal(road, dirs, base) = 1 + Max({0} \cup tails)
    BY DEF NextDecimal
<1> HIDE DEF ids
<1>3. f \in [ids -> Nat] /\ {f[id] : id \in ids} = tails
    BY <1>1 DEF Numbers
<1> HIDE DEF f, tails
<1>4. IsFiniteSet({f[x] : x \in ids})
    BY <1>1, <1>3, ImageFinite
<1>5. IsFiniteSet(tails) /\ tails \in SUBSET Nat
    BY <1>3, <1>4
<1>6. \A id \in ids : id[2] \in tails
    BY DEF tails
<1> QED BY <1>2, <1>5, <1>6, AboveAll DEF ids

\* STATE.md moves on to a phase, or to none.
LEMMA NextPhaseIsNumber ==
    ASSUME NEW road \in Roadmaps, NEW dirs \in SUBSET Directories, NEW id
    PROVE  NextPhase(road, dirs, id) \in Numbers \cup {None}
<1> DEFINE ahead == {d.id : d \in {e \in dirs : InMilestone(RoadIds(road), e) /\ Before(id, e.id)}}
           found == {i \in 1..Len(road) : Before(id, road[i].id)}
           later == IF road = None THEN 0 ELSE IF found # {} THEN Min(found) ELSE 0
<1>1. NextPhase(road, dirs, id) = IF ahead # {} THEN CHOOSE a \in ahead : \A b \in ahead : ~Before(b, a)
                                  ELSE IF later # 0 THEN road[later].id ELSE None
    BY DEF NextPhase, SelectInSeq
<1>2. ahead \in SUBSET Numbers
    BY DEF Directories
<1>3. CASE ahead # {}
    <2> HIDE DEF ahead
    <2>1. \E a \in ahead : \A b \in ahead : ~Before(b, a)
        BY <1>2, <1>3, FirstNumber
    <2>2. NextPhase(road, dirs, id) \in ahead
        BY <1>1, <1>3, <2>1
    <2> QED BY <1>2, <2>2
<1>4. CASE ahead = {} /\ later # 0
    <2>1. road \in Seq(Sections) /\ found # {} /\ later = Min(found)
        BY <1>4 DEF Roadmaps
    <2>2. found \subseteq Nat
        OBVIOUS
    <2>3. Min(found) \in found
        <3> HIDE DEF found
        <3> QED BY <2>1, <2>2, LeastNumber
    <2>4. later \in 1..Len(road)
        BY <2>1, <2>3
    <2> HIDE DEF ahead, later
    <2>5. NextPhase(road, dirs, id) = road[later].id /\ road[later] \in Sections
        BY <1>1, <1>4, <2>1, <2>4
    <2> QED BY <2>5 DEF Sections
<1>5. CASE ahead = {} /\ later = 0
    <2> HIDE DEF ahead, later
    <2> QED BY <1>1, <1>5
<1> QED BY <1>3, <1>4, <1>5

EntryNames == {"lock", "reqs", "road", "state", "config", "dirs"}
PartNames == {"road", "state", "reqs", "dirs"}

\* The entry of a listing that is moved first is one of the listing.
LEMMA FirstEntryFound ==
    ASSUME NEW entries \in SUBSET EntryNames, entries # {}
    PROVE  FirstEntry(entries) \in entries
<1> DEFINE found == {k \in 1..6 : Entries[k] \in entries}
<1>1. DOMAIN Entries = 1..6
    BY DEF Entries
<1>2. found # {}
    <2>1. \A entry \in EntryNames : \E k \in 1..6 : Entries[k] = entry
        BY DEF EntryNames, Entries
    <2> QED BY <2>1
<1>3. Min(found) \in found
    <2>1. found \subseteq Nat
        OBVIOUS
    <2> HIDE DEF found
    <2> QED BY <1>2, <2>1, LeastNumber
<1>4. FirstEntry(entries) = Entries[Min(found)]
    BY <1>1 DEF FirstEntry
<1> QED BY <1>3, <1>4

\* The same for the repairs.
LEMMA FirstRepairFound ==
    ASSUME NEW codes \in SUBSET Repairable, codes # {}
    PROVE  FirstRepair(codes) \in codes
<1> DEFINE found == {k \in 1..6 : RepairOrder[k] \in codes}
<1>1. DOMAIN RepairOrder = 1..6
    BY DEF RepairOrder
<1>2. found # {}
    <2>1. \A code \in Repairable : \E k \in 1..6 : RepairOrder[k] = code
        BY DEF Repairable, RepairOrder
    <2> QED BY <2>1
<1>3. Min(found) \in found
    <2>1. found \subseteq Nat
        OBVIOUS
    <2> HIDE DEF found
    <2> QED BY <1>2, <2>1, LeastNumber
<1>4. FirstRepair(codes) = RepairOrder[Min(found)]
    BY <1>1 DEF FirstRepair
<1> QED BY <1>3, <1>4

LEMMA ReversedSeq ==
    ASSUME NEW T, NEW s \in Seq(T)
    PROVE  Reverse(s) \in Seq(T)
<1>1. \A i \in 1..Len(s) : s[Len(s) - i + 1] \in T
    OBVIOUS
<1>2. Reverse(s) = [i \in 1..Len(s) |-> s[Len(s) - i + 1]]
    BY DEF Reverse
<1> HIDE DEF Reverse
<1> QED BY <1>1, <1>2

LEMMA HeadAndTail ==
    ASSUME NEW T, NEW s \in Seq(T), s # <<>>
    PROVE  Head(s) \in T /\ Tail(s) \in Seq(T) /\ (Len(s) # 1 => Tail(s) # <<>>)
<1>1. Len(s) \in Nat \ {0} /\ Head(s) \in T /\ Tail(s) \in Seq(T) /\ Len(Tail(s)) = Len(s) - 1
    BY HeadTailProperties, EmptySeq
<1>2. Len(<<>>) = 0
    OBVIOUS
<1>3. ASSUME Len(s) # 1, Tail(s) = <<>>
      PROVE  FALSE
    <2> DEFINE n == Len(s)
               m == Len(Tail(s))
    <2>1. n \in Nat /\ m = n - 1
        BY <1>1
    <2>2. m = 0
        BY <1>2, <1>3
    <2>3. n # 1
        BY <1>3
    <2> HIDE DEF n, m
    <2> QED BY <2>1, <2>2, <2>3
<1> QED BY <1>1, <1>3

-----------------------------------------------------------------------------
(* What the files hold, and what each process carries from step to step. *)

Sound(dirs) == IsFiniteSet(dirs) /\ \A d \in dirs : d.done <= d.plans

TreesOK == tree \in [Places -> Trees] /\ \A at \in Places : Sound(tree[at].dirs)
ShelfOK == shelf \in [roads : SUBSET Places, entries : SUBSET Places, dirs : [Places -> SUBSET Directories]]
Attics ==
    [lock : Locks \cup {None}, road : Roadmaps, dirs : SUBSET Directories,
     reqs : (SUBSET Requirements) \cup {None}, state : States \cup {None}, config : Configs]
ArchivesOK == attic \in [Procs -> Attics] /\ \A p \in Procs : Sound(attic[p].dirs)
RootOK == Flat \in made /\ (Names \cap made # {} => Root \in made)
FilesOK == TreesOK /\ ShelfOK /\ ArchivesOK /\ RootOK /\ kills \in 0..MaxKills

Queued == {"lock", "stale", "last"}
Rewriting == {"add", "insert", "remove", "complete", "progress", "annotate"}

Carried(p, r) ==
    /\ r.ok \in BOOLEAN /\ r.cmd \in Menu[p] \cup {None}
    /\ r.pc \in Queued \cup Held => r.cmd.op \in Rewriting \cup {"set"}
    /\ r.pc \in Queued \cup Held /\ r.cmd.op \in {"complete", "progress"} => r.counts \in Tallies
    /\ r.pc \in {"read", "make", "write"} => r.cmd.op \in Rewriting
    /\ r.pc = "make" =>
         /\ r.cmd.op \in {"add", "insert"} /\ r.road \in Seq(Sections) /\ r.num \in Nat \ {0}
         /\ r.todo \in Seq(Titles) /\ r.todo # <<>>
         /\ r.cmd.op = "insert" => SectionOf(r.road, r.cmd.base) # 0 /\ Len(r.todo) = 1
    /\ r.pc \in {"write", "reqread", "reqwrite"} => r.road \in Seq(Sections)
    /\ r.pc \in {"reqread", "reqwrite", "lookup", "state"} => r.cmd.op = "complete"
    /\ r.pc = "reqwrite" => r.reqs \in SUBSET Requirements
    /\ r.pc = "state" => r.next \in Numbers \cup {None}
    /\ r.pc = "configwrite" => r.cmd.op = "set" /\ r.reqs \in SUBSET Settings
    /\ r.pc \in {"rmdir", "rename"} => r.cmd.op = "remove"
    /\ r.pc = "rename" => IsFiniteSet(r.todo) /\ r.todo \in SUBSET Later(Directories, r.cmd.id)
    /\ r.pc = "mark" => r.cmd.op = "mark" /\ r.reqs \in SUBSET Requirements
    /\ r.pc \in {"archive", "register", "close", "shelve"} => r.cmd.op = "milestone"
    /\ r.pc = "register" => r.reqs \in SUBSET Places
    /\ r.pc \in {"clear", "ensure"} => r.cmd.op = r.pc
    /\ r.pc \in {"repair", "addkey"} =>
         r.cmd.op = "repair" /\ r.todo \in SUBSET Repairable /\ r.next \in SUBSET Places
    /\ r.pc = "addkey" => r.todo # {} /\ r.reqs \in Configs
    /\ r.pc \in {"moving", "moveback"} => r.todo \in Seq(PartNames) /\ r.next \in Seq(PartNames)
    /\ r.pc = "archiving" => r.todo \in SUBSET EntryNames /\ r.next \in Seq(EntryNames)
    /\ r.pc = "restore" => r.todo \in Seq(EntryNames)

CarriedOK == \A p \in Procs : Carried(p, proc[p])
TypeInv == LockInv /\ FilesOK /\ CarriedOK

LEMMA TypeInvTypes == TypeInv => TypeOK
<1>1. SUFFICES ASSUME TypeInv
               PROVE  TypeOK
    OBVIOUS
<1>2. /\ \A p \in Procs : proc[p].at \in Places /\ proc[p].ok \in BOOLEAN
      /\ \A s \in DOMAIN pointer : pointer[s] \in Names \cup {None}
      /\ lock \in [Places -> Locks \cup {None}] /\ robbed \in BOOLEAN /\ made \subseteq Places \cup {Root}
    BY <1>1 DEF TypeInv, CarriedOK, Carried, LockInv, Types, ProcOK, OneOK, PointerOK, LocksOK, MadeOK
<1> QED BY <1>1, <1>2 DEF TypeInv, FilesOK, TreesOK, ShelfOK, RootOK, Sound, TypeOK

\* A step of one process leaves the others alone.
LEMMA OneCarries ==
    ASSUME CarriedOK, NEW p \in Procs, \A q \in Procs \ {p} : proc'[q] = proc[q], Carried(p, proc'[p])
    PROVE  CarriedOK'
<1>1. ASSUME NEW q \in Procs
      PROVE  Carried(q, proc'[q])
    BY <1>1 DEF CarriedOK
<1> QED BY <1>1 DEF CarriedOK, Carried

LEMMA Facts ==
    ASSUME TypeInv, NEW p \in Procs
    PROVE  /\ DOMAIN proc = Procs /\ DOMAIN proc[p] = DOMAIN Idle /\ Carried(p, proc[p])
           /\ proc[p].at \in Places /\ (Working(p) => proc[p].cmd \in Menu[p])
           /\ Here(p) \in Trees /\ Sound(Here(p).dirs)
    BY DEF TypeInv, LockInv, Types, ProcOK, OneOK, CarriedOK, FilesOK, TreesOK, Here

(* Rewriting a planning directory. *)

LEMMA TreeSet ==
    ASSUME TreesOK, NEW at \in Places, NEW new \in Trees, Sound(new.dirs),
           tree' = [tree EXCEPT ![at] = new]
    PROVE  TreesOK'
<1>1. tree' \in [Places -> Trees]
    BY DEF TreesOK
<1>2. \A v \in Places : Sound(tree'[v].dirs)
    BY DEF TreesOK
<1> QED BY <1>1, <1>2 DEF TreesOK, Sound

LEMMA PartSet ==
    ASSUME NEW t \in Trees, Sound(t.dirs)
    PROVE  /\ \A road \in Roadmaps :
                [t EXCEPT !.road = road] \in Trees /\ Sound([t EXCEPT !.road = road].dirs)
           /\ \A dirs \in SUBSET Directories : Sound(dirs) =>
                [t EXCEPT !.dirs = dirs] \in Trees /\ Sound([t EXCEPT !.dirs = dirs].dirs)
           /\ \A reqs \in (SUBSET Requirements) \cup {None} :
                [t EXCEPT !.reqs = reqs] \in Trees /\ Sound([t EXCEPT !.reqs = reqs].dirs)
           /\ \A state \in States \cup {None} :
                [t EXCEPT !.state = state] \in Trees /\ Sound([t EXCEPT !.state = state].dirs)
           /\ \A config \in Configs :
                [t EXCEPT !.config = config] \in Trees /\ Sound([t EXCEPT !.config = config].dirs)
<1>1. /\ \A road \in Roadmaps : [t EXCEPT !.road = road] \in Trees
      /\ \A dirs \in SUBSET Directories : [t EXCEPT !.dirs = dirs] \in Trees
      /\ \A reqs \in (SUBSET Requirements) \cup {None} : [t EXCEPT !.reqs = reqs] \in Trees
      /\ \A state \in States \cup {None} : [t EXCEPT !.state = state] \in Trees
      /\ \A config \in Configs : [t EXCEPT !.config = config] \in Trees
    BY DEF Trees
<1>2. /\ \A v : [t EXCEPT !.road = v].dirs = t.dirs /\ [t EXCEPT !.dirs = v].dirs = v
      /\ \A v : [t EXCEPT !.reqs = v].dirs = t.dirs /\ [t EXCEPT !.state = v].dirs = t.dirs
      /\ \A v : [t EXCEPT !.config = v].dirs = t.dirs
    BY DEF Trees
<1> QED BY <1>1, <1>2

LEMMA RoadSet ==
    ASSUME TypeInv, NEW at \in Places, NEW road \in Seq(Sections),
           tree' = [tree EXCEPT ![at].road = road]
    PROVE  TreesOK'
<1>1. TreesOK /\ tree[at] \in Trees /\ Sound(tree[at].dirs) /\ road \in Roadmaps
    BY DEF TypeInv, FilesOK, TreesOK, Roadmaps
<1>2. tree' = [tree EXCEPT ![at] = [tree[at] EXCEPT !.road = road]]
    OBVIOUS
<1> QED BY <1>1, <1>2, PartSet, TreeSet

LEMMA DirsSet ==
    ASSUME TypeInv, NEW at \in Places, NEW dirs \in SUBSET Directories, Sound(dirs),
           tree' = [tree EXCEPT ![at].dirs = dirs]
    PROVE  TreesOK'
<1>1. TreesOK /\ tree[at] \in Trees /\ Sound(tree[at].dirs)
    BY DEF TypeInv, FilesOK, TreesOK
<1>2. tree' = [tree EXCEPT ![at] = [tree[at] EXCEPT !.dirs = dirs]]
    OBVIOUS
<1> QED BY <1>1, <1>2, PartSet, TreeSet

LEMMA ReqsSet ==
    ASSUME TypeInv, NEW at \in Places, NEW reqs \in SUBSET Requirements,
           tree' = [tree EXCEPT ![at].reqs = reqs]
    PROVE  TreesOK'
<1>1. TreesOK /\ tree[at] \in Trees /\ Sound(tree[at].dirs)
    BY DEF TypeInv, FilesOK, TreesOK
<1>2. tree' = [tree EXCEPT ![at] = [tree[at] EXCEPT !.reqs = reqs]]
    OBVIOUS
<1> QED BY <1>1, <1>2, PartSet, TreeSet

LEMMA StateSet ==
    ASSUME TypeInv, NEW at \in Places, NEW state \in States,
           tree' = [tree EXCEPT ![at].state = state]
    PROVE  TreesOK'
<1>1. TreesOK /\ tree[at] \in Trees /\ Sound(tree[at].dirs)
    BY DEF TypeInv, FilesOK, TreesOK
<1>2. tree' = [tree EXCEPT ![at] = [tree[at] EXCEPT !.state = state]]
    OBVIOUS
<1> QED BY <1>1, <1>2, PartSet, TreeSet

LEMMA ConfigSet ==
    ASSUME TypeInv, NEW at \in Places, NEW config \in Configs,
           tree' = [tree EXCEPT ![at].config = config]
    PROVE  TreesOK'
<1>1. TreesOK /\ tree[at] \in Trees /\ Sound(tree[at].dirs)
    BY DEF TypeInv, FilesOK, TreesOK
<1>2. tree' = [tree EXCEPT ![at] = [tree[at] EXCEPT !.config = config]]
    OBVIOUS
<1> QED BY <1>1, <1>2, PartSet, TreeSet

LEMMA TreesStay ==
    ASSUME TypeInv, tree' = tree
    PROVE  TreesOK'
    BY DEF TypeInv, FilesOK, TreesOK, Sound

LEMMA FewerDirs ==
    ASSUME NEW dirs \in SUBSET Directories, Sound(dirs), NEW fewer \in SUBSET dirs
    PROVE  fewer \in SUBSET Directories /\ Sound(fewer)
    BY FS_Subset DEF Sound

LEMMA ConfigsOK ==
    /\ \A keys \in SUBSET Settings : Config(keys) \in Configs
    /\ NoConfig \in Configs /\ Corrupt \in Configs
    /\ Config(Defaults) \in Configs /\ Config(RepairDefaults) \in Configs
    BY SettingsAssumption DEF Configs, Config, NoConfig, Corrupt

\* The directory that a number leads to is one that can be.
LEMMA FoundDirectory ==
    ASSUME TypeInv, NEW at \in Places, NEW id, NEW d \in Findable(at, id)
    PROVE  d \in Directories /\ Counts(d) \in Tallies
<1>1. d \in Directories
    <2>1. CASE id \in DirIds(tree[at].dirs)
        <3>1. \E e \in tree[at].dirs : e.id = id
            BY <2>1 DEF DirIds
        <3>2. d \in tree[at].dirs
            BY <2>1, <3>1 DEF Findable, DirOf
        <3> QED BY <3>2 DEF TypeInv, FilesOK, TreesOK, Trees
    <2>2. CASE id \notin DirIds(tree[at].dirs)
        <3>1. PICK v \in Places : d \in shelf.dirs[v]
            BY <2>2 DEF Findable
        <3> QED BY <3>1 DEF TypeInv, FilesOK, ShelfOK
    <2> QED BY <2>1, <2>2
<1> QED BY <1>1 DEF Counts, Tallies, Directories

(* What is left alone. *)
LEMMA RestStays ==
    ASSUME TypeInv
    PROVE  /\ shelf' = shelf => ShelfOK'
           /\ attic' = attic => ArchivesOK'
           /\ made' = made => RootOK'
           /\ kills' = kills => kills' \in 0..MaxKills
           /\ \A at \in Places : made' = made \cup Ancestors(at) => RootOK'
<1>1. shelf' = shelf => ShelfOK'
    BY DEF TypeInv, FilesOK, ShelfOK
<1>2. attic' = attic => ArchivesOK'
    BY DEF TypeInv, FilesOK, ArchivesOK, Sound
<1>3. made' = made => RootOK'
    BY DEF TypeInv, FilesOK, RootOK
<1>4. ASSUME NEW at \in Places, made' = made \cup Ancestors(at)
      PROVE  RootOK'
    BY <1>4, PlacesAssumption DEF TypeInv, FilesOK, RootOK, Ancestors, Places
<1>5. kills' = kills => kills' \in 0..MaxKills
    BY DEF TypeInv, FilesOK
<1> QED BY <1>1, <1>2, <1>3, <1>4, <1>5

\* A command that is over, was killed or has not begun carries nothing.
LEMMA CarriesNothing ==
    ASSUME NEW p \in Procs, NEW r, r.ok \in BOOLEAN, r.cmd \in Menu[p] \cup {None},
           r.pc \in {"idle", "done", "killed", "migrate", "open", "activate", "deactivate"}
    PROVE  Carried(p, r)
    BY DEF Carried, Queued, Held

LEMMA FinishCarries ==
    ASSUME TypeInv, NEW p \in Procs, NEW ok \in BOOLEAN, Finish(p, ok)
    PROVE  Carried(p, proc'[p])
<1>1. proc'[p] = Over(p, ok)
    BY Facts DEF Finish
<1>2. Over(p, ok).ok = ok /\ Over(p, ok).cmd = proc[p].cmd /\ Over(p, ok).pc = "done"
    BY DEF Over, Idle
<1> QED BY <1>1, <1>2, Facts, CarriesNothing DEF Carried

-----------------------------------------------------------------------------
(* Commands begin. *)

LEMMA Beginning ==
    ASSUME TypeInv, NEW p \in Procs, NEW c \in Menu[p]
    PROVE  /\ PlaceOf(p, c) \in Places
           /\ tree[PlaceOf(p, c)] \in Trees /\ Sound(tree[PlaceOf(p, c)].dirs)
<1>1. PlaceOf(p, c) \in Places
    BY PlaceOK DEF TypeInv, LockInv, Types
<1> QED BY <1>1 DEF TypeInv, FilesOK, TreesOK

Started(p, c, entered) == [entered EXCEPT !.cmd = c, !.at = PlaceOf(p, c)]

LEMMA BeginCarries ==
    ASSUME TypeInv, NEW p \in Procs, NEW c \in Menu[p], NEW entered, Begin(p, c, entered), attic' = attic,
           Carried(p, Started(p, c, entered))
    PROVE  FilesOK' /\ Carried(p, proc'[p])
<1>1. proc'[p] = Started(p, c, entered)
    BY Facts DEF Begin, Started
<1>2. FilesOK'
    BY TreesStay, RestStays DEF Begin, FilesOK
<1> QED BY <1>1, <1>2

\* A command that ends at once, or goes on to a state in which nothing is carried.
LEMMA BareBegin ==
    ASSUME TypeInv, NEW p \in Procs, NEW c \in Menu[p], attic' = attic, NEW entered, Begin(p, c, entered),
           \/ entered \in {Refused, Nothing} \cup {Enter(pc) : pc \in {"migrate", "open", "deactivate"}}
           \/ c.op \in {"add", "insert", "set"} /\ entered = Enter("lock")
           \/ c.op = "ensure" /\ entered = Enter("ensure")
    PROVE  FilesOK' /\ Carried(p, proc'[p])
<1> DEFINE r == Started(p, c, entered)
<1>1. r.ok \in BOOLEAN /\ r.cmd = c /\ r.pc = entered.pc
    BY DEF Started, Refused, Nothing, Enter, Idle
<1>2. /\ entered.pc \in {"done", "migrate", "open", "deactivate", "lock", "ensure"}
      /\ entered.pc = "lock" => c.op \in {"add", "insert", "set"}
      /\ entered.pc = "ensure" => c.op = "ensure"
    BY DEF Refused, Nothing, Enter, Idle
<1>3. Carried(p, r)
    <2> HIDE DEF r
    <2> QED BY <1>1, <1>2 DEF Carried, Queued, Held, Rewriting
<1> QED BY <1>3, BeginCarries

LEMMA CountedBegin ==
    ASSUME TypeInv, NEW p \in Procs, NEW c \in Menu[p], attic' = attic, NEW counts \in Tallies,
           c.op \in {"complete", "progress", "annotate"},
           NEW pc \in {"lock", "lookup"}, pc = "lookup" => c.op = "complete",
           Begin(p, c, [Enter(pc) EXCEPT !.counts = counts])
    PROVE  FilesOK' /\ Carried(p, proc'[p])
<1> DEFINE entered == [Enter(pc) EXCEPT !.counts = counts]
           r == Started(p, c, entered)
<1>1. r.ok \in BOOLEAN /\ r.cmd = c /\ r.pc = pc /\ r.counts = counts
    BY DEF Started, Enter, Idle
<1>2. Carried(p, r)
    <2> HIDE DEF r, entered
    <2> QED BY <1>1 DEF Carried, Queued, Held, Rewriting
<1> QED BY <1>2, BeginCarries

LEMMA CommandsBegin ==
    ASSUME TypeInv, NEW p \in Procs, BeginCommand(p), attic' = attic
    PROVE  FilesOK' /\ Carried(p, proc'[p])
<1>1. PICK c \in Menu[p] :
        \/ AddBegins(p, c) \/ InsertBegins(p, c) \/ RemoveBegins(p, c) \/ CompleteBegins(p, c)
        \/ ProgressBegins(p, c) \/ AnnotateBegins(p, c) \/ MarkBegins(p, c) \/ MilestoneBegins(p, c)
        \/ ClearBegins(p, c) \/ SetBegins(p, c) \/ EnsureBegins(p, c) \/ RepairBegins(p, c)
    BY DEF BeginCommand
<1> DEFINE at == PlaceOf(p, c)
<1>2. at \in Places /\ tree[at] \in Trees /\ Sound(tree[at].dirs)
    BY Beginning
<1>3. CASE AddBegins(p, c)
    BY <1>3, BareBegin DEF AddBegins
<1>4. CASE InsertBegins(p, c)
    BY <1>4, BareBegin DEF InsertBegins
<1>5. CASE SetBegins(p, c)
    BY <1>5, BareBegin DEF SetBegins
<1>6. CASE EnsureBegins(p, c)
    BY <1>6, BareBegin DEF EnsureBegins
<1>7. CASE RemoveBegins(p, c)
    <2> DEFINE d == DirOf(tree[at].dirs, c.id)
               entered == [Enter("rmdir") EXCEPT !.next = d]
               r == Started(p, c, entered)
    <2>1. c.op = "remove" /\ (Begin(p, c, Refused) \/ Begin(p, c, entered))
        BY <1>7 DEF RemoveBegins
    <2>2. r.ok \in BOOLEAN /\ r.cmd = c /\ r.pc = "rmdir"
        BY DEF Started, Enter, Idle
    <2> HIDE DEF entered, d
    <2>3. Carried(p, r)
        <3> HIDE DEF r
        <3> QED BY <2>1, <2>2 DEF Carried, Queued, Held
    <2> QED BY <2>1, <2>3, BareBegin, BeginCarries
<1>8. CASE CompleteBegins(p, c)
    <2>1. c.op = "complete" /\
          \/ Begin(p, c, Refused)
          \/ \E d \in Findable(at, c.id) :
                \E pc \in {"lock", "lookup"} : Begin(p, c, [Enter(pc) EXCEPT !.counts = Counts(d)])
        BY <1>8 DEF CompleteBegins
    <2> QED BY <1>2, <2>1, BareBegin, CountedBegin, FoundDirectory
<1>9. CASE ProgressBegins(p, c) \/ AnnotateBegins(p, c)
    <2>1. c.op \in {"progress", "annotate"} /\
          \/ Begin(p, c, Refused) \/ Begin(p, c, Nothing)
          \/ \E d \in Findable(at, c.id) : Begin(p, c, [Enter("lock") EXCEPT !.counts = Counts(d)])
        BY <1>9 DEF ProgressBegins, AnnotateBegins, CountAndLock
    <2> QED BY <1>2, <2>1, BareBegin, CountedBegin, FoundDirectory
<1>10. CASE MarkBegins(p, c)
    <2> DEFINE reqs == tree[at].reqs
               entered == [Enter("mark") EXCEPT !.reqs = reqs]
               r == Started(p, c, entered)
    <2>1. c.op = "mark" /\ (Begin(p, c, Nothing) \/ (reqs # None /\ Begin(p, c, entered)))
        BY <1>10 DEF MarkBegins
    <2>2. reqs # None => reqs \in SUBSET Requirements
        BY <1>2 DEF Trees
    <2>3. r.ok \in BOOLEAN /\ r.cmd = c /\ r.pc = "mark" /\ r.reqs = reqs
        BY DEF Started, Enter, Idle
    <2> HIDE DEF entered, reqs
    <2>4. reqs # None => Carried(p, r)
        <3> HIDE DEF r
        <3> QED BY <2>1, <2>2, <2>3 DEF Carried, Queued, Held
    <2> QED BY <2>1, <2>4, BareBegin, BeginCarries
<1>11. CASE MilestoneBegins(p, c)
    <2> DEFINE entered == [Enter("archive") EXCEPT !.next = RoadIds(tree[at].road)]
               r == Started(p, c, entered)
    <2>1. c.op = "milestone" /\ Begin(p, c, entered)
        BY <1>11 DEF MilestoneBegins
    <2>2. r.ok \in BOOLEAN /\ r.cmd = c /\ r.pc = "archive"
        BY DEF Started, Enter, Idle
    <2> HIDE DEF entered
    <2>3. Carried(p, r)
        <3> HIDE DEF r
        <3> QED BY <2>1, <2>2 DEF Carried, Queued, Held
    <2> QED BY <2>1, <2>3, BeginCarries
<1>12. CASE ClearBegins(p, c)
    <2> DEFINE entered == [Enter("clear") EXCEPT !.todo = SetToSeq(tree[at].dirs)]
               r == Started(p, c, entered)
    <2>1. c.op = "clear" /\ Begin(p, c, entered)
        BY <1>12 DEF ClearBegins
    <2>2. r.ok \in BOOLEAN /\ r.cmd = c /\ r.pc = "clear"
        BY DEF Started, Enter, Idle
    <2> HIDE DEF entered
    <2>3. Carried(p, r)
        <3> HIDE DEF r
        <3> QED BY <2>1, <2>2 DEF Carried, Queued, Held
    <2> QED BY <2>1, <2>3, BeginCarries
<1>13. CASE RepairBegins(p, c)
    <2> DEFINE codes == Health(at) \cap Repairable
               missing == shelf.roads \ shelf.entries
               entered == [Enter("repair") EXCEPT !.todo = codes, !.next = missing]
               r == Started(p, c, entered)
    <2>1. c.op = "repair" /\ (Begin(p, c, Refused) \/ Begin(p, c, entered))
        BY <1>13 DEF RepairBegins
    <2>2. codes \in SUBSET Repairable /\ missing \in SUBSET Places
        BY DEF TypeInv, FilesOK, ShelfOK
    <2> HIDE DEF codes, missing
    <2>3. r.ok \in BOOLEAN /\ r.cmd = c /\ r.pc = "repair" /\ r.todo = codes /\ r.next = missing
        BY DEF Started, Enter, Idle
    <2> HIDE DEF entered
    <2>4. Carried(p, r)
        <3> HIDE DEF r
        <3> QED BY <2>1, <2>2, <2>3 DEF Carried, Queued, Held
    <2> QED BY <2>1, <2>4, BareBegin, BeginCarries
<1> QED BY <1>1, <1>3, <1>4, <1>5, <1>6, <1>7, <1>8, <1>9, <1>10, <1>11, <1>12, <1>13

LEMMA WorkstreamsBegin ==
    ASSUME TypeInv, NEW p \in Procs, WsBegin(p)
    PROVE  FilesOK' /\ Carried(p, proc'[p])
<1>1. PICK c \in Menu[p] : CreateBegins(p, c) \/ WsCompleteBegins(p, c) \/ SetPointer(p, c)
    BY DEF WsBegin
<1>2. CASE CreateBegins(p, c)
    BY <1>2, BareBegin DEF CreateBegins
<1>3. CASE WsCompleteBegins(p, c)
    BY <1>3, BareBegin DEF WsCompleteBegins
<1>4. CASE SetPointer(p, c)
    <2>1. PICK known \in BOOLEAN :
              proc' = [proc EXCEPT ![p] = [IF known THEN Nothing ELSE Refused EXCEPT !.cmd = c]]
        BY <1>4 DEF SetPointer
    <2>2. proc'[p].ok \in BOOLEAN /\ proc'[p].cmd = c /\ proc'[p].pc = "done"
        BY <2>1, Facts DEF Nothing, Refused, Idle
    <2>3. FilesOK'
        BY <1>4, TreesStay, RestStays DEF SetPointer, FilesOK
    <2> QED BY <2>2, <2>3, CarriesNothing
<1> QED BY <1>1, <1>2, <1>3, <1>4

-----------------------------------------------------------------------------
(* The steps of the lock. *)

LEMMA GotoCarries ==
    ASSUME TypeInv, NEW p \in Procs, NEW pc, Goto(p, pc),
           \/ proc[p].pc \in Queued \cup Held /\ pc \in Queued \cup {"release", "fail"}
           \/ proc[p].pc = "rename" /\ pc = "lock"
           \/ proc[p].pc = "release" /\ proc[p].cmd.op = "complete" /\ pc = "lookup"
           \/ proc[p].pc = "register" /\ pc = "close"
           \/ pc \in {"open", "activate"}
    PROVE  Carried(p, proc'[p])
<1>1. /\ proc'[p].pc = pc /\ proc'[p].ok = proc[p].ok /\ proc'[p].cmd = proc[p].cmd
      /\ proc'[p].counts = proc[p].counts
    BY Facts DEF Goto, Idle
<1>2. Carried(p, proc[p])
    BY Facts
<1> QED BY <1>1, <1>2 DEF Carried, Queued, Held, Rewriting

LEMMA CreateCarries ==
    ASSUME TypeInv, NEW p \in Procs, proc[p].pc \in {"lock", "last"}, Create(p), attic' = attic
    PROVE  FilesOK' /\ Carried(p, proc'[p])
<1>1. FilesOK'
    BY Facts, TreesStay, RestStays DEF Create, FilesOK
<1>2. CASE Goto(p, "fail")
    BY <1>1, <1>2, GotoCarries DEF Queued
<1>3. CASE ~Goto(p, "fail")
    <2> DEFINE keys == IF Op(p) = "set" THEN Here(p).config.keys ELSE None
    <2>1. proc' = [proc EXCEPT ![p].pc = FirstStep(p), ![p].reqs = keys]
        BY <1>3 DEF Create
    <2>2. /\ proc'[p].pc = FirstStep(p) /\ proc'[p].ok = proc[p].ok /\ proc'[p].cmd = proc[p].cmd
          /\ proc'[p].counts = proc[p].counts /\ proc'[p].reqs = keys
        BY <2>1, Facts DEF Idle
    <2>3. Here(p).config.keys \in SUBSET Settings
        BY Facts DEF Trees, Configs
    <2>4. Carried(p, proc[p])
        BY Facts
    <2>5. Carried(p, proc'[p])
        BY <2>2, <2>3, <2>4 DEF Carried, Queued, Held, Rewriting, FirstStep, Op
    <2> QED BY <1>1, <2>5
<1> QED BY <1>2, <1>3

LEMMA LockingCarries ==
    ASSUME TypeInv, NEW p \in Procs, Locking(p), attic' = attic
    PROVE  FilesOK' /\ Carried(p, proc'[p])
<1>1. CASE Acquire(p)
    BY <1>1, CreateCarries DEF Acquire, At
<1>2. ASSUME shelf' = shelf, tree' = tree, made' = made, kills' = kills
      PROVE  FilesOK'
    BY <1>2, TreesStay, RestStays DEF FilesOK
<1>3. CASE SeeStale(p)
    BY <1>2, <1>3, GotoCarries DEF SeeStale, At, Queued, disk
<1>4. CASE BreakStale(p)
    BY <1>2, <1>4, GotoCarries DEF BreakStale, At, Queued
<1>5. CASE GiveUpWaiting(p)
    BY <1>2, <1>5, GotoCarries DEF GiveUpWaiting, At, Queued
<1>6. CASE LastTry(p)
    BY <1>2, <1>6, CreateCarries, FinishCarries DEF LastTry, At, disk
<1>7. CASE Release(p)
    BY <1>2, <1>7, GotoCarries, FinishCarries DEF Release, At, Held, Op
<1>8. CASE Fail(p)
    BY <1>2, <1>8, FinishCarries DEF Fail
<1> QED BY <1>1, <1>3, <1>4, <1>5, <1>6, <1>7, <1>8 DEF Locking

-----------------------------------------------------------------------------
(* The steps under the lock. *)

LEMMA ReadForAddCarries ==
    ASSUME TypeInv, NEW p \in Procs, ReadForAdd(p), attic' = attic
    PROVE  FilesOK' /\ Carried(p, proc'[p])
<1> DEFINE road == Here(p).road
           c == proc[p].cmd
           n == IF c.op = "insert" THEN NextDecimal(road, Here(p).dirs, c.base)
                ELSE NextInteger(road, Here(p).dirs)
<1>1. FilesOK'
    BY TreesStay, RestStays DEF ReadForAdd, disk, FilesOK
<1>2. CASE Goto(p, "fail")
    BY <1>1, <1>2, GotoCarries DEF ReadForAdd, At, Held
<1>3. CASE ~Goto(p, "fail")
    <2>1. /\ proc[p].pc = "read" /\ c.op \in {"add", "insert"} /\ road # None
          /\ c.op = "insert" => SectionOf(road, c.base) # 0
          /\ proc' = [proc EXCEPT ![p].pc = "make", ![p].road = road, ![p].todo = c.names, ![p].num = n]
        BY <1>3 DEF ReadForAdd, At, Op
    <2>2. c \in Menu[p] /\ Carried(p, proc[p]) /\ Here(p) \in Trees /\ Sound(Here(p).dirs)
        BY <2>1, Facts DEF Working
    <2>3. /\ c.op = "add" => c.names \in Seq(Titles) \ {<<>>}
          /\ c.op = "insert" => c.base \in Numbers /\ \E title \in Titles : c.names = <<title>>
        BY <2>2, Parameters
    <2>4. c.names \in Seq(Titles) /\ c.names # <<>> /\ (c.op = "insert" => Len(c.names) = 1)
        <3>1. \A title \in Titles : <<title>> \in Seq(Titles) /\ <<title>> # <<>> /\ Len(<<title>>) = 1
            OBVIOUS
        <3>2. CASE c.op = "add"
            BY <2>3, <3>2
        <3>3. CASE c.op = "insert"
            <4>1. PICK title \in Titles : c.names = <<title>>
                BY <2>3, <3>3
            <4> QED BY <3>1, <4>1
        <3> QED BY <2>1, <3>2, <3>3
    <2>5. road \in Seq(Sections) /\ road \in Roadmaps /\ Here(p).dirs \in SUBSET Directories
        BY <2>1, <2>2 DEF Trees, Roadmaps
    <2>6. n \in Nat \ {0}
        BY <2>1, <2>2, <2>3, <2>5, NextIntegerAbove, NextDecimalAbove DEF Sound
    <2>7. /\ proc'[p].pc = "make" /\ proc'[p].ok = proc[p].ok /\ proc'[p].cmd = c
          /\ proc'[p].road = road /\ proc'[p].todo = c.names /\ proc'[p].num = n
        <3> HIDE DEF n, road
        <3> QED BY <2>1, Facts DEF Idle
    <2> HIDE DEF n, road
    <2>8. Carried(p, proc'[p])
        BY <2>1, <2>2, <2>4, <2>5, <2>6, <2>7 DEF Carried, Queued, Held, Rewriting
    <2> QED BY <1>1, <2>8
<1> QED BY <1>2, <1>3

LEMMA MakeDirectoryCarries ==
    ASSUME TypeInv, NEW p \in Procs, MakeDirectory(p), attic' = attic
    PROVE  FilesOK' /\ Carried(p, proc'[p])
<1> DEFINE r == proc[p]
           c == r.cmd
           name == Head(r.todo)
           id == IF c.op = "insert" THEN <<c.base[1], r.num>> ELSE <<r.num, 0>>
           road == IF c.op = "insert" THEN InsertedAfter(r.road, c.base, r.num, name)
                   ELSE Appended(r.road, r.num, name)
<1>1. r.pc = "make" /\ c \in Menu[p] /\ Carried(p, r) /\ r.at \in Places
    BY Facts DEF MakeDirectory, At, Working
<1>2. /\ c.op \in {"add", "insert"} /\ r.road \in Seq(Sections) /\ r.num \in Nat \ {0}
      /\ r.todo \in Seq(Titles) /\ r.todo # <<>>
      /\ c.op = "insert" => SectionOf(r.road, c.base) # 0 /\ Len(r.todo) = 1
    BY <1>1 DEF Carried
<1>3. name \in Titles /\ Tail(r.todo) \in Seq(Titles) /\ (Len(r.todo) # 1 => Tail(r.todo) # <<>>)
    BY <1>2, HeadAndTail
<1>4. c.op = "insert" => c.base \in Numbers
    BY <1>1, Parameters
<1>5. id \in Numbers
    BY <1>2, <1>4 DEF Numbers
<1>6. road \in Seq(Sections)
    <2>1. CASE c.op = "insert"
        <3> HIDE DEF name
        <3>1. InsertedAfter(r.road, c.base, r.num, name) \in Seq(Sections)
            BY <1>2, <1>3, <1>4, <2>1, InsertedSection
        <3> QED BY <2>1, <3>1
    <2>2. CASE c.op # "insert"
        <3> HIDE DEF name
        <3>1. Appended(r.road, r.num, name) \in Seq(Sections)
            BY <1>2, <1>3, AppendedSection
        <3> QED BY <2>2, <3>1
    <2> QED BY <2>1, <2>2
<1> HIDE DEF id, name, road
<1>7. TreesOK'
    <2> DEFINE dirs == Here(p).dirs \cup {Directory(id, name)}
    <2>1. Here(p).dirs \in SUBSET Directories /\ Sound(Here(p).dirs)
        BY Facts DEF Trees
    <2>2. Directory(id, name) \in Directories /\ Directory(id, name).done <= Directory(id, name).plans
        BY <1>3, <1>5 DEF Directory, Directories
    <2>3. dirs \in SUBSET Directories /\ Sound(dirs)
        BY <2>1, <2>2, FS_AddElement DEF Sound
    <2>4. tree' = [tree EXCEPT ![r.at].dirs = dirs]
        BY DEF MakeDirectory, Here, id, name
    <2> HIDE DEF dirs
    <2> QED BY <1>1, <2>3, <2>4, DirsSet
<1>8. FilesOK'
    BY <1>1, <1>7, RestStays DEF MakeDirectory, FilesOK
<1>9. proc' = [proc EXCEPT ![p].pc = IF Len(r.todo) = 1 THEN "write" ELSE "make",
                           ![p].todo = Tail(r.todo), ![p].num = r.num + 1, ![p].road = road]
    BY DEF MakeDirectory, road, name
<1>10. /\ proc'[p].pc = (IF Len(r.todo) = 1 THEN "write" ELSE "make")
       /\ proc'[p].ok = r.ok /\ proc'[p].cmd = c
       /\ proc'[p].road = road /\ proc'[p].todo = Tail(r.todo) /\ proc'[p].num = r.num + 1
    BY <1>9, Facts DEF Idle
<1>11. Carried(p, proc'[p])
    BY <1>1, <1>2, <1>3, <1>6, <1>10 DEF Carried, Queued, Held, Rewriting
<1> QED BY <1>8, <1>11

LEMMA ReadRoadmapCarries ==
    ASSUME TypeInv, NEW p \in Procs, ReadRoadmap(p), attic' = attic
    PROVE  FilesOK' /\ Carried(p, proc'[p])
<1>1. FilesOK'
    BY TreesStay, RestStays DEF ReadRoadmap, disk, FilesOK
<1>2. CASE Goto(p, "fail")
    BY <1>1, <1>2, GotoCarries DEF ReadRoadmap, At, Held
<1>3. CASE ~Goto(p, "fail")
    <2>1. proc[p].pc = "read" /\ Here(p).road # None
          /\ proc' = [proc EXCEPT ![p].pc = "write", ![p].road = Here(p).road]
        BY <1>3 DEF ReadRoadmap, At
    <2>2. Carried(p, proc[p]) /\ Here(p).road \in Seq(Sections)
        BY <2>1, Facts DEF Trees, Roadmaps
    <2>3. /\ proc'[p].pc = "write" /\ proc'[p].ok = proc[p].ok /\ proc'[p].cmd = proc[p].cmd
          /\ proc'[p].counts = proc[p].counts /\ proc'[p].road = Here(p).road
        BY <2>1, Facts DEF Idle
    <2>4. Carried(p, proc'[p])
        BY <2>1, <2>2, <2>3 DEF Carried, Queued, Held, Rewriting
    <2> QED BY <1>1, <2>4
<1> QED BY <1>2, <1>3

\* Whatever a command writes is a roadmap.
LEMMA RewrittenRoadmap ==
    ASSUME TypeInv, NEW p \in Procs, proc[p].pc = "write"
    PROVE  /\ Rewritten(p) \in Seq(Sections)
           /\ Op(p) # "remove" => Edited(proc[p].road, Rewritten(p))
<1> DEFINE c == proc[p].cmd
           road == proc[p].road
<1>1. c \in Menu[p] /\ c.op \in Rewriting /\ road \in Seq(Sections)
    BY Facts DEF Carried, Working
<1>2. c.op \in {"complete", "progress"} => proc[p].counts \in Tallies
    BY Facts DEF Carried, Held
<1>3. CASE c.op = "remove"
    <2>1. c.id \in Numbers
        BY <1>1, <1>3, Parameters
    <2>2. Rewritten(p) = Removed(road, c.id)
        BY <1>3 DEF Rewritten
    <2> QED BY <1>1, <1>3, <2>1, <2>2, RemovedRoadmap DEF Op
<1>4. CASE c.op # "remove"
    <2>1. Edited(road, Rewritten(p))
        BY <1>1, <1>2, <1>4, CompletedEdits, AnnotatedEdits, NotEdited DEF Rewritten, Rewriting
    <2> QED BY <2>1 DEF Edited
<1> QED BY <1>3, <1>4

LEMMA WriteRoadmapCarries ==
    ASSUME TypeInv, NEW p \in Procs, WriteRoadmap(p), attic' = attic
    PROVE  FilesOK' /\ Carried(p, proc'[p])
<1>1. proc[p].pc = "write" /\ proc[p].at \in Places /\ Carried(p, proc[p])
    BY Facts DEF WriteRoadmap, At
<1>2. tree' = tree => FilesOK'
    BY TreesStay, RestStays DEF WriteRoadmap, FilesOK
<1>3. CASE (Goto(p, "release") \/ Goto(p, "fail")) /\ tree' = tree
    BY <1>1, <1>2, <1>3, GotoCarries DEF Held
<1>4. CASE /\ tree' = [tree EXCEPT ![proc[p].at].road = Rewritten(p)]
           /\ proc' = [proc EXCEPT ![p].pc = AfterWrite(p), ![p].road = Rewritten(p)]
    <2>1. Rewritten(p) \in Seq(Sections)
        BY <1>1, RewrittenRoadmap
    <2>2. FilesOK'
        BY <1>1, <1>4, <2>1, RoadSet, RestStays DEF WriteRoadmap, FilesOK
    <2>3. /\ proc'[p].pc = AfterWrite(p) /\ proc'[p].ok = proc[p].ok /\ proc'[p].cmd = proc[p].cmd
          /\ proc'[p].counts = proc[p].counts /\ proc'[p].road = Rewritten(p)
        BY <1>4, Facts DEF Idle
    <2>4. Carried(p, proc'[p])
        BY <1>1, <2>1, <2>3 DEF Carried, Queued, Held, Rewriting, AfterWrite, Op
    <2> QED BY <2>2, <2>4
<1> QED BY <1>3, <1>4 DEF WriteRoadmap

LEMMA RequirementsCarry ==
    ASSUME TypeInv, NEW p \in Procs, ReadRequirements(p) \/ WriteRequirements(p), attic' = attic
    PROVE  FilesOK' /\ Carried(p, proc'[p])
<1>1. proc[p].at \in Places /\ Carried(p, proc[p]) /\ Here(p) \in Trees
    BY Facts
<1>2. CASE ReadRequirements(p)
    <2>1. FilesOK'
        BY <1>2, TreesStay, RestStays DEF ReadRequirements, disk, FilesOK
    <2>2. CASE Goto(p, "fail")
        BY <1>2, <2>1, <2>2, GotoCarries DEF ReadRequirements, At, Held
    <2>3. CASE ~Goto(p, "fail")
        <3>1. /\ proc[p].pc = "reqread" /\ Here(p).reqs # None
              /\ proc' = [proc EXCEPT ![p].pc = "reqwrite", ![p].reqs = Here(p).reqs]
            BY <1>2, <2>3 DEF ReadRequirements, At
        <3>2. Here(p).reqs \in SUBSET Requirements
            BY <1>1, <3>1 DEF Trees
        <3>3. /\ proc'[p].pc = "reqwrite" /\ proc'[p].ok = proc[p].ok /\ proc'[p].cmd = proc[p].cmd
              /\ proc'[p].counts = proc[p].counts /\ proc'[p].road = proc[p].road
              /\ proc'[p].reqs = Here(p).reqs
            BY <3>1, Facts DEF Idle
        <3>4. Carried(p, proc'[p])
            BY <1>1, <3>1, <3>2, <3>3 DEF Carried, Queued, Held, Rewriting
        <3> QED BY <2>1, <3>4
    <2> QED BY <2>2, <2>3
<1>3. CASE WriteRequirements(p)
    <2>1. proc[p].pc = "reqwrite" /\ proc[p].road \in Seq(Sections) /\ proc[p].reqs \in SUBSET Requirements
        BY <1>1, <1>3 DEF WriteRequirements, At, Carried
    <2>2. CASE Goto(p, "fail") /\ tree' = tree
        <3>1. FilesOK'
            BY <1>3, <2>2, TreesStay, RestStays DEF WriteRequirements, FilesOK
        <3> QED BY <2>1, <2>2, <3>1, GotoCarries DEF Held
    <2>3. CASE ~(Goto(p, "fail") /\ tree' = tree)
        <3> DEFINE ticked == RequirementsOf(proc[p].road, proc[p].cmd.id)
        <3>1. Goto(p, "release") /\ tree' = [tree EXCEPT ![proc[p].at].reqs = proc[p].reqs \cup ticked]
            BY <1>3, <2>3 DEF WriteRequirements
        <3>2. ticked \in SUBSET Requirements
            <4> DEFINE i == SectionOf(proc[p].road, proc[p].cmd.id)
            <4>1. i \in 0..Len(proc[p].road)
                BY <2>1, SectionFound
            <4>2. ticked = IF i = 0 THEN {} ELSE proc[p].road[i].reqs
                BY DEF RequirementsOf
            <4> HIDE DEF i
            <4>3. i # 0 => proc[p].road[i] \in Sections
                BY <2>1, <4>1
            <4> QED BY <4>2, <4>3 DEF Sections
        <3> HIDE DEF ticked
        <3>3. proc[p].reqs \cup ticked \in SUBSET Requirements
            BY <2>1, <3>2
        <3>4. TreesOK'
            BY <1>1, <3>1, <3>3, ReqsSet
        <3>5. FilesOK'
            BY <1>3, <3>4, RestStays DEF WriteRequirements, FilesOK
        <3> QED BY <2>1, <3>1, <3>5, GotoCarries DEF Held
    <2> QED BY <2>2, <2>3
<1> QED BY <1>2, <1>3

LEMMA WriteConfigCarries ==
    ASSUME TypeInv, NEW p \in Procs, WriteConfig(p), attic' = attic
    PROVE  FilesOK' /\ Carried(p, proc'[p])
<1>1. /\ proc[p].pc = "configwrite" /\ proc[p].at \in Places /\ proc[p].cmd \in Menu[p]
      /\ proc[p].cmd.op = "set" /\ proc[p].reqs \in SUBSET Settings
    BY Facts DEF WriteConfig, At, Carried, Working
<1>2. CASE Goto(p, "fail") /\ tree' = tree
    <2>1. FilesOK'
        BY <1>2, TreesStay, RestStays DEF WriteConfig, FilesOK
    <2> QED BY <1>1, <1>2, <2>1, GotoCarries DEF Held
<1>3. CASE ~(Goto(p, "fail") /\ tree' = tree)
    <2> DEFINE config == Config(proc[p].reqs \cup {proc[p].cmd.key})
    <2>1. Goto(p, "release") /\ tree' = [tree EXCEPT ![proc[p].at].config = config]
        BY <1>3 DEF WriteConfig
    <2>2. proc[p].reqs \cup {proc[p].cmd.key} \in SUBSET Settings
        BY <1>1, Parameters
    <2>3. config \in Configs
        BY <2>2, ConfigsOK
    <2> HIDE DEF config
    <2>4. FilesOK'
        BY <1>1, <2>1, <2>3, ConfigSet, RestStays DEF WriteConfig, FilesOK
    <2> QED BY <1>1, <2>1, <2>4, GotoCarries DEF Held
<1> QED BY <1>2, <1>3

-----------------------------------------------------------------------------
(* The steps beside the lock. *)

LEMMA RemovalCarries ==
    ASSUME TypeInv, NEW p \in Procs, DeleteDirectory(p) \/ RenameNext(p) \/ Renamed(p), attic' = attic
    PROVE  FilesOK' /\ Carried(p, proc'[p])
<1> DEFINE id == proc[p].cmd.id
<1>1. /\ proc[p].at \in Places /\ Carried(p, proc[p]) /\ proc[p].cmd \in Menu[p]
      /\ proc[p].cmd.op = "remove"
      /\ Here(p).dirs \in SUBSET Directories /\ Sound(Here(p).dirs)
    BY Facts DEF DeleteDirectory, RenameNext, Renamed, At, Working, Carried, Trees
<1>2. id \in Numbers
    BY <1>1, Parameters
<1>3. CASE DeleteDirectory(p)
    <2> DEFINE gone == proc[p].next
               left == {d \in Here(p).dirs : gone = None \/ d.id # gone.id \/ d.name # gone.name}
    <2>1. /\ tree' = [tree EXCEPT ![proc[p].at].dirs = left]
          /\ proc' = [proc EXCEPT ![p].pc = "rename", ![p].todo = Later(left, id)]
        BY <1>3 DEF DeleteDirectory
    <2>2. left \in SUBSET Here(p).dirs
        OBVIOUS
    <2> HIDE DEF left
    <2>3. left \in SUBSET Directories /\ Sound(left)
        BY <1>1, <2>2, FewerDirs
    <2>4. FilesOK'
        BY <1>1, <1>3, <2>1, <2>3, DirsSet, RestStays DEF DeleteDirectory, FilesOK
    <2>5. IsFiniteSet(Later(left, id)) /\ Later(left, id) \in SUBSET Later(Directories, id)
        <3>1. Later(left, id) \subseteq left
            BY DEF Later
        <3>2. IsFiniteSet(Later(left, id))
            BY <2>3, <3>1, FS_Subset DEF Sound
        <3>3. Later(left, id) \in SUBSET Later(Directories, id)
            BY <2>3 DEF Later
        <3> QED BY <3>2, <3>3
    <2>6. /\ proc'[p].pc = "rename" /\ proc'[p].ok = proc[p].ok /\ proc'[p].cmd = proc[p].cmd
          /\ proc'[p].todo = Later(left, id)
        BY <2>1, Facts DEF Idle
    <2>7. Carried(p, proc'[p])
        BY <1>1, <2>5, <2>6 DEF Carried, Queued, Held
    <2> QED BY <2>4, <2>7
<1>4. CASE RenameNext(p)
    <2> DEFINE target == Highest(proc[p].todo)
               same == {d \in Here(p).dirs : d.id = target.id /\ d.name = target.name}
               renamed == {[d EXCEPT !.id = Shifted(@, id)] : d \in same}
    <2>1. proc[p].pc = "rename" /\ proc[p].todo # {}
          /\ IsFiniteSet(proc[p].todo) /\ proc[p].todo \in SUBSET Later(Directories, id)
        BY <1>1, <1>4 DEF RenameNext, At, Carried
    <2>2. CASE same = {}
        <3>1. proc' = [proc EXCEPT ![p].pc = "lock", ![p].todo = {}] /\ tree' = tree
            BY <1>4, <2>2 DEF RenameNext
        <3>2. /\ proc'[p].pc = "lock" /\ proc'[p].ok = proc[p].ok /\ proc'[p].cmd = proc[p].cmd
            BY <3>1, Facts DEF Idle
        <3>3. Carried(p, proc'[p])
            BY <1>1, <3>2 DEF Carried, Queued, Held, Rewriting
        <3>4. FilesOK'
            BY <1>4, <3>1, TreesStay, RestStays DEF RenameNext, FilesOK
        <3> QED BY <3>3, <3>4
    <2>3. CASE same # {}
        <3> DEFINE dirs == (Here(p).dirs \ same) \cup renamed
        <3>1. /\ tree' = [tree EXCEPT ![proc[p].at].dirs = dirs]
              /\ proc' = [proc EXCEPT ![p].todo = @ \ {target}]
            BY <1>4, <2>3 DEF RenameNext, Here
        <3>2. target \in Later(Directories, id)
            <4>1. proc[p].todo \in SUBSET Directories
                BY <2>1 DEF Later
            <4>2. target \in proc[p].todo
                BY <2>1, <4>1, HighestFound
            <4> QED BY <2>1, <4>2
        <3>3. Shifted(target.id, id) \in Numbers
            BY <1>2, <3>2 DEF Shifted, Later, Directories, Numbers
        <3>4. \A d \in same : d \in Directories /\ d.id = target.id /\ d.done <= d.plans
            BY <1>1 DEF Sound
        <3> HIDE DEF target
        <3>5. ASSUME NEW e \in renamed
              PROVE  e \in Directories /\ e.done <= e.plans
            <4>1. PICK d \in same : e = [d EXCEPT !.id = Shifted(target.id, id)]
                BY <3>4
            <4> HIDE DEF same, renamed
            <4>2. d \in Directories /\ d.done <= d.plans
                BY <3>4
            <4> QED BY <3>3, <4>1, <4>2 DEF Directories
        <3>6. IsFiniteSet(same) /\ IsFiniteSet(Here(p).dirs \ same)
            BY <1>1, FS_Subset DEF Sound
        <3>7. IsFiniteSet(renamed)
            <4> DEFINE f == [d \in same |-> [d EXCEPT !.id = Shifted(@, id)]]
            <4>1. f \in [same -> renamed] /\ {f[d] : d \in same} = renamed
                OBVIOUS
            <4> HIDE DEF f, same, renamed
            <4>2. IsFiniteSet({f[d] : d \in same})
                BY <3>6, <4>1, ImageFinite
            <4> QED BY <4>1, <4>2
        <3> HIDE DEF renamed
        <3>8. IsFiniteSet(dirs)
            BY <3>6, <3>7, FS_Union
        <3>9. dirs \in SUBSET Directories /\ \A d \in dirs : d.done <= d.plans
            BY <1>1, <3>5 DEF Sound
        <3>10. FilesOK'
            <4> HIDE DEF dirs
            <4> QED BY <1>1, <1>4, <3>1, <3>8, <3>9, DirsSet, RestStays DEF RenameNext, FilesOK, Sound
        <3>11. /\ proc'[p].pc = "rename" /\ proc'[p].ok = proc[p].ok /\ proc'[p].cmd = proc[p].cmd
               /\ proc'[p].todo = proc[p].todo \ {target}
            BY <2>1, <3>1, Facts DEF Idle
        <3>12. IsFiniteSet(proc[p].todo \ {target})
            BY <2>1, FS_Subset
        <3>13. Carried(p, proc'[p])
            BY <1>1, <2>1, <3>11, <3>12 DEF Carried, Queued, Held
        <3> QED BY <3>10, <3>13
    <2> QED BY <2>2, <2>3
<1>5. CASE Renamed(p)
    <2>1. FilesOK'
        BY <1>5, TreesStay, RestStays DEF Renamed, disk, FilesOK
    <2> QED BY <1>5, <2>1, GotoCarries DEF Renamed, At
<1> QED BY <1>3, <1>4, <1>5

LEMMA StateCarries ==
    ASSUME TypeInv, NEW p \in Procs, LookUpNext(p) \/ MoveState(p), attic' = attic
    PROVE  FilesOK' /\ Carried(p, proc'[p])
<1>1. /\ proc[p].at \in Places /\ Carried(p, proc[p]) /\ proc[p].cmd \in Menu[p]
      /\ proc[p].cmd.op = "complete" /\ Here(p) \in Trees
    BY Facts DEF LookUpNext, MoveState, At, Working, Carried
<1>2. proc[p].cmd.id \in Numbers
    BY <1>1, Parameters
<1>3. CASE LookUpNext(p)
    <2> DEFINE next == NextPhase(Here(p).road, Here(p).dirs, proc[p].cmd.id)
    <2>1. proc' = [proc EXCEPT ![p].pc = "state", ![p].next = next]
        BY <1>3 DEF LookUpNext
    <2>2. next \in Numbers \cup {None}
        BY <1>1, NextPhaseIsNumber DEF Trees
    <2> HIDE DEF next
    <2>3. /\ proc'[p].pc = "state" /\ proc'[p].ok = proc[p].ok /\ proc'[p].cmd = proc[p].cmd
          /\ proc'[p].next = next
        BY <2>1, Facts DEF Idle
    <2>4. Carried(p, proc'[p])
        BY <1>1, <2>2, <2>3 DEF Carried, Queued, Held
    <2>5. FilesOK'
        BY <1>3, TreesStay, RestStays DEF LookUpNext, disk, FilesOK
    <2> QED BY <2>4, <2>5
<1>4. CASE MoveState(p)
    <2>1. proc[p].next \in Numbers \cup {None}
        BY <1>1, <1>4 DEF MoveState, At, Carried
    <2>2. CASE tree' = tree
        <3>1. FilesOK'
            BY <1>4, <2>2, TreesStay, RestStays DEF MoveState, FilesOK
        <3> QED BY <1>4, <3>1, FinishCarries DEF MoveState
    <2>3. CASE tree' # tree
        <3> DEFINE state == Advanced(Here(p).state, proc[p].cmd.id, proc[p].next)
        <3>1. tree' = [tree EXCEPT ![proc[p].at].state = state]
            BY <1>4, <2>3 DEF MoveState, Here
        <3>2. state \in States
            BY <1>2, <2>1 DEF Advanced, States
        <3> HIDE DEF state
        <3>3. FilesOK'
            BY <1>1, <1>4, <3>1, <3>2, StateSet, RestStays DEF MoveState, FilesOK
        <3> QED BY <1>4, <3>3, FinishCarries DEF MoveState
    <2> QED BY <2>2, <2>3
<1> QED BY <1>3, <1>4

LEMMA MarkCarries ==
    ASSUME TypeInv, NEW p \in Procs, Mark(p), attic' = attic
    PROVE  FilesOK' /\ Carried(p, proc'[p])
<1>1. /\ proc[p].at \in Places /\ proc[p].cmd \in Menu[p]
      /\ proc[p].cmd.op = "mark" /\ proc[p].reqs \in SUBSET Requirements
    BY Facts DEF Mark, At, Working, Carried
<1>2. proc[p].reqs \cup {proc[p].cmd.req} \in SUBSET Requirements
    BY <1>1, Parameters
<1>3. TreesOK'
    <2>1. CASE tree' = tree
        BY <2>1, TreesStay
    <2>2. CASE tree' # tree
        <3> DEFINE reqs == proc[p].reqs \cup {proc[p].cmd.req}
        <3>1. tree' = [tree EXCEPT ![proc[p].at].reqs = reqs]
            BY <2>2 DEF Mark
        <3> HIDE DEF reqs
        <3>2. reqs \in SUBSET Requirements
            BY <1>2 DEF reqs
        <3> QED BY <1>1, <3>1, <3>2, ReqsSet
    <2> QED BY <2>1, <2>2
<1>4. FilesOK'
    BY <1>3, RestStays DEF Mark, FilesOK
<1> QED BY <1>4, FinishCarries DEF Mark

LEMMA MilestoneCarries ==
    ASSUME TypeInv, NEW p \in Procs, attic' = attic,
           ArchiveRoadmap(p) \/ Register(p) \/ CloseState(p) \/ Shelve(p) \/ Shelved(p)
    PROVE  FilesOK' /\ Carried(p, proc'[p])
<1>1. /\ proc[p].at \in Places /\ Carried(p, proc[p]) /\ Here(p) \in Trees /\ Sound(Here(p).dirs)
      /\ proc[p].cmd.op = "milestone" /\ ShelfOK
    BY Facts DEF ArchiveRoadmap, Register, CloseState, Shelve, Shelved, At, Carried, TypeInv, FilesOK
<1>2. CASE ArchiveRoadmap(p)
    <2>1. TreesOK' /\ ArchivesOK' /\ RootOK' /\ kills' \in 0..MaxKills
        BY <1>2, TreesStay, RestStays DEF ArchiveRoadmap
    <2>2. ShelfOK'
        BY <1>1, <1>2 DEF ArchiveRoadmap, ShelfOK
    <2>3. proc' = [proc EXCEPT ![p].pc = "register", ![p].reqs = shelf.entries]
        BY <1>2 DEF ArchiveRoadmap
    <2>4. /\ proc'[p].pc = "register" /\ proc'[p].ok = proc[p].ok /\ proc'[p].cmd = proc[p].cmd
          /\ proc'[p].reqs = shelf.entries
        BY <2>3, Facts DEF Idle
    <2>5. shelf.entries \in SUBSET Places
        BY <1>1 DEF ShelfOK
    <2>6. Carried(p, proc'[p])
        BY <1>1, <2>4, <2>5 DEF Carried, Queued, Held
    <2> QED BY <2>1, <2>2, <2>6 DEF FilesOK
<1>3. CASE Register(p)
    <2>1. TreesOK' /\ ArchivesOK' /\ RootOK' /\ kills' \in 0..MaxKills
        BY <1>3, TreesStay, RestStays DEF Register
    <2>2. proc[p].reqs \in SUBSET Places
        BY <1>1, <1>3 DEF Register, At, Carried
    <2>3. ShelfOK'
        BY <1>1, <1>3, <2>2 DEF Register, ShelfOK
    <2> QED BY <1>3, <2>1, <2>3, GotoCarries DEF FilesOK, Register, At
<1>4. CASE CloseState(p)
    <2>1. TreesOK'
        <3>1. CASE tree' = tree
            BY <3>1, TreesStay
        <3>2. CASE tree' # tree
            <4> DEFINE state == [Here(p).state EXCEPT !.refs = {}, !.closed = TRUE]
            <4>1. Here(p).state # None /\ tree' = [tree EXCEPT ![proc[p].at].state = state]
                BY <1>4, <3>2 DEF CloseState, Here
            <4>2. state \in States
                BY <1>1, <4>1 DEF Trees, States
            <4> HIDE DEF state
            <4> QED BY <1>1, <4>1, <4>2, StateSet
        <3> QED BY <3>1, <3>2
    <2>2. FilesOK'
        BY <1>4, <2>1, RestStays DEF CloseState, FilesOK
    <2>3. PICK todo : proc' = [proc EXCEPT ![p].pc = "shelve", ![p].todo = todo]
        BY <1>4 DEF CloseState
    <2>4. proc'[p].pc = "shelve" /\ proc'[p].ok = proc[p].ok /\ proc'[p].cmd = proc[p].cmd
        BY <2>3, Facts DEF Idle
    <2>5. Carried(p, proc'[p])
        BY <1>1, <2>4 DEF Carried, Queued, Held
    <2> QED BY <2>2, <2>5
<1>5. CASE Shelve(p)
    <2> DEFINE target == Head(proc[p].todo)
               same == {d \in Here(p).dirs : d.id = target.id /\ d.name = target.name}
    <2>1. CASE same = {}
        <3>1. tree' = tree /\ shelf' = shelf /\ Finish(p, TRUE)
            BY <1>5, <2>1 DEF Shelve
        <3>2. FilesOK'
            BY <1>5, <3>1, TreesStay, RestStays DEF Shelve, FilesOK
        <3> QED BY <3>1, <3>2, FinishCarries
    <2>2. CASE same # {}
        <3> DEFINE left == Here(p).dirs \ same
        <3>1. /\ tree' = [tree EXCEPT ![proc[p].at].dirs = left]
              /\ shelf' = [shelf EXCEPT !.dirs[proc[p].at] = @ \cup same]
              /\ proc' = [proc EXCEPT ![p].todo = Tail(@)]
            BY <1>5, <2>2 DEF Shelve, Here
        <3>2. left \in SUBSET Here(p).dirs /\ same \in SUBSET Directories
            BY <1>1 DEF Trees
        <3> HIDE DEF left, same
        <3>3. TreesOK'
            BY <1>1, <3>1, <3>2, FewerDirs, DirsSet DEF Trees
        <3>4. ShelfOK'
            BY <1>1, <3>1, <3>2 DEF ShelfOK
        <3>5. FilesOK'
            BY <1>5, <3>3, <3>4, RestStays DEF Shelve, FilesOK
        <3>6. proc'[p].pc = proc[p].pc /\ proc'[p].ok = proc[p].ok /\ proc'[p].cmd = proc[p].cmd
            BY <3>1, Facts DEF Idle
        <3>7. Carried(p, proc'[p])
            BY <1>1, <1>5, <3>6 DEF Carried, Queued, Held, Shelve, At
        <3> QED BY <3>5, <3>7
    <2> QED BY <2>1, <2>2
<1>6. CASE Shelved(p)
    <2>1. FilesOK'
        BY <1>6, TreesStay, RestStays DEF Shelved, disk, FilesOK
    <2> QED BY <1>6, <2>1, FinishCarries DEF Shelved
<1> QED BY <1>2, <1>3, <1>4, <1>5, <1>6

LEMMA ClearingCarries ==
    ASSUME TypeInv, NEW p \in Procs, ClearNext(p) \/ Cleared(p), attic' = attic
    PROVE  FilesOK' /\ Carried(p, proc'[p])
<1>1. CASE ClearNext(p)
    <2> DEFINE target == Head(proc[p].todo)
               left == {d \in Here(p).dirs : d.id # target.id \/ d.name # target.name}
    <2>1. /\ tree' = [tree EXCEPT ![proc[p].at].dirs = left]
          /\ proc' = [proc EXCEPT ![p].todo = Tail(@)] /\ proc[p].pc = "clear"
        BY <1>1 DEF ClearNext, Here, At
    <2>2. left \in SUBSET Here(p).dirs
        OBVIOUS
    <2> HIDE DEF left
    <2>3. TreesOK'
        BY <2>1, <2>2, Facts, FewerDirs, DirsSet DEF Trees
    <2>4. FilesOK'
        BY <1>1, <2>3, RestStays DEF ClearNext, FilesOK
    <2>5. proc'[p].pc = "clear" /\ proc'[p].ok = proc[p].ok /\ proc'[p].cmd = proc[p].cmd
        BY <2>1, Facts DEF Idle
    <2>6. Carried(p, proc[p])
        BY Facts
    <2>7. Carried(p, proc'[p])
        BY <2>1, <2>5, <2>6 DEF Carried, Queued, Held
    <2> QED BY <2>4, <2>7
<1>2. CASE Cleared(p)
    <2>1. FilesOK'
        BY <1>2, TreesStay, RestStays DEF Cleared, disk, FilesOK
    <2> QED BY <1>2, <2>1, FinishCarries DEF Cleared
<1> QED BY <1>1, <1>2

LEMMA EnsureCarries ==
    ASSUME TypeInv, NEW p \in Procs, EnsureConfig(p), attic' = attic
    PROVE  FilesOK' /\ Carried(p, proc'[p])
<1>1. tree' = [tree EXCEPT ![proc[p].at].config = Config(Defaults)] /\ made' = made \cup Ancestors(proc[p].at)
    BY DEF EnsureConfig
<1>2. TreesOK'
    BY <1>1, Facts, ConfigsOK, ConfigSet
<1>3. FilesOK'
    BY <1>1, <1>2, Facts, RestStays DEF EnsureConfig, FilesOK
<1> QED BY <1>3, FinishCarries DEF EnsureConfig

LEMMA RepairsCarry ==
    ASSUME TypeInv, NEW p \in Procs, Repair(p) \/ AddKey(p) \/ Repaired(p), attic' = attic
    PROVE  FilesOK' /\ Carried(p, proc'[p])
<1> DEFINE at == proc[p].at
           code == FirstRepair(proc[p].todo)
<1>1. /\ at \in Places /\ Carried(p, proc[p]) /\ Here(p) \in Trees /\ Sound(Here(p).dirs)
      /\ proc[p].cmd.op = "repair" /\ proc[p].todo \in SUBSET Repairable /\ proc[p].next \in SUBSET Places
      /\ ShelfOK /\ TreesOK
    BY Facts DEF Repair, AddKey, Repaired, At, Carried, TypeInv, FilesOK
<1> HIDE DEF code
<1>2. CASE Repair(p)
    <2> DEFINE fresh == [phase |-> None, refs |-> {}, closed |-> FALSE]
               config == IF code \in {"W003", "E005"} THEN Config(RepairDefaults) ELSE Here(p).config
               state == IF code = "E004" THEN fresh ELSE Here(p).state
    <2>1. TreesOK'
        <3>1. CASE tree' = tree
            BY <3>1, TreesStay
        <3>2. CASE tree' # tree
            <4>1. tree' = [tree EXCEPT ![at] = [[tree[at] EXCEPT !.config = config] EXCEPT !.state = state]]
                BY <1>1, <1>2, <3>2 DEF Repair, Here, code, TreesOK
            <4>2. config \in Configs
                BY <1>1, ConfigsOK DEF Trees
            <4>3. state \in States \cup {None}
                BY <1>1 DEF Trees, States
            <4> HIDE DEF config, state
            <4>4. [tree[at] EXCEPT !.config = config] \in Trees /\ Sound([tree[at] EXCEPT !.config = config].dirs)
                BY <1>1, <4>2, PartSet DEF Here
            <4> DEFINE new == [[tree[at] EXCEPT !.config = config] EXCEPT !.state = state]
            <4>5. new \in Trees /\ Sound(new.dirs)
                <5> DEFINE t == [tree[at] EXCEPT !.config = config]
                <5>1. t \in Trees /\ Sound(t.dirs) /\ new = [t EXCEPT !.state = state]
                    BY <4>4
                <5> HIDE DEF t, new
                <5> QED BY <4>3, <5>1, PartSet
            <4> HIDE DEF new
            <4>6. tree' = [tree EXCEPT ![at] = new]
                BY <4>1 DEF new
            <4> QED BY <1>1, <4>5, <4>6, TreeSet
        <3> QED BY <3>1, <3>2
    <2>2. ShelfOK'
        BY <1>1, <1>2 DEF Repair, ShelfOK
    <2>3. FilesOK'
        BY <1>2, <2>1, <2>2, RestStays DEF Repair, FilesOK
    <2>4. CASE code \in {"W008", "W016"}
        <3>1. proc' = [proc EXCEPT ![p].pc = "addkey", ![p].reqs = Here(p).config] /\ proc[p].todo # {}
            BY <1>2, <2>4 DEF Repair, code
        <3>2. /\ proc'[p].pc = "addkey" /\ proc'[p].ok = proc[p].ok /\ proc'[p].cmd = proc[p].cmd
              /\ proc'[p].todo = proc[p].todo /\ proc'[p].next = proc[p].next /\ proc'[p].reqs = Here(p).config
            BY <3>1, Facts DEF Idle
        <3>3. Here(p).config \in Configs
            BY <1>1 DEF Trees
        <3>4. Carried(p, proc'[p])
            BY <1>1, <3>1, <3>2, <3>3 DEF Carried, Queued, Held
        <3> QED BY <2>3, <3>4
    <2>5. CASE code \notin {"W008", "W016"}
        <3>1. proc' = [proc EXCEPT ![p].todo = @ \ {code}] /\ proc[p].pc = "repair"
            BY <1>2, <2>5 DEF Repair, code, At
        <3>2. /\ proc'[p].pc = "repair" /\ proc'[p].ok = proc[p].ok /\ proc'[p].cmd = proc[p].cmd
              /\ proc'[p].todo = proc[p].todo \ {code} /\ proc'[p].next = proc[p].next
            BY <3>1, Facts DEF Idle
        <3>3. Carried(p, proc'[p])
            BY <1>1, <3>2 DEF Carried, Queued, Held
        <3> QED BY <2>3, <3>3
    <2> QED BY <2>4, <2>5
<1>3. CASE AddKey(p)
    <2> DEFINE key == IF code = "W008" THEN "nyquist" ELSE "ai"
               config == Config(proc[p].reqs.keys \cup {key})
    <2>1. proc[p].reqs \in Configs
        BY <1>1, <1>3 DEF AddKey, At, Carried
    <2>2. config \in Configs
        <3>1. key \in Settings
            BY SettingsAssumption DEF Defaults
        <3>2. proc[p].reqs.keys \cup {key} \in SUBSET Settings
            BY <2>1, <3>1 DEF Configs
        <3> HIDE DEF key
        <3> QED BY <3>2, ConfigsOK
    <2>3. tree' = tree \/ tree' = [tree EXCEPT ![at].config = config]
        BY <1>3 DEF AddKey, code
    <2> HIDE DEF config
    <2>4. TreesOK'
        BY <1>1, <2>2, <2>3, TreesStay, ConfigSet
    <2>5. FilesOK'
        BY <1>3, <2>4, RestStays DEF AddKey, FilesOK
    <2>6. proc' = [proc EXCEPT ![p].pc = "repair", ![p].todo = @ \ {code}, ![p].reqs = None]
        BY <1>3 DEF AddKey, code
    <2>7. /\ proc'[p].pc = "repair" /\ proc'[p].ok = proc[p].ok /\ proc'[p].cmd = proc[p].cmd
          /\ proc'[p].todo = proc[p].todo \ {code} /\ proc'[p].next = proc[p].next
        BY <2>6, Facts DEF Idle
    <2>8. Carried(p, proc'[p])
        BY <1>1, <2>7 DEF Carried, Queued, Held
    <2> QED BY <2>5, <2>8
<1>4. CASE Repaired(p)
    <2>1. FilesOK'
        BY <1>4, TreesStay, RestStays DEF Repaired, disk, FilesOK
    <2> QED BY <1>4, <2>1, FinishCarries DEF Repaired
<1> QED BY <1>2, <1>3, <1>4

LEMMA CommandCarries ==
    ASSUME TypeInv, NEW p \in Procs, Command(p), attic' = attic
    PROVE  FilesOK' /\ Carried(p, proc'[p])
    BY ReadForAddCarries, MakeDirectoryCarries, RemovalCarries, ReadRoadmapCarries, WriteRoadmapCarries,
       RequirementsCarry, StateCarries, MarkCarries, MilestoneCarries, ClearingCarries,
       WriteConfigCarries, EnsureCarries, RepairsCarry DEF Command

-----------------------------------------------------------------------------
(* The surroundings. *)

LEMMA KillCarries ==
    ASSUME TypeInv, NEW p \in Procs, Kill(p), attic' = attic
    PROVE  FilesOK' /\ Carried(p, proc'[p])
<1>1. tree' = tree \/ tree' = [tree EXCEPT ![proc[p].at].config = Corrupt]
    BY DEF Kill
<1>2. TreesOK'
    BY <1>1, Facts, TreesStay, ConfigsOK, ConfigSet
<1>3. kills' \in 0..MaxKills
    BY PlacesAssumption DEF Kill, TypeInv, FilesOK
<1>4. FilesOK'
    BY <1>2, <1>3, RestStays DEF Kill, FilesOK
<1>5. proc'[p].ok \in BOOLEAN /\ proc'[p].cmd = proc[p].cmd /\ proc'[p].pc = "killed"
    BY Facts DEF Kill, Idle
<1>6. Carried(p, proc[p])
    BY Facts
<1>7. proc[p].cmd \in Menu[p] \cup {None}
    BY <1>6 DEF Carried
<1>8. Carried(p, proc'[p])
    BY <1>5, <1>7, CarriesNothing
<1> QED BY <1>4, <1>8

LEMMA WorkKeeps ==
    ASSUME TypeInv, NEW at \in Places, Work(at), attic' = attic
    PROVE  FilesOK'
<1>1. PICK d \in tree[at].dirs :
        /\ d.done < d.plans \/ (d.plans = 0 /\ ~d.notes)
        /\ tree' = [tree EXCEPT ![at].dirs = (@ \ {d}) \cup
                       {IF d.plans = 0 THEN [d EXCEPT !.notes = TRUE] ELSE [d EXCEPT !.done = @ + 1]}]
    BY DEF Work
<1> DEFINE after == IF d.plans = 0 THEN [d EXCEPT !.notes = TRUE] ELSE [d EXCEPT !.done = @ + 1]
           dirs == (tree[at].dirs \ {d}) \cup {after}
<1>2. tree[at].dirs \in SUBSET Directories /\ Sound(tree[at].dirs)
    BY DEF TypeInv, FilesOK, TreesOK, Trees
<1>3. d \in Directories /\ d.done <= d.plans
    BY <1>2 DEF Sound
<1>4. after \in Directories /\ after.done <= after.plans
    <2>1. [d EXCEPT !.notes = TRUE] \in Directories /\ [d EXCEPT !.notes = TRUE].done = d.done
          /\ [d EXCEPT !.notes = TRUE].plans = d.plans
        BY <1>3 DEF Directories
    <2>2. [d EXCEPT !.done = @ + 1] \in Directories /\ [d EXCEPT !.done = @ + 1].done = d.done + 1
          /\ [d EXCEPT !.done = @ + 1].plans = d.plans
        BY <1>3 DEF Directories
    <2>3. d.done \in Nat /\ d.plans \in Nat
        BY <1>3 DEF Directories
    <2> QED BY <1>1, <1>3, <2>1, <2>2, <2>3
<1> HIDE DEF after
<1>5. IsFiniteSet(tree[at].dirs \ {d})
    BY <1>2, FS_Subset DEF Sound
<1>6. dirs \in SUBSET Directories /\ Sound(dirs)
    BY <1>2, <1>4, <1>5, FS_AddElement DEF Sound
<1>7. tree' = [tree EXCEPT ![at].dirs = dirs]
    BY <1>1 DEF after
<1> HIDE DEF dirs
<1>8. TreesOK'
    BY <1>6, <1>7, DirsSet
<1> QED BY <1>8, RestStays DEF Work, FilesOK

-----------------------------------------------------------------------------
(* Migration and archiving. *)

TreeFields == {"road", "dirs", "reqs", "state", "config"}

\* A file of one directory takes the place of the same file in another.
LEMMA FileExchanged ==
    ASSUME NEW t \in Trees, Sound(t.dirs), NEW u, NEW field \in TreeFields,
           u.road \in Roadmaps, u.dirs \in SUBSET Directories, Sound(u.dirs),
           u.reqs \in (SUBSET Requirements) \cup {None}, u.state \in States \cup {None},
           u.config \in Configs
    PROVE  [t EXCEPT ![field] = u[field]] \in Trees /\ Sound([t EXCEPT ![field] = u[field]].dirs)
<1>1. CASE field = "road"
    BY <1>1, PartSet
<1>2. CASE field = "dirs"
    BY <1>2, PartSet
<1>3. CASE field = "reqs"
    BY <1>3, PartSet
<1>4. CASE field = "state"
    BY <1>4, PartSet
<1>5. CASE field = "config"
    BY <1>5, PartSet
<1> QED BY <1>1, <1>2, <1>3, <1>4, <1>5 DEF TreeFields

LEMMA NoTreeOK == NoTree \in Trees /\ Sound(NoTree.dirs)
    BY ConfigsOK, FS_EmptySet DEF NoTree, Trees, Roadmaps, Sound

LEMMA Exchanged ==
    ASSUME NEW t \in Trees, Sound(t.dirs), NEW u \in Trees, Sound(u.dirs), NEW field \in TreeFields
    PROVE  [t EXCEPT ![field] = u[field]] \in Trees /\ Sound([t EXCEPT ![field] = u[field]].dirs)
<1>1. /\ u.road \in Roadmaps /\ u.dirs \in SUBSET Directories /\ u.reqs \in (SUBSET Requirements) \cup {None}
      /\ u.state \in States \cup {None} /\ u.config \in Configs
    BY DEF Trees
<1> QED BY <1>1, FileExchanged

LEMMA MoveKeeps ==
    ASSUME TypeInv, NEW from \in Places, NEW to \in Places, from # to, NEW part \in PartNames,
           Move(from, to, part)
    PROVE  TreesOK'
<1> DEFINE left == [tree[from] EXCEPT ![part] = NoTree[part]]
           got == [tree[to] EXCEPT ![part] = tree[from][part]]
<1>1. TreesOK /\ tree \in [Places -> Trees] /\ part \in TreeFields
    BY DEF TypeInv, FilesOK, TreesOK, PartNames, TreeFields
<1>2. \A v \in Places : tree[v] \in Trees /\ Sound(tree[v].dirs)
    BY <1>1 DEF TreesOK
<1>3. left \in Trees /\ Sound(left.dirs)
    BY <1>1, <1>2, NoTreeOK, Exchanged
<1>4. got \in Trees /\ Sound(got.dirs)
    BY <1>1, <1>2, Exchanged
<1>5. tree' = [tree EXCEPT ![from] = left, ![to] = got]
    BY <1>1 DEF Move, Absent
<1> HIDE DEF left, got
<1>6. tree' = [v \in Places |-> IF v = to THEN got ELSE IF v = from THEN left ELSE tree[v]]
    BY <1>1, <1>5
<1>7. tree' \in [Places -> Trees]
    BY <1>2, <1>3, <1>4, <1>6
<1>8. \A v \in Places : Sound(tree'[v].dirs)
    BY <1>2, <1>3, <1>4, <1>6
<1> QED BY <1>7, <1>8 DEF TreesOK, Sound

LEMMA MigrationCarries ==
    ASSUME TypeInv, NEW p \in Procs,
           \/ MigrateBegins(p) \/ MovePart(p) \/ Moved(p) \/ MoveFails(p) \/ MoveBack(p)
           \/ Abandon(p) \/ OpenWorkstream(p) \/ Activate(p)
    PROVE  FilesOK' /\ Carried(p, proc'[p])
<1> DEFINE into == proc[p].cmd.into
           name == proc[p].cmd.name
<1>1. /\ proc[p].pc \in Migrating /\ proc[p].cmd \in Menu[p] /\ proc[p].cmd.op = "ws-create"
      /\ into \in Names /\ name \in Names /\ Carried(p, proc[p])
    <2>1. proc[p].pc \in Migrating /\ Working(p)
        BY DEF MigrateBegins, MovePart, Moved, MoveFails, MoveBack, Abandon, OpenWorkstream, Activate,
               At, Migrating, Working
    <2>2. proc[p].cmd.op = "ws-create"
        BY <2>1 DEF TypeInv, LockInv, Types, ProcOK, OneOK, Op
    <2> QED BY <2>1, <2>2, Facts, Parameters
<1>2. Flat \in Places /\ into \in Places /\ name \in Places /\ Flat # into /\ RootOK /\ ShelfOK /\ ArchivesOK
      /\ kills \in 0..MaxKills
    BY <1>1, PlacesAssumption DEF Places, TypeInv, FilesOK
<1>3. CASE MigrateBegins(p)
    <2>1. TreesOK' /\ ShelfOK' /\ ArchivesOK' /\ kills' \in 0..MaxKills
        BY <1>3, TreesStay, RestStays DEF MigrateBegins
    <2>2. CASE Finish(p, FALSE) /\ made' = made
        BY <2>1, <2>2, RestStays, FinishCarries DEF FilesOK
    <2>3. CASE ~(Finish(p, FALSE) /\ made' = made)
        <3>1. /\ made' = made \cup {Root, into}
              /\ proc' = [proc EXCEPT ![p].pc = "moving", ![p].todo = Parts, ![p].next = <<>>]
            BY <1>3, <2>3 DEF MigrateBegins
        <3>2. RootOK'
            BY <1>1, <1>2, <3>1 DEF RootOK
        <3>3. /\ proc'[p].pc = "moving" /\ proc'[p].ok = proc[p].ok /\ proc'[p].cmd = proc[p].cmd
              /\ proc'[p].todo = Parts /\ proc'[p].next = <<>>
            BY <3>1, Facts DEF Idle
        <3>4. Parts \in Seq(PartNames) /\ <<>> \in Seq(PartNames)
            BY DEF Parts, PartNames
        <3>5. Carried(p, proc'[p])
            BY <1>1, <3>3, <3>4 DEF Carried, Queued, Held
        <3> QED BY <2>1, <3>2, <3>5 DEF FilesOK
    <2> QED BY <2>2, <2>3
<1>4. CASE MovePart(p)
    <2> DEFINE part == Head(proc[p].todo)
    <2>1. /\ proc[p].pc = "moving" /\ proc[p].todo \in Seq(PartNames) /\ proc[p].next \in Seq(PartNames)
          /\ proc[p].todo # <<>>
        BY <1>1, <1>4 DEF MovePart, At, Carried
    <2>2. part \in PartNames /\ Tail(proc[p].todo) \in Seq(PartNames)
        BY <2>1, HeadAndTail
    <2>3. tree' = tree \/ Move(Flat, into, part)
        BY <1>4 DEF MovePart
    <2>4. \/ proc' = [proc EXCEPT ![p].todo = Tail(@), ![p].next = <<part>> \o @]
          \/ proc' = [proc EXCEPT ![p].todo = Tail(@)]
        BY <1>4 DEF MovePart
    <2> HIDE DEF part
    <2>5. FilesOK'
        BY <1>2, <1>4, <2>2, <2>3, TreesStay, MoveKeeps, RestStays DEF MovePart, FilesOK
    <2>6. /\ proc'[p].pc = "moving" /\ proc'[p].ok = proc[p].ok /\ proc'[p].cmd = proc[p].cmd
          /\ proc'[p].todo = Tail(proc[p].todo)
          /\ proc'[p].next = proc[p].next \/ proc'[p].next = <<part>> \o proc[p].next
        <3>1. CASE proc' = [proc EXCEPT ![p].todo = Tail(@), ![p].next = <<part>> \o @]
            BY <2>1, <3>1, Facts DEF Idle
        <3>2. CASE proc' = [proc EXCEPT ![p].todo = Tail(@)]
            BY <2>1, <3>2, Facts DEF Idle
        <3> QED BY <2>4, <3>1, <3>2
    <2>7. <<part>> \o proc[p].next \in Seq(PartNames)
        BY <2>1, <2>2
    <2>8. Carried(p, proc'[p])
        BY <1>1, <2>1, <2>2, <2>6, <2>7 DEF Carried, Queued, Held
    <2> QED BY <2>5, <2>8
<1>5. CASE Moved(p)
    <2>1. FilesOK'
        BY <1>5, TreesStay, RestStays DEF Moved, disk, FilesOK
    <2> QED BY <1>5, <2>1, GotoCarries DEF Moved
<1>6. CASE MoveFails(p)
    <2>1. FilesOK'
        BY <1>6, TreesStay, RestStays DEF MoveFails, disk, FilesOK
    <2>2. proc[p].next \in Seq(PartNames)
        BY <1>1, <1>6 DEF MoveFails, At, Carried
    <2>3. Reverse(proc[p].next) \in Seq(PartNames)
        BY <2>2, ReversedSeq
    <2>4. proc' = [proc EXCEPT ![p].pc = "moveback", ![p].todo = Reverse(proc[p].next)]
        BY <1>6 DEF MoveFails
    <2>5. /\ proc'[p].pc = "moveback" /\ proc'[p].ok = proc[p].ok /\ proc'[p].cmd = proc[p].cmd
          /\ proc'[p].todo = Reverse(proc[p].next) /\ proc'[p].next = proc[p].next
        <3> HIDE DEF Reverse
        <3> QED BY <2>4, Facts DEF Idle
    <2>6. Carried(p, proc'[p])
        BY <1>1, <2>2, <2>3, <2>5 DEF Carried, Queued, Held
    <2> QED BY <2>1, <2>6
<1>7. CASE MoveBack(p)
    <2> DEFINE part == Head(proc[p].todo)
    <2>1. /\ proc[p].pc = "moveback" /\ proc[p].todo \in Seq(PartNames) /\ proc[p].next \in Seq(PartNames)
          /\ proc[p].todo # <<>>
        BY <1>1, <1>7 DEF MoveBack, At, Carried
    <2>2. part \in PartNames /\ Tail(proc[p].todo) \in Seq(PartNames)
        BY <2>1, HeadAndTail
    <2>3. tree' = tree \/ Move(into, Flat, part)
        BY <1>7 DEF MoveBack
    <2>4. proc' = [proc EXCEPT ![p].todo = Tail(@)]
        BY <1>7 DEF MoveBack
    <2> HIDE DEF part
    <2>5. FilesOK'
        BY <1>2, <1>7, <2>2, <2>3, TreesStay, MoveKeeps, RestStays DEF MoveBack, FilesOK
    <2>6. /\ proc'[p].pc = "moveback" /\ proc'[p].ok = proc[p].ok /\ proc'[p].cmd = proc[p].cmd
          /\ proc'[p].todo = Tail(proc[p].todo) /\ proc'[p].next = proc[p].next
        BY <2>1, <2>4, Facts DEF Idle
    <2>7. Carried(p, proc'[p])
        BY <1>1, <2>1, <2>2, <2>6 DEF Carried, Queued, Held
    <2> QED BY <2>5, <2>7
<1>8. CASE Abandon(p)
    <2>1. /\ tree' = [tree EXCEPT ![into] = NoTree]
          /\ made' = (made \ {into}) \ IF Workstreams \subseteq {into} THEN {Root} ELSE {}
        BY <1>8 DEF Abandon
    <2>2. TreesOK'
        BY <1>2, <2>1, NoTreeOK, TreeSet DEF TypeInv, FilesOK
    <2>3. RootOK'
        BY <1>2, <2>1, PlacesAssumption DEF RootOK, Workstreams
    <2>4. FilesOK'
        BY <1>8, <2>2, <2>3, RestStays DEF Abandon, FilesOK
    <2> QED BY <1>8, <2>4, FinishCarries DEF Abandon
<1>9. CASE OpenWorkstream(p)
    <2> DEFINE fresh == [phase |-> None, refs |-> {}, closed |-> FALSE]
               state == IF tree[name].state = None THEN fresh ELSE tree[name].state
    <2>1. /\ tree' = [tree EXCEPT ![name].state = state] /\ made' = made \cup {Root, name}
        BY <1>9 DEF OpenWorkstream
    <2>2. state \in States
        <3>1. tree[name].state \in States \cup {None}
            BY <1>2 DEF TypeInv, FilesOK, TreesOK, Trees
        <3>2. fresh \in States
            BY DEF States
        <3> QED BY <3>1, <3>2
    <2> HIDE DEF state
    <2>3. TreesOK'
        BY <1>2, <2>1, <2>2, StateSet
    <2>4. RootOK'
        BY <1>1, <1>2, <2>1 DEF RootOK
    <2>5. FilesOK'
        BY <1>9, <2>3, <2>4, RestStays DEF OpenWorkstream, FilesOK
    <2> QED BY <1>9, <2>5, GotoCarries DEF OpenWorkstream
<1>10. CASE Activate(p)
    <2>1. RootOK'
        BY <1>1, <1>2, <1>10 DEF Activate, RootOK
    <2>2. FilesOK'
        BY <1>10, <2>1, TreesStay, RestStays DEF Activate, FilesOK
    <2> QED BY <1>10, <2>2, FinishCarries DEF Activate
<1> QED BY <1>3, <1>4, <1>5, <1>6, <1>7, <1>8, <1>9, <1>10

AtticFields == {"lock"} \cup TreeFields

LEMMA NoAtticOK == NoAttic \in Attics /\ Sound(NoAttic.dirs)
    BY ConfigsOK, FS_EmptySet DEF NoAttic, Attics, Roadmaps, Sound

\* A file goes into an archive directory.
LEMMA AtticFile ==
    ASSUME ArchivesOK, NEW p \in Procs, NEW field \in TreeFields, NEW u \in Trees, Sound(u.dirs),
           attic' = [attic EXCEPT ![p][field] = u[field]]
    PROVE  ArchivesOK'
<1> DEFINE new == [attic[p] EXCEPT ![field] = u[field]]
<1>1. attic[p] \in Attics /\ Sound(attic[p].dirs)
    BY DEF ArchivesOK
<1>2. new \in Attics /\ Sound(new.dirs)
    <2>1. CASE field = "road"
        BY <1>1, <2>1 DEF Attics, Trees
    <2>2. CASE field = "dirs"
        BY <1>1, <2>2 DEF Attics, Trees
    <2>3. CASE field = "reqs"
        BY <1>1, <2>3 DEF Attics, Trees
    <2>4. CASE field = "state"
        BY <1>1, <2>4 DEF Attics, Trees
    <2>5. CASE field = "config"
        BY <1>1, <2>5 DEF Attics, Trees
    <2> QED BY <2>1, <2>2, <2>3, <2>4, <2>5 DEF TreeFields
<1>3. attic' = [attic EXCEPT ![p] = new]
    OBVIOUS
<1> HIDE DEF new
<1>4. attic' \in [Procs -> Attics]
    BY <1>2, <1>3 DEF ArchivesOK
<1>5. \A q \in Procs : Sound(attic'[q].dirs)
    BY <1>2, <1>3 DEF ArchivesOK
<1> QED BY <1>4, <1>5 DEF ArchivesOK, Sound

\* The lock of a directory goes into an archive or leaves it.
LEMMA AtticLock ==
    ASSUME ArchivesOK, NEW p \in Procs, NEW l \in Locks \cup {None},
           attic' = [attic EXCEPT ![p].lock = l]
    PROVE  ArchivesOK'
<1> DEFINE new == [attic[p] EXCEPT !.lock = l]
<1>1. attic[p] \in Attics /\ Sound(attic[p].dirs)
    BY DEF ArchivesOK
<1>2. new \in Attics /\ new.dirs = attic[p].dirs
    BY <1>1 DEF Attics
<1>3. attic' = [attic EXCEPT ![p] = new]
    OBVIOUS
<1> HIDE DEF new
<1>4. attic' \in [Procs -> Attics]
    BY <1>2, <1>3 DEF ArchivesOK
<1>5. \A q \in Procs : Sound(attic'[q].dirs)
    BY <1>1, <1>2, <1>3 DEF ArchivesOK
<1> QED BY <1>4, <1>5 DEF ArchivesOK, Sound

\* A file of a planning directory is exchanged for one of an archive, or for none.
LEMMA TreeFieldSet ==
    ASSUME TypeInv, NEW at \in Places, NEW field \in TreeFields, NEW u,
           u.road \in Roadmaps, u.dirs \in SUBSET Directories, Sound(u.dirs),
           u.reqs \in (SUBSET Requirements) \cup {None}, u.state \in States \cup {None},
           u.config \in Configs,
           tree' = [tree EXCEPT ![at][field] = u[field]]
    PROVE  TreesOK'
<1> DEFINE new == [tree[at] EXCEPT ![field] = u[field]]
<1>1. TreesOK /\ tree[at] \in Trees /\ Sound(tree[at].dirs)
    BY DEF TypeInv, FilesOK, TreesOK
<1>2. new \in Trees /\ Sound(new.dirs)
    BY <1>1, FileExchanged
<1>3. tree' = [tree EXCEPT ![at] = new]
    OBVIOUS
<1> HIDE DEF new
<1> QED BY <1>1, <1>2, <1>3, TreeSet

LEMMA ArchivingCarries ==
    ASSUME TypeInv, NEW p \in Procs,
           \/ Deactivate(p) \/ ArchiveEntry(p) \/ ArchiveFails(p) \/ Restore(p) \/ Restored(p)
           \/ Archived(p)
    PROVE  FilesOK' /\ Carried(p, proc'[p])
<1> DEFINE name == proc[p].cmd.name
<1>1. /\ proc[p].pc \in Archiving /\ proc[p].cmd \in Menu[p] /\ name \in Names /\ Carried(p, proc[p])
    <2>1. proc[p].pc \in Archiving /\ Working(p)
        BY DEF Deactivate, ArchiveEntry, ArchiveFails, Restore, Restored, Archived, At, Archiving, Working
    <2>2. proc[p].cmd.op = "ws-complete"
        BY <2>1 DEF TypeInv, LockInv, Types, ProcOK, OneOK, Op
    <2> QED BY <2>1, <2>2, Facts, Parameters
<1>2. name \in Places /\ RootOK /\ ShelfOK /\ ArchivesOK /\ kills \in 0..MaxKills
      /\ lock[name] \in Locks \cup {None} /\ attic[p] \in Attics /\ Sound(attic[p].dirs)
      /\ tree[name] \in Trees /\ Sound(tree[name].dirs)
    BY <1>1 DEF Places, TypeInv, FilesOK, TreesOK, ArchivesOK, LockInv, Types, LocksOK
<1> HIDE DEF name
<1>3. CASE Deactivate(p)
    <2> DEFINE entries == {entry \in Range(Entries) : Holds(name, entry)}
               todo == IF name \in made THEN entries ELSE <<>>
               pc == IF name \in made THEN "archiving" ELSE "restore"
    <2>1. FilesOK'
        BY <1>3, TreesStay, RestStays DEF Deactivate, FilesOK
    <2>2. entries \in SUBSET EntryNames
        BY DEF Range, Entries, EntryNames
    <2>3. <<>> \in Seq(EntryNames)
        OBVIOUS
    <2>4. \E num : proc' = [proc EXCEPT ![p].pc = pc, ![p].next = <<>>, ![p].num = num, ![p].todo = todo]
        BY <1>3 DEF Deactivate, name
    <2> HIDE DEF entries
    <2>5. todo = IF name \in made THEN entries ELSE <<>>
        OBVIOUS
    <2>6. pc = IF name \in made THEN "archiving" ELSE "restore"
        OBVIOUS
    <2> HIDE DEF todo, pc
    <2>7. /\ proc'[p].pc = pc /\ proc'[p].ok = proc[p].ok /\ proc'[p].cmd = proc[p].cmd
          /\ proc'[p].todo = todo /\ proc'[p].next = <<>>
        BY <2>4, Facts DEF Idle
    <2>8. Carried(p, proc'[p])
        <3>1. CASE name \in made
            BY <1>1, <2>2, <2>3, <2>5, <2>6, <2>7, <3>1 DEF Carried, Queued, Held
        <3>2. CASE name \notin made
            BY <1>1, <2>2, <2>3, <2>5, <2>6, <2>7, <3>2 DEF Carried, Queued, Held
        <3> QED BY <3>1, <3>2
    <2> QED BY <2>1, <2>8
<1>4. CASE ArchiveEntry(p)
    <2> DEFINE entry == FirstEntry(proc[p].todo)
    <2>1. /\ proc[p].pc = "archiving" /\ proc[p].todo \in SUBSET EntryNames /\ proc[p].todo # {}
          /\ proc[p].next \in Seq(EntryNames)
        BY <1>1, <1>4 DEF ArchiveEntry, At, Carried
    <2>2. entry \in EntryNames
        BY <2>1, FirstEntryFound
    <2> HIDE DEF entry
    <2>3. FilesOK'
        <3>1. CASE entry = "lock"
            <4>1. attic' = [attic EXCEPT ![p].lock = lock[name]] /\ tree' = tree
                BY <1>4, <3>1 DEF ArchiveEntry, entry, name
            <4>2. ArchivesOK'
                BY <1>2, <4>1, AtticLock
            <4> QED BY <1>4, <4>1, <4>2, TreesStay, RestStays DEF ArchiveEntry, FilesOK
        <3>2. CASE entry # "lock"
            <4>1. attic' = [attic EXCEPT ![p][entry] = tree[name][entry]]
                  /\ tree' = [tree EXCEPT ![name][entry] = NoTree[entry]]
                BY <1>4, <3>2 DEF ArchiveEntry, entry, name, Absent
            <4>2. entry \in TreeFields
                BY <2>2, <3>2 DEF EntryNames, TreeFields
            <4>3. ArchivesOK'
                BY <1>2, <4>1, <4>2, AtticFile
            <4>4. NoTree \in Trees /\ Sound(NoTree.dirs)
                BY NoTreeOK
            <4>5. TreesOK'
                BY <1>2, <4>1, <4>2, <4>4, TreeFieldSet DEF Trees
            <4> QED BY <1>4, <4>3, <4>5, RestStays DEF ArchiveEntry, FilesOK
        <3> QED BY <3>1, <3>2
    <2>4. proc' = [proc EXCEPT ![p].todo = @ \ {entry}, ![p].next = <<entry>> \o @]
        BY <1>4 DEF ArchiveEntry, entry
    <2>5. /\ proc'[p].pc = "archiving" /\ proc'[p].ok = proc[p].ok /\ proc'[p].cmd = proc[p].cmd
          /\ proc'[p].todo = proc[p].todo \ {entry} /\ proc'[p].next = <<entry>> \o proc[p].next
        BY <2>1, <2>4, Facts DEF Idle
    <2>6. proc[p].todo \ {entry} \in SUBSET EntryNames /\ <<entry>> \o proc[p].next \in Seq(EntryNames)
        BY <2>1, <2>2
    <2>7. Carried(p, proc'[p])
        BY <1>1, <2>5, <2>6 DEF Carried, Queued, Held
    <2> QED BY <2>3, <2>7
<1>5. CASE ArchiveFails(p)
    <2>1. FilesOK'
        BY <1>5, TreesStay, RestStays DEF ArchiveFails, disk, FilesOK
    <2>2. proc[p].next \in Seq(EntryNames)
        BY <1>1, <1>5 DEF ArchiveFails, At, Carried
    <2>3. Reverse(proc[p].next) \in Seq(EntryNames)
        BY <2>2, ReversedSeq
    <2>4. proc' = [proc EXCEPT ![p].pc = "restore", ![p].todo = Reverse(proc[p].next)]
        BY <1>5 DEF ArchiveFails
    <2>5. /\ proc'[p].pc = "restore" /\ proc'[p].ok = proc[p].ok /\ proc'[p].cmd = proc[p].cmd
          /\ proc'[p].todo = Reverse(proc[p].next)
        <3> HIDE DEF Reverse
        <3> QED BY <2>4, Facts DEF Idle
    <2>6. Carried(p, proc'[p])
        BY <1>1, <2>3, <2>5 DEF Carried, Queued, Held
    <2> QED BY <2>1, <2>6
<1>6. CASE Restore(p)
    <2> DEFINE entry == Head(proc[p].todo)
    <2>1. proc[p].pc = "restore" /\ proc[p].todo \in Seq(EntryNames) /\ proc[p].todo # <<>>
        BY <1>1, <1>6 DEF Restore, At, Carried
    <2>2. entry \in EntryNames /\ Tail(proc[p].todo) \in Seq(EntryNames)
        BY <2>1, HeadAndTail
    <2> HIDE DEF entry
    <2>3. FilesOK'
        <3>1. CASE UNCHANGED <<tree, attic>>
            BY <1>6, <3>1, TreesStay, RestStays DEF Restore, FilesOK
        <3>2. CASE ~UNCHANGED <<tree, attic>> /\ entry = "lock"
            <4>1. attic' = [attic EXCEPT ![p].lock = None] /\ tree' = tree
                BY <1>6, <3>2 DEF Restore, entry
            <4>2. ArchivesOK'
                BY <1>2, <4>1, AtticLock
            <4> QED BY <1>6, <4>1, <4>2, TreesStay, RestStays DEF Restore, FilesOK
        <3>3. CASE ~UNCHANGED <<tree, attic>> /\ entry # "lock"
            <4>1. attic' = [attic EXCEPT ![p][entry] = NoTree[entry]]
                  /\ tree' = [tree EXCEPT ![name][entry] = attic[p][entry]]
                BY <1>6, <3>3 DEF Restore, entry, name, Absent
            <4>2. entry \in TreeFields
                BY <2>2, <3>3 DEF EntryNames, TreeFields
            <4>3. ArchivesOK'
                BY <1>2, <4>1, <4>2, NoTreeOK, AtticFile
            <4>4. TreesOK'
                BY <1>2, <4>1, <4>2, TreeFieldSet DEF Attics
            <4> QED BY <1>6, <4>3, <4>4, RestStays DEF Restore, FilesOK
        <3> QED BY <3>1, <3>2, <3>3
    <2>4. proc' = [proc EXCEPT ![p].todo = Tail(@)]
        BY <1>6 DEF Restore
    <2>5. /\ proc'[p].pc = "restore" /\ proc'[p].ok = proc[p].ok /\ proc'[p].cmd = proc[p].cmd
          /\ proc'[p].todo = Tail(proc[p].todo)
        BY <2>1, <2>4, Facts DEF Idle
    <2>6. Carried(p, proc'[p])
        BY <1>1, <2>2, <2>5 DEF Carried, Queued, Held
    <2> QED BY <2>3, <2>6
<1>7. CASE Restored(p)
    <2>1. attic' = [attic EXCEPT ![p] = NoAttic]
        BY <1>7 DEF Restored
    <2>2. ArchivesOK'
        <3>1. attic' \in [Procs -> Attics]
            BY <1>2, <2>1, NoAtticOK DEF ArchivesOK
        <3>2. \A q \in Procs : Sound(attic'[q].dirs)
            BY <1>2, <2>1, NoAtticOK DEF ArchivesOK
        <3> QED BY <3>1, <3>2 DEF ArchivesOK, Sound
    <2>3. made' = made \/ made' = made \cup {Root, name}
        BY <1>7 DEF Restored, name
    <2>4. RootOK'
        BY <1>2, <2>3 DEF RootOK
    <2>5. FilesOK'
        BY <1>7, <2>2, <2>4, TreesStay, RestStays DEF Restored, FilesOK
    <2> QED BY <1>7, <2>5, FinishCarries DEF Restored
<1>8. CASE Archived(p)
    <2>1. \E gone \in SUBSET {name} : made' = (made \ gone) \ IF Workstreams \subseteq gone THEN {Root} ELSE {}
        BY <1>8 DEF Archived, name
    <2>2. RootOK'
        BY <1>1, <1>2, <2>1, PlacesAssumption DEF RootOK, Workstreams, Places
    <2>3. FilesOK'
        BY <1>8, <2>2, TreesStay, RestStays DEF Archived, FilesOK
    <2> QED BY <1>8, <2>3, FinishCarries DEF Archived
<1> QED BY <1>3, <1>4, <1>5, <1>6, <1>7, <1>8

-----------------------------------------------------------------------------
(* Every step. *)

\* A step of a process leaves the others where they are.
LEMMA OthersStay ==
    ASSUME LockInv, NEW p \in Procs, (PhaseStep(p) /\ attic' = attic) \/ WsBegin(p) \/ WsCommand(p)
    PROVE  \A q \in Procs \ {p} : proc'[q] = proc[q]
<1>1. CASE BeginCommand(p) \/ WsBegin(p)
    BY <1>1 DEF LockInv, Types, ProcOK, BeginCommand, AddBegins, InsertBegins, RemoveBegins, CompleteBegins, ProgressBegins,
                AnnotateBegins, CountAndLock, MarkBegins, MilestoneBegins, ClearBegins, SetBegins,
                EnsureBegins, RepairBegins, WsBegin, CreateBegins, WsCompleteBegins, SetPointer, Begin
<1>2. CASE Locking(p)
    BY <1>2 DEF LockInv, Types, ProcOK, Locking, Acquire, Create, SeeStale, BreakStale, GiveUpWaiting, LastTry, Release, Fail,
                Goto, Finish
<1>3. CASE Command(p) /\ attic' = attic
    BY <1>3, CommandProceeds DEF Proceeds, Follows
<1>4. CASE Kill(p)
    BY <1>4 DEF LockInv, Types, ProcOK, Kill
<1>5. CASE WsCommand(p)
    BY <1>5 DEF LockInv, Types, ProcOK, WsCommand, MigrateBegins, MovePart, Moved, MoveFails, MoveBack, Abandon, OpenWorkstream,
                Activate, Deactivate, ArchiveEntry, ArchiveFails, Restore, Restored, Archived,
                Goto, Finish
<1> QED BY <1>1, <1>2, <1>3, <1>4, <1>5 DEF PhaseStep

LEMMA StepKeepsTypes ==
    ASSUME TypeInv, NEW p \in Procs, (PhaseStep(p) /\ attic' = attic) \/ WsBegin(p) \/ WsCommand(p)
    PROVE  FilesOK' /\ CarriedOK'
<1>1. FilesOK' /\ Carried(p, proc'[p])
    <2>1. CASE BeginCommand(p) /\ attic' = attic
        BY <2>1, CommandsBegin
    <2>2. CASE Locking(p) /\ attic' = attic
        BY <2>2, LockingCarries
    <2>3. CASE Command(p) /\ attic' = attic
        BY <2>3, CommandCarries
    <2>4. CASE Kill(p) /\ attic' = attic
        BY <2>4, KillCarries
    <2>5. CASE WsBegin(p)
        BY <2>5, WorkstreamsBegin
    <2>6. CASE WsCommand(p)
        BY <2>6, MigrationCarries, ArchivingCarries DEF WsCommand
    <2> QED BY <2>1, <2>2, <2>3, <2>4, <2>5, <2>6 DEF PhaseStep
<1>2. \A q \in Procs \ {p} : proc'[q] = proc[q]
    BY OthersStay DEF TypeInv
<1> QED BY <1>1, <1>2, OneCarries DEF TypeInv

LEMMA NoneCarries ==
    ASSUME CarriedOK, proc' = proc
    PROVE  CarriedOK'
    BY DEF CarriedOK, Carried

LEMMA TypeInvKept ==
    TypeInv /\ [WsNext]_wsvars => TypeInv'
<1> SUFFICES ASSUME TypeInv, [WsNext]_wsvars
             PROVE  TypeInv'
    OBVIOUS
<1>1. LockInv'
    BY NextKeeps DEF TypeInv
<1>2. FilesOK' /\ CarriedOK'
    <2>1. ASSUME NEW p \in Procs, (PhaseStep(p) /\ attic' = attic) \/ WsBegin(p) \/ WsCommand(p)
          PROVE  FilesOK' /\ CarriedOK'
        BY <2>1, StepKeepsTypes
    <2>2. ASSUME NEW at \in Places, Work(at), attic' = attic
          PROVE  FilesOK' /\ CarriedOK'
        BY <2>2, WorkKeeps, NoneCarries DEF Work, TypeInv
    <2>3. ASSUME NEW at \in Places, Age(at), attic' = attic
          PROVE  FilesOK' /\ CarriedOK'
        BY <2>3, TreesStay, RestStays, NoneCarries DEF Age, TypeInv, FilesOK
    <2>4. CASE UNCHANGED wsvars
        BY <2>4, TreesStay, RestStays, NoneCarries DEF wsvars, vars, TypeInv, FilesOK
    <2>5. CASE PhaseNext /\ UNCHANGED <<attic, faults>>
        BY <2>1, <2>2, <2>3, <2>5 DEF PhaseNext, Surroundings
    <2> QED BY <2>1, <2>4, <2>5 DEF WsNext, Rest
<1> QED BY <1>1, <1>2 DEF TypeInv

LEMMA TypeInvInit == WsInit => TypeInv
<1>1. SUFFICES ASSUME WsInit
               PROVE  FilesOK /\ CarriedOK
    BY InitHolds DEF TypeInv
<1>2. PICK start \in Starts :
        /\ proc = [p \in Procs |-> IF p = start.dead THEN [Idle EXCEPT !.pc = "killed"] ELSE Idle]
        /\ tree = [at \in Places |-> IF at = start.at THEN start.tree ELSE NoTree]
        /\ made = {Flat} \cup Ancestors(start.at)
    BY <1>1 DEF WsInit, Init
<1>3. start.at \in Places /\ start.tree \in Trees /\ Sound(start.tree.dirs)
    BY StartsAssumption DEF Sound
<1>4. TreesOK
    BY <1>2, <1>3, NoTreeOK DEF TreesOK
<1>5. ShelfOK /\ kills \in 0..MaxKills
    BY <1>1, PlacesAssumption DEF WsInit, Init, ShelfOK
<1>6. ArchivesOK
    BY <1>1, NoAtticOK DEF WsInit, ArchivesOK
<1>7. RootOK
    BY <1>2, <1>3, PlacesAssumption DEF RootOK, Ancestors, Places
<1>8. ASSUME NEW p \in Procs
      PROVE  Carried(p, proc[p])
    <2>1. proc[p].ok \in BOOLEAN /\ proc[p].cmd = None /\ proc[p].pc \in {"idle", "killed"}
        BY <1>2 DEF Idle
    <2> QED BY <2>1, CarriesNothing
<1> QED BY <1>4, <1>5, <1>6, <1>7, <1>8 DEF FilesOK, CarriedOK

\* Whatever the commands do to the planning directories, in whatever order, with
\* failing renames and killed processes: ROADMAP.md keeps sections with a natural
\* number each, no directory counts more summaries than plans, config.json and
\* STATE.md keep their shape, a workstream that exists lies in workstreams/ and the
\* archives hold only what the directories held (phase.cjs, roadmap.cjs,
\* workstream.cjs, milestone.cjs, config.cjs).
THEOREM FilesKeepTypes == WsSpec => []TypeOK
<1>1. WsInit => TypeInv
    BY TypeInvInit
<1>2. TypeInv /\ [WsNext]_wsvars => TypeInv'
    BY TypeInvKept
<1>3. TypeInv => TypeOK
    BY TypeInvTypes
<1> QED BY <1>1, <1>2, <1>3, PTL DEF WsSpec

-----------------------------------------------------------------------------
(* What a step of a process does to its command and to the files. *)

Advance(p) == (PhaseStep(p) /\ attic' = attic) \/ WsBegin(p) \/ WsCommand(p)

\* A process that has not begun has no command.
Unbegun == \A p \in Procs : At(p, "idle") => proc[p].cmd = None

\* It goes on, and a theft is not forgotten.
Onward(p) ==
    /\ proc'[p].pc # "idle" /\ (robbed => robbed')
    /\ At(p, "idle") \/ (proc'[p].cmd = proc[p].cmd /\ proc'[p].at = proc[p].at)

LEMMA BeginOnward ==
    ASSUME TypeInv, NEW p \in Procs, NEW c \in Menu[p], NEW entered, Begin(p, c, entered),
           entered.pc # "idle"
    PROVE  Onward(p)
<1>1. proc'[p] = Started(p, c, entered)
    BY Facts DEF Begin, Started
<1>2. Started(p, c, entered).pc = entered.pc
    BY DEF Started
<1> QED BY <1>1, <1>2 DEF Onward, Begin

LEMMA FinishOnward ==
    ASSUME TypeInv, NEW p \in Procs, NEW ok, Finish(p, ok)
    PROVE  proc'[p].pc = "done" /\ proc'[p].cmd = proc[p].cmd /\ proc'[p].at = proc[p].at /\ proc'[p].ok = ok
    BY Facts DEF Finish, Over, Idle

LEMMA AdvanceOnward ==
    ASSUME TypeInv, NEW p \in Procs, Advance(p)
    PROVE  Onward(p)
<1>a. DOMAIN proc = Procs /\ DOMAIN proc[p] = DOMAIN Idle
    BY Facts
<1>b. \A ok : Finish(p, ok) => proc'[p].pc = "done" /\ proc'[p].cmd = proc[p].cmd /\ proc'[p].at = proc[p].at
    BY FinishOnward
<1>1. CASE BeginCommand(p)
    <2>1. PICK c \in Menu[p] :
            \/ AddBegins(p, c) \/ InsertBegins(p, c) \/ RemoveBegins(p, c) \/ CompleteBegins(p, c)
            \/ ProgressBegins(p, c) \/ AnnotateBegins(p, c) \/ MarkBegins(p, c) \/ MilestoneBegins(p, c)
            \/ ClearBegins(p, c) \/ SetBegins(p, c) \/ EnsureBegins(p, c) \/ RepairBegins(p, c)
        BY <1>1 DEF BeginCommand
    <2>2. /\ Refused.pc # "idle" /\ Nothing.pc # "idle"
          /\ \A pc \in {"lock", "rmdir", "lookup", "mark", "archive", "clear", "ensure", "repair"} :
                /\ Enter(pc).pc # "idle"
                /\ \A v : /\ [Enter(pc) EXCEPT !.next = v].pc # "idle" /\ [Enter(pc) EXCEPT !.todo = v].pc # "idle"
                          /\ [Enter(pc) EXCEPT !.reqs = v].pc # "idle" /\ [Enter(pc) EXCEPT !.counts = v].pc # "idle"
                          /\ \A w : [Enter(pc) EXCEPT !.todo = v, !.next = w].pc # "idle"
        BY DEF Refused, Nothing, Enter, Idle
    <2>3. \E entered : Begin(p, c, entered) /\ entered.pc # "idle"
        BY <2>1, <2>2 DEF AddBegins, InsertBegins, RemoveBegins, CompleteBegins, ProgressBegins,
             AnnotateBegins, CountAndLock, MarkBegins, MilestoneBegins, ClearBegins, SetBegins,
             EnsureBegins, RepairBegins
    <2> QED BY <2>3, BeginOnward
<1>2. CASE WsBegin(p)
    <2>1. PICK c \in Menu[p] : CreateBegins(p, c) \/ WsCompleteBegins(p, c) \/ SetPointer(p, c)
        BY <1>2 DEF WsBegin
    <2>2. /\ Refused.pc # "idle" /\ Nothing.pc # "idle"
          /\ \A pc \in {"migrate", "open", "deactivate"} : Enter(pc).pc # "idle"
        BY DEF Refused, Nothing, Enter, Idle
    <2>3. CASE CreateBegins(p, c) \/ WsCompleteBegins(p, c)
        <3>1. \E entered : Begin(p, c, entered) /\ entered.pc # "idle"
            BY <2>2, <2>3 DEF CreateBegins, WsCompleteBegins
        <3> QED BY <3>1, BeginOnward
    <2>4. CASE SetPointer(p, c)
        BY <2>4, <1>a DEF SetPointer, Onward, At, Nothing, Refused, Idle
    <2> QED BY <2>1, <2>3, <2>4
<1>3. CASE Locking(p)
    <2>1. CASE Acquire(p)
        BY <1>a, <1>b, <2>1 DEF Acquire, Create, Unlink, FirstStep, Goto, At, disk, Onward, Idle
    <2>2. CASE SeeStale(p)
        BY <1>a, <1>b, <2>2 DEF SeeStale, Create, Unlink, FirstStep, Goto, At, disk, Onward, Idle
    <2>3. CASE BreakStale(p)
        BY <1>a, <1>b, <2>3 DEF BreakStale, Create, Unlink, FirstStep, Goto, At, disk, Onward, Idle
    <2>4. CASE GiveUpWaiting(p)
        BY <1>a, <1>b, <2>4 DEF GiveUpWaiting, Create, Unlink, FirstStep, Goto, At, disk, Onward, Idle
    <2>5. CASE LastTry(p)
        <3>1. CASE At(p, "last") /\ Create(p)
            BY <1>a, <3>1 DEF Create, FirstStep, Goto, At, Onward, Idle
        <3>2. CASE At(p, "last") /\ Finish(p, FALSE) /\ UNCHANGED disk
            BY <1>b, <3>2 DEF disk, Onward
        <3> QED BY <2>5, <3>1, <3>2 DEF LastTry
    <2>6. CASE Release(p)
        BY <1>a, <1>b, <2>6 DEF Release, Create, Unlink, FirstStep, Goto, At, disk, Onward, Idle
    <2>7. CASE Fail(p)
        BY <1>a, <1>b, <2>7 DEF Fail, Create, Unlink, FirstStep, Goto, At, disk, Onward, Idle
    <2> QED BY <1>3, <2>1, <2>2, <2>3, <2>4, <2>5, <2>6, <2>7 DEF Locking
<1>4. CASE Command(p) /\ attic' = attic
    <2>1. proc'[p].cmd = proc[p].cmd /\ proc'[p].at = proc[p].at /\ robbed' = robbed
        BY <1>4, CommandProceeds DEF TypeInv, Proceeds, Follows
    <2>2. proc'[p].pc # "idle"
        <3>1. CASE ReadForAdd(p) \/ MakeDirectory(p) \/ DeleteDirectory(p) \/ RenameNext(p) \/ Renamed(p)
                   \/ ReadRoadmap(p)
            BY <3>1, <1>a DEF ReadForAdd, MakeDirectory, DeleteDirectory, RenameNext, Renamed, ReadRoadmap,
                 Goto, At, Idle
        <3>2. CASE WriteRoadmap(p) \/ ReadRequirements(p) \/ WriteRequirements(p) \/ LookUpNext(p) \/ MoveState(p)
                   \/ Mark(p) \/ ArchiveRoadmap(p)
            <4>1. CASE WriteRoadmap(p)
                BY <4>1, <1>a, <1>b DEF WriteRoadmap, AfterWrite, Goto, At, Idle
            <4>2. CASE ReadRequirements(p) \/ WriteRequirements(p)
                BY <4>2, <1>a, <1>b DEF ReadRequirements, WriteRequirements, Goto, At, Idle
            <4>3. CASE LookUpNext(p) \/ MoveState(p)
                BY <4>3, <1>a, <1>b DEF LookUpNext, MoveState, Goto, At, Idle
            <4>4. CASE Mark(p) \/ ArchiveRoadmap(p)
                BY <4>4, <1>a, <1>b DEF Mark, ArchiveRoadmap, Goto, At, Idle
            <4> QED BY <3>2, <4>1, <4>2, <4>3, <4>4
        <3>3. CASE Register(p) \/ CloseState(p) \/ Shelve(p) \/ Shelved(p) \/ ClearNext(p) \/ Cleared(p)
            BY <3>3, <1>a, <1>b DEF Register, CloseState, Shelve, Shelved, ClearNext, Cleared, Goto, At, Idle
        <3>4. CASE WriteConfig(p) \/ EnsureConfig(p)
            BY <3>4, <1>a, <1>b DEF WriteConfig, EnsureConfig, Goto, At, Idle
        <3>5. CASE Repair(p)
            BY <3>5, <1>a DEF Repair, At, Idle
        <3>6. CASE AddKey(p) \/ Repaired(p)
            BY <3>6, <1>a, <1>b DEF AddKey, Repaired, At, Idle
        <3> QED BY <1>4, <3>1, <3>2, <3>3, <3>4, <3>5, <3>6 DEF Command
    <2> QED BY <2>1, <2>2 DEF Onward
<1>5. CASE Kill(p)
    BY <1>5, <1>a DEF Kill, Onward, Idle
<1>6. CASE MigrateBegins(p) \/ MovePart(p) \/ Moved(p) \/ MoveFails(p) \/ MoveBack(p) \/ Abandon(p)
           \/ OpenWorkstream(p) \/ Activate(p)
    <2>1. CASE MigrateBegins(p)
        <3>1. CASE Finish(p, FALSE)
            BY <1>b, <2>1, <3>1 DEF MigrateBegins, Onward
        <3>2. CASE ~Finish(p, FALSE)
            <4>1. proc' = [proc EXCEPT ![p].pc = "moving", ![p].todo = Parts, ![p].next = <<>>] /\ robbed' = robbed
                BY <2>1, <3>2 DEF MigrateBegins
            <4>2. proc'[p].pc = "moving" /\ proc'[p].cmd = proc[p].cmd /\ proc'[p].at = proc[p].at
                BY <1>a, <4>1 DEF Idle
            <4> QED BY <4>1, <4>2 DEF Onward
        <3> QED BY <3>1, <3>2
    <2>2. CASE MovePart(p)
        BY <1>a, <1>b, <2>2 DEF MovePart, Goto, At, disk, Onward, Idle
    <2>3. CASE Moved(p)
        BY <1>a, <1>b, <2>3 DEF Moved, Goto, At, disk, Onward, Idle
    <2>4. CASE MoveFails(p)
        BY <1>a, <1>b, <2>4 DEF MoveFails, Goto, At, disk, Onward, Idle
    <2>5. CASE MoveBack(p)
        BY <1>a, <1>b, <2>5 DEF MoveBack, Goto, At, disk, Onward, Idle
    <2>6. CASE Abandon(p)
        BY <1>a, <1>b, <2>6 DEF Abandon, Goto, At, disk, Onward, Idle
    <2>7. CASE OpenWorkstream(p)
        BY <1>a, <1>b, <2>7 DEF OpenWorkstream, Goto, At, disk, Onward, Idle
    <2>8. CASE Activate(p)
        BY <1>a, <1>b, <2>8 DEF Activate, Goto, At, disk, Onward, Idle
    <2> QED BY <1>6, <2>1, <2>2, <2>3, <2>4, <2>5, <2>6, <2>7, <2>8
<1>7. CASE Deactivate(p) \/ ArchiveEntry(p) \/ ArchiveFails(p) \/ Restore(p) \/ Restored(p) \/ Archived(p)
    <2>1. CASE Deactivate(p)
        BY <1>a, <1>b, <2>1 DEF Deactivate, Goto, At, disk, Onward, Idle
    <2>2. CASE ArchiveEntry(p)
        BY <1>a, <1>b, <2>2 DEF ArchiveEntry, Goto, At, disk, Onward, Idle
    <2>3. CASE ArchiveFails(p)
        BY <1>a, <1>b, <2>3 DEF ArchiveFails, Goto, At, disk, Onward, Idle
    <2>4. CASE Restore(p)
        <3>1. proc[p].pc = "restore" /\ proc' = [proc EXCEPT ![p].todo = Tail(@)]
            BY <2>4 DEF Restore, At
        <3>2. robbed' = robbed \/ robbed' = (robbed \/ Robs(p, proc[p].cmd.name))
            BY <2>4 DEF Restore
        <3>3. proc'[p].pc = "restore" /\ proc'[p].cmd = proc[p].cmd /\ proc'[p].at = proc[p].at
            BY <1>a, <3>1 DEF Idle
        <3>4. robbed => robbed'
            BY <3>2
        <3> QED BY <3>3, <3>4 DEF Onward
    <2>5. CASE Restored(p)
        BY <1>a, <1>b, <2>5 DEF Restored, Goto, At, disk, Onward, Idle
    <2>6. CASE Archived(p)
        BY <1>a, <1>b, <2>6 DEF Archived, Goto, At, disk, Onward, Idle
    <2> QED BY <1>7, <2>1, <2>2, <2>3, <2>4, <2>5, <2>6
<1> QED BY <1>1, <1>2, <1>3, <1>4, <1>5, <1>6, <1>7 DEF Advance, PhaseStep, WsCommand

\* What has run is remembered.
LEMMA RanStays ==
    ASSUME TypeInv, Unbegun, [WsNext]_wsvars, NEW ops, Ran(ops)
    PROVE  Ran(ops)'
<1>1. PICK q \in Procs : proc[q].cmd # None /\ proc[q].cmd.op \in ops
    BY DEF Ran, Op
<1>2. SUFFICES proc'[q].cmd = proc[q].cmd
    BY <1>1 DEF Ran, Op
<1>3. ASSUME NEW p \in Procs, Advance(p)
      PROVE  proc'[q].cmd = proc[q].cmd
    <2>1. CASE p = q
        <3>1. ~At(q, "idle")
            BY <1>1 DEF Unbegun
        <3> QED BY <1>3, <2>1, <3>1, AdvanceOnward DEF Onward
    <2>2. CASE p # q
        BY <1>3, <2>2, OthersStay DEF Advance, TypeInv
    <2> QED BY <2>1, <2>2
<1>4. CASE proc' = proc
    BY <1>4
<1> QED BY <1>3, <1>4 DEF WsNext, PhaseNext, Surroundings, Work, Age, Rest, wsvars, vars, Advance

LEMMA UnbegunKept ==
    ASSUME TypeInv, Unbegun, [WsNext]_wsvars
    PROVE  Unbegun'
<1>1. ASSUME NEW p \in Procs, Advance(p)
      PROVE  Unbegun'
    <2>1. \A q \in Procs \ {p} : proc'[q] = proc[q]
        BY <1>1, OthersStay DEF Advance, TypeInv
    <2>2. proc'[p].pc # "idle"
        BY <1>1, AdvanceOnward DEF Onward
    <2> QED BY <2>1, <2>2 DEF Unbegun, At
<1>2. CASE proc' = proc
    BY <1>2 DEF Unbegun, At
<1> QED BY <1>1, <1>2 DEF WsNext, PhaseNext, Surroundings, Work, Age, Rest, wsvars, vars, Advance

LEMMA UnbegunInit == WsInit => Unbegun
    BY DEF WsInit, Init, Unbegun, At, Idle

\* The command of a process that is at work is one that ran.
LEMMA RunsIts ==
    ASSUME TypeInv, NEW p \in Procs, Working(p), NEW ops, Op(p) \in ops
    PROVE  Ran(ops)
<1>1. proc[p].cmd \in Menu[p]
    BY Facts
<1>2. proc[p].cmd # None
    BY <1>1, MenuAssumption
<1> QED BY <1>2 DEF Ran

-----------------------------------------------------------------------------
(* The steps that change a roadmap, directories or a configuration, or bring a *)
(* command that adds phases or a setting closer to success, are few.           *)

SameFiles ==
    \A v \in Places :
        tree'[v].road = tree[v].road /\ tree'[v].dirs = tree[v].dirs /\ tree'[v].config = tree[v].config
Adding == {"add", "insert", "set"}
Settled(p) ==
    /\ SameFiles
    /\ proc'[p].pc \notin {"make", "write", "configwrite"}
    /\ proc'[p].cmd.op \in Adding => proc'[p].pc # "release" /\ ~(proc'[p].pc = "done" /\ proc'[p].ok)

LEMMA FilesSame ==
    ASSUME TypeInv
    PROVE  /\ tree' = tree => SameFiles
           /\ \A at \in Places : \A v : tree' = [tree EXCEPT ![at].reqs = v] => SameFiles
           /\ \A at \in Places : \A v : tree' = [tree EXCEPT ![at].state = v] => SameFiles
<1>1. tree \in [Places -> Trees]
    BY DEF TypeInv, FilesOK, TreesOK
<1>2. \A v : \A t \in Trees : /\ [t EXCEPT !.reqs = v].road = t.road /\ [t EXCEPT !.reqs = v].dirs = t.dirs
                              /\ [t EXCEPT !.reqs = v].config = t.config
                              /\ [t EXCEPT !.state = v].road = t.road /\ [t EXCEPT !.state = v].dirs = t.dirs
                              /\ [t EXCEPT !.state = v].config = t.config
    BY DEF Trees
<1>3. ASSUME NEW at \in Places, NEW new, new.road = tree[at].road, new.dirs = tree[at].dirs,
             new.config = tree[at].config, tree' = [tree EXCEPT ![at] = new]
      PROVE  SameFiles
    BY <1>1, <1>3 DEF SameFiles
<1>4. tree' = tree => SameFiles
    BY DEF SameFiles
<1>5. ASSUME NEW at \in Places, NEW v, tree' = [tree EXCEPT ![at].reqs = v]
      PROVE  SameFiles
    <2> DEFINE new == [tree[at] EXCEPT !.reqs = v]
    <2>1. tree' = [tree EXCEPT ![at] = new]
        BY <1>5
    <2>2. new.road = tree[at].road /\ new.dirs = tree[at].dirs /\ new.config = tree[at].config
        BY <1>1, <1>2
    <2> HIDE DEF new
    <2> QED BY <1>3, <2>1, <2>2
<1>6. ASSUME NEW at \in Places, NEW v, tree' = [tree EXCEPT ![at].state = v]
      PROVE  SameFiles
    <2> DEFINE new == [tree[at] EXCEPT !.state = v]
    <2>1. tree' = [tree EXCEPT ![at] = new]
        BY <1>6
    <2>2. new.road = tree[at].road /\ new.dirs = tree[at].dirs /\ new.config = tree[at].config
        BY <1>1, <1>2
    <2> HIDE DEF new
    <2> QED BY <1>3, <2>1, <2>2
<1> QED BY <1>4, <1>5, <1>6

LEMMA FinishSettles ==
    ASSUME TypeInv, NEW p \in Procs, SameFiles, Finish(p, FALSE) \/ (Finish(p, TRUE) /\ proc[p].cmd.op \notin Adding)
    PROVE  Settled(p)
<1>1. /\ proc'[p].pc = "done" /\ proc'[p].cmd = proc[p].cmd
      /\ ~proc'[p].ok \/ proc[p].cmd.op \notin Adding
    BY FinishOnward
<1> QED BY <1>1 DEF Settled

LEMMA GotoSettles ==
    ASSUME TypeInv, NEW p \in Procs, NEW pc, Goto(p, pc), SameFiles,
           pc \notin {"make", "write", "configwrite", "done"}, pc = "release" => proc[p].cmd.op \notin Adding
    PROVE  Settled(p)
<1>1. proc'[p].pc = pc /\ proc'[p].cmd = proc[p].cmd
    BY Facts DEF Goto, Idle
<1> QED BY <1>1 DEF Settled

LEMMA BeginSettles ==
    ASSUME TypeInv, NEW p \in Procs, NEW c \in Menu[p], NEW entered, Begin(p, c, entered),
           DOMAIN entered = DOMAIN Idle, entered.pc \notin {"make", "write", "configwrite", "release"},
           c.op \in Adding => entered.pc # "done" \/ ~entered.ok
    PROVE  Settled(p)
<1>1. proc'[p] = Started(p, c, entered) /\ tree' = tree
    BY Facts DEF Begin, Started
<1>2. Started(p, c, entered).pc = entered.pc /\ Started(p, c, entered).ok = entered.ok
      /\ Started(p, c, entered).cmd = c
    BY DEF Started, Idle
<1>3. SameFiles
    BY <1>1, FilesSame
<1>4. /\ proc'[p].pc = entered.pc /\ proc'[p].cmd = c
      /\ c.op \in Adding => proc'[p].pc # "done" \/ ~proc'[p].ok
    BY <1>1, <1>2
<1> QED BY <1>3, <1>4 DEF Settled

LEMMA BeginningsSettle ==
    ASSUME TypeInv, NEW p \in Procs, BeginCommand(p) \/ WsBegin(p)
    PROVE  Settled(p)
<1>1. PICK c \in Menu[p] :
        \/ AddBegins(p, c) \/ InsertBegins(p, c) \/ RemoveBegins(p, c) \/ CompleteBegins(p, c)
        \/ ProgressBegins(p, c) \/ AnnotateBegins(p, c) \/ MarkBegins(p, c) \/ MilestoneBegins(p, c)
        \/ ClearBegins(p, c) \/ SetBegins(p, c) \/ EnsureBegins(p, c) \/ RepairBegins(p, c)
        \/ CreateBegins(p, c) \/ WsCompleteBegins(p, c) \/ SetPointer(p, c)
    BY DEF BeginCommand, WsBegin
<1> DEFINE Bare(e) == /\ DOMAIN e = DOMAIN Idle /\ e.pc \notin {"make", "write", "configwrite", "release"}
                      /\ e.pc = "done" /\ e.ok => c.op \notin Adding
<1>2. /\ Bare(Refused) /\ (c.op \notin Adding => Bare(Nothing))
      /\ \A pc \in {"lock", "rmdir", "lookup", "mark", "archive", "clear", "ensure", "repair", "migrate",
                    "open", "deactivate"} :
            /\ Bare(Enter(pc))
            /\ \A v : /\ Bare([Enter(pc) EXCEPT !.next = v]) /\ Bare([Enter(pc) EXCEPT !.todo = v])
                      /\ Bare([Enter(pc) EXCEPT !.reqs = v]) /\ Bare([Enter(pc) EXCEPT !.counts = v])
                      /\ \A w : Bare([Enter(pc) EXCEPT !.todo = v, !.next = w])
    BY DEF Refused, Nothing, Enter, Idle
<1>3. (\E entered : Begin(p, c, entered) /\ Bare(entered)) => Settled(p)
    BY BeginSettles
<1>4. CASE SetPointer(p, c)
    <2>1. proc'[p].pc = "done" /\ proc'[p].cmd = c /\ tree' = tree /\ c.op \notin Adding
        BY <1>4, Facts DEF SetPointer, Nothing, Refused, Idle, Adding
    <2>2. SameFiles
        BY <2>1, FilesSame
    <2> QED BY <2>1, <2>2 DEF Settled
<1>5. CASE ~SetPointer(p, c)
    <2> HIDE DEF Bare
    <2>1. \E entered : Begin(p, c, entered) /\ Bare(entered)
        <3>1. CASE AddBegins(p, c) \/ InsertBegins(p, c) \/ SetBegins(p, c)
            BY <1>2, <3>1 DEF AddBegins, InsertBegins, SetBegins
        <3>2. CASE RemoveBegins(p, c) \/ CompleteBegins(p, c)
            BY <1>2, <3>2 DEF RemoveBegins, CompleteBegins
        <3>3. CASE ProgressBegins(p, c) \/ AnnotateBegins(p, c)
            BY <1>2, <3>3 DEF ProgressBegins, AnnotateBegins, CountAndLock, Adding
        <3>4. CASE MarkBegins(p, c) \/ MilestoneBegins(p, c) \/ ClearBegins(p, c)
            BY <1>2, <3>4 DEF MarkBegins, MilestoneBegins, ClearBegins, Adding
        <3>5. CASE EnsureBegins(p, c) \/ RepairBegins(p, c)
            BY <1>2, <3>5 DEF EnsureBegins, RepairBegins, Adding
        <3>6. CASE CreateBegins(p, c) \/ WsCompleteBegins(p, c)
            BY <1>2, <3>6 DEF CreateBegins, WsCompleteBegins
        <3> QED BY <1>1, <1>5, <3>1, <3>2, <3>3, <3>4, <3>5, <3>6
    <2> QED BY <1>3, <2>1
<1> QED BY <1>4, <1>5

\* The others.
Stirs(p) ==
    \/ ((At(p, "lock") \/ At(p, "last")) /\ Create(p)) \/ Release(p)
    \/ ReadForAdd(p) \/ MakeDirectory(p) \/ ReadRoadmap(p) \/ WriteRoadmap(p)
    \/ DeleteDirectory(p) \/ RenameNext(p) \/ Shelve(p) \/ ClearNext(p)
    \/ WriteConfig(p) \/ EnsureConfig(p) \/ Repair(p) \/ AddKey(p)
    \/ MovePart(p) \/ MoveBack(p) \/ Abandon(p) \/ ArchiveEntry(p) \/ Restore(p)

\* A repair that is killed leaves a configuration truncated.
Torn(p) ==
    /\ Kill(p) /\ proc'[p].pc = "killed" /\ Ran({"repair"})
    /\ tree' = [tree EXCEPT ![proc[p].at].config = Corrupt]

LEMMA MostSettle ==
    ASSUME TypeInv, NEW p \in Procs, Advance(p)
    PROVE  Settled(p) \/ Stirs(p) \/ Torn(p)
<1>a. /\ DOMAIN proc = Procs /\ DOMAIN proc[p] = DOMAIN Idle /\ Carried(p, proc[p]) /\ proc[p].at \in Places
    BY Facts
<1>1. CASE BeginCommand(p) \/ WsBegin(p)
    BY <1>1, BeginningsSettle
<1>2. CASE Locking(p)
    <2>1. CASE tree' = tree /\ (SeeStale(p) \/ BreakStale(p) \/ GiveUpWaiting(p))
        BY <2>1, FilesSame, GotoSettles DEF SeeStale, BreakStale, GiveUpWaiting
    <2>2. CASE tree' = tree /\ (Fail(p) \/ (LastTry(p) /\ Finish(p, FALSE)))
        BY <2>2, FilesSame, FinishSettles DEF Fail
    <2>3. CASE Acquire(p) \/ (LastTry(p) /\ ~(tree' = tree /\ Finish(p, FALSE))) \/ Release(p)
        BY <2>3 DEF Acquire, LastTry, Stirs, disk
    <2> QED BY <1>2, <2>1, <2>2, <2>3 DEF Locking, SeeStale, BreakStale, GiveUpWaiting, Fail, disk
<1>3. CASE Command(p)
    <2>1. CASE Renamed(p)
        BY <2>1, FilesSame, GotoSettles DEF Renamed, disk
    <2>2. CASE ReadRequirements(p)
        <3>1. CASE Goto(p, "fail")
            BY <2>2, <3>1, FilesSame, GotoSettles DEF ReadRequirements, disk
        <3>2. CASE ~Goto(p, "fail")
            BY <1>a, <2>2, <3>2, FilesSame DEF ReadRequirements, disk, Settled, Idle
        <3> QED BY <3>1, <3>2
    <2>3. CASE WriteRequirements(p)
        <3>1. proc[p].cmd.op \notin Adding
            BY <1>a, <2>3 DEF WriteRequirements, At, Carried, Adding
        <3>2. (Goto(p, "release") \/ Goto(p, "fail")) /\ SameFiles
            BY <1>a, <2>3, FilesSame DEF WriteRequirements
        <3> QED BY <3>1, <3>2, GotoSettles
    <2>4. CASE LookUpNext(p)
        BY <1>a, <2>4, FilesSame DEF LookUpNext, disk, Settled, Idle
    <2>5. CASE MoveState(p)
        <3>1. proc[p].cmd.op \notin Adding
            BY <1>a, <2>5 DEF MoveState, At, Carried, Adding
        <3>2. SameFiles
            BY <1>a, <2>5, FilesSame DEF MoveState
        <3> QED BY <2>5, <3>1, <3>2, FinishSettles DEF MoveState
    <2>6. CASE Mark(p)
        <3>1. proc[p].cmd.op \notin Adding
            BY <1>a, <2>6 DEF Mark, At, Carried, Adding
        <3>2. SameFiles
            BY <1>a, <2>6, FilesSame DEF Mark
        <3> QED BY <2>6, <3>1, <3>2, FinishSettles DEF Mark
    <2>7. CASE ArchiveRoadmap(p)
        BY <1>a, <2>7, FilesSame DEF ArchiveRoadmap, Settled, Idle
    <2>8. CASE Register(p)
        BY <2>8, FilesSame, GotoSettles DEF Register
    <2>9. CASE CloseState(p)
        <3>1. SameFiles
            BY <1>a, <2>9, FilesSame DEF CloseState
        <3> QED BY <1>a, <2>9, <3>1 DEF CloseState, Settled, Idle
    <2>10. CASE Shelved(p) \/ Cleared(p) \/ Repaired(p)
        <3>1. proc[p].cmd.op \notin Adding
            BY <1>a, <2>10 DEF Shelved, Cleared, Repaired, At, Carried, Adding
        <3> QED BY <2>10, <3>1, FilesSame, FinishSettles DEF Shelved, Cleared, Repaired, disk
    <2> QED BY <1>3, <2>1, <2>2, <2>3, <2>4, <2>5, <2>6, <2>7, <2>8, <2>9, <2>10 DEF Command, Stirs
<1>4. CASE Kill(p)
    <2>1. proc'[p].pc = "killed"
        BY <1>4, <1>a DEF Kill, Idle
    <2>2. CASE tree' = tree
        BY <2>1, <2>2, FilesSame DEF Settled
    <2>3. CASE tree' # tree
        <3>1. (At(p, "repair") \/ At(p, "addkey")) /\ tree' = [tree EXCEPT ![proc[p].at].config = Corrupt]
            BY <1>4, <2>3 DEF Kill
        <3>2. Op(p) \in {"repair"} /\ Working(p)
            BY <1>a, <3>1 DEF Carried, At, Op, Working
        <3>3. Ran({"repair"})
            BY <3>2, RunsIts
        <3> QED BY <1>4, <2>1, <3>1, <3>3 DEF Torn
    <2> QED BY <2>2, <2>3
<1>5. CASE WsCommand(p)
    <2>1. proc[p].pc \in Migrating \cup Archiving => proc[p].cmd.op \notin Adding
        BY DEF TypeInv, LockInv, Types, ProcOK, OneOK, Op, Adding
    <2>2. CASE MigrateBegins(p)
        <3>1. SameFiles
            BY <2>2, FilesSame DEF MigrateBegins
        <3>2. CASE Finish(p, FALSE)
            BY <3>1, <3>2, FinishSettles
        <3>3. CASE ~Finish(p, FALSE)
            <4>1. proc' = [proc EXCEPT ![p].pc = "moving", ![p].todo = Parts, ![p].next = <<>>]
                BY <2>2, <3>3 DEF MigrateBegins
            <4>2. proc'[p].pc = "moving"
                BY <1>a, <4>1 DEF Idle
            <4> QED BY <3>1, <4>2 DEF Settled
        <3> QED BY <3>2, <3>3
    <2>3. CASE Moved(p)
        BY <2>3, FilesSame, GotoSettles DEF Moved, disk
    <2>4. CASE MoveFails(p)
        BY <1>a, <2>4, FilesSame DEF MoveFails, disk, Settled, Idle
    <2>5. CASE OpenWorkstream(p)
        <3>1. proc[p].cmd.name \in Places
            BY <2>5, NamesOK DEF OpenWorkstream, At, Migrating, TypeInv, Places
        <3>2. \E v : tree' = [tree EXCEPT ![proc[p].cmd.name].state = v]
            BY <2>5 DEF OpenWorkstream
        <3>3. SameFiles
            BY <3>1, <3>2, FilesSame
        <3> QED BY <2>5, <3>3, GotoSettles DEF OpenWorkstream
    <2>6. CASE Activate(p)
        BY <2>1, <2>6, FilesSame, FinishSettles DEF Activate, At, Migrating
    <2>7. CASE Deactivate(p)
        <3>1. proc'[p].pc \in {"archiving", "restore"} /\ SameFiles
            BY <1>a, <2>7, FilesSame DEF Deactivate, Idle
        <3> QED BY <3>1 DEF Settled
    <2>8. CASE ArchiveFails(p)
        BY <1>a, <2>8, FilesSame DEF ArchiveFails, disk, Settled, Idle
    <2>9. CASE Restored(p)
        BY <2>9, FilesSame, FinishSettles DEF Restored
    <2>10. CASE Archived(p)
        BY <2>1, <2>10, FilesSame, FinishSettles DEF Archived, At, Archiving
    <2> QED BY <1>5, <2>2, <2>3, <2>4, <2>5, <2>6, <2>7, <2>8, <2>9, <2>10 DEF WsCommand, Stirs
<1> QED BY <1>1, <1>2, <1>3, <1>4, <1>5 DEF Advance, PhaseStep

-----------------------------------------------------------------------------
(* Settings. *)

\* One file is rewritten.
LEMMA OneFile ==
    ASSUME TypeInv, NEW at \in Places, NEW x
    PROVE  /\ tree' = [tree EXCEPT ![at].dirs = x] =>
                /\ tree'[at].dirs = x /\ \A v \in Places \ {at} : tree'[v].dirs = tree[v].dirs
                /\ \A v \in Places : tree'[v].road = tree[v].road /\ tree'[v].config = tree[v].config
           /\ tree' = [tree EXCEPT ![at].road = x] =>
                /\ tree'[at].road = x /\ \A v \in Places \ {at} : tree'[v].road = tree[v].road
                /\ \A v \in Places : tree'[v].dirs = tree[v].dirs /\ tree'[v].config = tree[v].config
           /\ tree' = [tree EXCEPT ![at].config = x] =>
                /\ tree'[at].config = x /\ \A v \in Places \ {at} : tree'[v].config = tree[v].config
                /\ \A v \in Places : tree'[v].dirs = tree[v].dirs /\ tree'[v].road = tree[v].road
<1>1. tree \in [Places -> Trees]
    BY DEF TypeInv, FilesOK, TreesOK
<1>2. \A t \in Trees : DOMAIN t = {"road", "dirs", "reqs", "state", "config"}
    BY DEF Trees
<1> QED BY <1>1, <1>2

LEMMA MoveLeavesConfigs ==
    ASSUME TypeInv, NEW from \in Places, NEW to \in Places, NEW part \in PartNames, Move(from, to, part)
    PROVE  \A v \in Places : tree'[v].config = tree[v].config
<1> DEFINE left == [tree[from] EXCEPT ![part] = Absent(part)]
           some == IF to = from THEN left ELSE tree[to]
           got == [some EXCEPT ![part] = tree[from][part]]
<1>1. tree \in [Places -> Trees] /\ part # "config"
    BY DEF TypeInv, FilesOK, TreesOK, PartNames
<1>2. \A t \in Trees : DOMAIN t = {"road", "dirs", "reqs", "state", "config"}
    BY DEF Trees
<1>3. left.config = tree[from].config /\ DOMAIN left = {"road", "dirs", "reqs", "state", "config"}
    BY <1>1, <1>2
<1> HIDE DEF left
<1>4. got.config = some.config
    BY <1>1, <1>2, <1>3
<1>5. tree' = [v \in Places |-> IF v = to THEN got ELSE IF v = from THEN left ELSE tree[v]]
    BY <1>1 DEF Move, left
<1> HIDE DEF got
<1> QED BY <1>3, <1>4, <1>5

\* config-set writes.
Sets(p) ==
    /\ At(p, "configwrite") /\ Op(p) = "set" /\ Goto(p, "release")
    /\ tree' = [tree EXCEPT ![proc[p].at].config = Config(proc[p].reqs \cup {proc[p].cmd.key})]

LEMMA ConfigsStay ==
    ASSUME TypeInv, NEW p \in Procs, Advance(p), ~Ran({"ensure", "repair"}),
           NEW v \in Places, v = Flat \/ ~Ran(Taking)
    PROVE  tree'[v].config = tree[v].config \/ (Sets(p) /\ v = proc[p].at)
<1>a. /\ Carried(p, proc[p]) /\ proc[p].at \in Places
      /\ Working(p) => proc[p].cmd \in Menu[p]
    BY Facts
<1>b. \A at \in Places : \A x :
        tree' = [tree EXCEPT ![at].dirs = x] \/ tree' = [tree EXCEPT ![at].road = x] \/ tree' = tree
            => tree'[v].config = tree[v].config
    BY OneFile
<1>1. CASE Settled(p)
    BY <1>1 DEF Settled, SameFiles
<1>2. CASE Torn(p)
    <2>1. Ran({"repair"})
        BY <1>2 DEF Torn
    <2> QED BY <2>1 DEF Ran
<1>3. CASE Stirs(p)
    <2>1. CASE Create(p) \/ Release(p) \/ ReadForAdd(p) \/ ReadRoadmap(p)
        BY <2>1 DEF Create, Release, ReadForAdd, ReadRoadmap, disk
    <2>2. CASE MakeDirectory(p) \/ DeleteDirectory(p) \/ RenameNext(p) \/ Shelve(p) \/ ClearNext(p)
        BY <1>a, <1>b, <2>2 DEF MakeDirectory, DeleteDirectory, RenameNext, Shelve, ClearNext
    <2>3. CASE WriteRoadmap(p)
        BY <1>a, <1>b, <2>3 DEF WriteRoadmap
    <2>4. CASE WriteConfig(p)
        <3>1. CASE tree' = tree
            BY <3>1
        <3>2. CASE tree' # tree
            <4>1. Sets(p)
                BY <1>a, <2>4, <3>2 DEF WriteConfig, Sets, At, Op, Carried
            <4> QED BY <1>a, <4>1, OneFile DEF Sets
        <3> QED BY <3>1, <3>2
    <2>5. CASE EnsureConfig(p) \/ Repair(p) \/ AddKey(p)
        <3>1. Working(p) /\ Op(p) \in {"ensure", "repair"}
            BY <1>a, <2>5 DEF EnsureConfig, Repair, AddKey, At, Working, Op, Carried
        <3> QED BY <3>1, RunsIts
    <2>6. CASE MovePart(p) \/ MoveBack(p)
        <3>1. proc[p].todo \in Seq(PartNames) /\ proc[p].todo # <<>>
            BY <1>a, <2>6 DEF MovePart, MoveBack, At, Carried
        <3>2. Head(proc[p].todo) \in PartNames
            BY <3>1, HeadAndTail
        <3>3. proc[p].cmd.into \in Places /\ Flat \in Places
            BY <2>6, NamesOK DEF MovePart, MoveBack, At, Migrating, TypeInv, Places
        <3>4. \/ tree' = tree
              \/ \E from \in Places, to \in Places : Move(from, to, Head(proc[p].todo))
            BY <2>6, <3>3 DEF MovePart, MoveBack
        <3> QED BY <3>2, <3>4, MoveLeavesConfigs
    <2>7. CASE Abandon(p) \/ ArchiveEntry(p) \/ Restore(p)
        <3>1. proc[p].pc \in Migrating \cup Archiving /\ Working(p)
            BY <2>7 DEF Abandon, ArchiveEntry, Restore, At, Migrating, Archiving, Working
        <3>2. Op(p) \in {"ws-create", "ws-complete"}
            BY <3>1 DEF TypeInv, LockInv, Types, ProcOK, OneOK
        <3>3. Ran(Taking)
            BY <3>1, <3>2, RunsIts DEF Taking
        <3>4. v = Flat
            BY <3>3
        <3>5. \A name \in Names : name # v
            BY <3>4, PlacesAssumption
        <3>6. (Abandon(p) => proc[p].cmd.into # v) /\ (~Abandon(p) => proc[p].cmd.name # v)
            BY <2>7, <3>5, NamesOK DEF Abandon, ArchiveEntry, Restore, At, Migrating, Archiving, TypeInv
        <3>7. tree'[v] = tree[v]
            BY <2>7, <3>6 DEF Abandon, ArchiveEntry, Restore, TypeInv, FilesOK, TreesOK
        <3> QED BY <3>7
    <2> QED BY <1>3, <2>1, <2>2, <2>3, <2>4, <2>5, <2>6, <2>7 DEF Stirs
<1> QED BY <1>1, <1>2, <1>3, MostSettle

\* A setting is written, and its command about to succeed or done.
Applied(p) == (At(p, "release") /\ Op(p) = "set") \/ Acknowledged(p, {"set"})
SettingsInv ==
    ~robbed /\ ~Ran({"ensure", "repair"}) =>
        \A p \in Procs : proc[p].at = Flat \/ ~Ran(Taking) =>
            /\ At(p, "configwrite") => proc[p].reqs = Here(p).config.keys
            /\ Applied(p) => proc[p].cmd.key \in Here(p).config.keys

\* How a process comes to write a setting, and to have it written.
LEMMA SettingTurns ==
    ASSUME TypeInv, NEW p \in Procs, Advance(p), ~Ran({"ensure", "repair"})
    PROVE  /\ proc'[p].pc = "configwrite" =>
                proc'[p].reqs = Here(p).config.keys /\ tree' = tree /\ proc'[p].at = proc[p].at
           /\ Applied(p)' =>
                \/ Sets(p)
                \/ At(p, "release") /\ Op(p) = "set" /\ tree' = tree
                   /\ proc'[p].at = proc[p].at /\ proc'[p].cmd = proc[p].cmd
<1>a. /\ DOMAIN proc = Procs /\ DOMAIN proc[p] = DOMAIN Idle /\ Carried(p, proc[p]) /\ proc[p].at \in Places
    BY Facts
<1>b. \A ok : Finish(p, ok) => proc'[p].pc = "done" /\ proc'[p].cmd = proc[p].cmd /\ proc'[p].at = proc[p].at
                             /\ proc'[p].ok = ok
    BY FinishOnward
<1>c. \A pc : Goto(p, pc) => proc'[p].pc = pc /\ proc'[p].cmd = proc[p].cmd /\ proc'[p].at = proc[p].at
    BY <1>a DEF Goto, Idle
<1> DEFINE Bare == proc'[p].pc # "configwrite" /\ ~(proc'[p].pc \in {"release", "done"} /\ proc'[p].cmd.op = "set")
<1>d. Bare => ~Applied(p)' /\ proc'[p].pc # "configwrite"
    BY DEF Applied, Acknowledged, At, Op
<1>1. CASE Settled(p)
    BY <1>1 DEF Settled, Applied, Acknowledged, At, Op, Adding
<1>2. CASE Torn(p)
    <2>1. Ran({"repair"})
        BY <1>2 DEF Torn
    <2> QED BY <2>1 DEF Ran
<1>3. CASE Stirs(p)
    <2>1. CASE (At(p, "lock") \/ At(p, "last")) /\ Create(p)
        <3>1. CASE Goto(p, "fail")
            BY <1>c, <1>d, <3>1
        <3>2. CASE ~Goto(p, "fail")
            <4>1. /\ tree' = tree
                  /\ proc' = [proc EXCEPT ![p].pc = FirstStep(p),
                                          ![p].reqs = IF Op(p) = "set" THEN Here(p).config.keys ELSE None]
                BY <2>1, <3>2 DEF Create
            <4>2. /\ proc'[p].pc = FirstStep(p) /\ proc'[p].at = proc[p].at
                  /\ proc'[p].reqs = IF Op(p) = "set" THEN Here(p).config.keys ELSE None
                BY <1>a, <4>1 DEF Idle
            <4> QED BY <4>1, <4>2 DEF FirstStep, Applied, Acknowledged, At
        <3> QED BY <3>1, <3>2
    <2>2. CASE Release(p)
        <3>1. proc[p].pc = "release" /\ tree' = tree
            BY <2>2 DEF Release, At
        <3>2. Goto(p, "lookup") \/ Finish(p, TRUE)
            BY <2>2 DEF Release
        <3>3. proc'[p].at = proc[p].at /\ proc'[p].cmd = proc[p].cmd /\ proc'[p].pc \in {"lookup", "done"}
            BY <1>b, <1>c, <3>2
        <3> QED BY <3>1, <3>3 DEF Applied, Acknowledged, At, Op
    <2>3. CASE WriteConfig(p)
        <3>1. CASE Goto(p, "fail")
            BY <1>c, <1>d, <3>1
        <3>2. CASE ~Goto(p, "fail")
            <4>1. Sets(p)
                BY <1>a, <2>3, <3>2 DEF WriteConfig, Sets, At, Op, Carried
            <4>2. proc'[p].pc = "release"
                BY <1>c, <4>1 DEF Sets
            <4> QED BY <4>1, <4>2
        <3> QED BY <3>1, <3>2
    <2>4. CASE ReadForAdd(p) \/ ReadRoadmap(p)
        <3>1. proc'[p].pc \in {"make", "write", "fail"}
            BY <1>a, <1>c, <2>4 DEF ReadForAdd, ReadRoadmap, Idle
        <3> QED BY <1>d, <3>1
    <2>5. CASE MakeDirectory(p)
        <3>1. proc'[p].pc \in {"make", "write"}
            BY <1>a, <2>5 DEF MakeDirectory, Idle
        <3> QED BY <1>d, <3>1
    <2>6. CASE WriteRoadmap(p)
        <3>1. proc[p].cmd.op # "set"
            BY <1>a, <2>6 DEF WriteRoadmap, At, Carried, Rewriting
        <3>2. /\ proc'[p].pc \in {"release", "reqread", "fail"}
              /\ proc'[p].cmd = proc[p].cmd
            BY <1>a, <1>c, <2>6 DEF WriteRoadmap, AfterWrite, Idle
        <3> QED BY <1>d, <3>1, <3>2
    <2>7. CASE DeleteDirectory(p)
        BY <1>a, <1>d, <2>7 DEF DeleteDirectory, Idle
    <2>8. CASE RenameNext(p)
        <3>1. proc'[p].pc \in {"lock", "rename"}
            BY <1>a, <2>8 DEF RenameNext, At, Idle
        <3> QED BY <1>d, <3>1
    <2>9. CASE Shelve(p)
        <3>1. proc[p].cmd.op # "set" /\ proc[p].pc = "shelve"
            BY <1>a, <2>9 DEF Shelve, At, Carried
        <3>2. Finish(p, TRUE) \/ proc' = [proc EXCEPT ![p].todo = Tail(@)]
            BY <2>9 DEF Shelve
        <3>3. proc'[p].pc \in {"shelve", "done"} /\ proc'[p].cmd = proc[p].cmd
            BY <1>a, <1>b, <3>1, <3>2 DEF Idle
        <3> QED BY <1>d, <3>1, <3>3
    <2>10. CASE ClearNext(p)
        BY <1>a, <1>d, <2>10 DEF ClearNext, At, Idle
    <2>11. CASE EnsureConfig(p) \/ Repair(p) \/ AddKey(p)
        <3>1. Working(p) /\ Op(p) \in {"ensure", "repair"}
            BY <1>a, <2>11 DEF EnsureConfig, Repair, AddKey, At, Working, Op, Carried
        <3> QED BY <3>1, RunsIts
    <2>12. CASE MovePart(p) \/ MoveBack(p) \/ ArchiveEntry(p) \/ Restore(p)
        <3>1. proc'[p].pc = proc[p].pc /\ proc[p].pc \in {"moving", "moveback", "archiving", "restore"}
            <4>1. CASE MovePart(p)
                BY <1>a, <4>1 DEF MovePart, At, Idle
            <4>2. CASE MoveBack(p)
                BY <1>a, <4>2 DEF MoveBack, At, Idle
            <4>3. CASE ArchiveEntry(p)
                BY <1>a, <4>3 DEF ArchiveEntry, At, Idle
            <4>4. CASE Restore(p)
                <5>1. proc[p].pc = "restore" /\ proc' = [proc EXCEPT ![p].todo = Tail(@)]
                    BY <4>4 DEF Restore, At
                <5> QED BY <1>a, <5>1 DEF Idle
            <4> QED BY <2>12, <4>1, <4>2, <4>3, <4>4
        <3> QED BY <1>d, <3>1
    <2>13. CASE Abandon(p)
        <3>1. proc[p].cmd.op # "set"
            BY <2>13 DEF Abandon, At, Migrating, TypeInv, LockInv, Types, ProcOK, OneOK, Op
        <3> QED BY <1>b, <1>d, <2>13, <3>1 DEF Abandon
    <2> QED BY <1>3, <2>1, <2>2, <2>3, <2>4, <2>5, <2>6, <2>7, <2>8, <2>9, <2>10, <2>11, <2>12, <2>13 DEF Stirs
<1> QED BY <1>1, <1>2, <1>3, MostSettle

LEMMA ConfigKeys ==
    ASSUME TypeInv, NEW p \in Procs, Sets(p)
    PROVE  tree'[proc[p].at].config.keys = proc[p].reqs \cup {proc[p].cmd.key}
<1>1. proc[p].at \in Places
    BY Facts
<1> DEFINE x == Config(proc[p].reqs \cup {proc[p].cmd.key})
<1>2. tree' = [tree EXCEPT ![proc[p].at].config = x]
    BY DEF Sets
<1>3. x.keys = proc[p].reqs \cup {proc[p].cmd.key}
    BY DEF Config
<1> HIDE DEF x
<1>4. tree'[proc[p].at].config = x
    BY <1>1, <1>2, OneFile
<1> QED BY <1>3, <1>4

LEMMA SettingsStep ==
    ASSUME TypeInv, TypeInv', Unbegun, SettingsInv, [WsNext]_wsvars, NEW p \in Procs, Advance(p)
    PROVE  SettingsInv'
<1>1. SUFFICES ASSUME ~robbed', ~Ran({"ensure", "repair"})', NEW q \in Procs,
                      proc'[q].at = Flat \/ ~Ran(Taking)'
               PROVE  /\ At(q, "configwrite")' => proc'[q].reqs = Here(q)'.config.keys
                      /\ Applied(q)' => proc'[q].cmd.key \in Here(q)'.config.keys
    BY DEF SettingsInv
<1>2. ~robbed /\ ~Ran({"ensure", "repair"}) /\ (Ran(Taking) => Ran(Taking)')
    BY <1>1, RanStays, AdvanceOnward DEF Onward
<1> DEFINE at == proc'[q].at
<1>3. at \in Places /\ (at = Flat \/ ~Ran(Taking)) /\ Here(q)' = tree'[at]
    BY <1>1, <1>2 DEF TypeInv, LockInv, Types, ProcOK, OneOK, Here
<1>4. \A r \in Procs : proc[r].at = at =>
        /\ At(r, "configwrite") => proc[r].reqs = tree[at].config.keys
        /\ Applied(r) => proc[r].cmd.key \in tree[at].config.keys
    BY <1>2, <1>3 DEF SettingsInv, Here
<1>5. tree'[at].config = tree[at].config \/ (Sets(p) /\ at = proc[p].at)
    BY <1>2, <1>3, ConfigsStay
<1> HIDE DEF at
<1>6. CASE q # p
    <2>1. proc'[q] = proc[q] /\ proc[q].at = at
        BY <1>6, OthersStay DEF Advance, TypeInv, at
    <2>2. CASE tree'[at].config = tree[at].config
        BY <1>3, <1>4, <2>1, <2>2 DEF Applied, Acknowledged, At, Op
    <2>3. CASE Sets(p) /\ at = proc[p].at
        <3>1. proc[p].reqs = tree[at].config.keys
            BY <1>4, <2>3 DEF Sets
        <3>2. tree'[at].config.keys = tree[at].config.keys \cup {proc[p].cmd.key}
            BY <2>3, <3>1, ConfigKeys
        <3>3. ~At(q, "configwrite")
            BY <1>2, <1>6, <2>1, <2>3, LockInvExcludes DEF TypeInv, LockExcludes, Sets, Section, Held, At
        <3> QED BY <1>3, <1>4, <2>1, <3>2, <3>3 DEF Applied, Acknowledged, At, Op
    <2> QED BY <1>5, <2>2, <2>3
<1>7. CASE q = p
    <2>1. At(q, "configwrite")' => proc'[q].reqs = Here(q)'.config.keys
        <3>1. ASSUME proc'[p].pc = "configwrite"
              PROVE  proc'[p].reqs = tree'[at].config.keys
            BY <1>2, <1>7, <3>1, SettingTurns DEF Here, at
        <3> QED BY <1>3, <1>7, <3>1 DEF At
    <2>2. ASSUME Applied(p)'
          PROVE  proc'[p].cmd.key \in tree'[at].config.keys
        <3>1. CASE Sets(p)
            <4>1. proc'[p].cmd = proc[p].cmd /\ proc'[p].at = proc[p].at
                BY <3>1, Facts DEF Sets, Goto, Idle
            <4> QED BY <1>7, <3>1, <4>1, ConfigKeys DEF at
        <3>2. CASE At(p, "release") /\ Op(p) = "set" /\ tree' = tree
                   /\ proc'[p].at = proc[p].at /\ proc'[p].cmd = proc[p].cmd
            <4>1. Applied(p) /\ proc[p].at = at
                BY <1>7, <3>2 DEF Applied, at
            <4> QED BY <1>4, <3>2, <4>1
        <3> QED BY <1>2, <2>2, <3>1, <3>2, SettingTurns
    <2> QED BY <1>3, <1>7, <2>1, <2>2
<1> QED BY <1>6, <1>7

LEMMA SettingsInvKept ==
    TypeInv /\ Unbegun /\ SettingsInv /\ [WsNext]_wsvars => SettingsInv'
<1> SUFFICES ASSUME TypeInv, Unbegun, SettingsInv, [WsNext]_wsvars
             PROVE  SettingsInv'
    OBVIOUS
<1>1. TypeInv'
    BY TypeInvKept
<1>2. ASSUME NEW p \in Procs, Advance(p)
      PROVE  SettingsInv'
    BY <1>1, <1>2, SettingsStep
<1>3. ASSUME proc' = proc, robbed' = robbed, \A v \in Places : tree'[v].config = tree[v].config
      PROVE  SettingsInv'
    <2>1. \A q \in Procs : proc[q].at \in Places
        BY Facts
    <2> QED BY <1>3, <2>1 DEF SettingsInv, Ran, Op, At, Here, Applied, Acknowledged
<1>4. ASSUME NEW at \in Places, Work(at) \/ Age(at)
      PROVE  SettingsInv'
    <2>1. \A v \in Places : tree'[v].config = tree[v].config
        BY <1>4, OneFile DEF Work, Age
    <2> QED BY <1>3, <1>4, <2>1 DEF Work, Age
<1>5. CASE UNCHANGED wsvars
    BY <1>3, <1>5 DEF wsvars, vars
<1> QED BY <1>2, <1>4, <1>5 DEF WsNext, PhaseNext, Surroundings, Rest, Advance

LEMMA SettingsInvInit == WsInit => SettingsInv
<1>1. WsInit => \A p \in Procs : proc[p].pc \in {"idle", "killed"}
    BY DEF WsInit, Init, Idle
<1> QED BY <1>1 DEF SettingsInv, At, Applied, Acknowledged

\* Two settings written at the same time are both kept, by any number of processes,
\* and one made in .planning/config.json is in force in every workstream, whatever
\* is migrated or archived meanwhile: config-set reads the file it changes under the
\* lock and writes it back before the lock is given up (config.cjs).
THEOREM SettingsStayInForce == WsSpec => []SettingsKept
<1>1. WsInit => TypeInv /\ Unbegun /\ SettingsInv
    BY TypeInvInit, UnbegunInit, SettingsInvInit
<1>2. TypeInv /\ Unbegun /\ SettingsInv /\ [WsNext]_wsvars => (TypeInv /\ Unbegun /\ SettingsInv)'
    BY TypeInvKept, UnbegunKept, SettingsInvKept
<1>3. TypeInv /\ SettingsInv => SettingsKept
    <2>1. SUFFICES ASSUME SettingsInv, NEW p \in Procs, Acknowledged(p, {"set"}), ~robbed, ~Ran({"ensure", "repair"})
                   PROVE  /\ ~Ran(Taking) => proc[p].cmd.key \in tree[proc[p].at].config.keys
                          /\ proc[p].at = Flat => proc[p].cmd.key \in tree[Flat].config.keys
        BY DEF SettingsKept, Effective
    <2> QED BY <2>1 DEF SettingsInv, Applied, Here
<1> QED BY <1>1, <1>2, <1>3, PTL DEF WsSpec

-----------------------------------------------------------------------------
(* Phases that are added. *)

\* The phases a roadmap lists, and those that have a directory.
Labels(road) == {<<road[i].id, road[i].name>> : i \in DOMAIN road}
Marks(dirs) == {<<d.id, d.name>> : d \in dirs}
Placed(road, dirs, name) == \E label \in Labels(road) \cap Marks(dirs) : label[2] = name

LEMMA PlacedStays ==
    ASSUME NEW road, NEW longer, NEW dirs, NEW more, NEW name, Placed(road, dirs, name),
           Labels(road) \subseteq Labels(longer), Marks(dirs) \subseteq Marks(more)
    PROVE  Placed(longer, more, name)
    BY DEF Placed

LEMMA EditedLabels ==
    ASSUME NEW road \in Seq(Sections), NEW new, Edited(road, new)
    PROVE  Labels(road) \subseteq Labels(new)
<1>1. new \in Seq(Sections) /\ DOMAIN new = 1..Len(road) /\ DOMAIN road = 1..Len(road)
    BY DEF Edited
<1>2. \A i \in 1..Len(road) : new[i].id = road[i].id /\ new[i].name = road[i].name
    BY DEF Edited, SameSection
<1> QED BY <1>1, <1>2 DEF Labels

LEMMA LongerLabels ==
    ASSUME NEW road \in Seq(Sections), NEW new \in Seq(Sections), NEW k \in 1..Len(new),
           \A i \in 1..Len(road) : \E j \in 1..Len(new) : new[j] = road[i]
    PROVE  Labels(road) \subseteq Labels(new) /\ <<new[k].id, new[k].name>> \in Labels(new)
<1>1. DOMAIN new = 1..Len(new) /\ DOMAIN road = 1..Len(road)
    OBVIOUS
<1> QED BY <1>1 DEF Labels

LEMMA NewLabel == \A id, name, dep : /\ NewSection(id, name, dep).id = id
                                    /\ NewSection(id, name, dep).name = name
    BY DEF NewSection

LEMMA AppendedLabels ==
    ASSUME NEW road \in Seq(Sections), NEW n \in Nat \ {0}, NEW name \in Titles
    PROVE  /\ Labels(road) \subseteq Labels(Appended(road, n, name))
           /\ <<<<n, 0>>, name>> \in Labels(Appended(road, n, name))
<1> DEFINE new == Appended(road, n, name)
           k == Len(new)
<1>1. /\ new \in Seq(Sections) /\ Len(new) = Len(road) + 1
      /\ \A i \in 1..Len(road) : new[i] = road[i]
      /\ new[k] = NewSection(<<n, 0>>, name, <<n - 1, 0>>)
    BY AppendedSection
<1> HIDE DEF new, k
<1>2. k \in 1..Len(new) /\ \A i \in 1..Len(road) : \E j \in 1..Len(new) : new[j] = road[i]
    BY <1>1 DEF k
<1>3. Labels(road) \subseteq Labels(new) /\ <<new[k].id, new[k].name>> \in Labels(new)
    BY <1>1, <1>2, LongerLabels
<1>4. new[k].id = <<n, 0>> /\ new[k].name = name
    BY <1>1, NewLabel
<1> QED BY <1>3, <1>4 DEF new

LEMMA InsertedLabels ==
    ASSUME NEW road \in Seq(Sections), NEW base \in Numbers, NEW n \in Nat, NEW name \in Titles,
           SectionOf(road, base) # 0
    PROVE  /\ Labels(road) \subseteq Labels(InsertedAfter(road, base, n, name))
           /\ <<<<base[1], n>>, name>> \in Labels(InsertedAfter(road, base, n, name))
<1> DEFINE new == InsertedAfter(road, base, n, name)
           k == SectionOf(road, base) + 1
<1>1. /\ new \in Seq(Sections) /\ Len(new) = Len(road) + 1 /\ k \in 2..Len(new)
      /\ \A i \in 1..(k - 1) : new[i] = road[i]
      /\ \A i \in k..Len(road) : new[i + 1] = road[i]
      /\ new[k] = NewSection(<<base[1], n>>, name, base)
    BY InsertedSection
<1> HIDE DEF new, k
<1>2. k \in 1..Len(new) /\ \A i \in 1..Len(road) : \E j \in 1..Len(new) : new[j] = road[i]
    <2>1. Len(road) \in Nat /\ k \in 1..Len(new)
        BY <1>1
    <2>2. ASSUME NEW i \in 1..Len(road)
          PROVE  \E j \in 1..Len(new) : new[j] = road[i]
        <3>1. CASE i < k
            BY <1>1, <2>1, <3>1
        <3>2. CASE i >= k
            <4>1. i + 1 \in 1..Len(new) /\ i \in k..Len(road)
                BY <1>1, <2>1, <3>2
            <4> QED BY <1>1, <4>1
        <3> QED BY <1>1, <2>1, <3>1, <3>2
    <2> QED BY <2>1, <2>2
<1>3. Labels(road) \subseteq Labels(new) /\ <<new[k].id, new[k].name>> \in Labels(new)
    BY <1>1, <1>2, LongerLabels
<1>4. new[k].id = <<base[1], n>> /\ new[k].name = name
    BY <1>1, NewLabel
<1> QED BY <1>3, <1>4 DEF new

LEMMA NewMark ==
    ASSUME NEW dirs, NEW id, NEW name
    PROVE  /\ Marks(dirs) \subseteq Marks(dirs \cup {Directory(id, name)})
           /\ <<id, name>> \in Marks(dirs \cup {Directory(id, name)})
<1> DEFINE d == Directory(id, name)
<1>1. d.id = id /\ d.name = name
    BY DEF Directory
<1> HIDE DEF d
<1>2. <<d.id, d.name>> \in Marks(dirs \cup {d})
    BY DEF Marks
<1>3. Marks(dirs) \subseteq Marks(dirs \cup {d})
    BY DEF Marks
<1> QED BY <1>1, <1>2, <1>3 DEF d

\* The commands that take phases away.
Disturbing == Taking \cup {"milestone"}
\* Those that give a phase another number, or another place.
Moving == {"remove", "ws-create", "ws-complete"}

Adds(p) == Op(p) \in {"add", "insert"}
Asked(p) == {proc[p].cmd.names[k] : k \in DOMAIN proc[p].cmd.names}
Pending(p) == {proc[p].todo[m] : m \in DOMAIN proc[p].todo}
Drafting(p) == At(p, "make") \/ At(p, "write")
Kept(p) == At(p, "release") \/ (At(p, "done") /\ proc[p].ok)

PhasesInv ==
    ~robbed /\ ~Ran(Disturbing) =>
        \A p \in Procs :
            /\ Drafting(p) =>
                 /\ Labels(Here(p).road) \subseteq Labels(proc[p].road)
                 /\ Adds(p) => \A name \in Asked(p) :
                      (At(p, "make") /\ name \in Pending(p)) \/ Placed(proc[p].road, Here(p).dirs, name)
            /\ Kept(p) =>
                 (Adds(p) => \A name \in Asked(p) : Placed(Here(p).road, Here(p).dirs, name))

\* A roadmap is rewritten.
Writes(p) ==
    /\ At(p, "write")
    /\ tree' = [tree EXCEPT ![proc[p].at].road = Rewritten(p)]
    /\ proc' = [proc EXCEPT ![p].pc = AfterWrite(p), ![p].road = Rewritten(p)]

LEMMA RepairLeaves ==
    ASSUME TypeInv, NEW p \in Procs, Repair(p)
    PROVE  \A v \in Places : tree'[v].road = tree[v].road /\ tree'[v].dirs = tree[v].dirs
<1>1. tree \in [Places -> Trees] /\ proc[p].at \in Places
    BY Facts DEF TypeInv, FilesOK, TreesOK
<1>2. \A t \in Trees : \A a, b : [t EXCEPT !.config = a, !.state = b].road = t.road
                              /\ [t EXCEPT !.config = a, !.state = b].dirs = t.dirs
    BY DEF Trees
<1>3. CASE tree' = tree
    BY <1>3
<1>4. CASE tree' # tree
    <2>1. PICK a, b : tree' = [tree EXCEPT ![proc[p].at] = [tree[proc[p].at] EXCEPT !.config = a, !.state = b]]
        BY <1>4 DEF Repair
    <2> DEFINE new == [tree[proc[p].at] EXCEPT !.config = a, !.state = b]
    <2>2. new.road = tree[proc[p].at].road /\ new.dirs = tree[proc[p].at].dirs
        BY <1>1, <1>2
    <2>3. tree' = [tree EXCEPT ![proc[p].at] = new]
        BY <2>1
    <2> HIDE DEF new
    <2> QED BY <1>1, <2>2, <2>3
<1> QED BY <1>3, <1>4

LEMMA PhaseFilesChange ==
    ASSUME TypeInv, NEW p \in Procs, Advance(p), NEW v \in Places
    PROVE  \/ tree'[v].road = tree[v].road /\ tree'[v].dirs = tree[v].dirs
           \/ (MakeDirectory(p) \/ Writes(p)) /\ v = proc[p].at
           \/ /\ Working(p) /\ Op(p) \in {"milestone", "clear"} /\ (Shelve(p) \/ ClearNext(p))
              /\ tree'[v].road = tree[v].road /\ tree'[v].dirs \subseteq tree[v].dirs
           \/ Working(p) /\ Op(p) \in Moving
<1>a. /\ Carried(p, proc[p]) /\ proc[p].at \in Places
    BY Facts
<1>b. \A at \in Places : \A x :
        tree' = [tree EXCEPT ![at].config = x] \/ tree' = tree
            => tree'[v].road = tree[v].road /\ tree'[v].dirs = tree[v].dirs
    BY OneFile
<1>1. CASE Settled(p)
    BY <1>1 DEF Settled, SameFiles
<1>2. CASE Torn(p)
    BY <1>2, <1>a, <1>b DEF Torn
<1>3. CASE Stirs(p)
    <2>1. CASE Create(p) \/ Release(p) \/ ReadForAdd(p) \/ ReadRoadmap(p)
        BY <2>1 DEF Create, Release, ReadForAdd, ReadRoadmap, disk
    <2>2. CASE DeleteDirectory(p) \/ RenameNext(p)
        BY <1>a, <2>2 DEF DeleteDirectory, RenameNext, At, Working, Op, Carried, Moving
    <2>3. CASE Shelve(p) \/ ClearNext(p)
        <3>1. Working(p) /\ Op(p) \in {"milestone", "clear"}
            BY <1>a, <2>3 DEF Shelve, ClearNext, At, Working, Op, Carried
        <3>2. \/ tree' = tree
              \/ \E x : x \subseteq tree[proc[p].at].dirs /\ tree' = [tree EXCEPT ![proc[p].at].dirs = x]
            BY <2>3 DEF Shelve, ClearNext
        <3>3. CASE tree' = tree
            BY <3>1, <3>3
        <3>4. ASSUME NEW x, x \subseteq tree[proc[p].at].dirs, tree' = [tree EXCEPT ![proc[p].at].dirs = x]
              PROVE  tree'[v].road = tree[v].road /\ tree'[v].dirs \subseteq tree[v].dirs
            <4>1. tree'[v].road = tree[v].road /\ tree'[proc[p].at].dirs = x
                BY <1>a, <3>4, OneFile
            <4>2. v # proc[p].at => tree'[v].dirs = tree[v].dirs
                BY <1>a, <3>4, OneFile
            <4> QED BY <3>4, <4>1, <4>2
        <3> QED BY <2>3, <3>1, <3>2, <3>3, <3>4
    <2>4. CASE MakeDirectory(p)
        <3>1. \E x : tree' = [tree EXCEPT ![proc[p].at].dirs = x]
            BY <2>4 DEF MakeDirectory
        <3>2. v # proc[p].at => tree'[v].dirs = tree[v].dirs
            BY <1>a, <3>1, OneFile
        <3>3. tree'[v].road = tree[v].road
            BY <1>a, <3>1, OneFile
        <3> QED BY <2>4, <3>2, <3>3
    <2>5. CASE WriteRoadmap(p)
        <3>1. CASE tree' = tree
            BY <3>1
        <3>2. CASE tree' # tree
            <4>1. Writes(p)
                BY <2>5, <3>2 DEF WriteRoadmap, Writes
            <4>2. v # proc[p].at => tree'[v].road = tree[v].road
                BY <1>a, <4>1, OneFile DEF Writes
            <4>3. tree'[v].dirs = tree[v].dirs
                BY <1>a, <4>1, OneFile DEF Writes
            <4> QED BY <4>1, <4>2, <4>3
        <3> QED BY <3>1, <3>2
    <2>6. CASE WriteConfig(p) \/ EnsureConfig(p) \/ AddKey(p)
        <3>1. tree' = tree \/ \E x : tree' = [tree EXCEPT ![proc[p].at].config = x]
            BY <2>6 DEF WriteConfig, EnsureConfig, AddKey
        <3> QED BY <1>a, <1>b, <3>1
    <2>7. CASE Repair(p)
        BY <2>7, RepairLeaves
    <2>8. CASE MovePart(p) \/ MoveBack(p) \/ Abandon(p) \/ ArchiveEntry(p) \/ Restore(p)
        <3>1. proc[p].pc \in Migrating \cup Archiving /\ Working(p)
            BY <2>8 DEF MovePart, MoveBack, Abandon, ArchiveEntry, Restore, At, Migrating, Archiving, Working
        <3>2. Op(p) \in {"ws-create", "ws-complete"}
            BY <3>1 DEF TypeInv, LockInv, Types, ProcOK, OneOK
        <3> QED BY <3>1, <3>2 DEF Moving
    <2> QED BY <1>3, <2>1, <2>2, <2>3, <2>4, <2>5, <2>6, <2>7, <2>8 DEF Stirs
<1> QED BY <1>1, <1>2, <1>3, MostSettle

\* Apart from those that take phases away, only two steps change what lists them.
LEMMA PhaseFilesStay ==
    ASSUME TypeInv, NEW p \in Procs, Advance(p), ~Ran(Disturbing), NEW v \in Places
    PROVE  \/ tree'[v].road = tree[v].road /\ tree'[v].dirs = tree[v].dirs
           \/ (MakeDirectory(p) \/ Writes(p)) /\ v = proc[p].at
<1>1. Working(p) => Op(p) \notin Disturbing
    BY RunsIts
<1> QED BY <1>1, PhaseFilesChange DEF Disturbing, Taking, Moving

\* What a step that makes a directory adds to the text it holds.
LEMMA DraftGrows ==
    ASSUME TypeInv, NEW p \in Procs, MakeDirectory(p)
    PROVE  LET at == proc[p].at
               name == Head(proc[p].todo)
           IN  /\ proc'[p].cmd = proc[p].cmd /\ proc'[p].at = at
               /\ proc'[p].pc = IF Len(proc[p].todo) = 1 THEN "write" ELSE "make"
               /\ proc'[p].todo = Tail(proc[p].todo)
               /\ Labels(proc[p].road) \subseteq Labels(proc'[p].road)
               /\ tree'[at].road = tree[at].road
               /\ Marks(tree[at].dirs) \subseteq Marks(tree'[at].dirs)
               /\ Placed(proc'[p].road, tree'[at].dirs, name)
<1> DEFINE r == proc[p]
           c == r.cmd
           at == r.at
           name == Head(r.todo)
           id == IF c.op = "insert" THEN <<c.base[1], r.num>> ELSE <<r.num, 0>>
           road == IF c.op = "insert" THEN InsertedAfter(r.road, c.base, r.num, name)
                   ELSE Appended(r.road, r.num, name)
<1>1. r.pc = "make" /\ c \in Menu[p] /\ Carried(p, r) /\ at \in Places
    BY Facts DEF MakeDirectory, At, Working
<1>2. /\ c.op \in {"add", "insert"} /\ r.road \in Seq(Sections) /\ r.num \in Nat \ {0}
      /\ r.todo \in Seq(Titles) /\ r.todo # <<>>
      /\ c.op = "insert" => SectionOf(r.road, c.base) # 0 /\ Len(r.todo) = 1
    BY <1>1 DEF Carried
<1>3. name \in Titles
    BY <1>2, HeadAndTail
<1>4. c.op = "insert" => c.base \in Numbers
    BY <1>1, Parameters
<1>6. Labels(r.road) \subseteq Labels(road) /\ <<id, name>> \in Labels(road)
    <2> HIDE DEF name
    <2>1. CASE c.op = "insert"
        <3>1. /\ Labels(r.road) \subseteq Labels(InsertedAfter(r.road, c.base, r.num, name))
              /\ <<<<c.base[1], r.num>>, name>> \in Labels(InsertedAfter(r.road, c.base, r.num, name))
            <4>1. c.base \in Numbers /\ r.num \in Nat /\ SectionOf(r.road, c.base) # 0
                BY <1>2, <1>4, <2>1
            <4> QED BY <1>2, <1>3, <4>1, InsertedLabels
        <3> QED BY <2>1, <3>1
    <2>2. CASE c.op # "insert"
        <3>1. /\ Labels(r.road) \subseteq Labels(Appended(r.road, r.num, name))
              /\ <<<<r.num, 0>>, name>> \in Labels(Appended(r.road, r.num, name))
            BY <1>2, <1>3, AppendedLabels
        <3> QED BY <2>2, <3>1
    <2> QED BY <2>1, <2>2
<1> HIDE DEF id, name, road
<1> DEFINE dirs == tree[at].dirs \cup {Directory(id, name)}
<1>7. tree' = [tree EXCEPT ![at].dirs = dirs]
    BY DEF MakeDirectory, id, name
<1>8. Marks(tree[at].dirs) \subseteq Marks(dirs) /\ <<id, name>> \in Marks(dirs)
    BY NewMark
<1> HIDE DEF dirs
<1>9. tree'[at].dirs = dirs /\ tree'[at].road = tree[at].road
    BY <1>1, <1>7, OneFile
<1>10. proc' = [proc EXCEPT ![p].pc = IF Len(r.todo) = 1 THEN "write" ELSE "make",
                            ![p].todo = Tail(r.todo), ![p].num = r.num + 1, ![p].road = road]
    BY DEF MakeDirectory, road, name
<1>11. /\ proc'[p].pc = (IF Len(r.todo) = 1 THEN "write" ELSE "make")
       /\ proc'[p].cmd = c /\ proc'[p].at = at
       /\ proc'[p].road = road /\ proc'[p].todo = Tail(r.todo)
    BY <1>10, Facts DEF Idle
<1>12. Placed(road, dirs, name)
    <2>1. <<id, name>> \in Labels(road) \cap Marks(dirs) /\ <<id, name>>[2] = name
        BY <1>6, <1>8
    <2> QED BY <2>1 DEF Placed
<1> QED BY <1>6, <1>8, <1>9, <1>11, <1>12 DEF name

\* What a roadmap that is written back keeps of the text it was read from.
LEMMA WriteKeeps ==
    ASSUME TypeInv, NEW p \in Procs, Writes(p), Op(p) # "remove"
    PROVE  LET at == proc[p].at
           IN  /\ proc'[p].cmd = proc[p].cmd /\ proc'[p].at = at /\ proc'[p].pc \in {"release", "reqread"}
               /\ Labels(proc[p].road) \subseteq Labels(tree'[at].road)
               /\ tree'[at].dirs = tree[at].dirs
<1>1. proc[p].pc = "write" /\ proc[p].at \in Places /\ Carried(p, proc[p])
    BY Facts DEF Writes, At
<1>2. proc[p].road \in Seq(Sections) /\ Edited(proc[p].road, Rewritten(p))
    BY <1>1, RewrittenRoadmap DEF Carried
<1>3. Labels(proc[p].road) \subseteq Labels(Rewritten(p))
    BY <1>2, EditedLabels
<1>4. tree'[proc[p].at].road = Rewritten(p) /\ tree'[proc[p].at].dirs = tree[proc[p].at].dirs
    BY <1>1, OneFile DEF Writes
<1>5. proc'[p].pc = AfterWrite(p) /\ proc'[p].cmd = proc[p].cmd /\ proc'[p].at = proc[p].at
    BY Facts DEF Writes, Idle
<1> QED BY <1>3, <1>4, <1>5 DEF AfterWrite

\* How a process comes to hold a text, and to have its phases written.
LEMMA PhaseTurns ==
    ASSUME TypeInv, NEW p \in Procs, Advance(p), ~Ran(Disturbing)
    PROVE  /\ Drafting(p)' =>
                \/ MakeDirectory(p)
                \/ /\ tree' = tree /\ proc'[p].at = proc[p].at /\ proc'[p].road = Here(p).road
                   /\ Adds(p)' => proc'[p].pc = "make" /\ proc'[p].todo = proc'[p].cmd.names
           /\ Kept(p)' /\ Adds(p)' =>
                \/ Writes(p)
                \/ At(p, "release") /\ tree' = tree /\ proc'[p].at = proc[p].at /\ proc'[p].cmd = proc[p].cmd
<1>a. /\ DOMAIN proc = Procs /\ DOMAIN proc[p] = DOMAIN Idle /\ Carried(p, proc[p]) /\ proc[p].at \in Places
    BY Facts
<1>b. \A ok : Finish(p, ok) => proc'[p].pc = "done" /\ proc'[p].cmd = proc[p].cmd /\ proc'[p].at = proc[p].at
                             /\ proc'[p].ok = ok
    BY FinishOnward
<1>c. \A pc : Goto(p, pc) => proc'[p].pc = pc /\ proc'[p].cmd = proc[p].cmd /\ proc'[p].at = proc[p].at
    BY <1>a DEF Goto, Idle
<1>d. ASSUME proc'[p].pc \notin {"make", "write"}, proc'[p].pc \notin {"release", "done"} \/ proc'[p].cmd.op \notin Adding
      PROVE  ~Drafting(p)' /\ ~(Kept(p)' /\ Adds(p)')
    BY <1>d DEF Drafting, Kept, Adds, Adding, At, Op
<1>e. Working(p) => Op(p) \notin Disturbing
    BY RunsIts
<1>1. CASE Settled(p)
    BY <1>1 DEF Settled, Drafting, Kept, Adds, Adding, At, Op
<1>2. CASE Torn(p)
    BY <1>2, <1>d DEF Torn
<1>3. CASE Stirs(p)
    <2>1. CASE (At(p, "lock") \/ At(p, "last")) /\ Create(p)
        <3>1. CASE Goto(p, "fail")
            BY <1>c, <1>d, <3>1
        <3>2. CASE ~Goto(p, "fail")
            <4>1. proc' = [proc EXCEPT ![p].pc = FirstStep(p),
                                       ![p].reqs = IF Op(p) = "set" THEN Here(p).config.keys ELSE None]
                BY <2>1, <3>2 DEF Create
            <4>2. proc'[p].pc \in {"configwrite", "read"}
                BY <1>a, <4>1 DEF Idle, FirstStep
            <4> QED BY <1>d, <4>2
        <3> QED BY <3>1, <3>2
    <2>2. CASE Release(p)
        <3>1. proc[p].pc = "release" /\ tree' = tree
            BY <2>2 DEF Release, At
        <3>2. Goto(p, "lookup") \/ Finish(p, TRUE)
            BY <2>2 DEF Release
        <3>3. proc'[p].at = proc[p].at /\ proc'[p].cmd = proc[p].cmd /\ proc'[p].pc \in {"lookup", "done"}
            BY <1>b, <1>c, <3>2
        <3> QED BY <3>1, <3>3 DEF Drafting, Kept, At
    <2>3. CASE ReadForAdd(p)
        <3>1. CASE Goto(p, "fail")
            BY <1>c, <1>d, <3>1
        <3>2. CASE ~Goto(p, "fail")
            <4>1. /\ tree' = tree
                  /\ \E n : proc' = [proc EXCEPT ![p].pc = "make", ![p].road = Here(p).road,
                                                 ![p].todo = proc[p].cmd.names, ![p].num = n]
                BY <2>3, <3>2 DEF ReadForAdd, disk
            <4>2. /\ proc'[p].pc = "make" /\ proc'[p].road = Here(p).road /\ proc'[p].at = proc[p].at
                  /\ proc'[p].cmd = proc[p].cmd /\ proc'[p].todo = proc[p].cmd.names
                BY <1>a, <4>1 DEF Idle
            <4> QED BY <4>1, <4>2 DEF Kept, At
        <3> QED BY <3>1, <3>2
    <2>4. CASE ReadRoadmap(p)
        <3>1. CASE Goto(p, "fail")
            BY <1>c, <1>d, <3>1
        <3>2. CASE ~Goto(p, "fail")
            <4>1. /\ tree' = tree /\ proc' = [proc EXCEPT ![p].pc = "write", ![p].road = Here(p).road]
                  /\ proc[p].cmd.op \in {"remove", "complete", "progress", "annotate"}
                BY <2>4, <3>2 DEF ReadRoadmap, disk, Op
            <4>2. /\ proc'[p].pc = "write" /\ proc'[p].road = Here(p).road /\ proc'[p].at = proc[p].at
                  /\ proc'[p].cmd = proc[p].cmd
                BY <1>a, <4>1 DEF Idle
            <4> QED BY <4>1, <4>2 DEF Kept, Adds, At, Op
        <3> QED BY <3>1, <3>2
    <2>5. CASE MakeDirectory(p)
        <3>1. proc'[p].pc \in {"make", "write"}
            BY <1>a, <2>5 DEF MakeDirectory, Idle
        <3> QED BY <2>5, <3>1 DEF Kept, At
    <2>6. CASE WriteRoadmap(p)
        <3>1. CASE Goto(p, "fail")
            BY <1>c, <1>d, <3>1
        <3>2. CASE Goto(p, "release") /\ Op(p) = "annotate"
            BY <1>c, <1>d, <3>2 DEF Op, Adding
        <3>3. CASE ~Goto(p, "fail") /\ ~(Goto(p, "release") /\ Op(p) = "annotate")
            <4>1. Writes(p)
                BY <2>6, <3>3 DEF WriteRoadmap, Writes
            <4>2. proc'[p].pc \in {"release", "reqread"}
                BY <1>a, <4>1 DEF Writes, AfterWrite, Idle
            <4> QED BY <4>1, <4>2 DEF Drafting, At
        <3> QED BY <3>1, <3>2, <3>3
    <2>7. CASE DeleteDirectory(p) \/ RenameNext(p) \/ Shelve(p) \/ ClearNext(p)
        <3>1. Working(p) /\ Op(p) \in {"remove", "milestone", "clear"}
            BY <1>a, <2>7 DEF DeleteDirectory, RenameNext, Shelve, ClearNext, At, Working, Op, Carried
        <3> QED BY <1>e, <3>1 DEF Disturbing, Taking
    <2>8. CASE WriteConfig(p) \/ EnsureConfig(p)
        <3>1. proc[p].cmd.op \in {"set", "ensure"}
            BY <1>a, <2>8 DEF WriteConfig, EnsureConfig, At, Carried
        <3>2. Goto(p, "release") \/ Goto(p, "fail") \/ Finish(p, TRUE)
            BY <2>8 DEF WriteConfig, EnsureConfig
        <3>3. proc'[p].pc \in {"release", "fail", "done"} /\ proc'[p].cmd.op \in {"set", "ensure"}
            BY <1>b, <1>c, <3>1, <3>2
        <3> QED BY <3>3 DEF Drafting, Kept, Adds, At, Op
    <2>9. CASE Repair(p) \/ AddKey(p)
        <3>1. proc'[p].pc \in {"repair", "addkey"}
            <4>1. CASE Repair(p)
                BY <1>a, <4>1 DEF Repair, At, Idle
            <4>2. CASE AddKey(p)
                BY <1>a, <4>2 DEF AddKey, At, Idle
            <4> QED BY <2>9, <4>1, <4>2
        <3> QED BY <1>d, <3>1
    <2>10. CASE MovePart(p) \/ MoveBack(p) \/ Abandon(p) \/ ArchiveEntry(p) \/ Restore(p)
        <3>1. proc[p].pc \in Migrating \cup Archiving /\ Working(p)
            BY <2>10 DEF MovePart, MoveBack, Abandon, ArchiveEntry, Restore, At, Migrating, Archiving, Working
        <3>2. Op(p) \in {"ws-create", "ws-complete"}
            BY <3>1 DEF TypeInv, LockInv, Types, ProcOK, OneOK
        <3> QED BY <1>e, <3>1, <3>2 DEF Disturbing, Taking
    <2> QED BY <1>3, <2>1, <2>2, <2>3, <2>4, <2>5, <2>6, <2>7, <2>8, <2>9, <2>10 DEF Stirs
<1> QED BY <1>1, <1>2, <1>3, MostSettle

LEMMA HeadOrTail ==
    ASSUME NEW T, NEW s \in Seq(T), s # <<>>, NEW m \in DOMAIN s
    PROVE  s[m] = Head(s) \/ (Len(s) # 1 /\ \E k \in DOMAIN Tail(s) : Tail(s)[k] = s[m])
<1>1. /\ Len(s) \in Nat \ {0} /\ DOMAIN s = 1..Len(s) /\ Head(s) = s[1]
      /\ DOMAIN Tail(s) = 1..(Len(s) - 1) /\ \A k \in 1..(Len(s) - 1) : Tail(s)[k] = s[k + 1]
    BY HeadTailProperties, EmptySeq
<1> DEFINE k == m - 1
<1>2. CASE m = 1
    BY <1>1, <1>2
<1>3. CASE m # 1
    <2>1. k \in 1..(Len(s) - 1) /\ m = k + 1 /\ Len(s) # 1
        BY <1>1, <1>3
    <2> HIDE DEF k
    <2>2. Tail(s)[k] = s[m]
        BY <1>1, <2>1
    <2> QED BY <1>1, <2>1, <2>2
<1> QED BY <1>2, <1>3

LEMMA PhasesStep ==
    ASSUME TypeInv, TypeInv', Unbegun, PhasesInv, [WsNext]_wsvars, NEW p \in Procs, Advance(p)
    PROVE  PhasesInv'
<1>1. SUFFICES ASSUME ~robbed', ~Ran(Disturbing)', NEW q \in Procs
               PROVE  /\ Drafting(q)' =>
                           /\ Labels(Here(q).road)' \subseteq Labels(proc[q].road)'
                           /\ Adds(q)' => \A name \in Asked(q)' :
                                (At(q, "make")' /\ name \in Pending(q)')
                                    \/ Placed(proc'[q].road, Here(q)'.dirs, name)
                      /\ Kept(q)' => (Adds(q)' => \A name \in Asked(q)' :
                                                    Placed(Here(q)'.road, Here(q)'.dirs, name))
    BY DEF PhasesInv
<1>2. ~robbed /\ ~Ran(Disturbing)
    BY <1>1, RanStays, AdvanceOnward DEF Onward
<1> DEFINE at == proc'[q].at
<1>3. at \in Places /\ Here(q)' = tree'[at]
    BY DEF TypeInv, LockInv, Types, ProcOK, OneOK, Here
<1>4. \A r \in Procs : proc[r].at = at =>
        /\ Drafting(r) =>
             /\ Labels(tree[at].road) \subseteq Labels(proc[r].road)
             /\ Adds(r) => \A name \in Asked(r) :
                  (At(r, "make") /\ name \in Pending(r)) \/ Placed(proc[r].road, tree[at].dirs, name)
        /\ Kept(r) => (Adds(r) => \A name \in Asked(r) : Placed(tree[at].road, tree[at].dirs, name))
    BY <1>2 DEF PhasesInv, Here
<1>5. \/ tree'[at].road = tree[at].road /\ tree'[at].dirs = tree[at].dirs
      \/ (MakeDirectory(p) \/ Writes(p)) /\ at = proc[p].at
    BY <1>2, <1>3, PhaseFilesStay
<1> HIDE DEF at
<1>6. CASE q # p
    <2>1. proc'[q] = proc[q] /\ proc[q].at = at
        BY <1>6, OthersStay DEF Advance, TypeInv, at
    <2>2. /\ Drafting(q)' = Drafting(q) /\ Adds(q)' = Adds(q) /\ Kept(q)' = Kept(q) /\ Asked(q)' = Asked(q)
          /\ Pending(q)' = Pending(q) /\ At(q, "make")' = At(q, "make")
        BY <2>1 DEF Drafting, Adds, Kept, Asked, Pending, At, Op
    <2>3. CASE tree'[at].road = tree[at].road /\ tree'[at].dirs = tree[at].dirs
        BY <1>3, <1>4, <2>1, <2>2, <2>3
    <2>4. CASE (MakeDirectory(p) \/ Writes(p)) /\ at = proc[p].at
        <3>1. ~Drafting(q)
            BY <1>2, <1>6, <2>1, <2>4, LockInvExcludes
               DEF TypeInv, LockExcludes, Drafting, MakeDirectory, Writes, Section, Held, At
        <3>2. Labels(tree[at].road) \subseteq Labels(tree'[at].road) /\ Marks(tree[at].dirs) \subseteq Marks(tree'[at].dirs)
            <4>1. CASE MakeDirectory(p)
                BY <2>4, <4>1, DraftGrows
            <4>2. CASE Writes(p)
                <5>1. Labels(tree[at].road) \subseteq Labels(proc[p].road)
                    BY <1>4, <2>4, <4>2 DEF Drafting, Writes
                <5>2. Op(p) # "remove"
                    <6>1. Working(p)
                        BY <4>2 DEF Writes, At, Working
                    <6> QED BY <1>2, <6>1, RunsIts DEF Disturbing, Taking
                <5> QED BY <2>4, <4>2, <5>1, <5>2, WriteKeeps
            <4> QED BY <2>4, <4>1, <4>2
        <3>3. \A name : Placed(tree[at].road, tree[at].dirs, name) => Placed(tree'[at].road, tree'[at].dirs, name)
            BY <3>2, PlacedStays
        <3> QED BY <1>3, <1>4, <2>1, <2>2, <3>1, <3>3
    <2> QED BY <1>5, <2>3, <2>4
<1>7. CASE q = p
    <2>1. ASSUME Drafting(p)'
          PROVE  /\ Labels(tree'[at].road) \subseteq Labels(proc'[p].road)
                 /\ Adds(p)' => \A name \in Asked(p)' :
                      (At(p, "make")' /\ name \in Pending(p)') \/ Placed(proc'[p].road, tree'[at].dirs, name)
        <3>1. CASE MakeDirectory(p)
            <4> DEFINE done == Head(proc[p].todo)
            <4>1. /\ proc'[p].cmd = proc[p].cmd /\ proc[p].at = at
                  /\ proc'[p].pc = IF Len(proc[p].todo) = 1 THEN "write" ELSE "make"
                  /\ proc'[p].todo = Tail(proc[p].todo)
                  /\ Labels(proc[p].road) \subseteq Labels(proc'[p].road)
                  /\ tree'[at].road = tree[at].road
                  /\ Marks(tree[at].dirs) \subseteq Marks(tree'[at].dirs)
                  /\ Placed(proc'[p].road, tree'[at].dirs, done)
                BY <1>7, <3>1, DraftGrows DEF at
            <4>2. At(p, "make") /\ Drafting(p)
                BY <3>1 DEF MakeDirectory, Drafting
            <4>3. proc[p].todo \in Seq(Titles) /\ proc[p].todo # <<>>
                BY <4>2, Facts DEF Carried, At
            <4>4. \A name \in Pending(p) : name = done \/ (Len(proc[p].todo) # 1 /\ name \in Pending(p)')
                <5>1. \A m \in DOMAIN proc[p].todo :
                        \/ proc[p].todo[m] = done
                        \/ /\ Len(proc[p].todo) # 1
                           /\ \E k \in DOMAIN Tail(proc[p].todo) : Tail(proc[p].todo)[k] = proc[p].todo[m]
                    BY <4>3, HeadOrTail
                <5> QED BY <4>1, <5>1 DEF Pending
            <4>5. Asked(p)' = Asked(p) /\ Adds(p)' = Adds(p) /\ (At(p, "make")' <=> Len(proc[p].todo) # 1)
                BY <4>1 DEF Asked, Adds, Op, At
            <4>6. /\ Labels(tree[at].road) \subseteq Labels(proc[p].road)
                  /\ Adds(p) => \A name \in Asked(p) : name \in Pending(p) \/ Placed(proc[p].road, tree[at].dirs, name)
                BY <1>4, <4>1, <4>2
            <4>7. \A name : Placed(proc[p].road, tree[at].dirs, name) => Placed(proc'[p].road, tree'[at].dirs, name)
                BY <4>1, PlacedStays
            <4> HIDE DEF done
            <4> QED BY <4>1, <4>4, <4>5, <4>6, <4>7
        <3>2. CASE /\ tree' = tree /\ proc'[p].at = proc[p].at /\ proc'[p].road = Here(p).road
                   /\ Adds(p)' => proc'[p].pc = "make" /\ proc'[p].todo = proc'[p].cmd.names
            <4>1. Labels(tree'[at].road) = Labels(proc'[p].road)
                BY <1>7, <3>2 DEF Here, at
            <4>2. Adds(p)' => At(p, "make")' /\ Asked(p)' = Pending(p)'
                BY <3>2 DEF At, Asked, Pending
            <4> QED BY <4>1, <4>2
        <3> QED BY <1>2, <2>1, <3>1, <3>2, PhaseTurns
    <2>2. ASSUME Kept(p)', Adds(p)', NEW name \in Asked(p)'
          PROVE  Placed(tree'[at].road, tree'[at].dirs, name)
        <3>1. CASE Writes(p)
            <4>1. Op(p) # "remove" /\ At(p, "write") /\ ~At(p, "make")
                <5>1. Working(p)
                    BY <3>1 DEF Writes, At, Working
                <5>2. Op(p) # "remove"
                    BY <1>2, <5>1, RunsIts DEF Disturbing, Taking
                <5> QED BY <3>1, <5>2 DEF Writes, At
            <4>2. /\ proc'[p].cmd = proc[p].cmd /\ proc[p].at = at
                  /\ Labels(proc[p].road) \subseteq Labels(tree'[at].road) /\ tree'[at].dirs = tree[at].dirs
                BY <1>7, <3>1, <4>1, WriteKeeps DEF at
            <4>3. Adds(p) /\ name \in Asked(p)
                BY <2>2, <4>2 DEF Adds, Asked, Op
            <4>4. Placed(proc[p].road, tree[at].dirs, name)
                BY <1>4, <4>1, <4>2, <4>3 DEF Drafting
            <4> QED BY <4>2, <4>4, PlacedStays
        <3>2. CASE At(p, "release") /\ tree' = tree /\ proc'[p].at = proc[p].at /\ proc'[p].cmd = proc[p].cmd
            <4>1. Kept(p) /\ Adds(p) /\ name \in Asked(p) /\ proc[p].at = at
                BY <1>7, <2>2, <3>2 DEF Kept, Adds, Asked, Op, at
            <4> QED BY <1>4, <3>2, <4>1
        <3> QED BY <1>2, <2>2, <3>1, <3>2, PhaseTurns
    <2> QED BY <1>3, <1>7, <2>1, <2>2
<1> QED BY <1>6, <1>7

\* An agent's work leaves the phases.
LEMMA WorkLeaves ==
    ASSUME TypeInv, NEW at \in Places, Work(at)
    PROVE  \A v \in Places : tree'[v].road = tree[v].road /\ Marks(tree'[v].dirs) = Marks(tree[v].dirs)
<1>1. PICK d \in tree[at].dirs :
        tree' = [tree EXCEPT ![at].dirs = (tree[at].dirs \ {d}) \cup
                    {IF d.plans = 0 THEN [d EXCEPT !.notes = TRUE] ELSE [d EXCEPT !.done = @ + 1]}]
    BY DEF Work
<1> DEFINE after == IF d.plans = 0 THEN [d EXCEPT !.notes = TRUE] ELSE [d EXCEPT !.done = @ + 1]
           dirs == (tree[at].dirs \ {d}) \cup {after}
<1>2. d \in Directories
    BY DEF TypeInv, FilesOK, TreesOK, Trees
<1>3. after.id = d.id /\ after.name = d.name
    BY <1>2 DEF Directories
<1> HIDE DEF after
<1>4. Marks(dirs) = Marks(tree[at].dirs)
    BY <1>3 DEF Marks
<1>5. tree' = [tree EXCEPT ![at].dirs = dirs]
    BY <1>1 DEF after
<1> HIDE DEF dirs
<1>6. /\ tree'[at].dirs = dirs /\ \A v \in Places \ {at} : tree'[v].dirs = tree[v].dirs
      /\ \A v \in Places : tree'[v].road = tree[v].road
    BY <1>5, OneFile
<1> QED BY <1>4, <1>6

LEMMA PhasesInvKept ==
    TypeInv /\ Unbegun /\ PhasesInv /\ [WsNext]_wsvars => PhasesInv'
<1> SUFFICES ASSUME TypeInv, Unbegun, PhasesInv, [WsNext]_wsvars
             PROVE  PhasesInv'
    OBVIOUS
<1>1. TypeInv'
    BY TypeInvKept
<1>2. ASSUME NEW p \in Procs, Advance(p)
      PROVE  PhasesInv'
    BY <1>1, <1>2, PhasesStep
<1>3. ASSUME proc' = proc, robbed' = robbed,
             \A v \in Places : tree'[v].road = tree[v].road /\ Marks(tree'[v].dirs) = Marks(tree[v].dirs)
      PROVE  PhasesInv'
    <2>1. \A q \in Procs : proc[q].at \in Places
        BY Facts
    <2>2. \A q \in Procs : Here(q)'.road = Here(q).road /\ Marks(Here(q)'.dirs) = Marks(Here(q).dirs)
        BY <1>3, <2>1 DEF Here
    <2>3. \A q \in Procs : \A road, name : Placed(road, Here(q)'.dirs, name) = Placed(road, Here(q).dirs, name)
        BY <2>2 DEF Placed
    <2>4. Ran(Disturbing)' = Ran(Disturbing)
        BY <1>3 DEF Ran, Op
    <2>5. \A q \in Procs : /\ Drafting(q)' = Drafting(q) /\ Adds(q)' = Adds(q) /\ Kept(q)' = Kept(q)
                           /\ Asked(q)' = Asked(q) /\ Pending(q)' = Pending(q)
                           /\ At(q, "make")' = At(q, "make")
        BY <1>3 DEF Drafting, Adds, Kept, Asked, Pending, At, Op
    <2> QED BY <1>3, <2>2, <2>3, <2>4, <2>5 DEF PhasesInv
<1>4. ASSUME NEW at \in Places, Work(at) \/ Age(at)
      PROVE  PhasesInv'
    <2>1. \A v \in Places : tree'[v].road = tree[v].road /\ Marks(tree'[v].dirs) = Marks(tree[v].dirs)
        BY <1>4, WorkLeaves DEF Age
    <2> QED BY <1>3, <1>4, <2>1 DEF Work, Age
<1>5. CASE UNCHANGED wsvars
    BY <1>3, <1>5 DEF wsvars, vars
<1> QED BY <1>2, <1>4, <1>5 DEF WsNext, PhaseNext, Surroundings, Rest, Advance

LEMMA PhasesInvInit == WsInit => PhasesInv
<1>1. WsInit => \A p \in Procs : proc[p].pc \in {"idle", "killed"}
    BY DEF WsInit, Init, Idle
<1> QED BY <1>1 DEF PhasesInv, Drafting, Kept, At

\* A phase that `phase add`, `add-batch` or `insert` reported as added has its section
\* in ROADMAP.md and a directory of the same number, whatever other additions,
\* completions, settings and repairs run beside it, in whatever order, and though the
\* command or any other is killed: the section is written under the lock into the text
\* that was read under the lock (phase.cjs, withPlanningLock).
THEOREM AddedPhasesStay == WsSpec => []PhasesKept
<1>1. WsInit => TypeInv /\ Unbegun /\ PhasesInv
    BY TypeInvInit, UnbegunInit, PhasesInvInit
<1>2. TypeInv /\ Unbegun /\ PhasesInv /\ [WsNext]_wsvars => (TypeInv /\ Unbegun /\ PhasesInv)'
    BY TypeInvKept, UnbegunKept, PhasesInvKept
<1>3. TypeInv /\ PhasesInv => PhasesKept
    <2>1. SUFFICES ASSUME TypeInv, PhasesInv, NEW p \in Procs, Acknowledged(p, {"add", "insert"}), ~robbed,
                          ~Ran(Disturbing), NEW k \in DOMAIN proc[p].cmd.names
                   PROVE  LET t == Here(p) IN
                          \E i \in DOMAIN t.road : t.road[i].name = proc[p].cmd.names[k]
                            /\ \E d \in t.dirs : d.name = proc[p].cmd.names[k] /\ d.id = t.road[i].id
        BY DEF PhasesKept, Disturbing
    <2>2. Kept(p) /\ Adds(p) /\ proc[p].cmd.names[k] \in Asked(p)
        BY <2>1 DEF Acknowledged, Kept, Adds, Asked
    <2>3. Placed(Here(p).road, Here(p).dirs, proc[p].cmd.names[k])
        BY <2>1, <2>2 DEF PhasesInv
    <2> QED BY <2>3 DEF Placed, Labels, Marks
<1> QED BY <1>1, <1>2, <1>3, PTL DEF WsSpec

-----------------------------------------------------------------------------
(* Repairs. *)

\* What the repairs look at: the state, the configuration, and whether an archived
\* roadmap is missing from MILESTONES.md.
Lacks(config, key) == config.kind = "keys" /\ config.keys # {} /\ key \notin config.keys
Faults(state, config, unlisted) ==
    {code \in Repairable :
        \/ code = "E004" /\ state = None
        \/ code = "W003" /\ config = NoConfig
        \/ code = "E005" /\ config = Corrupt
        \/ code = "W008" /\ Lacks(config, "nyquist")
        \/ code = "W016" /\ Lacks(config, "ai")
        \/ code = "W018" /\ unlisted}

LEMMA DiagnosedFaults ==
    ASSUME NEW t, NEW shelved, NEW unlisted \in BOOLEAN
    PROVE  Diagnosis(t, shelved, unlisted) \cap Repairable = Faults(t.state, t.config, unlisted)
<1>1. ASSUME NEW code \in Repairable
      PROVE  code \in Diagnosis(t, shelved, unlisted) <=> code \in Faults(t.state, t.config, unlisted)
    <2>1. code \in {"E004", "W003", "E005", "W008", "W016", "W018"}
        BY DEF Repairable
    <2>2. code \in Faults(t.state, t.config, unlisted) <=>
            \/ code = "E004" /\ t.state = None
            \/ code = "W003" /\ t.config = NoConfig
            \/ code = "E005" /\ t.config = Corrupt
            \/ code = "W008" /\ Lacks(t.config, "nyquist")
            \/ code = "W016" /\ Lacks(t.config, "ai")
            \/ code = "W018" /\ unlisted
        BY DEF Faults
    <2>3. code \in Diagnosis(t, shelved, unlisted) <=>
            \/ code = "E004" /\ t.state = None
            \/ code = "W003" /\ t.config = NoConfig
            \/ code = "E005" /\ t.config = Corrupt
            \/ code = "W008" /\ Lacks(t.config, "nyquist")
            \/ code = "W016" /\ Lacks(t.config, "ai")
            \/ code = "W018" /\ unlisted
        BY <2>1 DEF Diagnosis, Lacks
    <2> QED BY <2>2, <2>3
<1>2. Faults(t.state, t.config, unlisted) \subseteq Repairable
    BY DEF Faults
<1> QED BY <1>1, <1>2

\* A repair takes its own fault away and makes no other, but for the key "ai".
Mends(state, config, unlisted, todo, code, state2, config2, unlisted2) ==
    /\ unlisted \in BOOLEAN /\ unlisted2 \in BOOLEAN
    /\ todo \in SUBSET Repairable /\ code \in todo \ {"W008", "W016"}
    /\ Faults(state, config, unlisted) \subseteq {"W016"} \cup todo
    /\ todo \cap {"W008", "W016"} # {} => config.kind = "keys" /\ config.keys # {}
    /\ IF code = "E004" THEN state2 # None ELSE state2 = state
    /\ config2 = IF code \in {"W003", "E005"} THEN Config(RepairDefaults) ELSE config
    /\ IF code = "W018" THEN ~unlisted2 ELSE unlisted2 = unlisted

LEMMA OneRepaired ==
    ASSUME NEW state, NEW config, NEW unlisted, NEW todo, NEW code, NEW state2, NEW config2, NEW unlisted2,
           Mends(state, config, unlisted, todo, code, state2, config2, unlisted2)
    PROVE  /\ Faults(state2, config2, unlisted2) \subseteq {"W016"} \cup (todo \ {code})
           /\ (todo \ {code}) \cap {"W008", "W016"} # {} => config2.kind = "keys" /\ config2.keys # {}
<1> USE DEF Mends
<1>1. LET fresh == Config(RepairDefaults)
      IN  fresh.kind = "keys" /\ fresh.keys = {"nyquist"} /\ fresh # NoConfig /\ fresh # Corrupt
    BY DEF Config, RepairDefaults, NoConfig, Corrupt
<1>2. ASSUME NEW fault \in Faults(state2, config2, unlisted2), fault # "W016"
      PROVE  fault \in todo \ {code}
    <2>1. \/ fault = "E004" /\ state2 = None
          \/ fault = "W003" /\ config2 = NoConfig
          \/ fault = "E005" /\ config2 = Corrupt
          \/ fault = "W008" /\ Lacks(config2, "nyquist")
          \/ fault = "W018" /\ unlisted2
        BY <1>2 DEF Faults
    <2>2. fault \in {"W003", "E005", "W008"} => config2 = config
        BY <1>1, <2>1 DEF Lacks
    <2>3. fault \in Faults(state, config, unlisted) /\ fault # code
        BY <1>1, <2>1, <2>2 DEF Faults, Repairable, Lacks
    <2> QED BY <1>2, <2>3
<1>3. Faults(state2, config2, unlisted2) \subseteq {"W016"} \cup (todo \ {code})
    BY <1>2
<1>4. (todo \ {code}) \cap {"W008", "W016"} # {} => config2.kind = "keys" /\ config2.keys # {}
    BY <1>1
<1> QED BY <1>3, <1>4

\* A key that is added.
Adjusts(state, config, unlisted, todo, code, key, config2) ==
    /\ unlisted \in BOOLEAN /\ todo \in SUBSET Repairable /\ code \in {"W008", "W016"}
    /\ Faults(state, config, unlisted) \subseteq {"W016"} \cup todo
    /\ config.kind = "keys" /\ config.keys # {} /\ key = (IF code = "W008" THEN "nyquist" ELSE "ai")
    /\ config2 = IF key \in config.keys THEN config ELSE Config(config.keys \cup {key})

LEMMA KeyAdded ==
    ASSUME NEW state, NEW config, NEW unlisted, NEW todo, NEW code, NEW key, NEW config2,
           Adjusts(state, config, unlisted, todo, code, key, config2)
    PROVE  /\ Faults(state, config2, unlisted) \subseteq {"W016"} \cup (todo \ {code})
           /\ config2.kind = "keys" /\ config2.keys # {}
<1> USE DEF Adjusts
<1>1. config2.kind = "keys" /\ config2.keys = config.keys \cup {key}
    BY DEF Config
<1>2. ASSUME NEW fault \in Faults(state, config2, unlisted), fault # "W016"
      PROVE  fault \in todo \ {code}
    <2>1. \/ fault = "E004" /\ state = None
          \/ fault = "W003" /\ config2 = NoConfig
          \/ fault = "E005" /\ config2 = Corrupt
          \/ fault = "W008" /\ Lacks(config2, "nyquist")
          \/ fault = "W018" /\ unlisted
        BY <1>2 DEF Faults
    <2>2. config2 # NoConfig /\ config2 # Corrupt
        BY <1>1 DEF NoConfig, Corrupt
    <2>3. fault \in Faults(state, config, unlisted) /\ fault # code
        BY <1>1, <2>1, <2>2 DEF Faults, Repairable, Lacks
    <2> QED BY <1>2, <2>3
<1> QED BY <1>1, <1>2

Repairing(p) == At(p, "repair") \/ At(p, "addkey")
Faulty(at) == Faults(tree[at].state, tree[at].config, Unlisted(at))

\* While a repair runs alone, what is wrong is on its list, or the key "ai".
RepairInv ==
    \A p \in Procs : Alone(p) =>
        /\ Repairing(p) =>
             /\ proc[p].at \in made /\ shelf.roads \ shelf.entries \subseteq proc[p].next
             /\ Faulty(proc[p].at) \subseteq {"W016"} \cup proc[p].todo
             /\ proc[p].todo \cap {"W008", "W016"} # {} =>
                  Here(p).config.kind = "keys" /\ Here(p).config.keys # {}
        /\ At(p, "addkey") => proc[p].reqs = Here(p).config /\ FirstRepair(proc[p].todo) \in {"W008", "W016"}
        /\ Acknowledged(p, {"repair"}) => Faulty(proc[p].at) \subseteq {"W016"}

\* Who repairs does nothing else.
LEMMA RepairSteps ==
    ASSUME TypeInv, NEW p \in Procs, Advance(p)
    PROVE  \/ BeginCommand(p) \/ WsBegin(p) \/ Repair(p) \/ AddKey(p) \/ Repaired(p) \/ Kill(p)
           \/ ~At(p, "idle") /\ Op(p) # "repair"
<1>a. Carried(p, proc[p])
    BY Facts
<1>1. CASE Locking(p)
    <2>1. proc[p].pc \in Queued \cup Held
        BY <1>1 DEF Locking, Acquire, SeeStale, BreakStale, GiveUpWaiting, LastTry, Release, Fail, At, Queued, Held
    <2> QED BY <1>a, <2>1 DEF Carried, Rewriting, Queued, Held, At, Op
<1>2. CASE Command(p)
    <2>1. CASE Repair(p) \/ AddKey(p) \/ Repaired(p)
        BY <2>1
    <2>2. CASE ReadForAdd(p) \/ MakeDirectory(p) \/ ReadRoadmap(p) \/ WriteRoadmap(p) \/ WriteConfig(p)
               \/ ReadRequirements(p) \/ WriteRequirements(p)
        <3>1. proc[p].pc \in Held
            BY <2>2 DEF ReadForAdd, MakeDirectory, ReadRoadmap, WriteRoadmap, WriteConfig, ReadRequirements,
                 WriteRequirements, At, Held
        <3> QED BY <1>a, <3>1 DEF Carried, Rewriting, Queued, Held, At, Op
    <2>3. CASE DeleteDirectory(p) \/ RenameNext(p) \/ Renamed(p) \/ LookUpNext(p) \/ MoveState(p) \/ Mark(p)
               \/ ArchiveRoadmap(p) \/ Register(p) \/ CloseState(p) \/ Shelve(p) \/ Shelved(p)
               \/ ClearNext(p) \/ Cleared(p) \/ EnsureConfig(p)
        <3>1. /\ DeleteDirectory(p) => At(p, "rmdir")
              /\ RenameNext(p) => At(p, "rename")
              /\ Renamed(p) => At(p, "rename")
              /\ LookUpNext(p) => At(p, "lookup")
              /\ MoveState(p) => At(p, "state")
            BY DEF DeleteDirectory, RenameNext, Renamed, LookUpNext, MoveState
        <3>2. /\ Mark(p) => At(p, "mark")
              /\ ArchiveRoadmap(p) => At(p, "archive")
              /\ Register(p) => At(p, "register")
              /\ CloseState(p) => At(p, "close")
              /\ Shelve(p) => At(p, "shelve")
            BY DEF Mark, ArchiveRoadmap, Register, CloseState, Shelve
        <3>3. /\ Shelved(p) => At(p, "shelve")
              /\ ClearNext(p) => At(p, "clear")
              /\ Cleared(p) => At(p, "clear")
              /\ EnsureConfig(p) => At(p, "ensure")
            BY DEF Shelved, ClearNext, Cleared, EnsureConfig
        <3>4. proc[p].pc \in {"rmdir", "rename", "lookup", "state", "mark", "archive", "register", "close",
                              "shelve", "clear", "ensure"}
            BY <2>3, <3>1, <3>2, <3>3 DEF At
        <3> QED BY <1>a, <3>4 DEF Carried, At, Op
    <2> QED BY <1>2, <2>1, <2>2, <2>3 DEF Command
<1>3. CASE WsCommand(p)
    <2>1. /\ MigrateBegins(p) => At(p, "migrate")
          /\ MovePart(p) => At(p, "moving")
          /\ Moved(p) => At(p, "moving")
          /\ MoveFails(p) => At(p, "moving")
        BY DEF MigrateBegins, MovePart, Moved, MoveFails
    <2>2. /\ MoveBack(p) => At(p, "moveback")
          /\ Abandon(p) => At(p, "moveback")
          /\ OpenWorkstream(p) => At(p, "open")
          /\ Activate(p) => At(p, "activate")
        BY DEF MoveBack, Abandon, OpenWorkstream, Activate
    <2>3. /\ Deactivate(p) => At(p, "deactivate")
          /\ ArchiveEntry(p) => At(p, "archiving")
          /\ ArchiveFails(p) => At(p, "archiving")
          /\ Archived(p) => At(p, "archiving")
        BY DEF Deactivate, ArchiveEntry, ArchiveFails, Archived
    <2>4. /\ Restore(p) => At(p, "restore")
          /\ Restored(p) => At(p, "restore")
        BY DEF Restore, Restored
    <2>5. proc[p].pc \in Migrating \cup Archiving
        BY <1>3, <2>1, <2>2, <2>3, <2>4 DEF WsCommand, At, Migrating, Archiving
    <2>6. Op(p) # "repair" /\ ~At(p, "idle")
        BY <2>5 DEF TypeInv, LockInv, Types, ProcOK, OneOK, At, Migrating, Archiving
    <2> QED BY <2>6
<1> QED BY <1>1, <1>2, <1>3 DEF Advance, PhaseStep

\* A repair begins with the list of what is wrong.
LEMMA RepairStarts ==
    ASSUME TypeInv, NEW p \in Procs, BeginCommand(p) \/ WsBegin(p), proc'[p].cmd.op = "repair"
    PROVE  LET at == proc'[p].at
           IN  /\ tree' = tree /\ made' = made /\ shelf' = shelf
               /\ \/ proc'[p].pc = "done" /\ ~proc'[p].ok
                  \/ /\ proc'[p].pc = "repair" /\ at \in made /\ proc'[p].next = shelf.roads \ shelf.entries
                     /\ proc'[p].todo = Health(at) \cap Repairable
<1>a. DOMAIN proc = Procs
    BY Facts
<1>1. \A c, entered : Begin(p, c, entered) => proc'[p] = Started(p, c, entered)
    BY <1>a DEF Begin, Started
<1>2. \A c, entered : DOMAIN entered = DOMAIN Idle =>
            /\ Started(p, c, entered).cmd = c /\ Started(p, c, entered).at = PlaceOf(p, c)
            /\ Started(p, c, entered).pc = entered.pc /\ Started(p, c, entered).ok = entered.ok
            /\ Started(p, c, entered).todo = entered.todo /\ Started(p, c, entered).next = entered.next
    BY DEF Started, Idle
<1>3. /\ DOMAIN Refused = DOMAIN Idle /\ DOMAIN Nothing = DOMAIN Idle
      /\ \A pc : /\ DOMAIN Enter(pc) = DOMAIN Idle
                 /\ \A v : /\ DOMAIN [Enter(pc) EXCEPT !.next = v] = DOMAIN Idle
                           /\ DOMAIN [Enter(pc) EXCEPT !.todo = v] = DOMAIN Idle
                           /\ DOMAIN [Enter(pc) EXCEPT !.reqs = v] = DOMAIN Idle
                           /\ DOMAIN [Enter(pc) EXCEPT !.counts = v] = DOMAIN Idle
                           /\ \A w : DOMAIN [Enter(pc) EXCEPT !.todo = v, !.next = w] = DOMAIN Idle
    BY DEF Refused, Nothing, Enter, Idle
<1>4. PICK c \in Menu[p] :
        \/ AddBegins(p, c) \/ InsertBegins(p, c) \/ RemoveBegins(p, c) \/ CompleteBegins(p, c)
        \/ ProgressBegins(p, c) \/ AnnotateBegins(p, c) \/ MarkBegins(p, c) \/ MilestoneBegins(p, c)
        \/ ClearBegins(p, c) \/ SetBegins(p, c) \/ EnsureBegins(p, c) \/ RepairBegins(p, c)
        \/ CreateBegins(p, c) \/ WsCompleteBegins(p, c) \/ SetPointer(p, c)
    BY DEF BeginCommand, WsBegin
<1>5. ASSUME c.op # "repair"
      PROVE  FALSE
    <2>1. SetPointer(p, c) => proc'[p].cmd = c
        BY <1>a DEF SetPointer, Nothing, Refused, Idle
    <2>2. \A entered : Begin(p, c, entered) /\ DOMAIN entered = DOMAIN Idle => proc'[p].cmd = c
        BY <1>1, <1>2
    <2>3. CASE AddBegins(p, c) \/ InsertBegins(p, c) \/ RemoveBegins(p, c) \/ SetBegins(p, c) \/ EnsureBegins(p, c)
        BY <1>3, <1>5, <2>2, <2>3 DEF AddBegins, InsertBegins, RemoveBegins, SetBegins, EnsureBegins
    <2>4. CASE CompleteBegins(p, c) \/ ProgressBegins(p, c) \/ AnnotateBegins(p, c)
        BY <1>3, <1>5, <2>2, <2>4 DEF CompleteBegins, ProgressBegins, AnnotateBegins, CountAndLock
    <2>5. CASE MarkBegins(p, c) \/ MilestoneBegins(p, c) \/ ClearBegins(p, c)
        BY <1>3, <1>5, <2>2, <2>5 DEF MarkBegins, MilestoneBegins, ClearBegins
    <2>6. CASE CreateBegins(p, c) \/ WsCompleteBegins(p, c)
        BY <1>3, <1>5, <2>2, <2>6 DEF CreateBegins, WsCompleteBegins
    <2> QED BY <1>4, <1>5, <2>1, <2>3, <2>4, <2>5, <2>6 DEF RepairBegins
<1>6. RepairBegins(p, c)
    BY <1>4, <1>5 DEF AddBegins, InsertBegins, RemoveBegins, CompleteBegins, ProgressBegins, AnnotateBegins,
         MarkBegins, MilestoneBegins, ClearBegins, SetBegins, EnsureBegins, CreateBegins, WsCompleteBegins, SetPointer
<1> DEFINE at == PlaceOf(p, c)
           todo == Health(at) \cap Repairable
           next == shelf.roads \ shelf.entries
           entered == [Enter("repair") EXCEPT !.todo = todo, !.next = next]
<1>7. \/ Begin(p, c, Refused)
      \/ at \in made /\ Begin(p, c, entered)
    BY <1>6 DEF RepairBegins
<1>8. entered.pc = "repair" /\ entered.todo = todo /\ entered.next = next /\ DOMAIN entered = DOMAIN Idle
    BY DEF Enter, Idle
<1>9. Refused.pc = "done" /\ ~Refused.ok /\ DOMAIN Refused = DOMAIN Idle
    BY DEF Refused, Idle
<1> HIDE DEF at, todo, next, entered
<1>10. tree' = tree /\ made' = made /\ shelf' = shelf
    BY <1>7 DEF Begin
<1>11. CASE Begin(p, c, Refused)
    BY <1>1, <1>2, <1>9, <1>10, <1>11
<1>12. CASE at \in made /\ Begin(p, c, entered)
    <2>1. proc'[p].at = at /\ proc'[p].pc = "repair" /\ proc'[p].todo = todo /\ proc'[p].next = next
        BY <1>1, <1>2, <1>8, <1>12 DEF at
    <2> QED BY <1>10, <1>12, <2>1 DEF todo, next
<1> QED BY <1>7, <1>11, <1>12

LEMMA RepairWrites ==
    ASSUME TypeInv, NEW p \in Procs, Repair(p), proc[p].at \in made
    PROVE  LET at == proc[p].at
               code == FirstRepair(proc[p].todo)
           IN  /\ tree'[at].config = IF code \in {"W003", "E005"} THEN Config(RepairDefaults) ELSE tree[at].config
               /\ IF code = "E004" THEN tree'[at].state # None ELSE tree'[at].state = tree[at].state
               /\ shelf'.roads = shelf.roads
               /\ shelf'.entries = IF code = "W018" THEN shelf.entries \cup proc[p].next ELSE shelf.entries
<1> DEFINE at == proc[p].at
           code == FirstRepair(proc[p].todo)
           fresh == [phase |-> None, refs |-> {}, closed |-> FALSE]
           config == IF code \in {"W003", "E005"} THEN Config(RepairDefaults) ELSE tree[at].config
           state == IF code = "E004" THEN fresh ELSE tree[at].state
           entries == IF code = "W018" THEN shelf.entries \cup proc[p].next ELSE shelf.entries
<1>1. tree \in [Places -> Trees] /\ at \in Places /\ DOMAIN shelf = {"roads", "entries", "dirs"}
    BY Facts DEF TypeInv, FilesOK, TreesOK, ShelfOK
<1>2. fresh \in States
    BY DEF States
<1>3. fresh # None
    BY <1>2, PlacesAssumption
<1>4. tree' = [tree EXCEPT ![at] = [tree[at] EXCEPT !.config = config, !.state = state]]
    BY DEF Repair, Writable
<1>5. shelf' = [shelf EXCEPT !.entries = entries]
    BY DEF Repair
<1>6. DOMAIN tree[at] = {"road", "dirs", "reqs", "state", "config"}
    BY <1>1 DEF Trees
<1>7. state # None \/ code # "E004"
    BY <1>3
<1>8. code # "E004" => state = tree[at].state
    OBVIOUS
<1> HIDE DEF code, config, state, entries
<1>9. tree'[at].config = config /\ tree'[at].state = state
    BY <1>1, <1>4, <1>6
<1>10. shelf'.roads = shelf.roads /\ shelf'.entries = entries
    BY <1>1, <1>5
<1> QED BY <1>7, <1>8, <1>9, <1>10 DEF code, config, entries

\* A step of the repair that goes on with its list.
LEMMA RepairStep ==
    ASSUME TypeInv, NEW p \in Procs, Alone(p), RepairInv, Repair(p)
    PROVE  /\ proc'[p].pc \in {"repair", "addkey"} /\ proc'[p].at = proc[p].at
           /\ proc'[p].at \in made' /\ shelf'.roads \ shelf'.entries \subseteq proc'[p].next
           /\ Faulty(proc[p].at)' \subseteq {"W016"} \cup proc'[p].todo
           /\ proc'[p].todo \cap {"W008", "W016"} # {} =>
                tree'[proc[p].at].config.kind = "keys" /\ tree'[proc[p].at].config.keys # {}
           /\ proc'[p].pc = "addkey" =>
                proc'[p].reqs = tree'[proc[p].at].config /\ FirstRepair(proc'[p].todo) \in {"W008", "W016"}
<1> DEFINE r == proc[p]
           at == r.at
           code == FirstRepair(r.todo)
<1>1. r.pc = "repair" /\ r.todo # {} /\ at \in Places /\ Carried(p, r) /\ DOMAIN r = DOMAIN Idle /\ DOMAIN proc = Procs
    BY Facts DEF Repair, At
<1>2. /\ at \in made /\ shelf.roads \ shelf.entries \subseteq r.next
      /\ Faulty(at) \subseteq {"W016"} \cup r.todo
      /\ r.todo \cap {"W008", "W016"} # {} => tree[at].config.kind = "keys" /\ tree[at].config.keys # {}
    BY <1>1 DEF RepairInv, Repairing, At, Here
<1>3. r.todo \in SUBSET Repairable
    BY <1>1 DEF Carried
<1>4. code \in r.todo
    BY <1>1, <1>3, FirstRepairFound
<1>5. /\ tree'[at].config = IF code \in {"W003", "E005"} THEN Config(RepairDefaults) ELSE tree[at].config
      /\ IF code = "E004" THEN tree'[at].state # None ELSE tree'[at].state = tree[at].state
      /\ shelf'.roads = shelf.roads
      /\ shelf'.entries = IF code = "W018" THEN shelf.entries \cup r.next ELSE shelf.entries
    BY <1>2, RepairWrites
<1>6. made' = made
    BY DEF Repair
<1>7. IF code \in {"W008", "W016"}
      THEN proc' = [proc EXCEPT ![p].pc = "addkey", ![p].reqs = Here(p).config]
      ELSE proc' = [proc EXCEPT ![p].todo = @ \ {code}]
    BY DEF Repair
<1>8. /\ proc'[p].at = at /\ proc'[p].next = r.next
      /\ code \in {"W008", "W016"} =>
            proc'[p].pc = "addkey" /\ proc'[p].todo = r.todo /\ proc'[p].reqs = tree[at].config
      /\ code \notin {"W008", "W016"} => proc'[p].pc = "repair" /\ proc'[p].todo = r.todo \ {code}
    <2> HIDE DEF code
    <2> QED BY <1>1, <1>7 DEF Idle, Here
<1>9. shelf'.roads \ shelf'.entries \subseteq proc'[p].next
    BY <1>2, <1>5, <1>8
<1>10. Faulty(at)' = Faults(tree'[at].state, tree'[at].config, Unlisted(at)')
    BY <1>8 DEF Faulty
<1>11. CASE code \in {"W008", "W016"}
    <2>1. /\ tree'[at].config = tree[at].config /\ tree'[at].state = tree[at].state
          /\ Unlisted(at)' = Unlisted(at)
        BY <1>5, <1>8, <1>11 DEF Unlisted
    <2>2. Faulty(at)' = Faulty(at)
        BY <1>10, <2>1 DEF Faulty
    <2> QED BY <1>2, <1>6, <1>8, <1>9, <1>11, <2>1, <2>2
<1>12. CASE code \notin {"W008", "W016"}
    <2>1. IF code = "W018" THEN ~Unlisted(at)' ELSE Unlisted(at)' = Unlisted(at)
        BY <1>2, <1>5, <1>8 DEF Unlisted
    <2>2. Unlisted(at) \in BOOLEAN /\ Unlisted(at)' \in BOOLEAN
        BY DEF Unlisted
    <2> HIDE DEF code
    <2>3. /\ Faults(tree'[at].state, tree'[at].config, Unlisted(at)') \subseteq {"W016"} \cup (r.todo \ {code})
          /\ (r.todo \ {code}) \cap {"W008", "W016"} # {} => tree'[at].config.kind = "keys" /\ tree'[at].config.keys # {}
        <3> DEFINE state == tree[at].state
                   config == tree[at].config
                   unlisted == Unlisted(at)
                   state2 == tree'[at].state
                   config2 == tree'[at].config
                   unlisted2 == Unlisted(at)'
                   todo == r.todo
        <3>1. Mends(state, config, unlisted, todo, code, state2, config2, unlisted2)
            BY <1>2, <1>3, <1>4, <1>5, <1>12, <2>1, <2>2 DEF Faulty, Mends
        <3> HIDE DEF state, config, unlisted, state2, config2, unlisted2, todo
        <3>2. /\ Faults(state2, config2, unlisted2) \subseteq {"W016"} \cup (todo \ {code})
              /\ (todo \ {code}) \cap {"W008", "W016"} # {} => config2.kind = "keys" /\ config2.keys # {}
            BY <3>1, OneRepaired
        <3> QED BY <3>2 DEF state2, config2, unlisted2, todo
    <2> QED BY <1>2, <1>6, <1>8, <1>9, <1>10, <1>12, <2>3
<1> QED BY <1>11, <1>12

LEMMA KeyStep ==
    ASSUME TypeInv, NEW p \in Procs, Alone(p), RepairInv, AddKey(p)
    PROVE  /\ proc'[p].pc = "repair" /\ proc'[p].at = proc[p].at
           /\ proc'[p].at \in made' /\ shelf'.roads \ shelf'.entries \subseteq proc'[p].next
           /\ Faulty(proc[p].at)' \subseteq {"W016"} \cup proc'[p].todo
           /\ tree'[proc[p].at].config.kind = "keys" /\ tree'[proc[p].at].config.keys # {}
<1> DEFINE r == proc[p]
           at == r.at
           code == FirstRepair(r.todo)
           key == IF code = "W008" THEN "nyquist" ELSE "ai"
           config == tree[at].config
           config2 == IF key \in config.keys THEN config ELSE Config(config.keys \cup {key})
<1>1. r.pc = "addkey" /\ at \in Places /\ Carried(p, r) /\ DOMAIN r = DOMAIN Idle /\ DOMAIN proc = Procs
    BY Facts DEF AddKey, At
<1>2. /\ at \in made /\ shelf.roads \ shelf.entries \subseteq r.next
      /\ Faulty(at) \subseteq {"W016"} \cup r.todo
      /\ r.todo \cap {"W008", "W016"} # {} => config.kind = "keys" /\ config.keys # {}
      /\ r.reqs = config /\ code \in {"W008", "W016"}
    BY <1>1 DEF RepairInv, Repairing, At, Here
<1>3. r.todo \in SUBSET Repairable /\ code \in r.todo
    BY <1>1, FirstRepairFound DEF Carried
<1>4. config.kind = "keys" /\ config.keys # {}
    BY <1>2, <1>3
<1>5. tree \in [Places -> Trees]
    BY DEF TypeInv, FilesOK, TreesOK
<1>6. DOMAIN tree[at] = {"road", "dirs", "reqs", "state", "config"}
    BY <1>1, <1>5 DEF Trees
<1>7. tree' = IF key \in config.keys THEN tree ELSE [tree EXCEPT ![at].config = Config(config.keys \cup {key})]
    BY <1>2, <1>4 DEF AddKey, Writable
<1>8. tree'[at].config = config2 /\ tree'[at].state = tree[at].state
    <2> HIDE DEF key
    <2>1. CASE key \in config.keys
        BY <1>7, <2>1
    <2>2. CASE key \notin config.keys
        <3> DEFINE new == Config(config.keys \cup {key})
        <3>1. tree' = [tree EXCEPT ![at].config = new]
            BY <1>7, <2>2
        <3> HIDE DEF new
        <3>2. tree'[at].config = new /\ tree'[at].state = tree[at].state
            BY <1>1, <1>5, <1>6, <3>1
        <3> QED BY <2>2, <3>2 DEF new
    <2> QED BY <2>1, <2>2
<1>9. made' = made /\ shelf' = shelf /\ proc' = [proc EXCEPT ![p].pc = "repair", ![p].todo = @ \ {code}, ![p].reqs = None]
    BY DEF AddKey
<1>10. /\ proc'[p].at = at /\ proc'[p].next = r.next /\ proc'[p].pc = "repair" /\ proc'[p].todo = r.todo \ {code}
    <2> HIDE DEF code
    <2> QED BY <1>1, <1>9 DEF Idle
<1>11. Unlisted(at)' = Unlisted(at) /\ Unlisted(at) \in BOOLEAN
    BY <1>9, <1>10 DEF Unlisted
<1>12. Faulty(at)' = Faults(tree[at].state, config2, Unlisted(at))
    BY <1>8, <1>10, <1>11 DEF Faulty
<1>13. /\ Faults(tree[at].state, config2, Unlisted(at)) \subseteq {"W016"} \cup (r.todo \ {code})
       /\ config2.kind = "keys" /\ config2.keys # {}
    <2> DEFINE state == tree[at].state
               unlisted == Unlisted(at)
               todo == r.todo
    <2>1. Adjusts(state, config, unlisted, todo, code, key, config2)
        BY <1>2, <1>3, <1>4, <1>11 DEF Faulty, Adjusts
    <2> HIDE DEF state, unlisted, todo, code, key, config, config2
    <2>2. /\ Faults(state, config2, unlisted) \subseteq {"W016"} \cup (todo \ {code})
          /\ config2.kind = "keys" /\ config2.keys # {}
        BY <2>1, KeyAdded
    <2> QED BY <2>2 DEF state, unlisted, todo
<1> HIDE DEF config2, code, config
<1>14. Faulty(at)' \subseteq {"W016"} \cup proc'[p].todo
    BY <1>10, <1>12, <1>13
<1>15. proc'[p].at \in made' /\ shelf'.roads \ shelf'.entries \subseteq proc'[p].next
    <2>1. made' = made /\ shelf' = shelf
        BY <1>9
    <2> QED BY <1>2, <1>10, <2>1
<1>16. tree'[at].config.kind = "keys" /\ tree'[at].config.keys # {}
    BY <1>8, <1>13
<1> QED BY <1>10, <1>14, <1>15, <1>16

LEMMA RepairInvStep ==
    ASSUME TypeInv, TypeInv', RepairInv, NEW p \in Procs, Advance(p)
    PROVE  RepairInv'
<1>1. SUFFICES ASSUME NEW q \in Procs, Alone(q)'
               PROVE  /\ Repairing(q)' =>
                           /\ proc'[q].at \in made' /\ shelf'.roads \ shelf'.entries \subseteq proc'[q].next
                           /\ Faulty(proc[q].at)' \subseteq {"W016"} \cup proc'[q].todo
                           /\ proc'[q].todo \cap {"W008", "W016"} # {} =>
                                Here(q)'.config.kind = "keys" /\ Here(q)'.config.keys # {}
                      /\ At(q, "addkey")' =>
                           proc'[q].reqs = Here(q)'.config /\ FirstRepair(proc'[q].todo) \in {"W008", "W016"}
                      /\ Acknowledged(q, {"repair"})' => Faulty(proc[q].at)' \subseteq {"W016"}
    BY DEF RepairInv
<1>2. q = p
    <2>1. proc'[p].pc # "idle"
        BY AdvanceOnward DEF Onward
    <2> QED BY <1>1, <2>1 DEF Alone, At
<1>3. Alone(p)
    BY <1>1, <1>2, OthersStay DEF Alone, At, Advance, TypeInv
<1>a. Carried(p, proc'[p])
    BY DEF TypeInv, CarriedOK, Carried
<1>b. Here(p)' = tree'[proc'[p].at]
    BY DEF Here
<1>4. ASSUME proc'[p].cmd.op # "repair" \/ proc'[p].pc = "killed" \/ (proc'[p].pc = "done" /\ ~proc'[p].ok)
      PROVE  ~Repairing(p)' /\ ~At(p, "addkey")' /\ ~Acknowledged(p, {"repair"})'
    BY <1>4, <1>a DEF Repairing, Acknowledged, At, Op, Carried
<1>5. CASE (BeginCommand(p) \/ WsBegin(p)) /\ proc'[p].cmd.op = "repair"
    <2> DEFINE at == proc'[p].at
    <2>1. /\ tree' = tree /\ made' = made /\ shelf' = shelf
          /\ \/ proc'[p].pc = "done" /\ ~proc'[p].ok
             \/ /\ proc'[p].pc = "repair" /\ at \in made /\ proc'[p].next = shelf.roads \ shelf.entries
                /\ proc'[p].todo = Health(at) \cap Repairable
        BY <1>5, RepairStarts
    <2>2. CASE proc'[p].pc = "done" /\ ~proc'[p].ok
        BY <1>2, <1>4, <2>2
    <2>3. CASE /\ proc'[p].pc = "repair" /\ at \in made /\ proc'[p].next = shelf.roads \ shelf.entries
               /\ proc'[p].todo = Health(at) \cap Repairable
        <3>1. Unlisted(at) \in BOOLEAN
            BY DEF Unlisted
        <3> DEFINE listed == Faults(tree[at].state, tree[at].config, Unlisted(at))
        <3>2. Health(at) \cap Repairable = listed
            BY <3>1, DiagnosedFaults DEF Health
        <3>3. Faulty(proc[p].at)' = listed
            BY <2>1 DEF Faulty, Unlisted
        <3>4. listed \cap {"W008", "W016"} # {} => tree[at].config.kind = "keys" /\ tree[at].config.keys # {}
            BY DEF Faults, Lacks
        <3> HIDE DEF listed, at
        <3>5. proc'[p].at = at
            BY DEF at
        <3> QED BY <1>2, <1>b, <2>1, <2>3, <3>2, <3>3, <3>4, <3>5 DEF Repairing, Acknowledged, At
    <2> QED BY <2>1, <2>2, <2>3
<1>6. CASE Repair(p)
    <2>1. /\ proc'[p].pc \in {"repair", "addkey"} /\ proc'[p].at = proc[p].at
          /\ proc'[p].at \in made' /\ shelf'.roads \ shelf'.entries \subseteq proc'[p].next
          /\ Faulty(proc[p].at)' \subseteq {"W016"} \cup proc'[p].todo
          /\ proc'[p].todo \cap {"W008", "W016"} # {} =>
               tree'[proc[p].at].config.kind = "keys" /\ tree'[proc[p].at].config.keys # {}
          /\ proc'[p].pc = "addkey" =>
               proc'[p].reqs = tree'[proc[p].at].config /\ FirstRepair(proc'[p].todo) \in {"W008", "W016"}
        BY <1>3, <1>6, RepairStep
    <2> QED BY <1>2, <1>b, <2>1 DEF Acknowledged, At
<1>7. CASE AddKey(p)
    <2>1. /\ proc'[p].pc = "repair" /\ proc'[p].at = proc[p].at
          /\ proc'[p].at \in made' /\ shelf'.roads \ shelf'.entries \subseteq proc'[p].next
          /\ Faulty(proc[p].at)' \subseteq {"W016"} \cup proc'[p].todo
          /\ tree'[proc[p].at].config.kind = "keys" /\ tree'[proc[p].at].config.keys # {}
        BY <1>3, <1>7, KeyStep
    <2> QED BY <1>2, <1>b, <2>1 DEF Acknowledged, At
<1>8. CASE Repaired(p)
    <2>1. /\ proc'[p].pc = "done" /\ proc'[p].at = proc[p].at
        BY <1>8, FinishOnward DEF Repaired
    <2>2. Faulty(proc[p].at) \subseteq {"W016"}
        BY <1>3, <1>8 DEF RepairInv, Repairing, Repaired, At
    <2>3. Faulty(proc[p].at)' = Faulty(proc[p].at)
        BY <1>8, <2>1 DEF Repaired, disk, Faulty, Unlisted
    <2> QED BY <1>2, <2>1, <2>2, <2>3 DEF Repairing, At
<1>9. CASE Kill(p)
    <2>1. proc'[p].pc = "killed"
        BY <1>9, Facts DEF Kill, Idle
    <2> QED BY <1>2, <1>4, <2>1
<1>10. CASE ~At(p, "idle") /\ Op(p) # "repair"
    <2>1. proc'[p].cmd.op # "repair"
        BY <1>10, AdvanceOnward DEF Onward, Op
    <2> QED BY <1>2, <1>4, <2>1
<1>11. CASE proc'[p].cmd.op # "repair"
    BY <1>2, <1>4, <1>11
<1> QED BY <1>5, <1>6, <1>7, <1>8, <1>9, <1>10, <1>11, RepairSteps

LEMMA RepairInvKept ==
    TypeInv /\ RepairInv /\ [WsNext]_wsvars => RepairInv'
<1> SUFFICES ASSUME TypeInv, RepairInv, [WsNext]_wsvars
             PROVE  RepairInv'
    OBVIOUS
<1>1. TypeInv'
    BY TypeInvKept
<1>2. ASSUME NEW p \in Procs, Advance(p)
      PROVE  RepairInv'
    BY <1>1, <1>2, RepairInvStep
<1>3. ASSUME proc' = proc, made' = made, shelf' = shelf,
             \A v \in Places : tree'[v].config = tree[v].config /\ tree'[v].state = tree[v].state
      PROVE  RepairInv'
    <2>1. \A q \in Procs : proc[q].at \in Places
        BY Facts
    <2>2. \A q \in Procs : /\ Faulty(proc[q].at)' = Faulty(proc[q].at) /\ Here(q)'.config = Here(q).config
                           /\ Repairing(q)' = Repairing(q) /\ Alone(q)' = Alone(q)
                           /\ At(q, "addkey")' = At(q, "addkey")
                           /\ Acknowledged(q, {"repair"})' = Acknowledged(q, {"repair"})
        BY <1>3, <2>1 DEF Faulty, Unlisted, Here, Repairing, Alone, At, Acknowledged, Op
    <2> QED BY <1>3, <2>2 DEF RepairInv
<1>4. ASSUME NEW at \in Places, Work(at) \/ Age(at)
      PROVE  RepairInv'
    <2>1. CASE Work(at)
        <3>1. tree \in [Places -> Trees] /\ \E dirs : tree' = [tree EXCEPT ![at].dirs = dirs]
            BY <2>1 DEF TypeInv, FilesOK, TreesOK, Work
        <3>2. \A t \in Trees : DOMAIN t = {"road", "dirs", "reqs", "state", "config"}
            BY DEF Trees
        <3>3. \A v \in Places : tree'[v].config = tree[v].config /\ tree'[v].state = tree[v].state
            BY <3>1, <3>2
        <3> QED BY <1>3, <2>1, <3>3 DEF Work
    <2>2. CASE Age(at)
        BY <1>3, <2>2 DEF Age
    <2> QED BY <1>4, <2>1, <2>2
<1>5. CASE UNCHANGED wsvars
    BY <1>3, <1>5 DEF wsvars, vars
<1> QED BY <1>2, <1>4, <1>5 DEF WsNext, PhaseNext, Surroundings, Rest, Advance

LEMMA RepairInvInit == WsInit => RepairInv
<1>1. WsInit => \A p \in Procs : proc[p].pc \in {"idle", "killed"}
    BY DEF WsInit, Init, Idle
<1> QED BY <1>1 DEF RepairInv, Repairing, Acknowledged, At

\* `validate health --repair` that nothing ran beside leaves nothing of what it knows
\* how to repair, however broken the planning directory it found and whatever agents
\* wrote in the phases meanwhile, but for W016, which its own default configuration
\* calls for (verify.cjs, checks and repair actions of cmdValidateHealth).
THEOREM LoneRepairConverges == WsSpec => []RepairConverges
<1>1. WsInit => TypeInv /\ RepairInv
    BY TypeInvInit, RepairInvInit
<1>2. TypeInv /\ RepairInv /\ [WsNext]_wsvars => (TypeInv /\ RepairInv)'
    BY TypeInvKept, RepairInvKept
<1>3. TypeInv /\ RepairInv => RepairConverges
    <2>1. SUFFICES ASSUME RepairInv, NEW p \in Procs, Acknowledged(p, {"repair"}), Alone(p)
                   PROVE  Health(proc[p].at) \cap Repairable \subseteq {"W016"}
        BY DEF RepairConverges
    <2>2. Faulty(proc[p].at) \subseteq {"W016"}
        BY <2>1 DEF RepairInv
    <2>3. Unlisted(proc[p].at) \in BOOLEAN
        BY DEF Unlisted
    <2>4. Health(proc[p].at) \cap Repairable = Faulty(proc[p].at)
        BY <2>3, DiagnosedFaults DEF Health, Faulty
    <2> QED BY <2>2, <2>4
<1> QED BY <1>1, <1>2, <1>3, PTL DEF WsSpec

-----------------------------------------------------------------------------
(* Numbers. *)

Distinct(road) == \A i, j \in DOMAIN road : road[i].id = road[j].id => i = j
Single(dirs) == \A d, e \in dirs : d.id = e.id => d = e
Numbered(road) == {road[i].id : i \in DOMAIN road}

\* A number that is above all of these.
Above(c, n, ids) ==
    \A id \in ids : IF c.op = "insert" THEN id[1] = c.base[1] => id[2] < n ELSE id[1] < n

NumbersInv ==
    ~robbed /\ ~Ran(Moving) =>
        /\ \A at \in Places : (tree[at].road # None => Distinct(tree[at].road)) /\ Single(tree[at].dirs)
        /\ \A p \in Procs :
             /\ Drafting(p) => Distinct(proc[p].road)
             /\ At(p, "make") => Above(proc[p].cmd, proc[p].num, Numbered(proc[p].road) \cup DirIds(Here(p).dirs))

LEMMA DistinctCounts ==
    ASSUME NEW road \in Seq(Sections), road # None, Distinct(road)
    PROVE  Cardinality(RoadIds(road)) = Len(road)
<1> DEFINE f == [i \in 1..Len(road) |-> road[i].id]
<1>1. RoadIds(road) = {f[i] : i \in 1..Len(road)} /\ Len(road) \in Nat
    BY DEF RoadIds
<1>2. \A i, j \in 1..Len(road) : f[i] = f[j] => i = j
    BY DEF Distinct
<1>3. f \in Bijection(1..Len(road), RoadIds(road))
    BY <1>1, <1>2 DEF Bijection, Injection, Surjection, IsInjective
<1>4. IsFiniteSet(1..Len(road)) /\ Cardinality(1..Len(road)) = Len(road)
    BY <1>1, FS_Interval
<1> HIDE DEF f
<1> QED BY <1>3, <1>4, FS_Bijection DEF ExistsBijection

LEMMA EditedDistinct ==
    ASSUME NEW road \in Seq(Sections), NEW new, Edited(road, new), Distinct(road)
    PROVE  Distinct(new)
<1>1. new \in Seq(Sections) /\ DOMAIN new = 1..Len(road) /\ DOMAIN road = 1..Len(road)
    BY DEF Edited
<1>2. \A i \in 1..Len(road) : new[i].id = road[i].id
    BY DEF Edited, SameSection
<1> QED BY <1>1, <1>2 DEF Distinct

\* One section more, with a number of its own.
LEMMA LongerDistinct ==
    ASSUME NEW road \in Seq(Sections), Distinct(road), NEW new \in Seq(Sections), NEW k \in 1..Len(new),
           Len(new) = Len(road) + 1, new[k].id \notin Numbered(road),
           \A i \in 1..(k - 1) : new[i] = road[i], \A i \in k..Len(road) : new[i + 1] = road[i]
    PROVE  Distinct(new) /\ Numbered(new) = Numbered(road) \cup {new[k].id}
<1> DEFINE old(i) == IF i < k THEN i ELSE i - 1
<1>1. DOMAIN new = 1..Len(new) /\ DOMAIN road = 1..Len(road) /\ Len(road) \in Nat
    OBVIOUS
<1>2. \A i \in 1..Len(new) : i # k => old(i) \in 1..Len(road) /\ new[i] = road[old(i)]
    <2> SUFFICES ASSUME NEW i \in 1..Len(new), i # k
                 PROVE  old(i) \in 1..Len(road) /\ new[i] = road[old(i)]
        OBVIOUS
    <2>1. CASE i < k
        BY <1>1, <2>1
    <2>2. CASE ~(i < k)
        <3> DEFINE j == i - 1
        <3>1. j \in k..Len(road) /\ i = j + 1 /\ old(i) = j /\ j \in 1..Len(road)
            BY <1>1, <2>2
        <3> HIDE DEF j, old
        <3> QED BY <3>1
    <2> QED BY <2>1, <2>2
<1>3. \A i, j \in 1..Len(new) : i # k /\ j # k /\ old(i) = old(j) => i = j
    BY <1>1
<1>4. \A i \in 1..Len(road) : \E j \in 1..Len(new) : new[j] = road[i]
    <2> SUFFICES ASSUME NEW i \in 1..Len(road)
                 PROVE  \E j \in 1..Len(new) : new[j] = road[i]
        OBVIOUS
    <2>1. CASE i < k
        BY <1>1, <2>1
    <2>2. CASE ~(i < k)
        <3>1. i \in k..Len(road) /\ i + 1 \in 1..Len(new)
            BY <1>1, <2>2
        <3> QED BY <3>1
    <2> QED BY <2>1, <2>2
<1> HIDE DEF old
<1>5. \A i \in 1..Len(new) : i # k => new[i].id \in Numbered(road) /\ new[i].id = road[old(i)].id
    BY <1>1, <1>2 DEF Numbered
<1>6. Distinct(new)
    <2> SUFFICES ASSUME NEW i \in 1..Len(new), NEW j \in 1..Len(new), new[i].id = new[j].id
                 PROVE  i = j
        BY <1>1 DEF Distinct
    <2>1. (i = k) <=> (j = k)
        BY <1>5
    <2>2. CASE i # k
        <3>1. old(i) = old(j)
            BY <1>1, <1>2, <1>5, <2>1, <2>2 DEF Distinct
        <3> QED BY <1>3, <2>1, <2>2, <3>1
    <2> QED BY <2>1, <2>2
<1>7. Numbered(new) = Numbered(road) \cup {new[k].id}
    <2>1. \A i \in 1..Len(new) : new[i].id \in Numbered(road) \cup {new[k].id}
        BY <1>5
    <2>2. \A i \in 1..Len(road) : road[i].id \in Numbered(new)
        BY <1>1, <1>4 DEF Numbered
    <2> QED BY <1>1, <2>1, <2>2 DEF Numbered
<1> QED BY <1>6, <1>7

LEMMA AddedDistinct ==
    ASSUME NEW road \in Seq(Sections), Distinct(road), NEW name \in Titles
    PROVE  /\ \A n \in Nat \ {0} : <<n, 0>> \notin Numbered(road) =>
                /\ Distinct(Appended(road, n, name))
                /\ Numbered(Appended(road, n, name)) = Numbered(road) \cup {<<n, 0>>}
           /\ \A base \in Numbers, n \in Nat :
                SectionOf(road, base) # 0 /\ <<base[1], n>> \notin Numbered(road) =>
                    /\ Distinct(InsertedAfter(road, base, n, name))
                    /\ Numbered(InsertedAfter(road, base, n, name)) = Numbered(road) \cup {<<base[1], n>>}
<1>1. ASSUME NEW n \in Nat \ {0}, <<n, 0>> \notin Numbered(road)
      PROVE  /\ Distinct(Appended(road, n, name))
             /\ Numbered(Appended(road, n, name)) = Numbered(road) \cup {<<n, 0>>}
    <2> DEFINE new == Appended(road, n, name)
               k == Len(road) + 1
    <2>1. /\ new \in Seq(Sections) /\ Len(new) = Len(road) + 1
          /\ \A i \in 1..Len(road) : new[i] = road[i]
          /\ new[Len(new)] = NewSection(<<n, 0>>, name, <<n - 1, 0>>)
        BY AppendedSection
    <2> HIDE DEF new
    <2>2. k \in 1..Len(new) /\ new[k].id = <<n, 0>>
        BY <2>1, NewLabel
    <2>3. (\A i \in 1..(k - 1) : new[i] = road[i]) /\ (\A i \in k..Len(road) : new[i + 1] = road[i])
        BY <2>1
    <2> HIDE DEF k
    <2>4. new[k].id \notin Numbered(road)
        BY <1>1, <2>2
    <2>5. Distinct(new) /\ Numbered(new) = Numbered(road) \cup {new[k].id}
        BY <2>1, <2>2, <2>3, <2>4, LongerDistinct
    <2> QED BY <2>2, <2>5 DEF new
<1>2. ASSUME NEW base \in Numbers, NEW n \in Nat, SectionOf(road, base) # 0, <<base[1], n>> \notin Numbered(road)
      PROVE  /\ Distinct(InsertedAfter(road, base, n, name))
             /\ Numbered(InsertedAfter(road, base, n, name)) = Numbered(road) \cup {<<base[1], n>>}
    <2> DEFINE new == InsertedAfter(road, base, n, name)
               k == SectionOf(road, base) + 1
    <2>1. /\ new \in Seq(Sections) /\ Len(new) = Len(road) + 1 /\ k \in 2..Len(new)
          /\ \A i \in 1..(k - 1) : new[i] = road[i]
          /\ \A i \in k..Len(road) : new[i + 1] = road[i]
          /\ new[k] = NewSection(<<base[1], n>>, name, base)
        BY <1>2, InsertedSection
    <2> HIDE DEF new, k
    <2>2. k \in 1..Len(new) /\ new[k].id = <<base[1], n>>
        BY <2>1, NewLabel
    <2>3. new[k].id \notin Numbered(road)
        BY <1>2, <2>2
    <2>4. Distinct(new) /\ Numbered(new) = Numbered(road) \cup {new[k].id}
        BY <2>1, <2>2, <2>3, LongerDistinct
    <2> QED BY <2>2, <2>4 DEF new
<1> QED BY <1>1, <1>2

\* How a process comes to hold a text, and its next number.
LEMMA DraftTurns ==
    ASSUME TypeInv, TypeInv', NEW p \in Procs, Advance(p), ~Ran(Moving), Drafting(p)', ~MakeDirectory(p)
    PROVE  LET c == proc[p].cmd
               road == Here(p).road
           IN  /\ tree' = tree /\ proc'[p].at = proc[p].at /\ proc'[p].cmd = c
               /\ proc'[p].road = road /\ road # None /\ At(p, "read")
               /\ At(p, "make")' =>
                    /\ c.op \in {"add", "insert"}
                    /\ proc'[p].num = IF c.op = "insert" THEN NextDecimal(road, Here(p).dirs, c.base)
                                      ELSE NextInteger(road, Here(p).dirs)
<1>a. /\ DOMAIN proc = Procs /\ DOMAIN proc[p] = DOMAIN Idle /\ Carried(p, proc[p]) /\ proc[p].at \in Places
    BY Facts
<1>b. \A ok : Finish(p, ok) => proc'[p].pc = "done"
    BY FinishOnward
<1>c. \A pc : Goto(p, pc) => proc'[p].pc = pc
    BY <1>a DEF Goto, Idle
<1>d. proc'[p].pc \in {"make", "write"}
    BY DEF Drafting, At
<1>e. proc'[p].cmd.op \in Rewriting
    BY <1>d DEF TypeInv, CarriedOK, Carried
<1>1. CASE Settled(p)
    BY <1>1, <1>d DEF Settled
<1>2. CASE Torn(p)
    BY <1>2, <1>d DEF Torn
<1>3. CASE Stirs(p)
    <2>1. CASE (At(p, "lock") \/ At(p, "last")) /\ Create(p)
        <3>1. ~Goto(p, "fail")
            BY <1>c, <1>d
        <3>2. proc' = [proc EXCEPT ![p].pc = FirstStep(p),
                                   ![p].reqs = IF Op(p) = "set" THEN Here(p).config.keys ELSE None]
            BY <2>1, <3>1 DEF Create
        <3>3. proc'[p].pc \in {"configwrite", "read"}
            BY <1>a, <3>2 DEF Idle, FirstStep
        <3> QED BY <1>d, <3>3
    <2>2. CASE Release(p)
        <3>1. Goto(p, "lookup") \/ Finish(p, TRUE)
            BY <2>2 DEF Release
        <3> QED BY <1>b, <1>c, <1>d, <3>1
    <2>3. CASE ReadForAdd(p)
        <3> DEFINE n == IF proc[p].cmd.op = "insert" THEN NextDecimal(Here(p).road, Here(p).dirs, proc[p].cmd.base)
                        ELSE NextInteger(Here(p).road, Here(p).dirs)
        <3>1. ~Goto(p, "fail")
            BY <1>c, <1>d
        <3>2. /\ tree' = tree /\ Here(p).road # None /\ proc[p].cmd.op \in {"add", "insert"} /\ At(p, "read")
              /\ proc' = [proc EXCEPT ![p].pc = "make", ![p].road = Here(p).road,
                                      ![p].todo = proc[p].cmd.names, ![p].num = n]
            BY <2>3, <3>1 DEF ReadForAdd, disk, Op
        <3> HIDE DEF n
        <3>3. /\ proc'[p].at = proc[p].at /\ proc'[p].cmd = proc[p].cmd /\ proc'[p].road = Here(p).road
              /\ proc'[p].num = n
            BY <1>a, <3>2 DEF Idle
        <3> QED BY <3>2, <3>3 DEF n
    <2>4. CASE ReadRoadmap(p)
        <3>1. ~Goto(p, "fail")
            BY <1>c, <1>d
        <3>2. /\ tree' = tree /\ proc' = [proc EXCEPT ![p].pc = "write", ![p].road = Here(p).road]
              /\ Here(p).road # None /\ At(p, "read")
            BY <2>4, <3>1 DEF ReadRoadmap, disk
        <3>3. /\ proc'[p].pc = "write" /\ proc'[p].road = Here(p).road /\ proc'[p].at = proc[p].at
              /\ proc'[p].cmd = proc[p].cmd
            BY <1>a, <3>2 DEF Idle
        <3> QED BY <3>2, <3>3 DEF At
    <2>5. CASE MakeDirectory(p)
        BY <2>5
    <2>6. CASE WriteRoadmap(p)
        <3>1. Writes(p)
            BY <1>c, <1>d, <2>6 DEF WriteRoadmap, Writes
        <3>2. proc'[p].pc \in {"release", "reqread"}
            BY <1>a, <3>1 DEF Writes, AfterWrite, Idle
        <3> QED BY <1>d, <3>2
    <2>7. CASE DeleteDirectory(p) \/ RenameNext(p) \/ Shelve(p) \/ ClearNext(p)
        <3>1. Working(p) /\ Op(p) \in {"remove", "milestone", "clear"} /\ ~At(p, "idle")
            BY <1>a, <2>7 DEF DeleteDirectory, RenameNext, Shelve, ClearNext, At, Working, Op, Carried
        <3>2. Op(p) \notin Moving
            BY <3>1, RunsIts
        <3>3. proc'[p].cmd = proc[p].cmd
            BY <3>1, AdvanceOnward DEF Onward
        <3> QED BY <1>e, <3>1, <3>2, <3>3 DEF Moving, Rewriting, Op
    <2>8. CASE WriteConfig(p) \/ EnsureConfig(p)
        <3>1. Goto(p, "release") \/ Goto(p, "fail") \/ Finish(p, TRUE)
            BY <2>8 DEF WriteConfig, EnsureConfig
        <3> QED BY <1>b, <1>c, <1>d, <3>1
    <2>9. CASE Repair(p) \/ AddKey(p)
        <3>1. CASE Repair(p)
            BY <1>a, <1>d, <3>1 DEF Repair, At, Idle
        <3>2. CASE AddKey(p)
            BY <1>a, <1>d, <3>2 DEF AddKey, At, Idle
        <3> QED BY <2>9, <3>1, <3>2
    <2>10. CASE MovePart(p) \/ MoveBack(p) \/ Abandon(p) \/ ArchiveEntry(p) \/ Restore(p)
        <3>1. proc[p].pc \in Migrating \cup Archiving /\ Working(p)
            BY <2>10 DEF MovePart, MoveBack, Abandon, ArchiveEntry, Restore, At, Migrating, Archiving, Working
        <3>2. Op(p) \in {"ws-create", "ws-complete"}
            BY <3>1 DEF TypeInv, LockInv, Types, ProcOK, OneOK
        <3>3. Op(p) \notin Moving
            BY <3>1, RunsIts
        <3> QED BY <3>2, <3>3 DEF Moving
    <2> QED BY <1>3, <2>1, <2>2, <2>3, <2>4, <2>5, <2>6, <2>7, <2>8, <2>9, <2>10 DEF Stirs
<1> QED BY <1>1, <1>2, <1>3, MostSettle

\* A directory and a section of a number that nobody had.
LEMMA NumberGrows ==
    ASSUME TypeInv, NEW p \in Procs, MakeDirectory(p),
           Distinct(proc[p].road), Single(tree[proc[p].at].dirs),
           Above(proc[p].cmd, proc[p].num, Numbered(proc[p].road) \cup DirIds(tree[proc[p].at].dirs))
    PROVE  LET at == proc[p].at
           IN  /\ proc'[p].cmd = proc[p].cmd /\ proc'[p].at = at
               /\ tree'[at].road = tree[at].road
               /\ Distinct(proc'[p].road) /\ Single(tree'[at].dirs)
               /\ Above(proc[p].cmd, proc'[p].num, Numbered(proc'[p].road) \cup DirIds(tree'[at].dirs))
<1> DEFINE r == proc[p]
           c == r.cmd
           n == r.num
           at == r.at
           name == Head(r.todo)
           id == IF c.op = "insert" THEN <<c.base[1], n>> ELSE <<n, 0>>
           road == IF c.op = "insert" THEN InsertedAfter(r.road, c.base, n, name)
                   ELSE Appended(r.road, n, name)
           ids == Numbered(r.road) \cup DirIds(tree[at].dirs)
<1>1. r.pc = "make" /\ c \in Menu[p] /\ Carried(p, r) /\ at \in Places
    BY Facts DEF MakeDirectory, At, Working
<1>2. /\ c.op \in {"add", "insert"} /\ r.road \in Seq(Sections) /\ n \in Nat \ {0}
      /\ r.todo \in Seq(Titles) /\ r.todo # <<>>
      /\ c.op = "insert" => SectionOf(r.road, c.base) # 0 /\ Len(r.todo) = 1
    BY <1>1 DEF Carried
<1>3. name \in Titles
    BY <1>2, HeadAndTail
<1>4. c.op = "insert" => c.base \in Numbers
    BY <1>1, Parameters
<1>5. ids \subseteq Numbers
    <2>1. Numbered(r.road) \subseteq Numbers
        <3>1. \A i \in DOMAIN r.road : r.road[i] \in Sections
            BY <1>2
        <3>2. \A s \in Sections : s.id \in Numbers
            BY DEF Sections
        <3> QED BY <3>1, <3>2 DEF Numbered
    <2>2. tree[at].dirs \subseteq Directories
        BY <1>1 DEF TypeInv, FilesOK, TreesOK, Trees
    <2>3. DirIds(tree[at].dirs) \subseteq Numbers
        BY <2>2 DEF DirIds, Directories
    <2> QED BY <2>1, <2>3
<1> HIDE DEF name
<1>6. id \in Numbers /\ id[1] \in Nat /\ id[2] \in Nat
    BY <1>2, <1>4 DEF Numbers
<1>7. id \notin ids /\ Above(c, n + 1, ids \cup {id})
    <2>1. \A x \in ids : x[1] \in Nat /\ x[2] \in Nat
        BY <1>5 DEF Numbers
    <2>2. CASE c.op = "insert"
        <3>1. id[1] = c.base[1] /\ id[2] = n
            BY <2>2
        <3>2. \A x \in ids : x[1] = c.base[1] => x[2] < n
            BY <2>2 DEF Above
        <3>3. \A x \in ids \cup {id} : x[1] = c.base[1] => x[2] < n + 1
            BY <1>2, <2>1, <3>1, <3>2
        <3>4. id \notin ids
            BY <1>2, <3>1, <3>2
        <3> QED BY <2>2, <3>3, <3>4 DEF Above
    <2>3. CASE c.op # "insert"
        <3>1. id[1] = n
            BY <2>3
        <3>2. \A x \in ids : x[1] < n
            BY <2>3 DEF Above
        <3>3. \A x \in ids \cup {id} : x[1] < n + 1
            BY <1>2, <2>1, <3>1, <3>2
        <3>4. id \notin ids
            BY <1>2, <3>1, <3>2
        <3> QED BY <2>3, <3>3, <3>4 DEF Above
    <2> QED BY <2>2, <2>3
<1>8. Distinct(road) /\ Numbered(road) = Numbered(r.road) \cup {id}
    <2>1. id \notin Numbered(r.road)
        BY <1>7
    <2>2. CASE c.op = "insert"
        <3>1. c.base \in Numbers /\ n \in Nat /\ SectionOf(r.road, c.base) # 0 /\ id = <<c.base[1], n>>
            BY <1>2, <1>4, <2>2
        <3>2. /\ Distinct(InsertedAfter(r.road, c.base, n, name))
              /\ Numbered(InsertedAfter(r.road, c.base, n, name)) = Numbered(r.road) \cup {<<c.base[1], n>>}
            BY <1>2, <1>3, <2>1, <3>1, AddedDistinct
        <3> QED BY <2>2, <3>1, <3>2
    <2>3. CASE c.op # "insert"
        <3>1. id = <<n, 0>>
            BY <2>3
        <3>2. Distinct(Appended(r.road, n, name)) /\ Numbered(Appended(r.road, n, name)) = Numbered(r.road) \cup {<<n, 0>>}
            BY <1>2, <1>3, <2>1, <3>1, AddedDistinct
        <3> QED BY <2>3, <3>1, <3>2
    <2> QED BY <2>2, <2>3
<1>9. DirIds(tree[at].dirs) \subseteq ids
    OBVIOUS
<1>10. Numbered(r.road) \subseteq ids /\ ids = Numbered(r.road) \cup DirIds(tree[at].dirs)
    OBVIOUS
<1>11. proc' = [proc EXCEPT ![p].pc = IF Len(r.todo) = 1 THEN "write" ELSE "make",
                            ![p].todo = Tail(r.todo), ![p].num = n + 1, ![p].road = road]
    BY DEF MakeDirectory, name
<1> HIDE DEF id, road, ids
<1> DEFINE d == Directory(id, name)
           dirs == tree[at].dirs \cup {d}
<1>12. tree' = [tree EXCEPT ![at].dirs = dirs]
    BY DEF MakeDirectory, id, name
<1>13. d.id = id
    BY DEF Directory
<1> HIDE DEF d
<1>14. DirIds(dirs) = DirIds(tree[at].dirs) \cup {id}
    BY <1>13 DEF DirIds
<1>15. Single(dirs)
    <2>1. \A e \in tree[at].dirs : e.id # id
        BY <1>7, <1>9 DEF DirIds
    <2> QED BY <1>13, <2>1 DEF Single
<1> HIDE DEF dirs
<1>16. tree'[at].dirs = dirs /\ tree'[at].road = tree[at].road
    BY <1>1, <1>12, OneFile
<1>17. proc'[p].cmd = c /\ proc'[p].at = at /\ proc'[p].road = road /\ proc'[p].num = n + 1
    BY <1>11, Facts DEF Idle
<1>18. Numbered(road) \cup DirIds(dirs) = ids \cup {id}
    BY <1>8, <1>10, <1>14
<1> QED BY <1>7, <1>8, <1>15, <1>16, <1>17, <1>18

LEMMA FewerAbove ==
    ASSUME NEW c, NEW n, NEW ids, NEW fewer \in SUBSET ids, Above(c, n, ids)
    PROVE  Above(c, n, fewer)
    BY DEF Above

\* The next number is above those that are read.
LEMMA NextIsAbove ==
    ASSUME TypeInv, NEW p \in Procs, Here(p).road # None, NEW c,
           c.op = "insert" => c.base \in Numbers
    PROVE  LET road == Here(p).road
               dirs == Here(p).dirs
           IN  Above(c, IF c.op = "insert" THEN NextDecimal(road, dirs, c.base) ELSE NextInteger(road, dirs),
                     Numbered(road) \cup DirIds(dirs))
<1> DEFINE road == Here(p).road
           dirs == Here(p).dirs
<1>1. road \in Roadmaps /\ dirs \in SUBSET Directories /\ IsFiniteSet(dirs)
    BY Facts DEF Trees, Sound
<1>2. Numbered(road) = RoadIds(road)
    BY DEF Numbered, RoadIds
<1> HIDE DEF road, dirs
<1>3. CASE c.op = "insert"
    <2>1. \A id \in RoadIds(road) \cup DirIds(dirs) : id[1] = c.base[1] => id[2] < NextDecimal(road, dirs, c.base)
        BY <1>1, <1>3, NextDecimalAbove
    <2>2. Above(c, NextDecimal(road, dirs, c.base), RoadIds(road) \cup DirIds(dirs))
        BY <1>3, <2>1 DEF Above
    <2> QED BY <1>2, <1>3, <2>2 DEF road, dirs
<1>4. CASE c.op # "insert"
    <2>1. \A id \in RoadIds(road) \cup DirIds(dirs) : id[1] < NextInteger(road, dirs)
        BY <1>1, NextIntegerAbove
    <2>2. Above(c, NextInteger(road, dirs), RoadIds(road) \cup DirIds(dirs))
        BY <1>4, <2>1 DEF Above
    <2> QED BY <1>2, <1>4, <2>2 DEF road, dirs
<1> QED BY <1>3, <1>4

LEMMA WorkNumbers ==
    ASSUME TypeInv, NEW at \in Places, Work(at), NEW v \in Places
    PROVE  /\ DirIds(tree'[v].dirs) = DirIds(tree[v].dirs)
           /\ Single(tree[v].dirs) => Single(tree'[v].dirs)
<1>1. PICK d \in tree[at].dirs :
        tree' = [tree EXCEPT ![at].dirs = (tree[at].dirs \ {d}) \cup
                    {IF d.plans = 0 THEN [d EXCEPT !.notes = TRUE] ELSE [d EXCEPT !.done = @ + 1]}]
    BY DEF Work
<1> DEFINE after == IF d.plans = 0 THEN [d EXCEPT !.notes = TRUE] ELSE [d EXCEPT !.done = @ + 1]
           dirs == (tree[at].dirs \ {d}) \cup {after}
<1>2. d \in Directories
    BY DEF TypeInv, FilesOK, TreesOK, Trees
<1>3. after.id = d.id
    BY <1>2 DEF Directories
<1> HIDE DEF after
<1>4. DirIds(dirs) = DirIds(tree[at].dirs)
    BY <1>3 DEF DirIds
<1>5. Single(tree[at].dirs) => Single(dirs)
    BY <1>3 DEF Single
<1>6. tree' = [tree EXCEPT ![at].dirs = dirs]
    BY <1>1 DEF after
<1> HIDE DEF dirs
<1>7. tree'[at].dirs = dirs /\ \A w \in Places \ {at} : tree'[w].dirs = tree[w].dirs
    BY <1>6, OneFile
<1> QED BY <1>4, <1>5, <1>7

LEMMA NumbersStep ==
    ASSUME TypeInv, TypeInv', Unbegun, NumbersInv, [WsNext]_wsvars, NEW p \in Procs, Advance(p),
           ~robbed', ~Ran(Moving)'
    PROVE  /\ \A v \in Places : (tree'[v].road # None => Distinct(tree'[v].road)) /\ Single(tree'[v].dirs)
           /\ \A q \in Procs :
                /\ Drafting(q)' => Distinct(proc'[q].road)
                /\ At(q, "make")' => Above(proc'[q].cmd, proc'[q].num,
                                           Numbered(proc'[q].road) \cup DirIds(Here(q)'.dirs))
<1>1. ~robbed /\ ~Ran(Moving)
    BY RanStays, AdvanceOnward DEF Onward
<1>2. /\ \A v \in Places : (tree[v].road # None => Distinct(tree[v].road)) /\ Single(tree[v].dirs)
      /\ \A q \in Procs :
           /\ Drafting(q) => Distinct(proc[q].road)
           /\ At(q, "make") => Above(proc[q].cmd, proc[q].num, Numbered(proc[q].road) \cup DirIds(Here(q).dirs))
    BY <1>1 DEF NumbersInv
<1>3. Working(p) => Op(p) \notin Moving
    BY <1>1, RunsIts
<1> DEFINE at == proc[p].at
<1>4. \A q \in Procs : proc[q].at \in Places /\ Here(q) = tree[proc[q].at]
    BY Facts DEF Here
<1>5. MakeDirectory(p) =>
        /\ Drafting(p) /\ proc'[p].cmd = proc[p].cmd /\ proc'[p].at = at
        /\ tree'[at].road = tree[at].road
        /\ Distinct(proc'[p].road) /\ Single(tree'[at].dirs)
        /\ Above(proc[p].cmd, proc'[p].num, Numbered(proc'[p].road) \cup DirIds(tree'[at].dirs))
    <2> SUFFICES ASSUME MakeDirectory(p)
                 PROVE  /\ Drafting(p) /\ proc'[p].cmd = proc[p].cmd /\ proc'[p].at = at
                        /\ tree'[at].road = tree[at].road
                        /\ Distinct(proc'[p].road) /\ Single(tree'[at].dirs)
                        /\ Above(proc[p].cmd, proc'[p].num, Numbered(proc'[p].road) \cup DirIds(tree'[at].dirs))
        OBVIOUS
    <2>1. At(p, "make") /\ Drafting(p)
        BY DEF MakeDirectory, Drafting
    <2>2. /\ Distinct(proc[p].road) /\ Single(tree[at].dirs)
          /\ Above(proc[p].cmd, proc[p].num, Numbered(proc[p].road) \cup DirIds(tree[at].dirs))
        BY <1>2, <1>4, <2>1
    <2> QED BY <2>1, <2>2, NumberGrows
<1>6. Writes(p) => /\ Drafting(p) /\ Distinct(tree'[at].road) /\ tree'[at].dirs = tree[at].dirs
    <2> SUFFICES ASSUME Writes(p)
                 PROVE  Drafting(p) /\ Distinct(tree'[at].road) /\ tree'[at].dirs = tree[at].dirs
        OBVIOUS
    <2>1. proc[p].pc = "write" /\ Drafting(p) /\ Working(p)
        BY DEF Writes, At, Drafting, Working
    <2>2. proc[p].road \in Seq(Sections) /\ Distinct(proc[p].road)
        BY <1>2, <2>1, Facts DEF Carried
    <2>3. Edited(proc[p].road, Rewritten(p))
        BY <1>3, <2>1, RewrittenRoadmap DEF Moving
    <2>4. tree'[at].road = Rewritten(p) /\ tree'[at].dirs = tree[at].dirs
        BY <1>4, OneFile DEF Writes
    <2>5. Distinct(Rewritten(p))
        BY <2>2, <2>3, EditedDistinct
    <2> QED BY <2>1, <2>4, <2>5
<1> HIDE DEF at
<1>7. ASSUME NEW v \in Places
      PROVE  /\ (tree'[v].road # None => Distinct(tree'[v].road)) /\ Single(tree'[v].dirs)
             /\ tree'[v].dirs \subseteq tree[v].dirs \/ (Drafting(p) /\ v = at)
    <2>1. \/ tree'[v].road = tree[v].road /\ tree'[v].dirs = tree[v].dirs
          \/ (MakeDirectory(p) \/ Writes(p)) /\ v = at
          \/ /\ Working(p) /\ Op(p) \in {"milestone", "clear"}
             /\ tree'[v].road = tree[v].road /\ tree'[v].dirs \subseteq tree[v].dirs
          \/ Working(p) /\ Op(p) \in Moving
        BY <1>7, PhaseFilesChange DEF at
    <2>2. CASE tree'[v].road = tree[v].road /\ tree'[v].dirs \subseteq tree[v].dirs
        BY <1>2, <2>2 DEF Single
    <2>3. CASE MakeDirectory(p) /\ v = at
        BY <1>2, <1>5, <2>3
    <2>4. CASE Writes(p) /\ v = at
        BY <1>2, <1>6, <2>4
    <2> QED BY <1>3, <2>1, <2>2, <2>3, <2>4
<1>8. ASSUME NEW q \in Procs
      PROVE  /\ Drafting(q)' => Distinct(proc'[q].road)
             /\ At(q, "make")' => Above(proc'[q].cmd, proc'[q].num,
                                        Numbered(proc'[q].road) \cup DirIds(Here(q)'.dirs))
    <2>1. CASE q # p
        <3>1. proc'[q] = proc[q]
            BY <2>1, OthersStay DEF Advance, TypeInv
        <3>2. Drafting(q)' = Drafting(q) /\ At(q, "make")' = At(q, "make") /\ Here(q)' = tree'[proc[q].at]
            BY <3>1 DEF Drafting, At, Here
        <3>3. ASSUME At(q, "make")
              PROVE  Above(proc'[q].cmd, proc'[q].num, Numbered(proc'[q].road) \cup DirIds(Here(q)'.dirs))
            <4>1. ~(Drafting(p) /\ proc[q].at = at)
                BY <1>1, <2>1, <3>3, LockInvExcludes DEF TypeInv, LockExcludes, Drafting, Section, Held, At, at
            <4>2. tree'[proc[q].at].dirs \subseteq tree[proc[q].at].dirs
                BY <1>4, <1>7, <4>1
            <4>3. DirIds(tree'[proc[q].at].dirs) \subseteq DirIds(tree[proc[q].at].dirs)
                BY <4>2 DEF DirIds
            <4>4. Above(proc[q].cmd, proc[q].num, Numbered(proc[q].road) \cup DirIds(tree[proc[q].at].dirs))
                BY <1>2, <1>4, <3>3
            <4>5. Above(proc[q].cmd, proc[q].num, Numbered(proc[q].road) \cup DirIds(tree'[proc[q].at].dirs))
                BY <4>3, <4>4, FewerAbove
            <4> QED BY <3>1, <3>2, <4>5
        <3> QED BY <1>2, <3>1, <3>2, <3>3
    <2>2. CASE q = p
        <3>1. CASE MakeDirectory(p)
            <4>1. Here(p)' = tree'[at]
                BY <1>5, <3>1 DEF Here
            <4> QED BY <1>5, <2>2, <3>1, <4>1
        <3>2. CASE ~MakeDirectory(p)
            <4> SUFFICES ASSUME Drafting(p)'
                         PROVE  /\ Distinct(proc'[p].road)
                                /\ At(p, "make")' => Above(proc'[p].cmd, proc'[p].num,
                                                           Numbered(proc'[p].road) \cup DirIds(Here(p)'.dirs))
                BY <2>2 DEF Drafting
            <4>1. /\ tree' = tree /\ proc'[p].at = proc[p].at /\ proc'[p].cmd = proc[p].cmd
                  /\ proc'[p].road = Here(p).road /\ Here(p).road # None
                  /\ At(p, "make")' =>
                       proc'[p].num = IF proc[p].cmd.op = "insert"
                                      THEN NextDecimal(Here(p).road, Here(p).dirs, proc[p].cmd.base)
                                      ELSE NextInteger(Here(p).road, Here(p).dirs)
                BY <1>1, <3>2, DraftTurns
            <4>2. Here(p)' = Here(p)
                BY <4>1 DEF Here
            <4>3. Distinct(Here(p).road)
                BY <1>2, <1>4, <4>1
            <4>4. ASSUME At(p, "make")'
                  PROVE  Above(proc[p].cmd, proc'[p].num, Numbered(Here(p).road) \cup DirIds(Here(p).dirs))
                <5>1. proc[p].cmd \in Menu[p]
                    <6>1. proc'[p].cmd \in Menu[p]
                        BY <4>4, Facts DEF At, Working, TypeInv, LockInv, Types, ProcOK, OneOK
                    <6> QED BY <4>1, <6>1
                <5>2. proc[p].cmd.op = "insert" => proc[p].cmd.base \in Numbers
                    BY <5>1, Parameters
                <5>3. Above(proc[p].cmd,
                            IF proc[p].cmd.op = "insert"
                            THEN NextDecimal(Here(p).road, Here(p).dirs, proc[p].cmd.base)
                            ELSE NextInteger(Here(p).road, Here(p).dirs),
                            Numbered(Here(p).road) \cup DirIds(Here(p).dirs))
                    BY <4>1, <5>2, NextIsAbove
                <5> QED BY <4>1, <4>4, <5>3
            <4> QED BY <4>1, <4>2, <4>3, <4>4
        <3> QED BY <3>1, <3>2
    <2> QED BY <2>1, <2>2
<1> QED BY <1>7, <1>8

LEMMA NumbersInvKept ==
    TypeInv /\ Unbegun /\ NumbersInv /\ [WsNext]_wsvars => NumbersInv'
<1> SUFFICES ASSUME TypeInv, Unbegun, NumbersInv, [WsNext]_wsvars
             PROVE  NumbersInv'
    OBVIOUS
<1>1. TypeInv'
    BY TypeInvKept
<1>2. ASSUME NEW p \in Procs, Advance(p)
      PROVE  NumbersInv'
    <2>1. SUFFICES ASSUME ~robbed', ~Ran(Moving)'
                   PROVE  /\ \A v \in Places : (tree'[v].road # None => Distinct(tree'[v].road)) /\ Single(tree'[v].dirs)
                          /\ \A q \in Procs :
                               /\ Drafting(q)' => Distinct(proc'[q].road)
                               /\ At(q, "make")' => Above(proc'[q].cmd, proc'[q].num,
                                                          Numbered(proc'[q].road) \cup DirIds(Here(q)'.dirs))
        BY DEF NumbersInv
    <2> QED BY <1>1, <1>2, <2>1, NumbersStep
<1>3. ASSUME proc' = proc, robbed' = robbed,
             \A v \in Places : /\ tree'[v].road = tree[v].road /\ DirIds(tree'[v].dirs) = DirIds(tree[v].dirs)
                               /\ Single(tree[v].dirs) => Single(tree'[v].dirs)
      PROVE  NumbersInv'
    <2>1. \A q \in Procs : DirIds(Here(q)'.dirs) = DirIds(Here(q).dirs)
        BY <1>3, Facts DEF Here
    <2>2. Ran(Moving)' = Ran(Moving)
        BY <1>3 DEF Ran, Op
    <2>3. \A q \in Procs : Drafting(q)' = Drafting(q) /\ At(q, "make")' = At(q, "make")
        BY <1>3 DEF Drafting, At
    <2>4. SUFFICES ASSUME ~robbed, ~Ran(Moving)
                   PROVE  /\ \A v \in Places : (tree'[v].road # None => Distinct(tree'[v].road)) /\ Single(tree'[v].dirs)
                          /\ \A q \in Procs :
                               /\ Drafting(q)' => Distinct(proc'[q].road)
                               /\ At(q, "make")' => Above(proc'[q].cmd, proc'[q].num,
                                                          Numbered(proc'[q].road) \cup DirIds(Here(q)'.dirs))
        BY <1>3, <2>2 DEF NumbersInv
    <2> QED BY <1>3, <2>1, <2>3, <2>4 DEF NumbersInv
<1>4. ASSUME NEW at \in Places, Work(at) \/ Age(at)
      PROVE  NumbersInv'
    <2>1. \A v \in Places : /\ tree'[v].road = tree[v].road /\ DirIds(tree'[v].dirs) = DirIds(tree[v].dirs)
                            /\ Single(tree[v].dirs) => Single(tree'[v].dirs)
        BY <1>4, WorkLeaves, WorkNumbers DEF Age
    <2> QED BY <1>3, <1>4, <2>1 DEF Work, Age
<1>5. CASE UNCHANGED wsvars
    BY <1>3, <1>5 DEF wsvars, vars
<1> QED BY <1>2, <1>4, <1>5 DEF WsNext, PhaseNext, Surroundings, Rest, Advance

\* Every number of a place is given to one section and to one directory: if that is so
\* at the start, additions and insertions keep it so, several at once and beside
\* completions, milestones, clearing and repairs, killed or not, because the next number
\* is taken under the lock from the roadmap and from the directories (phase.cjs,
\* withPlanningLock).  Migrations and archivings, which carry directories from place to
\* place while others number theirs, are not covered.
THEOREM NumbersStayUnique ==
    ASSUME \A start \in Starts : /\ start.tree.road # None => Distinct(start.tree.road)
                                 /\ Single(start.tree.dirs)
    PROVE  WsSpec => [](~Ran({"ws-create", "ws-complete"}) => NumbersUnique)
<1>1. WsInit => TypeInv /\ Unbegun /\ NumbersInv
    <2> SUFFICES ASSUME WsInit
                 PROVE  NumbersInv
        BY TypeInvInit, UnbegunInit
    <2>1. \A q \in Procs : proc[q].pc \in {"idle", "killed"}
        BY DEF WsInit, Init, Idle
    <2>2. PICK start \in Starts : tree = [at \in Places |-> IF at = start.at THEN start.tree ELSE NoTree]
        BY DEF WsInit, Init
    <2>3. NoTree.road = None /\ Single(NoTree.dirs)
        BY DEF NoTree, Single
    <2>4. \A at \in Places : (tree[at].road # None => Distinct(tree[at].road)) /\ Single(tree[at].dirs)
        BY <2>2, <2>3
    <2> QED BY <2>1, <2>4 DEF NumbersInv, Drafting, At
<1>2. TypeInv /\ Unbegun /\ NumbersInv /\ [WsNext]_wsvars => (TypeInv /\ Unbegun /\ NumbersInv)'
    BY TypeInvKept, UnbegunKept, NumbersInvKept
<1>3. TypeInv /\ NumbersInv => (~Ran({"ws-create", "ws-complete"}) => NumbersUnique)
    <2> SUFFICES ASSUME TypeInv, NumbersInv, ~Ran({"ws-create", "ws-complete"}), ~robbed, ~Ran({"remove"}),
                        NEW at \in Places
                 PROVE  /\ tree[at].road # None => Cardinality(RoadIds(tree[at].road)) = Len(tree[at].road)
                        /\ \A d, e \in tree[at].dirs : d.id = e.id => d = e
        BY DEF NumbersUnique
    <2>1. ~Ran(Moving)
        BY DEF Ran, Moving
    <2>2. (tree[at].road # None => Distinct(tree[at].road)) /\ Single(tree[at].dirs)
        BY <2>1 DEF NumbersInv
    <2>3. tree[at].road # None => tree[at].road \in Seq(Sections)
        BY DEF TypeInv, FilesOK, TreesOK, Trees, Roadmaps
    <2> QED BY <2>2, <2>3, DistinctCounts DEF Single
<1> QED BY <1>1, <1>2, <1>3, PTL DEF WsSpec
=============================================================================
