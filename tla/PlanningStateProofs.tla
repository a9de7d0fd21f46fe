---- MODULE PlanningStateProofs ----
(***************************************************************************)
(* STATE.md under concurrent commands: the lock, the decisions, the        *)
(* counters of the frontmatter, termination, and the register that the     *)
(* file implements, for any number of processes, commands and tries.       *)
(***************************************************************************)
EXTENDS PlanningState, FiniteSetTheorems, TLAPS

(* What the transformations of STATE.md return and preserve.               *)

(* Integer division of a natural number.                                   *)
LEMMA DivNat == \A a \in Nat, b \in Nat \ {0} : a \div b \in Nat
  BY SMT

(* The counters are numbers, and grow with the directories.                *)
LEMMA ItemsFinite == IsFiniteSet(Items)
<1>1. IsFiniteSet(1..MaxPhase) /\ IsFiniteSet(1..MaxPlans)
  BY StateNumbers, FS_Interval
<1> QED BY <1>1, FS_Product DEF Items, Phases

LEMMA CountNat ==
  ASSUME NEW S, S \subseteq Items
  PROVE  Cardinality(S) \in Nat
  BY ItemsFinite, FS_Subset, FS_CardinalityType

LEMMA DoneNat == \A d : Plans(d) \in Nat /\ Done(d) \in Nat
  BY CountNat DEF Plans, Done

LEMMA DoneMonotone ==
  ASSUME NEW d \in Disks, NEW e \in Disks, \A n \in Phases : d[n].done <= e[n].done
  PROVE  Done(d) <= Done(e)
<1> DEFINE S == {x \in Items : x[2] <= d[x[1]].done}
           T == {x \in Items : x[2] <= e[x[1]].done}
<1>1. S \subseteq T
  <2> SUFFICES ASSUME NEW x \in Items, x[2] <= d[x[1]].done PROVE x[2] <= e[x[1]].done
    OBVIOUS
  <2>1. x[1] \in Phases /\ x[2] \in 1..MaxPlans
    BY DEF Items
  <2>2. d[x[1]].done \in Int /\ e[x[1]].done \in Int
    BY <2>1, StateNumbers DEF Disks
  <2> QED BY <2>1, <2>2, StateNumbers
<1>2. IsFiniteSet(T)
  BY ItemsFinite, FS_Subset
<1> QED BY <1>1, <1>2, FS_Subset, FS_CardinalityType DEF Done

LEMMA FinishedNat == \A d : Cardinality(Finished(d)) \in Nat
<1> TAKE d
<1>1. IsFiniteSet(1..MaxPhase)
  BY StateNumbers, FS_Interval
<1>2. Finished(d) \subseteq 1..MaxPhase
  BY DEF Finished, Phases
<1> QED BY <1>1, <1>2, FS_Subset, FS_CardinalityType

LEMMA RoundedNat == \A part \in Nat, whole \in Nat \ {0} : Rounded(part, whole) \in Nat
<1> SUFFICES ASSUME NEW part \in Nat, NEW whole \in Nat \ {0}
             PROVE  Rounded(part, whole) \in Nat
  OBVIOUS
<1>1. 200 * part + whole \in Nat /\ 2 * whole \in Nat \ {0}
  OBVIOUS
<1> QED BY <1>1, DivNat DEF Rounded

LEMMA PercentRange == \A part \in Nat, whole \in Nat : Percent(part, whole) \in 0..100
<1> SUFFICES ASSUME NEW part \in Nat, NEW whole \in Nat
             PROVE  Percent(part, whole) \in 0..100
  OBVIOUS
<1>1. whole # 0 => Rounded(part, whole) \in Nat
  BY RoundedNat
<1> QED BY <1>1 DEF Percent

LEMMA FrontmatterType ==
  ASSUME NEW b \in Bodies, NEW d \in Disks
  PROVE  /\ BuildFrontmatter(b, d) \in Frontmatters
         /\ BuildFrontmatter(b, d).done = Done(d)
<1>1. Normalized(b.status) \in {"unknown", "paused", "executing", "planning",
                                "verifying", "completed"}
  <2>1. b.status \in Statuses
    BY DEF Bodies
  <2>2. CASE \E n \in Phases : b.status = Executing(n)
    BY <2>2 DEF Normalized, Plain, Executing, Absent
  <2>3. CASE \E n \in Phases : b.status = Complete(n)
    BY <2>3 DEF Normalized, Plain, Complete, Absent
  <2>4. CASE \E x \in {"", "ready to plan", "ready to execute", "paused",
                       "ready for verification", "milestone complete"} : b.status = Plain(x)
    <3>1. PICK x \in {"", "ready to plan", "ready to execute", "paused",
                      "ready for verification", "milestone complete"} : b.status = <<x, 0>>
      BY <2>4 DEF Plain
    <3>2. <<x, 0>>[1] = x
      OBVIOUS
    <3> QED BY <3>1, <3>2 DEF Normalized, Plain, Absent
  <2> QED BY <2>1, <2>2, <2>3, <2>4 DEF Statuses
<1>2. (IF Plans(d) > 0 THEN Percent(Done(d), Plans(d)) ELSE b.progress) \in Nat
  <2>1. b.progress \in Nat
    BY DEF Bodies
  <2>2. Percent(Done(d), Plans(d)) \in Nat
    <3>1. Percent(Done(d), Plans(d)) \in 0..100
      BY DoneNat, PercentRange
    <3>2. 0..100 \subseteq Nat
      OBVIOUS
    <3> QED BY <3>1, <3>2, Zenon
  <2> QED BY <2>1, <2>2
<1> QED BY <1>1, <1>2, DoneNat, FinishedNat DEF BuildFrontmatter, Frontmatters

(* A command leaves a well-formed text.                                    *)
LEMMA StatusType ==
  ASSUME NEW b \in Bodies, NEW status \in Statuses
  PROVE  /\ SetStatus(b, status) \in Bodies
         /\ SetStatus(b, status).decisions = b.decisions
  BY DEF SetStatus, Bodies

LEMMA PlainType ==
  /\ \A t \in {"ready to plan", "ready to execute", "paused", "ready for verification",
              "milestone complete"} : Plain(t) \in Statuses
  /\ \A n \in Phases : Executing(n) \in Statuses /\ Complete(n) \in Statuses
  BY DEF Statuses

(* And keeps every decision, unless it is a prune.                         *)
LEMMA TransformType ==
  ASSUME NEW b \in Bodies, NEW c \in Commands, NEW seen \in Seen(c)
  PROVE  /\ Transform(c, b, seen) \in Bodies
         /\ c.op \notin Prunes => b.decisions \subseteq Transform(c, b, seen).decisions
         /\ c.op \in Prunes =>
              Transform(c, b, seen).decisions = b.decisions \ Pruned(b, seen.n).decisions
<1> DEFINE t == Transform(c, b, seen)
           Kept == t \in Bodies /\ b.decisions \subseteq t.decisions
<1>1. CASE c.op = "patch"
  <2>1. c.phase \in Phases /\ [b EXCEPT !.phase = c.phase] \in Bodies
    BY <1>1 DEF Commands, Bodies
  <2> QED BY <1>1, <2>1, StatusType, PlainType DEF Transform, Patch, Prunes, Bodies
<1>2. CASE c.op = "advance-plan"
  <2>1. CASE b.plan # NotStarted /\ b.plan < b.total
    <3>1. [b EXCEPT !.plan = @ + 1] \in Bodies
      BY <2>1, StateNumbers DEF Bodies
    <3>2. t = SetStatus([b EXCEPT !.plan = @ + 1], Plain("ready to execute"))
      <4>1. t = AdvancePlan(b)
        BY <1>2 DEF Transform, Prunes
      <4>2. ~(b.plan >= b.total)
        BY <2>1, StateNumbers DEF Bodies
      <4> QED BY <2>1, <4>1, <4>2 DEF AdvancePlan
    <3>3. [b EXCEPT !.plan = @ + 1].decisions = b.decisions
      BY DEF Bodies
    <3>4. Plain("ready to execute") \in Statuses
      BY PlainType
    <3>5. t \in Bodies /\ t.decisions = b.decisions
      BY <3>1, <3>2, <3>3, <3>4, StatusType
    <3> QED BY <1>2, <3>5 DEF Prunes
  <2>2. CASE b.plan # NotStarted /\ b.plan >= b.total
    <3>1. t = SetStatus(b, Plain("ready for verification"))
      <4>1. t = AdvancePlan(b)
        BY <1>2 DEF Transform, Prunes
      <4>2. ~(b.plan < b.total)
        BY <2>2, StateNumbers DEF Bodies
      <4> QED BY <2>2, <4>1, <4>2 DEF AdvancePlan
    <3> QED BY <1>2, <3>1, StatusType, PlainType DEF Prunes
  <2>3. CASE b.plan = NotStarted
    BY <1>2, <2>3 DEF Transform, AdvancePlan, Prunes
  <2>4. b.plan < b.total \/ b.plan >= b.total
    BY StateNumbers DEF Bodies
  <2> QED BY <2>1, <2>2, <2>3, <2>4
<1>3. CASE c.op = "record-metric"
  BY <1>3 DEF Transform, RecordMetric, Prunes, Commands, Bodies
<1>4. CASE c.op = "update-progress"
  BY <1>4 DEF Transform, UpdateProgress, Prunes, Seen, Bodies
<1>5. CASE c.op = "add-decision"
  BY <1>5 DEF Transform, AddDecision, Prunes, Commands, Bodies, Decisions
<1>6. CASE c.op \in {"add-blocker", "resolve-blocker", "record-session", "milestone-switch"}
  BY <1>6 DEF Transform, AddBlocker, ResolveBlocker, RecordSession, Prunes, Commands, Bodies
<1>7. CASE c.op = "begin-phase"
  <2> DEFINE r == [b EXCEPT !.phase = c.phase, !.plan = 1,
                            !.total = IF c.count = 0 THEN @ ELSE c.count]
  <2>1. c.phase \in Phases /\ c.count \in 0..MaxPlans
    BY <1>7 DEF Commands
  <2>2. r \in Bodies /\ r.decisions = b.decisions
    <3>1. (IF c.count = 0 THEN b.total ELSE c.count) \in 0..MaxPlans /\ 1 \in 0..MaxPlans
      BY <2>1, StateNumbers DEF Bodies
    <3> QED BY <2>1, <3>1 DEF Bodies
  <2>3. t = b \/ t = SetStatus(r, Executing(c.phase))
    BY <1>7 DEF Transform, BeginPhase, Prunes
  <2>4. Executing(c.phase) \in Statuses
    BY <2>1, PlainType
  <2>5. t \in Bodies /\ t.decisions = b.decisions
    BY <2>2, <2>3, <2>4, StatusType
  <2> QED BY <1>7, <2>5 DEF Prunes
<1>8. CASE c.op = "planned-phase"
  <2>1. c.count \in 0..MaxPlans /\ [b EXCEPT !.total = c.count] \in Bodies
    BY <1>8 DEF Commands, Bodies
  <2>2. [b EXCEPT !.total = c.count].decisions = b.decisions
    BY DEF Bodies
  <2> QED BY <1>8, <2>1, <2>2, StatusType, PlainType DEF Transform, PlannedPhase, Prunes
<1>9. CASE c.op = "sync"
  <2>1. t = [b EXCEPT !.total = seen.n, !.progress = seen.percent]
    BY <1>9 DEF Transform, Sync, Prunes
  <2>2. seen \in [n : 0..MaxPlans, percent : 0..100]
    BY <1>9 DEF Seen, Prunes
  <2>3. t \in Bodies /\ t.decisions = b.decisions
    <3>1. seen.n \in 0..MaxPlans /\ seen.percent \in Nat
      BY <2>2
    <3> QED BY <2>1, <3>1 DEF Bodies
  <2> QED BY <1>9, <2>3 DEF Prunes
<1>10. CASE c.op = "complete-phase"
  BY <1>10, StatusType, PlainType DEF Transform, CompletePhase, Prunes, Seen
<1>11. CASE c.op = "phase-complete"
  <2> DEFINE counted == b.completed + 1
             r == [b EXCEPT !.phase = IF c.next = 0 THEN c.phase ELSE c.next,
                            !.plan = NotStarted,
                            !.completed = counted,
                            !.progress = IF b.phases <= 0 THEN @
                                         ELSE Rounded(counted, b.phases),
                            !.velocity = @ + c.count,
                            !.rows = @ \cup {c.phase}]
  <2>1. c.phase \in Phases /\ c.next \in 0..MaxPhase /\ c.count \in 0..MaxPlans
    BY <1>11 DEF Commands
  <2>2. (IF c.next = 0 THEN c.phase ELSE c.next) \in Phases
    BY <2>1, StateNumbers DEF Phases
  <2>3. (IF b.phases <= 0 THEN b.progress ELSE Rounded(counted, b.phases)) \in Nat
    <3>1. counted \in Nat /\ b.phases \in Int /\ b.progress \in Nat
      BY DEF Bodies
    <3>2. ~(b.phases <= 0) => b.phases \in Nat \ {0}
      BY <3>1
    <3> QED BY <3>1, <3>2, RoundedNat
  <2>4. counted \in Nat /\ b.velocity + c.count \in Nat /\ b.rows \cup {c.phase} \subseteq Phases
    BY <2>1, StateNumbers DEF Bodies
  <2>5. r \in Bodies /\ r.decisions = b.decisions
    <3>1. NotStarted \in 0..MaxPlans
      BY StateNumbers DEF NotStarted
    <3> HIDE DEF counted
    <3> QED BY <2>2, <2>3, <2>4, <3>1 DEF Bodies
  <2>6. t = SetStatus(r, IF c.next = 0 THEN Plain("milestone complete") ELSE Plain("ready to plan"))
    BY <1>11 DEF Transform, PhaseComplete, Prunes
  <2>7. (IF c.next = 0 THEN Plain("milestone complete") ELSE Plain("ready to plan")) \in Statuses
    BY PlainType
  <2> HIDE DEF r
  <2>8. t \in Bodies /\ t.decisions = b.decisions
    BY <2>5, <2>6, <2>7, StatusType
  <2> QED BY <1>11, <2>8 DEF Prunes
<1>12. CASE c.op = "phase-remove"
  BY <1>12 DEF Transform, PhaseRemove, Prunes, Bodies
<1>13. CASE c.op = "milestone-complete"
  BY <1>13, StatusType, PlainType DEF Transform, MilestoneComplete, Prunes
<1>14. CASE c.op \in Prunes
  BY <1>14 DEF Transform, Prunes, Prune, Pruned, Bodies
<1> QED
  BY <1>1, <1>2, <1>3, <1>4, <1>5, <1>6, <1>7, <1>8, <1>9, <1>10, <1>11, <1>12, <1>13, <1>14
     DEF Commands, Prunes

(* What a command looks up is what the register's clients may look up.     *)
LEMMA LookupSeen ==
  ASSUME NEW b \in Bodies, NEW d \in Disks, NEW c \in Commands,
         c.op \in Prunes => Lookup(c, b, d).n > 0
  PROVE  Lookup(c, b, d) \in Seen(c)
<1>1. Percent(Done(d), Plans(d)) \in 0..100
  BY DoneNat, PercentRange
<1>2. CASE c.op = "update-progress"
  <2>1. Lookup(c, b, d) = [n |-> 0, percent |-> Percent(Done(d), Plans(d))]
    BY <1>2 DEF Lookup, Nothing, Prunes
  <2>2. Seen(c) = [n : {0}, percent : 0..100]
    BY <1>2 DEF Seen, Prunes
  <2> QED BY <1>1, <2>1, <2>2
<1>3. CASE c.op = "sync"
  <2>1. SyncedTotal(b, d) \in 0..MaxPlans
    <3>1. CASE \E n \in Phases : SyncsTo(d, n)
      <4>1. (CHOOSE n \in Phases : SyncsTo(d, n)) \in Phases
        BY <3>1
      <4> QED BY <3>1, <4>1 DEF SyncedTotal, Disks
    <3>2. CASE ~\E n \in Phases : SyncsTo(d, n)
      BY <3>2 DEF SyncedTotal, Bodies
    <3> QED BY <3>1, <3>2
  <2>2. Lookup(c, b, d) = [n |-> SyncedTotal(b, d), percent |-> Percent(Done(d), Plans(d))]
    BY <1>3 DEF Lookup, Prunes
  <2>3. Seen(c) = [n : 0..MaxPlans, percent : 0..100]
    BY <1>3 DEF Seen, Prunes
  <2> QED BY <1>1, <2>1, <2>2, <2>3
<1>4. CASE c.op \in Prunes
  <2>1. Lookup(c, b, d) = [n |-> b.phase - KeepRecent, percent |-> 0]
    BY <1>4 DEF Lookup, Nothing, Prunes
  <2>2. Seen(c) = [n : Phases, percent : {0}]
    BY <1>4 DEF Seen, Prunes
  <2>3. b.phase - KeepRecent \in Phases
    BY <1>4, <2>1, StateNumbers DEF Bodies, Phases
  <2> QED BY <2>1, <2>2, <2>3
<1>5. CASE c.op = "complete-phase"
  <2>1. c.phase \in 0..MaxPhase
    BY <1>5 DEF Commands
  <2>2. (IF c.phase = 0 THEN b.phase ELSE c.phase) \in Phases
    BY <2>1, StateNumbers DEF Bodies, Phases
  <2> QED BY <1>5, <2>2 DEF Lookup, Seen, Nothing, Prunes
<1>6. CASE c.op \notin {"update-progress", "sync", "complete-phase"} \cup Prunes
  BY <1>6 DEF Lookup, Seen
<1> QED BY <1>2, <1>3, <1>4, <1>5, <1>6

---------------------------------------------------------------------------
(* The processes.                                                          *)

(* A process is well formed: it has a command while it runs, past its      *)
(* lookup one that the command may have made, tries left until it has the  *)
(* lock; and what it carries to be written is the command's rewrite of a   *)
(* text it has read.                                                       *)
Searching == {"start", "look", "load", "stamp", "lock", "stale", "giveup"}
Carrying  == {"stamp", "lock", "stale", "giveup", "read", "write"}
Early(pr) == pr.cmd.op \in UnlockedReaders
Prepared(pr) ==
  pr.pc = "write" \/ (pr.pc \in {"lock", "stale", "giveup"} /\ Early(pr))
OneOK(pr) ==
  /\ pr \in Processes
  /\ pr.pc = "start" => pr = Fresh
  /\ pr.pc \notin {"start", "done", "dead"} => pr.cmd \in Commands
  /\ pr.pc \in Carrying => pr.seen \in Seen(pr.cmd)
  /\ pr.pc \in Searching => pr.tries < MaxTries
  /\ pr.pc \in {"load", "stamp"} => Early(pr)
  /\ pr.pc = "look" => pr.cmd.op \in LookAhead
  /\ pr.pc = "read" => ~Early(pr)
  /\ pr.pc = "stamp" \/ Prepared(pr) => pr.base \in Texts
  /\ Prepared(pr) => /\ pr.new \in Texts
                     /\ pr.new.body = Transform(pr.cmd, pr.base.body, pr.seen)

TInv == TypeOK /\ \A p \in Procs : OneOK(proc[p])

---------------------------------------------------------------------------
LEMMA NoLookup ==
  ASSUME NEW c \in Commands, c.op \notin LookAhead \cup UnlockedReaders
  PROVE  Nothing \in Seen(c)
  BY DEF Seen, LookAhead, UnlockedReaders

LEMMA AutoPruneCommand == [op |-> "auto-prune"] \in Commands
  BY DEF Commands

LEMMA LookupType ==
  ASSUME NEW b \in Bodies, NEW d \in Disks, NEW c \in Commands
  PROVE  Lookup(c, b, d) \in Lookups
<1>1. Percent(Done(d), Plans(d)) \in 0..100
  BY DoneNat, PercentRange
<1>2. SyncedTotal(b, d) \in Int
  <2>1. CASE \E n \in Phases : SyncsTo(d, n)
    <3>1. (CHOOSE n \in Phases : SyncsTo(d, n)) \in Phases
      BY <2>1
    <3> QED BY <2>1, <3>1 DEF SyncedTotal, Disks
  <2>2. CASE ~\E n \in Phases : SyncsTo(d, n)
    BY <2>2 DEF SyncedTotal, Bodies
  <2> QED BY <2>1, <2>2
<1>3. b.phase \in Int /\ KeepRecent \in Int /\ b.phase - KeepRecent \in Int
  BY StateNumbers DEF Bodies, Phases
<1>4. c.op = "complete-phase" => c.phase \in Int
  BY DEF Commands
<1> QED BY <1>1, <1>2, <1>3, <1>4 DEF Lookup, Lookups, Nothing, Prunes

LEMMA RewrittenType ==
  ASSUME NEW c \in Commands, NEW s \in Texts, NEW seen \in Seen(c), NEW d \in Disks
  PROVE  /\ Rewritten(c, s, seen, d) \in Texts
         /\ Rewritten(c, s, seen, d).body = Transform(c, s.body, seen)
         /\ Rewritten(c, s, seen, d).fm.done \in {0, Done(d)}
         /\ c.op # "milestone-switch" => Rewritten(c, s, seen, d).fm.done = Done(d)
<1> DEFINE body == Transform(c, s.body, seen)
<1>1. s.body \in Bodies /\ s.fm \in Frontmatters
  BY DEF Texts
<1>2. body \in Bodies
  BY <1>1, TransformType
<1> HIDE DEF body
<1>3. /\ BuildFrontmatter(body, d) \in Frontmatters
      /\ BuildFrontmatter(body, d).done = Done(d)
  BY <1>2, FrontmatterType
<1>4. /\ SyncFrontmatter(s.fm, body, d) \in Frontmatters
      /\ SyncFrontmatter(s.fm, body, d).done = Done(d)
  BY <1>1, <1>3 DEF SyncFrontmatter, Frontmatters
<1>5. SwitchedFrontmatter \in Frontmatters /\ SwitchedFrontmatter.done = 0
  BY DEF SwitchedFrontmatter, Frontmatters
<1>6. Rewritten(c, s, seen, d) = [body |-> body, fm |-> Stamp(c, s.fm, body, d)]
  BY DEF Rewritten, body
<1> QED BY <1>2, <1>4, <1>5, <1>6 DEF Stamp, Texts, body

LEMMA PrunedType ==
  ASSUME NEW b \in Bodies, NEW n \in Int PROVE Pruned(b, n) \in Archives
  BY DEF Pruned, Archives, Bodies

LEMMA SeenType == ASSUME NEW c \in Commands PROVE Seen(c) \subseteq Lookups
  BY StateNumbers DEF Seen, Lookups, Nothing, Phases, Prunes

LEMMA FreshType == Fresh \in Processes /\ Over \in Processes
<1>1. 0 \in 0..MaxTries
  BY StateAssumption
<1>2. Empty \in Archives
  BY DEF Empty, Archives
<1>3. Nothing \in Lookups
  BY DEF Nothing, Lookups
<1> QED BY <1>1, <1>2, <1>3 DEF Fresh, Over, Processes

LEMMA LeftType == ASSUME NEW out \in Archives PROVE Left(out) \in Processes
  BY FreshType DEF Left, Processes

LEMMA TInit == Init => TInv
<1> SUFFICES ASSUME Init PROVE TInv
  OBVIOUS
<1> PICK b \in Starts, d \in StartDisks :
       /\ state = [body |-> b, fm |-> BuildFrontmatter(b, d)]
       /\ disk = d
       /\ acked = b.decisions
  BY DEF Init
<1> PICK dead \in {D \in SUBSET Procs : Cardinality(D) <= MaxKills} :
       /\ proc = [p \in Procs |-> IF p \in dead THEN Left(Empty) ELSE Fresh]
       /\ lock \in {None} \cup [owner: dead, old: BOOLEAN]
  BY DEF Init
<1>1. b \in Bodies /\ d \in Disks
  BY StateAssumption
<1>2. state \in Texts /\ disk \in Disks
  BY <1>1, FrontmatterType DEF Texts
<1>3. Empty \in Archives
  BY DEF Empty, Archives
<1>4. lock \in Locks \cup {None}
  BY DEF Locks
<1>5. \A p \in Procs : proc[p] \in Processes /\ proc[p].pc \in {"start", "dead"}
  BY <1>3, FreshType, LeftType DEF Fresh, Left
<1>6. TypeOK
  <2>1. acked \subseteq Decisions
    BY <1>1 DEF Bodies
  <2>2. proc \in [Procs -> Processes]
    BY <1>5
  <2> QED BY <1>2, <1>3, <1>4, <2>1, <2>2 DEF TypeOK, Init
<1>7. \A p \in Procs : proc[p].pc = "start" => proc[p] = Fresh /\ proc[p].tries = 0
  BY DEF Fresh, Left
<1>8. \A p \in Procs : OneOK(proc[p])
  BY <1>5, <1>7, StateAssumption DEF OneOK, Searching, Carrying, Prepared
<1> QED BY <1>6, <1>8 DEF TInv

(* Every step of process p leaves the others alone.                        *)
Alone(p) == \A q \in Procs \ {p} : proc'[q] = proc[q]

(* A step that leaves a process well formed and does not touch the files,  *)
(* except as said, keeps the type invariant.                               *)
LEMMA OneStep ==
  ASSUME TInv, NEW p \in Procs, NEW pr, OneOK(pr), proc' = [proc EXCEPT ![p] = pr],
         state' \in Texts, lock' \in Locks \cup {None}, archive' \in Archives,
         disk' = disk, acked' \subseteq Decisions, broken' \in BOOLEAN, blind' \in BOOLEAN
  PROVE  TInv'
<1>1. pr \in Processes
  BY DEF OneOK
<1>2. proc \in [Procs -> Processes] /\ disk \in Disks
  BY DEF TInv, TypeOK
<1>3. proc' \in [Procs -> Processes]
  BY <1>1, <1>2
<1>4. \A q \in Procs : OneOK(proc'[q])
  BY <1>2 DEF TInv
<1> QED BY <1>2, <1>3, <1>4 DEF TInv, TypeOK

LEMMA TProc == ASSUME TInv, NEW p \in Procs PROVE OneOK(proc[p]) /\ proc[p] \in Processes
  BY DEF TInv, OneOK

LEMMA TStart ==
  ASSUME TInv, NEW p \in Procs, NEW c \in Menu[p], Start(p, c) PROVE TInv'
<1> DEFINE pr == [Fresh EXCEPT !.cmd = c, !.pc = FirstStep(c)]
<1>1. c \in Commands
  BY StateAssumption
<1>2. proc[p] = Fresh /\ proc \in [Procs -> Processes]
  BY TProc DEF Start, At, OneOK, TInv, TypeOK
<1>3. proc' = [proc EXCEPT ![p] = pr]
  BY <1>2, FreshType DEF Start, Processes
<1>4. c.op \notin LookAhead \cup UnlockedReaders => Nothing \in Seen(c)
  BY <1>1, NoLookup
<1>5. 0 < MaxTries
  BY StateAssumption
<1>6. pr \in Processes
  BY <1>1, FreshType DEF Processes, FirstStep
<1>7. pr.cmd = c /\ pr.pc = FirstStep(c) /\ pr.seen = Nothing /\ pr.tries = 0
  BY DEF Fresh
<1>8. OneOK(pr)
  BY <1>1, <1>4, <1>5, <1>6, <1>7
     DEF OneOK, FirstStep, Searching, Carrying, Early, Prepared, LookAhead, UnlockedReaders, Prunes
<1> HIDE DEF pr
<1> QED BY <1>3, <1>8, OneStep DEF Start, TInv, TypeOK

LEMMA TLook == ASSUME TInv, NEW p \in Procs, Look(p) PROVE TInv'
<1> DEFINE seen == Lookup(proc[p].cmd, state.body, disk)
           pr == IF Op(p) \in Prunes /\ seen.n <= 0 THEN Over
                 ELSE [proc[p] EXCEPT !.pc = "lock", !.seen = seen]
<1>1. proc[p] \in Processes /\ OneOK(proc[p]) /\ proc[p].pc = "look"
  BY TProc DEF Look, At
<1>2. proc[p].cmd \in Commands /\ proc[p].cmd.op \in LookAhead /\ proc[p].tries < MaxTries
  BY <1>1 DEF OneOK, Searching
<1>3. state.body \in Bodies /\ disk \in Disks
  BY DEF TInv, TypeOK, Texts
<1>4. seen \in Lookups /\ (proc[p].cmd.op \in Prunes => seen.n \in Int)
  BY <1>2, <1>3, LookupType DEF Lookups
<1>5. proc' = [proc EXCEPT ![p] = pr]
  BY DEF Look
<1>6. CASE Op(p) \in Prunes /\ seen.n <= 0
  <2>1. OneOK(pr)
    BY <1>6, FreshType DEF OneOK, Over, Fresh, Searching, Carrying, Prepared
  <2> QED BY <1>5, <2>1, OneStep DEF Look, TInv, TypeOK
<1>7. CASE ~(Op(p) \in Prunes /\ seen.n <= 0)
  <2>1. seen \in Seen(proc[p].cmd)
    BY <1>2, <1>3, <1>4, <1>7, LookupSeen DEF Op
  <2> HIDE DEF seen
  <2>2. pr = [proc[p] EXCEPT !.pc = "lock", !.seen = seen]
    BY <1>7
  <2>3. pr \in Processes /\ pr.pc = "lock" /\ pr.seen = seen /\ pr.cmd = proc[p].cmd
        /\ pr.tries = proc[p].tries
    BY <1>1, <1>4, <2>2 DEF Processes
  <2>4. proc[p].cmd.op \notin UnlockedReaders
    BY <1>2 DEF LookAhead, UnlockedReaders, Prunes
  <2>5. OneOK(pr)
    BY <1>2, <2>1, <2>3, <2>4 DEF OneOK, Searching, Carrying, Early, Prepared
  <2> QED BY <1>5, <2>5, OneStep DEF Look, TInv, TypeOK
<1> QED BY <1>6, <1>7

LEMMA TLoad == ASSUME TInv, NEW p \in Procs, Load(p) PROVE TInv'
<1> DEFINE seen == Lookup(proc[p].cmd, state.body, disk)
           pr == [proc[p] EXCEPT !.pc = "stamp", !.base = state, !.seen = seen]
<1>1. proc[p] \in Processes /\ OneOK(proc[p]) /\ proc[p].pc = "load"
  BY TProc DEF Load, At
<1>2. proc[p].cmd \in Commands /\ Early(proc[p]) /\ proc[p].tries < MaxTries
  BY <1>1 DEF OneOK, Searching
<1>3. state.body \in Bodies /\ disk \in Disks /\ state \in Texts
  BY DEF TInv, TypeOK, Texts
<1>4. seen \in Lookups /\ seen \in Seen(proc[p].cmd)
  BY <1>2, <1>3, LookupType, LookupSeen DEF Early, UnlockedReaders, Prunes
<1> HIDE DEF seen
<1>5. proc' = [proc EXCEPT ![p] = pr]
  BY <1>1 DEF Load, Processes, seen, TInv, TypeOK
<1>6. pr \in Processes /\ pr.pc = "stamp" /\ pr.seen = seen /\ pr.cmd = proc[p].cmd
      /\ pr.tries = proc[p].tries /\ pr.base = state
  BY <1>1, <1>3, <1>4 DEF Processes
<1>7. OneOK(pr)
  BY <1>2, <1>3, <1>4, <1>6 DEF OneOK, Searching, Carrying, Early, Prepared
<1> QED BY <1>5, <1>7, OneStep DEF Load, TInv, TypeOK

LEMMA TPrepare == ASSUME TInv, NEW p \in Procs, Prepare(p) PROVE TInv'
<1> DEFINE new == Rewritten(proc[p].cmd, proc[p].base, proc[p].seen, disk)
           pr == [proc[p] EXCEPT !.pc = "lock", !.new = new]
<1>1. proc[p] \in Processes /\ OneOK(proc[p]) /\ proc[p].pc = "stamp"
  BY TProc DEF Prepare, At
<1>2. proc[p].cmd \in Commands /\ Early(proc[p]) /\ proc[p].tries < MaxTries
      /\ proc[p].base \in Texts /\ proc[p].seen \in Seen(proc[p].cmd)
  BY <1>1 DEF OneOK, Searching, Carrying
<1>3. disk \in Disks
  BY DEF TInv, TypeOK
<1>4. new \in Texts /\ new.body = Transform(proc[p].cmd, proc[p].base.body, proc[p].seen)
  BY <1>2, <1>3, RewrittenType
<1> HIDE DEF new
<1>5. proc' = [proc EXCEPT ![p] = pr]
  BY <1>1 DEF Prepare, Processes, new, TInv, TypeOK
<1>6. pr \in Processes /\ pr.pc = "lock" /\ pr.seen = proc[p].seen /\ pr.cmd = proc[p].cmd
      /\ pr.tries = proc[p].tries /\ pr.base = proc[p].base /\ pr.new = new
  BY <1>1, <1>4 DEF Processes
<1>7. OneOK(pr)
  BY <1>2, <1>4, <1>6 DEF OneOK, Searching, Carrying, Early, Prepared
<1> QED BY <1>5, <1>7, OneStep DEF Prepare, TInv, TypeOK

(* Getting the lock, waiting for it and going on without it move a process *)
(* and count its tries, no more.                                           *)
LEMMA MoveOK ==
  ASSUME TInv, NEW p \in Procs, proc[p].pc \in {"lock", "stale", "giveup"},
         NEW t \in 0..MaxTries,
         NEW x \in {"lock", "stale", "giveup", "read", "write"},
         x \in {"read", "write"} => x = Section(p),
         x \in {"lock", "stale", "giveup"} => t < MaxTries
  PROVE  OneOK([proc[p] EXCEPT !.pc = x, !.tries = t])
<1> DEFINE pr == [proc[p] EXCEPT !.pc = x, !.tries = t]
<1>1. proc[p] \in Processes /\ OneOK(proc[p])
  BY TProc
<1>2. proc[p].cmd \in Commands /\ proc[p].seen \in Seen(proc[p].cmd)
      /\ (Early(proc[p]) => /\ proc[p].base \in Texts /\ proc[p].new \in Texts
                            /\ proc[p].new.body
                                 = Transform(proc[p].cmd, proc[p].base.body, proc[p].seen))
  BY <1>1 DEF OneOK, Carrying, Prepared
<1>3. pr \in Processes /\ pr.pc = x /\ pr.seen = proc[p].seen /\ pr.cmd = proc[p].cmd
      /\ pr.tries = t /\ pr.base = proc[p].base /\ pr.new = proc[p].new
  BY <1>1 DEF Processes
<1>4. x = "write" => Early(proc[p])
  BY DEF Section, Op, Early
<1>5. x = "read" => ~Early(proc[p])
  BY DEF Section, Op, Early
<1> HIDE DEF pr
<1>6. OneOK(pr)
  BY <1>2, <1>3, <1>4, <1>5 DEF OneOK, Searching, Carrying, Early, Prepared
<1> QED BY <1>6 DEF pr

LEMMA TAcquire == ASSUME TInv, NEW p \in Procs, Acquire(p) PROVE TInv'
<1> DEFINE pr == [proc[p] EXCEPT !.pc = Section(p), !.tries = proc[p].tries]
<1>1. proc[p] \in Processes /\ OneOK(proc[p]) /\ proc[p].pc = "lock"
  BY TProc DEF Acquire, At
<1>2. proc' = [proc EXCEPT ![p] = pr]
  BY <1>1 DEF Acquire, Goto, Processes, TInv, TypeOK
<1>3. Section(p) \in {"read", "write"} /\ proc[p].tries \in 0..MaxTries
  BY <1>1 DEF Section, Processes
<1>4. OneOK(pr)
  BY <1>1, <1>3, MoveOK
<1>5. lock' \in Locks
  BY DEF Acquire, Locks
<1> HIDE DEF pr
<1> QED BY <1>2, <1>4, <1>5, OneStep DEF Acquire, TInv, TypeOK

LEMMA TContended == ASSUME TInv, NEW p \in Procs, Contended(p) PROVE TInv'
<1>1. proc[p] \in Processes /\ OneOK(proc[p]) /\ proc[p].pc = "lock" /\ proc \in [Procs -> Processes]
  BY TProc DEF Contended, At, TInv, TypeOK
<1>2. proc[p].tries \in 0..MaxTries /\ proc[p].tries < MaxTries /\ MaxTries \in Nat
  BY <1>1, StateAssumption DEF OneOK, Searching, Processes
<1>3. \E x \in {"lock", "stale", "giveup"}, t \in 0..MaxTries :
        t < MaxTries /\ proc' = [proc EXCEPT ![p] = [proc[p] EXCEPT !.pc = x, !.tries = t]]
  <2>1. CASE Goto(p, "stale")
    <3>1. proc' = [proc EXCEPT ![p] = [proc[p] EXCEPT !.pc = "stale", !.tries = proc[p].tries]]
      BY <1>1, <2>1 DEF Goto, Processes
    <3> QED BY <1>2, <3>1
  <2>2. CASE Goto(p, "giveup")
    <3>1. proc' = [proc EXCEPT ![p] = [proc[p] EXCEPT !.pc = "giveup", !.tries = proc[p].tries]]
      BY <1>1, <2>2 DEF Goto, Processes
    <3> QED BY <1>2, <3>1
  <2>3. CASE proc[p].tries + 1 < MaxTries /\ proc' = [proc EXCEPT ![p].tries = @ + 1]
    <3>1. [proc[p] EXCEPT !.tries = proc[p].tries + 1]
            = [proc[p] EXCEPT !.pc = "lock", !.tries = proc[p].tries + 1]
      BY <1>1 DEF Processes
    <3>2. proc' = [proc EXCEPT ![p] = [proc[p] EXCEPT !.tries = proc[p].tries + 1]]
      BY <1>1, <2>3
    <3>3. proc[p].tries + 1 \in 0..MaxTries
      BY <1>2, <2>3
    <3> QED BY <2>3, <3>1, <3>2, <3>3
  <2> QED BY <2>1, <2>2, <2>3 DEF Contended
<1>4. PICK x \in {"lock", "stale", "giveup"}, t \in 0..MaxTries :
        t < MaxTries /\ proc' = [proc EXCEPT ![p] = [proc[p] EXCEPT !.pc = x, !.tries = t]]
  BY <1>3
<1> DEFINE pr == [proc[p] EXCEPT !.pc = x, !.tries = t]
<1>5. OneOK(pr)
  BY <1>1, <1>4, MoveOK
<1>6. proc' = [proc EXCEPT ![p] = pr]
  BY <1>4
<1> HIDE DEF pr
<1> QED BY <1>5, <1>6, OneStep DEF Contended, TInv, TypeOK

LEMMA TRemoveStale == ASSUME TInv, NEW p \in Procs, RemoveStale(p) PROVE TInv'
<1> DEFINE t == proc[p].tries + 1
           x == IF t >= MaxTries THEN Section(p) ELSE "lock"
           pr == [proc[p] EXCEPT !.pc = x, !.tries = t]
<1>1. proc[p] \in Processes /\ OneOK(proc[p]) /\ proc[p].pc = "stale"
  BY TProc DEF RemoveStale, At
<1>2. proc[p].tries \in 0..MaxTries /\ proc[p].tries < MaxTries /\ MaxTries \in Nat
  BY <1>1, StateAssumption DEF OneOK, Searching, Processes
<1>3. t \in 0..MaxTries /\ (~(t >= MaxTries) => t < MaxTries)
  BY <1>2
<1>4. proc' = [proc EXCEPT ![p] = pr]
  BY <1>1 DEF RemoveStale, Processes, TInv, TypeOK
<1>5. /\ x \in {"lock", "read", "write"}
      /\ x \in {"read", "write"} => x = Section(p)
      /\ x = "lock" => t < MaxTries
  <2>1. CASE t >= MaxTries
    BY <2>1 DEF Section
  <2>2. CASE ~(t >= MaxTries)
    BY <1>3, <2>2
  <2> QED BY <2>1, <2>2
<1> HIDE DEF t, x
<1>6. OneOK(pr)
  BY <1>1, <1>3, <1>5, MoveOK
<1> HIDE DEF pr
<1>7. lock' = None /\ broken' \in BOOLEAN
  BY DEF RemoveStale, StealsFromLive, TInv, TypeOK
<1> QED BY <1>4, <1>6, <1>7, OneStep DEF RemoveStale, TInv, TypeOK

LEMMA TGiveUp == ASSUME TInv, NEW p \in Procs, GiveUp(p) PROVE TInv'
<1> DEFINE pr == [proc[p] EXCEPT !.pc = Section(p), !.tries = proc[p].tries]
<1>1. proc[p] \in Processes /\ OneOK(proc[p]) /\ proc[p].pc = "giveup"
  BY TProc DEF GiveUp, At
<1>2. proc' = [proc EXCEPT ![p] = pr]
  BY <1>1 DEF GiveUp, Goto, Processes, TInv, TypeOK
<1>3. Section(p) \in {"read", "write"} /\ proc[p].tries \in 0..MaxTries
  BY <1>1 DEF Section, Processes
<1>4. OneOK(pr)
  BY <1>1, <1>3, MoveOK
<1> HIDE DEF pr
<1> QED BY <1>2, <1>4, OneStep DEF GiveUp, TInv, TypeOK

LEMMA TRead == ASSUME TInv, NEW p \in Procs, Read(p) PROVE TInv'
<1> DEFINE new == Rewritten(proc[p].cmd, state, proc[p].seen, Scan(p))
           out == IF Op(p) \in Prunes THEN Pruned(state.body, proc[p].seen.n) ELSE Empty
           pr == [proc[p] EXCEPT !.pc = "write", !.base = state, !.scan = Scan(p),
                                 !.new = new, !.out = out]
<1>1. proc[p] \in Processes /\ OneOK(proc[p]) /\ proc[p].pc = "read"
  BY TProc DEF Read, At
<1>2. proc[p].cmd \in Commands /\ proc[p].seen \in Seen(proc[p].cmd)
  BY <1>1 DEF OneOK, Carrying
<1>3. state \in Texts /\ state.body \in Bodies /\ disk \in Disks
  BY DEF TInv, TypeOK, Texts
<1>4. Scan(p) \in Disks
  BY <1>1, <1>3 DEF Scan, Processes
<1>5. new \in Texts /\ new.body = Transform(proc[p].cmd, state.body, proc[p].seen)
  BY <1>2, <1>3, <1>4, RewrittenType
<1>6. out \in Archives
  <2>1. proc[p].seen.n \in Int
    BY <1>2, SeenType DEF Lookups
  <2> QED BY <1>3, <2>1, PrunedType DEF Empty, Archives
<1> HIDE DEF new, out
<1>7. proc' = [proc EXCEPT ![p] = pr]
  BY <1>1 DEF Read, Processes, new, out, TInv, TypeOK
<1>8. pr \in Processes /\ pr.pc = "write" /\ pr.seen = proc[p].seen /\ pr.cmd = proc[p].cmd
      /\ pr.base = state /\ pr.new = new
  BY <1>1, <1>3, <1>4, <1>5, <1>6 DEF Processes
<1>9. OneOK(pr)
  BY <1>2, <1>3, <1>5, <1>8 DEF OneOK, Searching, Carrying, Early, Prepared
<1> QED BY <1>7, <1>9, OneStep DEF Read, TInv, TypeOK

LEMMA TWrite == ASSUME TInv, NEW p \in Procs, Write(p) PROVE TInv'
<1> DEFINE pr == [proc[p] EXCEPT !.pc = "unlock", !.base = None, !.new = None]
<1>1. proc[p] \in Processes /\ OneOK(proc[p]) /\ proc[p].pc = "write"
  BY TProc DEF Write, At
<1>2. proc[p].cmd \in Commands /\ proc[p].new \in Texts
  BY <1>1 DEF OneOK, Prepared
<1>3. proc' = [proc EXCEPT ![p] = pr]
  BY <1>1 DEF Write, Processes, TInv, TypeOK
<1>4. pr \in Processes /\ pr.pc = "unlock" /\ pr.cmd = proc[p].cmd
  BY <1>1 DEF Processes
<1>5. OneOK(pr)
  BY <1>2, <1>4 DEF OneOK, Searching, Carrying, Prepared
<1>6. blind' \in BOOLEAN
  BY DEF Write, TInv, TypeOK
<1> QED BY <1>2, <1>3, <1>5, <1>6, OneStep DEF Write, TInv, TypeOK

LEMMA TWriteFails == ASSUME TInv, NEW p \in Procs, WriteFails(p) PROVE TInv'
<1> DEFINE pr == [proc[p] EXCEPT !.pc = "unlock", !.ok = FALSE, !.out = Empty,
                                 !.base = None, !.new = None]
<1>1. proc[p] \in Processes /\ OneOK(proc[p]) /\ proc[p].pc = "write"
  BY TProc DEF WriteFails, At
<1>2. proc[p].cmd \in Commands /\ Empty \in Archives
  BY <1>1 DEF OneOK, Prepared, Empty, Archives
<1>3. proc' = [proc EXCEPT ![p] = pr]
  BY <1>1 DEF WriteFails, Processes, TInv, TypeOK
<1>4. pr \in Processes /\ pr.pc = "unlock" /\ pr.cmd = proc[p].cmd
  BY <1>1, <1>2 DEF Processes
<1>5. OneOK(pr)
  BY <1>2, <1>4 DEF OneOK, Searching, Carrying, Prepared
<1> QED BY <1>3, <1>5, OneStep DEF WriteFails, TInv, TypeOK

LEMMA TUnlock == ASSUME TInv, NEW p \in Procs, Unlock(p) PROVE TInv'
<1> DEFINE pr == AfterUnlock(p)
<1>1. proc[p] \in Processes /\ OneOK(proc[p]) /\ proc[p].pc = "unlock"
  BY TProc DEF Unlock, At
<1>2. proc[p].cmd \in Commands
  BY <1>1 DEF OneOK
<1>3. proc' = [proc EXCEPT ![p] = pr]
  BY DEF Unlock
<1>4. OneOK(pr)
  <2>1. CASE pr = [proc[p] EXCEPT !.pc = "fetch"]
    <3>1. pr \in Processes /\ pr.pc = "fetch" /\ pr.cmd = proc[p].cmd
      BY <1>1, <2>1 DEF Processes
    <3> QED BY <1>2, <3>1 DEF OneOK, Searching, Carrying, Prepared
  <2>2. CASE pr = [Fresh EXCEPT !.pc = "look", !.cmd = [op |-> "auto-prune"],
                                !.scan = proc[p].scan]
    <3>1. pr \in Processes
      BY <1>1, <2>2, FreshType, AutoPruneCommand DEF Processes
    <3>2. pr.pc = "look" /\ pr.cmd = [op |-> "auto-prune"] /\ pr.tries = 0
      BY <2>2 DEF Fresh
    <3>3. 0 < MaxTries
      BY StateAssumption
    <3> QED BY <3>1, <3>2, <3>3, AutoPruneCommand
         DEF OneOK, Searching, Carrying, Prepared, LookAhead, Prunes
  <2>3. CASE pr = Over
    BY <2>3, FreshType DEF OneOK, Over, Fresh, Searching, Carrying, Prepared
  <2> QED BY <2>1, <2>2, <2>3 DEF AfterUnlock
<1>5. acked' \subseteq Decisions
  <2>1. proc[p].cmd.op = "add-decision" => <<proc[p].cmd.phase, proc[p].cmd.note>> \in Decisions
    BY <1>2 DEF Commands, Decisions
  <2> QED BY <2>1 DEF Unlock, Op, TInv, TypeOK
<1> HIDE DEF pr
<1> QED BY <1>3, <1>4, <1>5, OneStep DEF Unlock, TInv, TypeOK

LEMMA TFetch == ASSUME TInv, NEW p \in Procs, FetchArchive(p) PROVE TInv'
<1> DEFINE pr == [proc[p] EXCEPT !.pc = "store", !.shelf = archive]
<1>1. proc[p] \in Processes /\ OneOK(proc[p]) /\ proc[p].pc = "fetch" /\ archive \in Archives
  BY TProc DEF FetchArchive, At, TInv, TypeOK
<1>2. proc' = [proc EXCEPT ![p] = pr]
  BY <1>1 DEF FetchArchive, Processes, TInv, TypeOK
<1>3. pr \in Processes /\ pr.pc = "store" /\ pr.cmd = proc[p].cmd /\ proc[p].cmd \in Commands
  BY <1>1 DEF Processes, OneOK
<1>4. OneOK(pr)
  BY <1>3 DEF OneOK, Searching, Carrying, Prepared
<1> QED BY <1>2, <1>4, OneStep DEF FetchArchive, TInv, TypeOK

LEMMA TStore == ASSUME TInv, NEW p \in Procs, StoreArchive(p) PROVE TInv'
<1>1. OneOK(Over)
  BY FreshType DEF OneOK, Over, Fresh, Searching, Carrying, Prepared
<1>2. archive' \in Archives
  BY TProc DEF StoreArchive, Both, Archives, Processes
<1>3. blind' \in BOOLEAN
  BY DEF StoreArchive, TInv, TypeOK
<1> QED BY <1>1, <1>2, <1>3, OneStep DEF StoreArchive, TInv, TypeOK

LEMMA TKill == ASSUME TInv, NEW p \in Procs, Kill(p) PROVE TInv'
<1>1. proc[p].out \in Archives
  BY TProc DEF Processes
<1>2. OneOK(Left(proc[p].out))
  BY <1>1, LeftType DEF OneOK, Left, Fresh, Searching, Carrying, Prepared
<1> QED BY <1>2, OneStep DEF Kill, TInv, TypeOK

LEMMA TAge == ASSUME TInv, Age PROVE TInv'
<1>1. lock' \in Locks
  BY DEF Age, Locks, TInv, TypeOK
<1> QED BY <1>1 DEF Age, TInv, TypeOK

LEMMA DiskGrows ==
  ASSUME TInv, NEW n \in Phases, PlanWritten(n) \/ SummaryWritten(n)
  PROVE  /\ disk' \in Disks
         /\ \A m \in Phases : disk[m].done <= disk'[m].done
<1>1. disk \in Disks /\ disk[n].plans \in 0..MaxPlans /\ disk[n].done \in 0..MaxPlans
  BY DEF TInv, TypeOK, Disks
<1>2. CASE PlanWritten(n)
  <2>1. disk[n].plans + 1 \in 0..MaxPlans
    BY <1>1, <1>2, StateNumbers DEF PlanWritten
  <2>2. disk' = [disk EXCEPT ![n] = [disk[n] EXCEPT !.plans = disk[n].plans + 1]]
    BY <1>1, <1>2 DEF PlanWritten
  <2>3. [disk[n] EXCEPT !.plans = disk[n].plans + 1] \in [plans: 0..MaxPlans, done: 0..MaxPlans]
    BY <1>1, <2>1 DEF Disks
  <2>4. disk' \in Disks
    BY <1>1, <2>2, <2>3 DEF Disks
  <2>5. \A m \in Phases : disk'[m].done = disk[m].done
    BY <1>1, <2>2 DEF Disks
  <2> QED BY <1>1, <2>4, <2>5, StateNumbers DEF Disks
<1>3. CASE SummaryWritten(n)
  <2>1. disk[n].done + 1 \in 0..MaxPlans
    BY <1>1, <1>3, StateNumbers DEF SummaryWritten
  <2>2. disk' = [disk EXCEPT ![n] = [disk[n] EXCEPT !.done = disk[n].done + 1]]
    BY <1>1, <1>3 DEF SummaryWritten
  <2>3. [disk[n] EXCEPT !.done = disk[n].done + 1] \in [plans: 0..MaxPlans, done: 0..MaxPlans]
    BY <1>1, <2>1 DEF Disks
  <2>4. disk' \in Disks
    BY <1>1, <2>2, <2>3 DEF Disks
  <2>5. \A m \in Phases : disk'[m].done = disk[m].done \/ disk'[m].done = disk[m].done + 1
    BY <1>1, <2>2 DEF Disks
  <2>6. \A m \in Phases : disk[m].done \in Int
    BY <1>1 DEF Disks
  <2> QED BY <2>4, <2>5, <2>6
<1> QED BY <1>2, <1>3

LEMMA TGrow == ASSUME TInv, NEW n \in Phases, PlanWritten(n) \/ SummaryWritten(n) PROVE TInv'
  BY DiskGrows DEF PlanWritten, SummaryWritten, TInv, TypeOK

LEMMA TNext == TInv /\ [Next]_vars => TInv'
<1> SUFFICES ASSUME TInv, [Next]_vars PROVE TInv'
  OBVIOUS
<1>1. ASSUME NEW p \in Procs, Step(p) PROVE TInv'
  BY <1>1, TLook, TLoad, TPrepare, TAcquire, TContended, TRemoveStale, TGiveUp, TRead, TWrite,
     TWriteFails, TUnlock, TFetch, TStore DEF Step
<1>2. CASE UNCHANGED vars
  BY <1>2 DEF vars, TInv, TypeOK
<1> QED BY <1>1, <1>2, TStart, TKill, TAge, TGrow DEF Next

(* TypeOK: every shared file and every process keeps its form.             *)
THEOREM StateTypeCorrect == Spec => []TypeOK
<1>1. TInv => TypeOK
  BY DEF TInv
<1> QED BY <1>1, TInit, TNext, PTL DEF Spec

---------------------------------------------------------------------------
(* The lock.                                                               *)

Excl == MutualExclusion /\ NoOrphanLock

(* A step of p changes no other process, and moves p as the pc says.       *)
LEMMA OnlyP ==
  ASSUME TInv, NEW p \in Procs, Step(p) \/ Kill(p) \/ \E c \in Menu[p] : Start(p, c)
  PROVE  \A q \in Procs \ {p} : proc'[q] = proc[q]
  BY DEF Step, Kill, Start, Look, Load, Prepare, Acquire, Contended, RemoveStale, GiveUp, Read,
         Write, WriteFails, Unlock, FetchArchive, StoreArchive, Goto, TInv, TypeOK

LEMMA MovesOf ==
  ASSUME TInv, NEW p \in Procs
  PROVE  /\ Look(p) => proc'[p].pc \in {"lock", "done"}
         /\ Load(p) => proc'[p].pc = "stamp"
         /\ Prepare(p) => proc'[p].pc = "lock"
         /\ Acquire(p) => proc'[p].pc \in {"read", "write"}
         /\ Contended(p) => proc'[p].pc \in {"lock", "stale", "giveup"}
         /\ RemoveStale(p) => proc'[p].pc \in {"lock", "read", "write"}
         /\ GiveUp(p) => proc'[p].pc \in {"read", "write"}
         /\ Read(p) => proc'[p].pc = "write"
         /\ Write(p) \/ WriteFails(p) => proc'[p].pc = "unlock"
         /\ Unlock(p) => proc'[p].pc \in {"fetch", "look", "done"}
         /\ FetchArchive(p) => proc'[p].pc = "store"
         /\ StoreArchive(p) => proc'[p].pc = "done"
         /\ Kill(p) => proc'[p].pc = "dead"
         /\ \A c \in Menu[p] : Start(p, c) => proc'[p].pc \in {"look", "load", "lock"}
<1>1. proc \in [Procs -> Processes]
  BY DEF TInv, TypeOK
<1>2. Look(p) => proc'[p].pc \in {"lock", "done"}
  BY <1>1 DEF Look, Over, Fresh, Processes
<1>3. Load(p) => proc'[p].pc = "stamp"
  BY <1>1 DEF Load, Processes
<1>4. Prepare(p) => proc'[p].pc = "lock"
  BY <1>1 DEF Prepare, Processes
<1>5. Acquire(p) => proc'[p].pc \in {"read", "write"}
  BY <1>1 DEF Acquire, Goto, Section, Processes
<1>6. Contended(p) => proc'[p].pc \in {"lock", "stale", "giveup"}
  BY <1>1 DEF Contended, Goto, Processes, At
<1>7. RemoveStale(p) => proc'[p].pc \in {"lock", "read", "write"}
  BY <1>1 DEF RemoveStale, Section, Processes
<1>8. GiveUp(p) => proc'[p].pc \in {"read", "write"}
  BY <1>1 DEF GiveUp, Goto, Section, Processes
<1>9. Read(p) => proc'[p].pc = "write"
  BY <1>1 DEF Read, Processes
<1>10. Write(p) \/ WriteFails(p) => proc'[p].pc = "unlock"
  BY <1>1 DEF Write, WriteFails, Processes
<1>11. Unlock(p) => proc'[p].pc \in {"fetch", "look", "done"}
  <2>1. AfterUnlock(p).pc \in {"fetch", "look", "done"}
    BY <1>1 DEF AfterUnlock, Over, Fresh, Processes
  <2> QED BY <1>1, <2>1 DEF Unlock
<1>12. FetchArchive(p) => proc'[p].pc = "store"
  BY <1>1 DEF FetchArchive, Processes
<1>13. StoreArchive(p) => proc'[p].pc = "done"
  BY <1>1 DEF StoreArchive, Over, Fresh
<1>14. Kill(p) => proc'[p].pc = "dead"
  BY <1>1 DEF Kill, Left, Fresh
<1>15. \A c \in Menu[p] : Start(p, c) => proc'[p].pc \in {"look", "load", "lock"}
  BY <1>1 DEF Start, FirstStep, Processes
<1> QED BY <1>2, <1>3, <1>4, <1>5, <1>6, <1>7, <1>8, <1>9, <1>10, <1>11, <1>12, <1>13, <1>14, <1>15

LEMMA ExclInit == Init => Excl
<1> SUFFICES ASSUME Init PROVE Excl
  OBVIOUS
<1> PICK dead \in {D \in SUBSET Procs : Cardinality(D) <= MaxKills} :
       /\ proc = [p \in Procs |-> IF p \in dead THEN Left(Empty) ELSE Fresh]
       /\ lock \in {None} \cup [owner: dead, old: BOOLEAN]
  BY DEF Init
<1>1. \A p \in Procs : proc[p].pc = IF p \in dead THEN "dead" ELSE "start"
  BY DEF Left, Fresh
<1>2. lock # None => lock.owner \in dead /\ lock.owner \in Procs
  OBVIOUS
<1> QED BY <1>1, <1>2 DEF Excl, MutualExclusion, NoOrphanLock, InSection, At

LEMMA ExclNext == TInv /\ Excl /\ [Next]_vars => Excl'
<1> SUFFICES ASSUME TInv, Excl, [Next]_vars PROVE Excl'
  OBVIOUS
<1> USE DEF Excl, MutualExclusion, NoOrphanLock, InSection, At
<1>1. lock \in Locks \cup {None} /\ None \notin Locks
  BY StateAssumption DEF TInv, TypeOK
<1>2. ASSUME NEW p \in Procs, Acquire(p) PROVE Excl'
  <2>1. lock' = [owner |-> p, old |-> FALSE] /\ lock' \in Locks /\ lock = None /\ broken' = broken
    BY <1>2 DEF Acquire, Locks
  <2>2. proc'[p].pc \in {"read", "write"}
    BY <1>2, MovesOf
  <2>3. \A q \in Procs \ {p} : proc'[q] = proc[q]
    BY <1>2, OnlyP DEF Step
  <2> QED BY <1>1, <2>1, <2>2, <2>3
<1>3. ASSUME NEW p \in Procs, RemoveStale(p) PROVE Excl'
  <2> DEFINE last == proc[p].tries + 1 >= MaxTries
  <2>1. /\ lock' = None /\ proc[p].pc = "stale"
        /\ broken' = (broken \/ StealsFromLive \/ last)
        /\ ~last => proc'[p].pc = "lock"
    <3>1. proc \in [Procs -> Processes]
      BY DEF TInv, TypeOK
    <3>2. proc' = [proc EXCEPT ![p].tries = @ + 1, ![p].pc = IF last THEN Section(p) ELSE "lock"]
      BY <1>3 DEF RemoveStale
    <3>3. ~last => proc'[p].pc = "lock"
      BY <3>1, <3>2 DEF Processes
    <3> QED BY <1>3, <3>3 DEF RemoveStale
  <2>2. \A q \in Procs \ {p} : proc'[q] = proc[q]
    BY <1>3, OnlyP DEF Step
  <2>3. ~broken' => ~last
    BY <2>1
  <2>4. ~broken' => \A q \in Procs : ~InSection(q)
    BY <1>1, <2>1 DEF StealsFromLive
  <2> HIDE DEF last
  <2> QED BY <2>1, <2>2, <2>3, <2>4
<1>4. ASSUME NEW p \in Procs, GiveUp(p) PROVE Excl'
  BY <1>4 DEF GiveUp
<1>5. ASSUME NEW p \in Procs, Unlock(p) PROVE Excl'
  <2>1. lock' = None /\ proc[p].pc = "unlock" /\ broken' = broken
    BY <1>5 DEF Unlock
  <2>2. \A q \in Procs \ {p} : proc'[q] = proc[q]
    BY <1>5, OnlyP DEF Step
  <2>3. proc'[p].pc \notin {"read", "write", "unlock"}
    BY <1>5, MovesOf
  <2> QED BY <2>1, <2>2, <2>3
<1>6. ASSUME NEW p \in Procs, Kill(p) PROVE Excl'
  <2>1. lock' = lock /\ broken' = broken /\ proc'[p].pc = "dead"
    BY <1>6, MovesOf DEF Kill
  <2>2. \A q \in Procs \ {p} : proc'[q] = proc[q]
    BY <1>6, OnlyP
  <2> QED BY <1>1, <2>1, <2>2 DEF Locks
<1>7. ASSUME NEW p \in Procs,
             \/ Look(p) \/ Load(p) \/ Prepare(p) \/ Contended(p) \/ FetchArchive(p) \/ StoreArchive(p)
             \/ \E c \in Menu[p] : Start(p, c)
      PROVE  Excl'
  <2>1. lock' = lock /\ broken' = broken
    BY <1>7 DEF Look, Load, Prepare, Contended, FetchArchive, StoreArchive, Start
  <2>2. proc[p].pc \in {"start", "look", "load", "stamp", "lock", "fetch", "store"}
    BY <1>7 DEF Look, Load, Prepare, Contended, FetchArchive, StoreArchive, Start
  <2>3. proc'[p].pc \notin {"read", "write", "unlock"}
    BY <1>7, MovesOf
  <2>4. \A q \in Procs \ {p} : proc'[q] = proc[q]
    BY <1>7, OnlyP DEF Step
  <2> QED BY <1>1, <2>1, <2>2, <2>3, <2>4 DEF Locks
<1>8. ASSUME NEW p \in Procs, Read(p) \/ Write(p) \/ WriteFails(p) PROVE Excl'
  <2>1. lock' = lock /\ broken' = broken
    BY <1>8 DEF Read, Write, WriteFails
  <2>2. proc[p].pc \in {"read", "write"} /\ proc'[p].pc \in {"write", "unlock"}
    BY <1>8, MovesOf DEF Read, Write, WriteFails
  <2>3. \A q \in Procs \ {p} : proc'[q] = proc[q]
    BY <1>8, OnlyP DEF Step
  <2> QED BY <1>1, <2>1, <2>2, <2>3 DEF Locks
<1>9. CASE Age
  <2>1. lock' # None /\ lock'.owner = lock.owner /\ lock # None /\ proc' = proc /\ broken' = broken
    BY <1>1, <1>9 DEF Age, Locks
  <2> QED BY <2>1
<1>10. ASSUME NEW n \in Phases, PlanWritten(n) \/ SummaryWritten(n) PROVE Excl'
  BY <1>10 DEF PlanWritten, SummaryWritten
<1>11. CASE UNCHANGED vars
  BY <1>11 DEF vars
<1> QED BY <1>2, <1>3, <1>4, <1>5, <1>6, <1>7, <1>8, <1>9, <1>10, <1>11 DEF Next, Step

(* MutualExclusion: acquireStateLock admits one process at a time, as long *)
(* as no live process's lock is removed and nobody goes on without it.     *)
THEOREM StateMutualExclusion == Spec => []MutualExclusion
<1>1. Excl => MutualExclusion
  BY DEF Excl
<1> QED BY <1>1, TInit, TNext, ExclInit, ExclNext, PTL DEF Spec

(* NoOrphanLock: a lock file that is found was made by a process in its    *)
(* section or by one that was killed there.                                *)
THEOREM StateNoOrphanLock == Spec => []NoOrphanLock
<1>1. Excl => NoOrphanLock
  BY DEF Excl
<1> QED BY <1>1, TInit, TNext, ExclInit, ExclNext, PTL DEF Spec

---------------------------------------------------------------------------
(* The decisions.                                                          *)

(* What a process is about to write under a respected lock was made from   *)
(* the text that is there.                                                 *)
BaseOK ==
  ~broken => \A p \in Procs :
               proc[p].pc = "write" /\ ~Early(proc[p]) => proc[p].base = state

(* A process has entries in hand from the read of a prune to its archive.  *)
OutOK ==
  \A p \in Procs :
    /\ proc[p].pc \notin {"write", "unlock", "fetch", "store", "dead"} => proc[p].out = Empty
    /\ proc[p].pc = "write" =>
         proc[p].out = IF proc[p].cmd.op \in Prunes
                       THEN Pruned(proc[p].base.body, proc[p].seen.n) ELSE Empty

InHand == UNION {proc[p].out.decisions : p \in Procs}
Kept == state.body.decisions \cup archive.decisions \cup InHand

(* A decision about to be reported is kept already.                        *)
Added(pr) == <<pr.cmd.phase, pr.cmd.note>>
Reporting(pr) == pr.pc = "unlock" /\ pr.ok /\ pr.cmd.op = "add-decision"
AckOK ==
  ~broken /\ ~blind =>
    /\ acked \subseteq Kept
    /\ \A p \in Procs : Reporting(proc[p]) => Added(proc[p]) \in Kept

DInv == BaseOK /\ OutOK /\ AckOK

(* What the steps do to what a process carries.                            *)
LEMMA Carries ==
  ASSUME TInv, NEW p \in Procs
  PROVE  /\ Load(p) \/ Prepare(p) \/ Acquire(p) \/ Contended(p) \/ RemoveStale(p) \/ GiveUp(p)
              \/ Write(p) \/ FetchArchive(p)
            => proc'[p].out = proc[p].out /\ proc'[p].cmd = proc[p].cmd /\ proc'[p].ok = proc[p].ok
         /\ Acquire(p) \/ RemoveStale(p) \/ GiveUp(p)
            => proc'[p].base = proc[p].base /\ proc'[p].seen = proc[p].seen
         /\ Look(p) => proc'[p].out \in {proc[p].out, Empty}
         /\ \A c \in Menu[p] : Start(p, c) => proc'[p].out = proc[p].out
         /\ Read(p) => /\ proc'[p].base = state /\ proc'[p].seen = proc[p].seen
                       /\ proc'[p].cmd = proc[p].cmd
                       /\ proc'[p].out = IF proc[p].cmd.op \in Prunes
                                         THEN Pruned(state.body, proc[p].seen.n) ELSE Empty
         /\ WriteFails(p) => proc'[p].out = Empty /\ proc'[p].ok = FALSE
         /\ Kill(p) => proc'[p].out = proc[p].out
         /\ StoreArchive(p) => proc'[p].out = Empty
         /\ Unlock(p) => /\ proc'[p].out = proc[p].out \/ (proc[p].out = Empty /\ proc'[p].out = Empty)
                         /\ proc'[p].pc # "fetch" => proc'[p].out = Empty
<1>1. proc \in [Procs -> Processes] /\ proc[p] \in Processes
  BY DEF TInv, TypeOK
<1>2. ASSUME Load(p) \/ Prepare(p) \/ Acquire(p) \/ Contended(p) \/ RemoveStale(p) \/ GiveUp(p)
              \/ Write(p) \/ FetchArchive(p)
      PROVE  proc'[p].out = proc[p].out /\ proc'[p].cmd = proc[p].cmd /\ proc'[p].ok = proc[p].ok
  BY <1>1, <1>2 DEF Load, Prepare, Acquire, Contended, RemoveStale, GiveUp, Write, FetchArchive,
                    Goto, Processes
<1>3. ASSUME Acquire(p) \/ RemoveStale(p) \/ GiveUp(p)
      PROVE  proc'[p].base = proc[p].base /\ proc'[p].seen = proc[p].seen
  BY <1>1, <1>3 DEF Acquire, RemoveStale, GiveUp, Goto, Processes
<1>4. ASSUME Look(p) PROVE proc'[p].out \in {proc[p].out, Empty}
  BY <1>1, <1>4 DEF Look, Over, Fresh, Processes
<1>5. ASSUME NEW c \in Menu[p], Start(p, c) PROVE proc'[p].out = proc[p].out
  BY <1>1, <1>5 DEF Start, Processes
<1>6. ASSUME Read(p)
      PROVE  /\ proc'[p].base = state /\ proc'[p].seen = proc[p].seen
             /\ proc'[p].cmd = proc[p].cmd
             /\ proc'[p].out = IF proc[p].cmd.op \in Prunes
                               THEN Pruned(state.body, proc[p].seen.n) ELSE Empty
  BY <1>1, <1>6 DEF Read, Op, Processes
<1>7. ASSUME WriteFails(p) PROVE proc'[p].out = Empty /\ proc'[p].ok = FALSE
  BY <1>1, <1>7 DEF WriteFails, Processes
<1>8. ASSUME Kill(p) PROVE proc'[p].out = proc[p].out
  BY <1>1, <1>8 DEF Kill, Left, Fresh
<1>9. ASSUME StoreArchive(p) PROVE proc'[p].out = Empty
  BY <1>1, <1>9 DEF StoreArchive, Over, Fresh
<1>10. ASSUME Unlock(p)
       PROVE  /\ proc'[p].out = proc[p].out \/ (proc[p].out = Empty /\ proc'[p].out = Empty)
              /\ proc'[p].pc # "fetch" => proc'[p].out = Empty
  <2>1. proc'[p] = AfterUnlock(p)
    BY <1>1, <1>10 DEF Unlock
  <2>2. CASE proc[p].out # Empty
    <3>1. AfterUnlock(p) = [proc[p] EXCEPT !.pc = "fetch"]
      BY <2>2 DEF AfterUnlock
    <3> QED BY <1>1, <2>1, <3>1 DEF Processes
  <2>3. CASE proc[p].out = Empty
    <3>1. AfterUnlock(p).out = Empty
      BY <2>3 DEF AfterUnlock, Over, Fresh
    <3> QED BY <2>1, <2>3, <3>1
  <2> QED BY <2>2, <2>3
<1> QED BY <1>2, <1>3, <1>4, <1>5, <1>6, <1>7, <1>8, <1>9, <1>10

LEMMA DecInit == Init => DInv
<1> SUFFICES ASSUME Init PROVE DInv
  OBVIOUS
<1> PICK b \in Starts, d \in StartDisks :
       /\ state = [body |-> b, fm |-> BuildFrontmatter(b, d)]
       /\ disk = d
       /\ acked = b.decisions
  BY DEF Init
<1> PICK dead \in {D \in SUBSET Procs : Cardinality(D) <= MaxKills} :
       proc = [p \in Procs |-> IF p \in dead THEN Left(Empty) ELSE Fresh]
  BY DEF Init
<1>1. \A p \in Procs : proc[p].pc \in {"dead", "start"} /\ proc[p].out = Empty
  BY DEF Left, Fresh
<1> QED BY <1>1 DEF DInv, BaseOK, OutOK, AckOK, Kept, Reporting

LEMMA BaseNext == TInv /\ Excl /\ BaseOK /\ [Next]_vars => BaseOK'
<1> SUFFICES ASSUME TInv, Excl, BaseOK, [Next]_vars, ~broken',
                    NEW q \in Procs, proc'[q].pc = "write", ~Early(proc'[q])
             PROVE  proc'[q].base = state'
  BY DEF BaseOK
<1>1. ASSUME NEW p \in Procs, Read(p) PROVE proc'[q].base = state'
  <2>1. proc[p].pc = "read" /\ state' = state /\ broken' = broken
    BY <1>1 DEF Read, At
  <2>2. CASE q = p
    BY <1>1, <2>1, <2>2, Carries
  <2>3. CASE q # p
    <3>1. proc'[q] = proc[q]
      BY <1>1, <2>3, OnlyP DEF Step
    <3> QED BY <2>1, <3>1 DEF BaseOK
  <2> QED BY <2>2, <2>3
<1>2. ASSUME NEW p \in Procs, Write(p) PROVE proc'[q].base = state'
  <2>1. proc[p].pc = "write" /\ broken' = broken /\ proc'[p].pc = "unlock"
    BY <1>2, MovesOf DEF Write, At
  <2>2. q # p /\ proc'[q] = proc[q]
    BY <1>2, <2>1, OnlyP DEF Step
  <2>3. lock.owner = p /\ lock.owner = q
    BY <2>1, <2>2 DEF Excl, MutualExclusion, InSection
  <2> QED BY <2>2, <2>3
<1>3. ASSUME NEW p \in Procs, Acquire(p) \/ RemoveStale(p) \/ GiveUp(p)
      PROVE  proc'[q].base = state'
  <2>1. state' = state /\ (broken => broken')
    <3>1. RemoveStale(p) => state' = state /\ (broken => broken')
      BY Zenon DEF RemoveStale
    <3>2. Acquire(p) \/ GiveUp(p) => state' = state /\ (broken => broken')
      BY DEF Acquire, GiveUp
    <3> QED BY <1>3, <3>1, <3>2
  <2>2. CASE q # p
    <3>1. proc'[q] = proc[q]
      BY <1>3, <2>2, OnlyP DEF Step
    <3> QED BY <2>1, <3>1 DEF BaseOK
  <2>3. CASE q = p
    <3>1. proc'[p].cmd = proc[p].cmd
      BY <1>3, Carries
    <3>2. proc'[p].pc = "write" => Op(p) \in UnlockedReaders
      BY <1>3, <3>1 DEF Acquire, RemoveStale, GiveUp, Goto, Section, TInv, TypeOK, Processes
    <3> QED BY <2>3, <3>1, <3>2 DEF Early, Op
  <2> QED BY <2>2, <2>3
<1>4. ASSUME NEW p \in Procs,
             \/ Look(p) \/ Load(p) \/ Prepare(p) \/ Contended(p) \/ FetchArchive(p) \/ StoreArchive(p)
             \/ WriteFails(p) \/ Unlock(p) \/ Kill(p)
             \/ \E c \in Menu[p] : Start(p, c)
      PROVE  proc'[q].base = state'
  <2>1. state' = state /\ broken' = broken
    BY <1>4 DEF Look, Load, Prepare, Contended, FetchArchive, StoreArchive, WriteFails, Unlock, Kill, Start
  <2>2. proc'[p].pc # "write"
    BY <1>4, MovesOf
  <2>3. proc'[q] = proc[q]
    BY <1>4, <2>2, OnlyP DEF Step
  <2> QED BY <2>1, <2>3 DEF BaseOK
<1>5. CASE Age \/ (\E n \in Phases : PlanWritten(n) \/ SummaryWritten(n)) \/ UNCHANGED vars
  BY <1>5 DEF Age, PlanWritten, SummaryWritten, vars, BaseOK
<1> QED BY <1>1, <1>2, <1>3, <1>4, <1>5 DEF Next, Step

LEMMA OutNext == TInv /\ OutOK /\ [Next]_vars => OutOK'
<1> SUFFICES ASSUME TInv, OutOK, [Next]_vars PROVE OutOK'
  OBVIOUS
<1> USE DEF OutOK
<1>1. ASSUME NEW p \in Procs, Read(p) PROVE OutOK'
  <2>1. \A q \in Procs \ {p} : proc'[q] = proc[q]
    BY <1>1, OnlyP DEF Step
  <2>2. proc'[p].pc = "write"
    BY <1>1, MovesOf
  <2>3. proc'[p].out = IF proc'[p].cmd.op \in Prunes
                       THEN Pruned(proc'[p].base.body, proc'[p].seen.n) ELSE Empty
    BY <1>1, Carries
  <2> QED BY <2>1, <2>2, <2>3
<1>2. ASSUME NEW p \in Procs, Acquire(p) \/ RemoveStale(p) \/ GiveUp(p) PROVE OutOK'
  <2>1. \A q \in Procs \ {p} : proc'[q] = proc[q]
    BY <1>2, OnlyP DEF Step
  <2>2. proc[p].pc \in {"lock", "stale", "giveup"}
    BY <1>2 DEF Acquire, RemoveStale, GiveUp, At
  <2>3. proc'[p].out = Empty /\ proc'[p].cmd = proc[p].cmd
    BY <1>2, <2>2, Carries
  <2>4. proc'[p].pc = "write" => Op(p) \in UnlockedReaders
    BY <1>2, <2>3 DEF Acquire, RemoveStale, GiveUp, Goto, Section, TInv, TypeOK, Processes
  <2>5. proc'[p].pc = "write" => proc'[p].cmd.op \notin Prunes
    BY <2>3, <2>4 DEF Op, UnlockedReaders, Prunes
  <2> QED BY <2>1, <2>3, <2>5
<1>3. ASSUME NEW p \in Procs,
             \/ Look(p) \/ Load(p) \/ Prepare(p) \/ Contended(p)
             \/ \E c \in Menu[p] : Start(p, c)
      PROVE  OutOK'
  <2>1. \A q \in Procs \ {p} : proc'[q] = proc[q]
    BY <1>3, OnlyP DEF Step
  <2>2. proc[p].pc \in {"start", "look", "load", "stamp", "lock"}
    BY <1>3 DEF Look, Load, Prepare, Contended, Start, At
  <2>3. proc'[p].out = Empty
    BY <1>3, <2>2, Carries
  <2>4. proc'[p].pc # "write"
    BY <1>3, MovesOf
  <2> QED BY <2>1, <2>3, <2>4
<1>4. ASSUME NEW p \in Procs,
             Write(p) \/ WriteFails(p) \/ FetchArchive(p) \/ StoreArchive(p) \/ Unlock(p) \/ Kill(p)
      PROVE  OutOK'
  <2>1. \A q \in Procs \ {p} : proc'[q] = proc[q]
    BY <1>4, OnlyP DEF Step
  <2>2. proc'[p].pc \notin {"unlock", "store", "dead", "fetch"} => proc'[p].out = Empty
    BY <1>4, MovesOf, Carries
  <2>3. proc'[p].pc # "write"
    BY <1>4, MovesOf
  <2> QED BY <2>1, <2>2, <2>3
<1>5. CASE Age \/ (\E n \in Phases : PlanWritten(n) \/ SummaryWritten(n)) \/ UNCHANGED vars
  BY <1>5 DEF Age, PlanWritten, SummaryWritten, vars
<1> QED BY <1>1, <1>2, <1>3, <1>4, <1>5 DEF Next, Step

LEMMA AddKeeps ==
  ASSUME NEW b \in Bodies, NEW c \in Commands, NEW seen \in Seen(c), c.op = "add-decision"
  PROVE  <<c.phase, c.note>> \in Transform(c, b, seen).decisions
  BY DEF Transform, AddDecision, Bodies, Prunes

(* Entries that move from one hand to another are not lost.                *)
LEMMA HandsKeep ==
  ASSUME TInv, NEW p \in Procs, \A q \in Procs \ {p} : proc'[q] = proc[q],
         NEW Lost, proc[p].out.decisions \subseteq proc'[p].out.decisions \cup Lost
  PROVE  InHand \subseteq InHand' \cup Lost
  BY DEF InHand

LEMMA AckNext == TInv /\ DInv /\ Excl /\ [Next]_vars => AckOK'
<1> SUFFICES ASSUME TInv, DInv, Excl, [Next]_vars, ~broken', ~blind'
             PROVE  /\ acked' \subseteq Kept'
                    /\ \A p \in Procs : Reporting(proc'[p]) => Added(proc'[p]) \in Kept'
  BY DEF AckOK
<1> USE DEF Kept
<1>1. ASSUME NEW p \in Procs, Write(p)
      PROVE  /\ acked' \subseteq Kept'
             /\ \A q \in Procs : Reporting(proc'[q]) => Added(proc'[q]) \in Kept'
  <2>1. /\ proc[p].pc = "write" /\ state' = proc[p].new /\ archive' = archive
        /\ acked' = acked /\ ~broken /\ ~blind
    BY <1>1, Zenon DEF Write, At
  <2>2. OneOK(proc[p]) /\ Prepared(proc[p])
    BY <2>1, TProc DEF Prepared
  <2>3. proc[p].base = state
    <3>1. Early(proc[p]) => proc[p].base = state
      BY <1>1, Zenon DEF Write, Op, Early
    <3> QED BY <2>1, <3>1 DEF DInv, BaseOK
  <2> DEFINE c == proc[p].cmd
             seen == proc[p].seen
  <2>4. c \in Commands /\ seen \in Seen(c) /\ state.body \in Bodies
        /\ state'.body = Transform(c, state.body, seen)
    BY <2>1, <2>2, <2>3 DEF OneOK, Carrying, Texts
  <2>5. \A q \in Procs \ {p} : proc'[q] = proc[q]
    BY <1>1, OnlyP DEF Step
  <2>6. proc'[p].out = proc[p].out /\ proc'[p].cmd = c /\ proc'[p].ok = proc[p].ok
    BY <1>1, Carries
  <2>7. InHand' = InHand
    BY <2>5, <2>6 DEF InHand
  <2> HIDE DEF c, seen
  <2>8. state.body.decisions \subseteq state'.body.decisions \cup InHand
    <3>1. CASE c.op \in Prunes
      <4>1. proc[p].out = Pruned(state.body, seen.n)
        BY <2>1, <2>3, <3>1 DEF DInv, OutOK, c, seen
      <4>2. state'.body.decisions = state.body.decisions \ Pruned(state.body, seen.n).decisions
        BY <2>4, <3>1, TransformType
      <4> QED BY <4>1, <4>2 DEF InHand
    <3>2. CASE c.op \notin Prunes
      BY <2>4, <3>2, TransformType
    <3> QED BY <3>1, <3>2
  <2>9. Kept \subseteq Kept'
    BY <2>1, <2>7, <2>8
  <2>10. Reporting(proc'[p]) => Added(proc'[p]) \in state'.body.decisions
    BY <2>4, <2>6, AddKeeps DEF Reporting, Added
  <2>11. \A q \in Procs \ {p} : Reporting(proc'[q]) => Added(proc'[q]) \in Kept
    BY <2>1, <2>5 DEF DInv, AckOK
  <2>12. acked \subseteq Kept
    BY <2>1 DEF DInv, AckOK
  <2> QED BY <2>1, <2>9, <2>10, <2>11, <2>12
<1>2. ASSUME NEW p \in Procs, WriteFails(p)
      PROVE  /\ acked' \subseteq Kept'
             /\ \A q \in Procs : Reporting(proc'[q]) => Added(proc'[q]) \in Kept'
  <2>1. /\ proc[p].pc = "write" /\ state' = state /\ archive' = archive
        /\ acked' = acked /\ broken' = broken /\ blind' = blind
    BY <1>2 DEF WriteFails, At
  <2>2. \A q \in Procs \ {p} : proc'[q] = proc[q]
    BY <1>2, OnlyP DEF Step
  <2>3. proc'[p].out = Empty /\ proc'[p].ok = FALSE
    BY <1>2, Carries
  <2>4. proc[p].out.decisions \subseteq state.body.decisions
    <3>1. CASE proc[p].cmd.op \in Prunes
      <4>1. proc[p].base = state
        BY <2>1, <3>1 DEF DInv, BaseOK, Early, UnlockedReaders, Prunes
      <4>2. proc[p].out = Pruned(state.body, proc[p].seen.n)
        BY <2>1, <3>1, <4>1 DEF DInv, OutOK
      <4> QED BY <4>2 DEF Pruned
    <3>2. CASE proc[p].cmd.op \notin Prunes
      BY <2>1, <3>2 DEF DInv, OutOK, Empty
    <3> QED BY <3>1, <3>2
  <2>5. InHand \subseteq InHand' \cup state.body.decisions
    BY <2>2, <2>4, HandsKeep
  <2>6. Kept \subseteq Kept'
    BY <2>1, <2>5
  <2> QED BY <2>1, <2>2, <2>3, <2>6 DEF DInv, AckOK, Reporting
<1>3. ASSUME NEW p \in Procs, Unlock(p)
      PROVE  /\ acked' \subseteq Kept'
             /\ \A q \in Procs : Reporting(proc'[q]) => Added(proc'[q]) \in Kept'
  <2>1. /\ proc[p].pc = "unlock" /\ state' = state /\ archive' = archive
        /\ broken' = broken /\ blind' = blind
        /\ acked' = acked \/ (Reporting(proc[p]) /\ acked' = acked \cup {Added(proc[p])})
    BY <1>3 DEF Unlock, At, Op, Reporting, Added
  <2>2. \A q \in Procs \ {p} : proc'[q] = proc[q]
    BY <1>3, OnlyP DEF Step
  <2>3. proc'[p].pc # "unlock"
    BY <1>3, MovesOf
  <2>4. proc[p].out.decisions \subseteq proc'[p].out.decisions \cup {}
    BY <1>3, Carries
  <2>5. InHand \subseteq InHand' \cup {}
    BY <2>2, <2>4, HandsKeep
  <2>6. Kept \subseteq Kept'
    BY <2>1, <2>5
  <2> QED BY <2>1, <2>2, <2>3, <2>6 DEF DInv, AckOK, Reporting
<1>4. ASSUME NEW p \in Procs, StoreArchive(p)
      PROVE  /\ acked' \subseteq Kept'
             /\ \A q \in Procs : Reporting(proc'[q]) => Added(proc'[q]) \in Kept'
  <2>1. /\ proc[p].pc = "store" /\ state' = state /\ acked' = acked
        /\ archive' = Both(proc[p].shelf, proc[p].out)
        /\ ~broken /\ ~blind /\ proc[p].shelf = archive
    BY <1>4, Zenon DEF StoreArchive, At
  <2>2. archive'.decisions = archive.decisions \cup proc[p].out.decisions
    BY <2>1 DEF Both
  <2>3. \A q \in Procs \ {p} : proc'[q] = proc[q]
    BY <1>4, OnlyP DEF Step
  <2>4. proc'[p].pc # "unlock"
    BY <1>4, MovesOf
  <2>5. InHand \subseteq InHand' \cup proc[p].out.decisions
    BY <2>3, HandsKeep
  <2>6. Kept \subseteq Kept'
    BY <2>1, <2>2, <2>5
  <2> QED BY <2>1, <2>3, <2>4, <2>6 DEF DInv, AckOK, Reporting
<1>5. ASSUME NEW p \in Procs,
             \/ Look(p) \/ Load(p) \/ Prepare(p) \/ Contended(p) \/ FetchArchive(p)
             \/ Acquire(p) \/ RemoveStale(p) \/ GiveUp(p) \/ Read(p) \/ Kill(p)
             \/ \E c \in Menu[p] : Start(p, c)
      PROVE  /\ acked' \subseteq Kept'
             /\ \A q \in Procs : Reporting(proc'[q]) => Added(proc'[q]) \in Kept'
  <2>1. state' = state /\ archive' = archive /\ acked' = acked /\ blind' = blind
    BY <1>5 DEF Look, Load, Prepare, Contended, FetchArchive, Acquire, RemoveStale, GiveUp, Read,
                Kill, Start
  <2>2. ~broken
    <3>1. RemoveStale(p) => ~broken
      BY Zenon DEF RemoveStale
    <3> QED BY <1>5, <3>1 DEF Look, Load, Prepare, Contended, FetchArchive, Acquire, GiveUp, Read,
                              Kill, Start
  <2>3. \A q \in Procs \ {p} : proc'[q] = proc[q]
    BY <1>5, OnlyP DEF Step
  <2>4. proc'[p].pc # "unlock"
    BY <1>5, MovesOf
  <2>5. proc[p].out.decisions \subseteq proc'[p].out.decisions \cup {}
    <3>1. Look(p) \/ Read(p) => proc[p].out = Empty
      BY DEF Look, Read, At, DInv, OutOK
    <3>2. Look(p) \/ Read(p) => proc[p].out.decisions = {}
      BY <3>1 DEF Empty
    <3> QED BY <1>5, <3>2, Carries
  <2>6. InHand \subseteq InHand' \cup {}
    BY <2>3, <2>5, HandsKeep
  <2>7. Kept \subseteq Kept'
    BY <2>1, <2>6
  <2> QED BY <2>1, <2>2, <2>3, <2>4, <2>7 DEF DInv, AckOK, Reporting
<1>6. CASE Age \/ (\E n \in Phases : PlanWritten(n) \/ SummaryWritten(n)) \/ UNCHANGED vars
  BY <1>6 DEF Age, PlanWritten, SummaryWritten, vars, DInv, AckOK, InHand
<1> QED BY <1>1, <1>2, <1>3, <1>4, <1>5, <1>6 DEF Next, Step

(* DecisionsKept: what `state add-decision` reported is in STATE.md, in    *)
(* the archive or with the prune that moves it, unless the lock was passed *)
(* over or a text was replaced unread.                                     *)
THEOREM StateDecisionsKept == Spec => []DecisionsKept
<1>1. DInv => DecisionsKept
  BY DEF DInv, AckOK, Kept, InHand, DecisionsKept
<1>2. TInv /\ Excl /\ DInv /\ [Next]_vars => DInv'
  BY BaseNext, OutNext, AckNext DEF DInv
<1> QED BY <1>1, <1>2, TInit, TNext, ExclInit, ExclNext, DecInit, PTL DEF Spec

---------------------------------------------------------------------------
(* The register.                                                           *)

LEMMA RegisterInit == Init => Register!Init
<1> SUFFICES ASSUME Init PROVE Register!Init
  OBVIOUS
<1> PICK b \in Starts, d \in StartDisks : state = [body |-> b, fm |-> BuildFrontmatter(b, d)]
  BY DEF Init
<1>1. state.body \in Starts /\ ~broken /\ ~blind
  BY DEF Init
<1> QED BY <1>1 DEF Register!Init

(* A write under a respected lock, of a text made from what is there, is   *)
(* one rewrite of the register; any other write is its lapse.              *)
LEMMA WriteIsRewrite ==
  ASSUME TInv, BaseOK, NEW p \in Procs, Write(p)
  PROVE  [Register!Next]_<<state.body, broken \/ blind>>
<1>1. /\ proc[p].pc = "write" /\ state' = proc[p].new /\ broken' = broken
      /\ broken \in BOOLEAN /\ blind \in BOOLEAN
      /\ blind' = (blind \/ (Early(proc[p]) /\ proc[p].base # state))
  BY Zenon DEF Write, At, Op, Early, TInv, TypeOK
<1>2. CASE broken \/ blind'
  BY <1>1, <1>2 DEF Register!Next, Register!Lapse
<1>3. CASE ~broken /\ ~blind'
  <2>1. OneOK(proc[p]) /\ Prepared(proc[p]) /\ proc[p].seen \in Seen(proc[p].cmd)
        /\ proc[p].cmd \in Commands
    BY <1>1, TProc DEF Prepared, OneOK, Carrying
  <2>2. proc[p].base = state
    BY <1>1, <1>3 DEF BaseOK
  <2>3. state'.body = Transform(proc[p].cmd, state.body, proc[p].seen)
    BY <1>1, <2>1, <2>2 DEF OneOK
  <2>4. MayMake(state.body, state'.body)
    BY <2>1, <2>3 DEF MayMake
  <2>5. ~(broken \/ blind) /\ (broken' \/ blind') = (broken \/ blind)
    BY <1>1, <1>3
  <2>6. CASE state'.body = state.body
    BY <2>5, <2>6
  <2>7. CASE state'.body # state.body
    BY <2>4, <2>5, <2>7 DEF Register!Next, Register!Rewrite
  <2> QED BY <2>6, <2>7
<1> QED BY <1>1, <1>2, <1>3

LEMMA RegisterNext ==
  TInv /\ BaseOK /\ [Next]_vars => [Register!Next]_<<state.body, broken \/ blind>>
<1> SUFFICES ASSUME TInv, BaseOK, [Next]_vars
             PROVE  [Register!Next]_<<state.body, broken \/ blind>>
  OBVIOUS
<1>1. broken \in BOOLEAN /\ blind \in BOOLEAN
  BY DEF TInv, TypeOK
<1>2. ASSUME NEW p \in Procs, RemoveStale(p) \/ GiveUp(p) \/ StoreArchive(p)
      PROVE  [Register!Next]_<<state.body, broken \/ blind>>
  <2>1. state' = state /\ broken' \in BOOLEAN /\ blind' \in BOOLEAN
        /\ (broken => broken') /\ (blind => blind')
    BY <1>1, <1>2, Zenon DEF RemoveStale, GiveUp, StoreArchive, StealsFromLive
  <2>2. CASE broken' \/ blind'
    BY <2>1, <2>2 DEF Register!Next, Register!Lapse
  <2>3. CASE ~(broken' \/ blind')
    BY <2>1, <2>3
  <2> QED BY <2>2, <2>3
<1>3. ASSUME NEW p \in Procs,
             \/ Look(p) \/ Load(p) \/ Prepare(p) \/ Acquire(p) \/ Contended(p) \/ Read(p)
             \/ WriteFails(p) \/ Unlock(p) \/ FetchArchive(p) \/ Kill(p)
             \/ \E c \in Menu[p] : Start(p, c)
      PROVE  state' = state /\ broken' = broken /\ blind' = blind
  BY <1>3 DEF Look, Load, Prepare, Acquire, Contended, Read, WriteFails, Unlock, FetchArchive,
              Kill, Start
<1>4. CASE Age \/ (\E n \in Phases : PlanWritten(n) \/ SummaryWritten(n)) \/ UNCHANGED vars
  BY <1>4 DEF Age, PlanWritten, SummaryWritten, vars
<1> QED BY <1>2, <1>3, <1>4, WriteIsRewrite DEF Next, Step

(* RegisterSpec: STATE.md, with its lock, its retries, its killed and its  *)
(* failing writers, implements the register that every command rewrites at *)
(* once.                                                                   *)
THEOREM StateImplementsRegister == Spec => RegisterSpec
<1>1. TInv /\ Excl /\ DInv /\ [Next]_vars => DInv'
  BY BaseNext, OutNext, AckNext DEF DInv
<1>2. DInv => BaseOK
  BY DEF DInv
<1> QED BY <1>1, <1>2, TInit, TNext, ExclInit, ExclNext, DecInit, RegisterInit, RegisterNext, PTL
     DEF Spec, RegisterSpec, Register!Spec

---------------------------------------------------------------------------
(* The counters.                                                           *)

(* No counter that a process holds is ahead of the directories, which now  *)
(* count n executed plans; a scan is kept from one write to the next only  *)
(* by an automatic prune; and what is written under the lock that it was   *)
(* counted under is no older than what it replaces.                        *)
CountOK(pr, n) ==
  /\ pr.scan # None => Done(pr.scan) <= n
  /\ pr.pc \in Searching \cup {"read"} /\ pr.scan # None => pr.cmd.op = "auto-prune"
  /\ Prepared(pr) => pr.new.fm.done <= n
  /\ pr.pc = "write" /\ pr.cmd.op \notin UnlockedReaders \cup {"milestone-switch", "auto-prune"}
       => pr.base.fm.done <= pr.new.fm.done

CountInv ==
  /\ state.fm.done <= Done(disk)
  /\ \A p \in Procs : CountOK(proc[p], Done(disk))

LEMMA CountInit == Init => CountInv
<1> SUFFICES ASSUME Init PROVE CountInv
  OBVIOUS
<1> PICK b \in Starts, d \in StartDisks :
       state = [body |-> b, fm |-> BuildFrontmatter(b, d)] /\ disk = d
  BY DEF Init
<1> PICK dead \in {D \in SUBSET Procs : Cardinality(D) <= MaxKills} :
       proc = [p \in Procs |-> IF p \in dead THEN Left(Empty) ELSE Fresh]
  BY DEF Init
<1>1. b \in Bodies /\ d \in Disks
  BY StateAssumption
<1>2. state.fm.done = Done(disk) /\ Done(disk) \in Nat
  BY <1>1, FrontmatterType, DoneNat
<1>3. \A p \in Procs : proc[p].pc \in {"dead", "start"} /\ proc[p].scan = None
  BY DEF Left, Fresh
<1> QED BY <1>2, <1>3 DEF CountInv, CountOK, Prepared

LEMMA RewrittenCount ==
  ASSUME NEW c \in Commands, NEW s \in Texts, NEW seen \in Seen(c), NEW d \in Disks,
         NEW n \in Nat, Done(d) <= n
  PROVE  /\ Rewritten(c, s, seen, d).fm.done <= n
         /\ c.op # "milestone-switch" => Rewritten(c, s, seen, d).fm.done = Done(d)
  BY RewrittenType, DoneNat

(* The steps of a process keep its counters in order.                      *)
LEMMA CountStep ==
  ASSUME TInv, CountInv, NEW p \in Procs,
         Step(p) \/ Kill(p) \/ \E c \in Menu[p] : Start(p, c)
  PROVE  CountOK(proc'[p], Done(disk))
<1> DEFINE n == Done(disk)
<1>1. /\ proc \in [Procs -> Processes] /\ proc[p] \in Processes /\ OneOK(proc[p])
      /\ CountOK(proc[p], n) /\ n \in Nat /\ disk \in Disks /\ state \in Texts
  BY TProc, DoneNat DEF TInv, TypeOK, CountInv
<1>2. state.fm.done <= n
  BY DEF CountInv
<1> SUFFICES CountOK(proc'[p], n)
  OBVIOUS
<1> HIDE DEF n
<1>3. \A pr : pr.scan = None /\ pr.pc \notin {"write", "stale", "giveup"}
                /\ (pr.pc = "lock" => ~Early(pr)) => CountOK(pr, n)
  BY DEF CountOK, Prepared
<1>4. ASSUME NEW c \in Menu[p], Start(p, c) PROVE CountOK(proc'[p], n)
  <2>1. proc[p] = Fresh
    BY <1>1, <1>4 DEF Start, At, OneOK
  <2>2. proc' = [proc EXCEPT ![p] = [Fresh EXCEPT !.cmd = c, !.pc = FirstStep(c)]]
    BY <1>1, <1>4, <2>1, FreshType DEF Start, Processes
  <2>3. proc'[p].scan = None /\ proc'[p].pc = FirstStep(c) /\ proc'[p].cmd = c
    BY <1>1, <2>2 DEF Fresh
  <2> QED BY <1>3, <2>3 DEF FirstStep, Early
<1>5. CASE Look(p)
  <2>1. proc[p].pc = "look" /\ proc[p].cmd.op \in LookAhead
    BY <1>1, <1>5 DEF Look, At, OneOK
  <2>2. \/ proc'[p] = Over
        \/ proc'[p].scan = proc[p].scan /\ proc'[p].cmd = proc[p].cmd /\ proc'[p].pc = "lock"
    BY <1>1, <1>5 DEF Look, Processes
  <2>3. CASE proc'[p] = Over
    BY <1>3, <2>3 DEF Over, Fresh
  <2>4. CASE /\ proc'[p].scan = proc[p].scan /\ proc'[p].cmd = proc[p].cmd
             /\ proc'[p].pc = "lock"
    <3>1. ~Early(proc'[p])
      BY <2>1, <2>4 DEF Early, LookAhead, UnlockedReaders, Prunes
    <3> QED BY <1>1, <2>1, <2>4, <3>1 DEF CountOK, Prepared, Searching
  <2> QED BY <2>2, <2>3, <2>4
<1>6. CASE Load(p)
  <2>1. proc[p].pc = "load"
    BY <1>6 DEF Load, At
  <2>2. proc'[p].scan = proc[p].scan /\ proc'[p].cmd = proc[p].cmd /\ proc'[p].pc = "stamp"
    BY <1>1, <1>6 DEF Load, Processes
  <2> QED BY <1>1, <2>1, <2>2 DEF CountOK, Prepared, Searching
<1>7. CASE Prepare(p)
  <2>1. proc[p].pc = "stamp"
    BY <1>7 DEF Prepare, At
  <2>2. /\ proc'[p].scan = proc[p].scan /\ proc'[p].cmd = proc[p].cmd /\ proc'[p].pc = "lock"
        /\ proc'[p].new = Rewritten(proc[p].cmd, proc[p].base, proc[p].seen, disk)
    BY <1>1, <1>7 DEF Prepare, Processes
  <2>3. proc[p].cmd \in Commands /\ proc[p].base \in Texts /\ proc[p].seen \in Seen(proc[p].cmd)
    BY <1>1, <2>1 DEF OneOK, Carrying
  <2>4. proc'[p].new.fm.done <= n
    BY <1>1, <2>2, <2>3, RewrittenCount DEF n
  <2> QED BY <1>1, <2>1, <2>2, <2>4 DEF CountOK, Prepared, Searching
<1>8. CASE Acquire(p) \/ Contended(p) \/ RemoveStale(p) \/ GiveUp(p)
  <2>1. proc[p].pc \in {"lock", "stale", "giveup"}
    BY <1>8 DEF Acquire, Contended, RemoveStale, GiveUp, At
  <2>2. /\ proc'[p].scan = proc[p].scan /\ proc'[p].cmd = proc[p].cmd
        /\ proc'[p].new = proc[p].new
    BY <1>1, <1>8 DEF Acquire, Contended, RemoveStale, GiveUp, Goto, Processes
  <2>3. proc'[p].pc \in {"lock", "stale", "giveup", "read", "write"}
    BY <1>8, MovesOf
  <2>4. proc'[p].pc = "write" => Early(proc[p])
    BY <1>1, <1>8 DEF Acquire, Contended, RemoveStale, GiveUp, Goto, Section, Early, Op, Processes, At
  <2>5. Prepared(proc'[p]) => Prepared(proc[p])
    BY <2>1, <2>2, <2>3, <2>4 DEF Prepared, Early
  <2> QED BY <1>1, <2>1, <2>2, <2>3, <2>4, <2>5 DEF CountOK, Searching, Early
<1>9. CASE Read(p)
  <2>1. proc[p].pc = "read"
    BY <1>9 DEF Read, At
  <2>2. /\ proc'[p].scan = Scan(p) /\ proc'[p].cmd = proc[p].cmd /\ proc'[p].pc = "write"
        /\ proc'[p].base = state
        /\ proc'[p].new = Rewritten(proc[p].cmd, state, proc[p].seen, Scan(p))
    BY <1>1, <1>9 DEF Read, Processes
  <2>3. proc[p].cmd \in Commands /\ proc[p].seen \in Seen(proc[p].cmd)
    BY <1>1, <2>1 DEF OneOK, Carrying
  <2>4. Scan(p) \in Disks /\ Done(Scan(p)) <= n
    BY <1>1 DEF Scan, Processes, CountOK, n
  <2>5. proc[p].cmd.op # "auto-prune" => Scan(p) = disk
    BY <1>1, <2>1 DEF Scan, CountOK
  <2>6. /\ proc'[p].new.fm.done <= n
        /\ proc[p].cmd.op # "milestone-switch" => proc'[p].new.fm.done = Done(Scan(p))
    BY <1>1, <2>2, <2>3, <2>4, RewrittenCount
  <2> QED BY <1>2, <2>2, <2>4, <2>5, <2>6 DEF CountOK, Searching, n
<1>10. CASE Write(p) \/ WriteFails(p) \/ FetchArchive(p)
  <2>1. proc'[p].scan = proc[p].scan /\ proc'[p].pc \in {"unlock", "store"}
    BY <1>1, <1>10 DEF Write, WriteFails, FetchArchive, Processes
  <2> QED BY <1>1, <2>1 DEF CountOK, Prepared, Searching
<1>11. CASE Unlock(p)
  <2>1. proc'[p] = AfterUnlock(p)
    BY <1>1, <1>11 DEF Unlock
  <2>2. CASE AfterUnlock(p) = [proc[p] EXCEPT !.pc = "fetch"]
    <3>1. proc'[p].scan = proc[p].scan /\ proc'[p].pc = "fetch"
      BY <1>1, <2>1, <2>2 DEF Processes
    <3> QED BY <1>1, <3>1 DEF CountOK, Prepared, Searching
  <2>3. CASE AfterUnlock(p) = [Fresh EXCEPT !.pc = "look", !.cmd = [op |-> "auto-prune"],
                                            !.scan = proc[p].scan]
    <3>1. /\ proc'[p].scan = proc[p].scan /\ proc'[p].pc = "look"
          /\ proc'[p].cmd.op = "auto-prune"
      BY <2>1, <2>3 DEF Fresh
    <3> QED BY <1>1, <3>1 DEF CountOK, Prepared, Searching
  <2>4. CASE AfterUnlock(p) = Over
    BY <1>3, <2>1, <2>4 DEF Over, Fresh
  <2> QED BY <2>2, <2>3, <2>4 DEF AfterUnlock
<1>12. CASE StoreArchive(p) \/ Kill(p)
  <2>1. proc'[p].scan = None /\ proc'[p].pc \in {"done", "dead"}
    BY <1>1, <1>12 DEF StoreArchive, Kill, Over, Left, Fresh
  <2> QED BY <1>3, <2>1
<1> QED BY <1>4, <1>5, <1>6, <1>7, <1>8, <1>9, <1>10, <1>11, <1>12 DEF Step

LEMMA CountNext == TInv /\ CountInv /\ [Next]_vars => CountInv'
<1> SUFFICES ASSUME TInv, CountInv, [Next]_vars PROVE CountInv'
  OBVIOUS
<1>1. ASSUME NEW p \in Procs, Step(p) \/ Kill(p) \/ \E c \in Menu[p] : Start(p, c)
      PROVE  CountInv'
  <2>1. disk' = disk
    BY <1>1 DEF Step, Kill, Start, Look, Load, Prepare, Acquire, Contended, RemoveStale, GiveUp,
                Read, Write, WriteFails, Unlock, FetchArchive, StoreArchive
  <2>2. \A q \in Procs : CountOK(proc'[q], Done(disk))
    BY <1>1, OnlyP, CountStep DEF CountInv
  <2>3. state' = state \/ (proc[p].pc = "write" /\ state' = proc[p].new)
    BY <1>1 DEF Step, Kill, Start, Look, Load, Prepare, Acquire, Contended, RemoveStale, GiveUp,
                Read, Write, WriteFails, Unlock, FetchArchive, StoreArchive, At
  <2>4. state'.fm.done <= Done(disk)
    BY <2>3 DEF CountInv, CountOK, Prepared
  <2> QED BY <2>1, <2>2, <2>4 DEF CountInv
<1>2. ASSUME NEW m \in Phases, PlanWritten(m) \/ SummaryWritten(m) PROVE CountInv'
  <2>1. disk' \in Disks /\ \A k \in Phases : disk[k].done <= disk'[k].done
    BY <1>2, DiskGrows
  <2>2. Done(disk) <= Done(disk')
    BY <2>1, DoneMonotone DEF TInv, TypeOK
  <2>3. Done(disk) \in Nat /\ Done(disk') \in Nat
    BY DoneNat
  <2>4. state' = state /\ proc' = proc
    BY <1>2 DEF PlanWritten, SummaryWritten
  <2>5. state.fm.done \in Nat
    BY DEF TInv, TypeOK, Texts, Frontmatters
  <2>6. ASSUME NEW q \in Procs PROVE CountOK(proc[q], Done(disk'))
    <3>1. proc[q].scan # None => Done(proc[q].scan) \in Nat
      BY DoneNat
    <3>2. Prepared(proc[q]) => proc[q].new.fm.done \in Nat
      BY TProc DEF OneOK, Texts, Frontmatters
    <3>3. CountOK(proc[q], Done(disk))
      BY DEF CountInv
    <3> QED BY <2>2, <2>3, <3>1, <3>2, <3>3 DEF CountOK
  <2> QED BY <2>2, <2>3, <2>4, <2>5, <2>6 DEF CountInv
<1>3. CASE Age \/ UNCHANGED vars
  BY <1>3 DEF Age, vars, CountInv
<1> QED BY <1>1, <1>2, <1>3 DEF Next

(* CountsNeverRegress: under a respected lock the number of executed plans *)
(* that the frontmatter shows never falls, but by the commands that count  *)
(* before they hold it, whatever the agents write meanwhile.               *)
THEOREM StateCountsNeverRegress == Spec => CountsNeverRegress
<1> DEFINE A == \/ state'.fm.done >= state.fm.done
                \/ broken
                \/ \E p \in Procs : Write(p) /\ StampsEarly(p)
<1>1. TInv /\ BaseOK /\ CountInv /\ [Next]_vars => [A]_vars
  <2> SUFFICES ASSUME TInv, BaseOK, CountInv, Next, ~broken PROVE A
    BY DEF A
  <2>1. state.fm.done \in Nat
    BY DEF TInv, TypeOK, Texts, Frontmatters
  <2>2. ASSUME NEW p \in Procs, Write(p), ~StampsEarly(p) PROVE A
    <3>1. proc[p].pc = "write" /\ state' = proc[p].new
      BY <2>2 DEF Write, At
    <3>2. ~Early(proc[p])
      BY <2>2 DEF StampsEarly, Op, Early
    <3>3. proc[p].base = state
      BY <3>1, <3>2 DEF BaseOK
    <3>4. proc[p].base.fm.done <= proc[p].new.fm.done
      BY <2>2, <3>1 DEF CountInv, CountOK, StampsEarly, Op
    <3>5. proc[p].new.fm.done \in Nat
      BY <3>1, TProc DEF OneOK, Prepared, Texts, Frontmatters
    <3> QED BY <2>1, <3>1, <3>3, <3>4, <3>5
  <2>3. ASSUME state' = state PROVE A
    BY <2>1, <2>3
  <2> HIDE DEF A
  <2>4. CASE \E p \in Procs : Write(p)
    BY <2>2, <2>4 DEF A
  <2>5. CASE ~\E p \in Procs : Write(p)
    <3>1. ASSUME NEW p \in Procs, Step(p) \/ Kill(p) \/ \E c \in Menu[p] : Start(p, c)
          PROVE  state' = state
      BY <2>5, <3>1 DEF Step, Kill, Start, Look, Load, Prepare, Acquire, Contended, RemoveStale,
                        GiveUp, Read, WriteFails, Unlock, FetchArchive, StoreArchive
    <3>2. ASSUME Age \/ \E n \in Phases : PlanWritten(n) \/ SummaryWritten(n)
          PROVE  state' = state
      BY <3>2 DEF Age, PlanWritten, SummaryWritten
    <3>3. state' = state
      BY <3>1, <3>2 DEF Next
    <3> QED BY <2>3, <3>3
  <2> QED BY <2>4, <2>5
<1>2. TInv /\ Excl /\ DInv /\ [Next]_vars => DInv'
  BY BaseNext, OutNext, AckNext DEF DInv
<1>3. DInv => BaseOK
  BY DEF DInv
<1>4. Spec => [][A]_vars
  <2> HIDE DEF A
  <2> QED BY <1>1, <1>2, <1>3, TInit, TNext, ExclInit, ExclNext, DecInit, CountInit, CountNext, PTL
       DEF Spec
<1> QED BY <1>4 DEF CountsNeverRegress

---------------------------------------------------------------------------
(* Termination.                                                            *)

Pass == 2 * MaxTries + 10
Later(pr) == IF pr.pc \notin {"start", "done", "dead"} /\ pr.cmd.op = "phase-complete" THEN Pass ELSE 0
Rest(pr) ==
  CASE pr.pc = "start"  -> 2 * Pass
    [] pr.pc = "load"   -> Pass
    [] pr.pc = "look"   -> Pass - 1
    [] pr.pc = "stamp"  -> Pass - 1
    [] pr.pc = "lock"   -> 2 * (MaxTries - pr.tries) + 7
    [] pr.pc = "stale"  -> 2 * (MaxTries - pr.tries) + 6
    [] pr.pc = "giveup" -> 2 * (MaxTries - pr.tries) + 6
    [] pr.pc = "read"   -> 5
    [] pr.pc = "write"  -> 4
    [] pr.pc = "unlock" -> 3
    [] pr.pc = "fetch"  -> 2
    [] pr.pc = "store"  -> 1
    [] pr.pc \in {"done", "dead"} -> 0

LEMMA WorkIs ==
  ASSUME NEW p \in Procs
  PROVE  Work(p) = Later(proc[p]) + Rest(proc[p]) /\ Work(p)' = Later(proc'[p]) + Rest(proc'[p])
  BY Zenon DEF Work, Later, Rest, Pass, Running, Ended, At, Op

(* The work that is left, by where the process is.                         *)
LEMMA RestOf ==
  ASSUME NEW pr \in Processes
  PROVE  /\ Later(pr) \in {0, Pass}
         /\ pr.pc \in {"start", "done", "dead"} \/ pr.cmd.op # "phase-complete" => Later(pr) = 0
         /\ pr.pc = "start" => Rest(pr) = 2 * Pass
         /\ pr.pc = "load" => Rest(pr) = Pass
         /\ pr.pc \in {"look", "stamp"} => Rest(pr) = Pass - 1
         /\ pr.pc = "lock" => Rest(pr) = 2 * (MaxTries - pr.tries) + 7
         /\ pr.pc \in {"stale", "giveup"} => Rest(pr) = 2 * (MaxTries - pr.tries) + 6
         /\ pr.pc = "read" => Rest(pr) = 5
         /\ pr.pc = "write" => Rest(pr) = 4
         /\ pr.pc = "unlock" => Rest(pr) = 3
         /\ pr.pc = "fetch" => Rest(pr) = 2
         /\ pr.pc = "store" => Rest(pr) = 1
         /\ pr.pc \in {"done", "dead"} => Rest(pr) = 0
  BY DEF Later, Rest

(* A step that goes on with the same command brings the process nearer to  *)
(* its end when the rest of its work gets smaller.                         *)
LEMMA SameCommand ==
  ASSUME NEW pr \in Processes, NEW qr \in Processes, qr.cmd = pr.cmd,
         pr.pc \notin {"start", "done", "dead"}, qr.pc # "start",
         Rest(pr) \in Int, Rest(qr) \in Int, Rest(qr) < Rest(pr)
  PROVE  Later(qr) + Rest(qr) < Later(pr) + Rest(pr)
<1>1. Pass \in Nat
  BY StateAssumption DEF Pass
<1>2. Later(pr) \in Nat /\ Later(qr) \in Nat /\ Later(qr) <= Later(pr)
  BY <1>1 DEF Later
<1> QED BY <1>2

LEMMA StepWorks ==
  ASSUME TInv, NEW p \in Procs, TInv',
         Step(p) \/ Kill(p) \/ \E c \in Menu[p] : Start(p, c)
  PROVE  Later(proc'[p]) + Rest(proc'[p]) < Later(proc[p]) + Rest(proc[p])
<1> DEFINE pr == proc[p]
           qr == proc'[p]
<1> SUFFICES Later(qr) + Rest(qr) < Later(pr) + Rest(pr)
  OBVIOUS
<1>1. proc \in [Procs -> Processes] /\ pr \in Processes /\ OneOK(pr) /\ qr \in Processes /\ OneOK(qr)
  BY DEF TInv, TypeOK
<1>2. /\ MaxTries \in Nat \ {0} /\ pr.tries \in 0..MaxTries /\ qr.tries \in 0..MaxTries
      /\ Pass = 2 * MaxTries + 10 /\ Pass \in Nat
  BY <1>1, StateAssumption DEF Processes, Pass
<1>3. ASSUME NEW c \in Menu[p], Start(p, c)
      PROVE  Later(qr) + Rest(qr) < Later(pr) + Rest(pr)
  <2>1. pr.pc = "start" /\ pr = Fresh
    BY <1>1, <1>3 DEF Start, At, OneOK
  <2>2. proc' = [proc EXCEPT ![p] = [Fresh EXCEPT !.cmd = c, !.pc = FirstStep(c)]]
    BY <1>1, <1>3, <2>1, FreshType DEF Start, Processes
  <2>3. qr.pc = FirstStep(c) /\ qr.cmd = c
    BY <1>1, <2>2 DEF Fresh
  <2>4. \/ qr.pc = "lock"
        \/ qr.pc \in {"look", "load"} /\ qr.cmd.op # "phase-complete"
    BY <2>3 DEF FirstStep, LookAhead, UnlockedReaders, Prunes
  <2>5. Later(pr) = 0 /\ Rest(pr) = 2 * Pass
    BY <1>1, <2>1, RestOf
  <2>6. CASE qr.pc = "lock"
    <3>1. Rest(qr) = 2 * (MaxTries - qr.tries) + 7 /\ Later(qr) \in {0, Pass}
      BY <1>1, <2>6, RestOf
    <3> QED BY <1>2, <2>5, <3>1
  <2>7. CASE qr.pc \in {"look", "load"} /\ qr.cmd.op # "phase-complete"
    <3>1. Rest(qr) \in {Pass, Pass - 1} /\ Later(qr) = 0
      BY <1>1, <2>7, RestOf
    <3> QED BY <1>2, <2>5, <3>1
  <2> QED BY <2>4, <2>6, <2>7
<1>4. CASE Kill(p) \/ StoreArchive(p) \/ (Look(p) /\ qr.pc = "done") \/ (Unlock(p) /\ qr.pc = "done")
  <2>1. qr.pc \in {"done", "dead"} /\ pr.pc \notin {"start", "done", "dead"}
    BY <1>4, MovesOf DEF Kill, StoreArchive, Look, Unlock, Ended, At
  <2>2. Later(qr) = 0 /\ Rest(qr) = 0
    BY <1>1, <2>1, RestOf
  <2>3. Later(pr) \in {0, Pass} /\ Rest(pr) \in Nat /\ Rest(pr) > 0
    <3>1. pr.pc \in {"load", "look", "stamp", "lock", "stale", "giveup", "read", "write",
                     "unlock", "fetch", "store"}
      BY <1>1, <2>1 DEF Processes
    <3>2. MaxTries - pr.tries \in Nat
      BY <1>2
    <3> HIDE DEF pr
    <3> QED BY <1>1, <1>2, <3>1, <3>2, RestOf
  <2> HIDE DEF pr, qr
  <2> QED BY <1>2, <2>2, <2>3
<1>5. CASE Unlock(p) /\ qr.pc = "look"
  <2>1. pr.pc = "unlock"
    BY <1>5 DEF Unlock, At
  <2>2. qr = AfterUnlock(p)
    BY <1>1, <1>5 DEF Unlock
  <2>3. pr.cmd.op = "phase-complete" /\ qr.cmd = [op |-> "auto-prune"]
    BY <1>1, <1>5, <2>2 DEF AfterUnlock, Op, Fresh, Over, Processes
  <2>4. Later(pr) = Pass /\ Rest(pr) = 3
    BY <1>1, <2>1, <2>3, RestOf DEF Later
  <2>5. Later(qr) = 0 /\ Rest(qr) = Pass - 1
    BY <1>1, <1>5, <2>3, RestOf
  <2> HIDE DEF pr, qr
  <2> QED BY <1>2, <2>4, <2>5
<1>6. CASE Load(p) \/ Prepare(p) \/ Acquire(p) \/ Contended(p) \/ RemoveStale(p) \/ GiveUp(p)
           \/ Read(p) \/ Write(p) \/ WriteFails(p) \/ FetchArchive(p)
           \/ (Look(p) /\ qr.pc = "lock") \/ (Unlock(p) /\ qr.pc = "fetch")
  <2>1. qr.cmd = pr.cmd
    <3>1. CASE Look(p) /\ qr.pc = "lock"
      BY <1>1, <3>1 DEF Look, Over, Fresh, Processes
    <3>2. CASE Unlock(p) /\ qr.pc = "fetch"
      BY <1>1, <3>2 DEF Unlock, AfterUnlock, Over, Fresh, Processes
    <3>3. CASE WriteFails(p)
      BY <1>1, <3>3 DEF WriteFails, Processes
    <3> QED BY <1>6, <3>1, <3>2, <3>3, Carries
  <2>2. pr.pc \notin {"start", "done", "dead"} /\ qr.pc # "start"
    BY <1>6, MovesOf DEF Look, Load, Prepare, Acquire, Contended, RemoveStale, GiveUp, Read, Write,
                         WriteFails, Unlock, FetchArchive, At
  <2>3. Rest(qr) \in Int /\ Rest(pr) \in Int /\ Rest(qr) < Rest(pr)
    <3>1. CASE Load(p) \/ Prepare(p) \/ (Look(p) /\ qr.pc = "lock")
      <4>1. \/ pr.pc = "load" /\ qr.pc = "stamp"
            \/ pr.pc \in {"stamp", "look"} /\ qr.pc = "lock"
        BY <3>1, MovesOf DEF Load, Prepare, Look, At
      <4> HIDE DEF pr, qr
      <4> QED BY <1>1, <1>2, <4>1, RestOf
    <3>2. CASE Acquire(p) \/ GiveUp(p)
      <4>1. pr.pc \in {"lock", "giveup"} /\ qr.pc \in {"read", "write"}
        BY <3>2, MovesOf DEF Acquire, GiveUp, At
      <4> HIDE DEF pr, qr
      <4> QED BY <1>1, <1>2, <4>1, RestOf
    <3>3. CASE Contended(p)
      <4>1. /\ pr.pc = "lock"
            /\ \/ qr.pc \in {"stale", "giveup"} /\ qr.tries = pr.tries
               \/ qr.pc = "lock" /\ qr.tries = pr.tries + 1
        BY <1>1, <3>3 DEF Contended, Goto, At, Processes
      <4> HIDE DEF pr, qr
      <4> QED BY <1>1, <1>2, <4>1, RestOf
    <3>4. CASE RemoveStale(p)
      <4>1. pr.pc = "stale" /\ qr.pc \in {"lock", "read", "write"} /\ qr.tries = pr.tries + 1
        <5>1. qr.tries = pr.tries + 1
          BY <1>1, <3>4 DEF RemoveStale, Processes
        <5> QED BY <3>4, <5>1, MovesOf DEF RemoveStale, At
      <4> HIDE DEF pr, qr
      <4> QED BY <1>1, <1>2, <4>1, RestOf
    <3>5. CASE Read(p) \/ Write(p) \/ WriteFails(p) \/ FetchArchive(p) \/ (Unlock(p) /\ qr.pc = "fetch")
      <4>1. \/ pr.pc = "read" /\ qr.pc = "write"
            \/ pr.pc = "write" /\ qr.pc = "unlock"
            \/ pr.pc = "fetch" /\ qr.pc = "store"
            \/ pr.pc = "unlock" /\ qr.pc = "fetch"
        BY <3>5, MovesOf DEF Read, Write, WriteFails, FetchArchive, Unlock, At
      <4> HIDE DEF pr, qr
      <4> QED BY <1>1, <4>1, RestOf
    <3> QED BY <1>6, <3>1, <3>2, <3>3, <3>4, <3>5
  <2> HIDE DEF pr, qr
  <2> QED BY <1>1, <2>1, <2>2, <2>3, SameCommand
<1>7. /\ Look(p) => qr.pc \in {"lock", "done"}
      /\ Unlock(p) => qr.pc \in {"fetch", "look", "done"}
  BY MovesOf
<1> QED BY <1>3, <1>4, <1>5, <1>6, <1>7 DEF Step

(* NoStepIsLost: every step of a process, whatever it finds of the lock,   *)
(* brings it nearer to its end, and no other's step sends it back.         *)
THEOREM StateNoStepIsLost == Spec => NoStepIsLost
<1> DEFINE A == \A p \in Procs : proc'[p] = proc[p] \/ Work(p)' < Work(p)
<1>1. TInv /\ TInv' /\ [Next]_vars => [A]_vars
  <2> SUFFICES ASSUME TInv, TInv', Next PROVE A
    BY DEF A
  <2>1. ASSUME NEW p \in Procs, Step(p) \/ Kill(p) \/ \E c \in Menu[p] : Start(p, c)
        PROVE  A
    <3>1. \A q \in Procs \ {p} : proc'[q] = proc[q]
      BY <2>1, OnlyP
    <3>2. Work(p)' < Work(p)
      BY <2>1, StepWorks, WorkIs
    <3> QED BY <3>1, <3>2
  <2>2. ASSUME Age \/ \E n \in Phases : PlanWritten(n) \/ SummaryWritten(n) PROVE A
    BY <2>2 DEF Age, PlanWritten, SummaryWritten
  <2> HIDE DEF A
  <2> QED BY <2>1, <2>2 DEF Next
<1>2. Spec => [][A]_vars
  <2> HIDE DEF A
  <2> QED BY <1>1, TInit, TNext, PTL DEF Spec
<1> QED BY <1>2 DEF NoStepIsLost
====
