---- MODULE StateCommands ----
(***************************************************************************)
(* STATE.md of the planning tool under .cursor/get-shit-done, and what     *)
(* each `state` command makes of it: the transformations that              *)
(* readModifyWriteStateMd is given, and the YAML frontmatter that          *)
(* syncStateFrontmatter derives at every write.                            *)
(*                                                                         *)
(* The text is a record of the `**Field:**` lines and sections that the    *)
(* commands read and write.  The "Current Position" paragraph, which       *)
(* repeats the fields, and the dates are not kept.                         *)
(* A status that no field holds (an agent removed the line) is Absent, and *)
(* stays so: a replacement that matches nothing changes nothing.           *)
(***************************************************************************)
EXTENDS Integers, FiniteSets

CONSTANTS MaxPhase,     \* phases are numbered 1..MaxPhase
          MaxPlans,     \* plans of one phase
          Notes,        \* decisions, told apart by what they say
          Blockers,     \* blocker texts
          KeepRecent    \* phases that prune keeps (3 by default)

ASSUME StateNumbers == /\ MaxPhase \in Nat \ {0}
                       /\ MaxPlans \in Nat \ {0}
                       /\ KeepRecent \in Nat \ {0}

Phases == 1..MaxPhase

NotStarted == 0   \* "Current Plan: Not started", which no parseInt reads

(* Values of the Status field; only Executing and Complete name a phase.   *)
Plain(text)  == <<text, 0>>
Executing(n) == <<"executing", n>>
Complete(n)  == <<"complete", n>>
Absent       == Plain("")
Statuses ==
  {Plain(t) : t \in {"", "ready to plan", "ready to execute", "paused",
                     "ready for verification", "milestone complete"}}
    \cup {Executing(n) : n \in Phases} \cup {Complete(n) : n \in Phases}

Decisions == Phases \X Notes

Bodies ==
  [phase: Phases, plan: 0..MaxPlans, total: 0..MaxPlans, status: Statuses,
   progress: Nat, decisions: SUBSET Decisions, blockers: SUBSET Blockers,
   metrics: SUBSET Phases, rows: SUBSET Phases, velocity: Nat,
   session: BOOLEAN, completed: Nat, phases: Int]

(* The plans and summaries found on disk, phase by phase.                  *)
Disks == [Phases -> [plans: 0..MaxPlans, done: 0..MaxPlans]]

Items == Phases \X (1..MaxPlans)
Plans(d) == Cardinality({x \in Items : x[2] <= d[x[1]].plans})
Done(d)  == Cardinality({x \in Items : x[2] <= d[x[1]].done})
Open(d)  == {n \in Phases : d[n].plans > 0 /\ d[n].done < d[n].plans}
Finished(d) == {n \in Phases : d[n].plans > 0 /\ d[n].done >= d[n].plans}

(* Math.round(part / whole * 100), and that capped at 100, 0 of nothing.   *)
Rounded(part, whole) == (200 * part + whole) \div (2 * whole)
Percent(part, whole) ==
  IF whole = 0 THEN 0
  ELSE IF Rounded(part, whole) > 100 THEN 100 ELSE Rounded(part, whole)

---------------------------------------------------------------------------
(* The frontmatter.                                                        *)

(* One of the few words that hooks and scripts read.                       *)
Normalized(status) ==
  CASE status = Absent                          -> "unknown"
    [] status = Plain("paused")                 -> "paused"
    [] status[1] = "executing"                  -> "executing"
    [] status = Plain("ready to plan")          -> "planning"
    [] status = Plain("ready for verification") -> "verifying"
    [] status[1] \in {"complete", "milestone complete"} -> "completed"
    [] status = Plain("ready to execute")       -> "executing"

Frontmatters ==
  [status: {"unknown", "paused", "executing", "planning", "verifying", "completed"},
   plans: Nat, done: Nat, finished: Nat, percent: Nat]

(* Counters come from the disk; the percentage falls back on the body's    *)
(* when the disk holds no plan.                                            *)
BuildFrontmatter(b, d) ==
  [status   |-> Normalized(b.status),
   plans    |-> Plans(d),
   done     |-> Done(d),
   finished |-> Cardinality(Finished(d)),
   percent  |-> IF Plans(d) > 0 THEN Percent(Done(d), Plans(d)) ELSE b.progress]

(* An unknown status keeps the word that was there before.                 *)
SyncFrontmatter(old, b, d) ==
  LET fm == BuildFrontmatter(b, d)
  IN  IF fm.status = "unknown" THEN [fm EXCEPT !.status = old.status] ELSE fm

(* `state milestone-switch` writes its own, whatever the disk says.        *)
SwitchedFrontmatter ==
  [status |-> "planning", plans |-> 0, done |-> 0, finished |-> 0, percent |-> 0]

---------------------------------------------------------------------------
(* The commands, with the arguments that matter.  A count of 0 stands for  *)
(* an argument that was left out, a phase of 0 for "the current one", and  *)
(* a next phase of 0 for "there is none".                                  *)
Commands ==
  [op: {"advance-plan", "update-progress", "record-session", "prune", "auto-prune", "sync",
        "milestone-switch", "milestone-complete", "phase-remove"}]
  \cup [op: {"patch", "record-metric"}, phase: Phases]
  \cup [op: {"complete-phase"}, phase: 0..MaxPhase]
  \cup [op: {"begin-phase", "planned-phase"}, phase: Phases, count: 0..MaxPlans]
  \cup [op: {"phase-complete"}, phase: Phases, next: 0..MaxPhase, count: 0..MaxPlans]
  \cup [op: {"add-decision"}, phase: Phases, note: Notes]
  \cup [op: {"add-blocker"}, blocker: Blockers]
  \cup [op: {"resolve-blocker"}, matches: SUBSET Blockers]

(* They read STATE.md, work on it, and take the lock only to write it.     *)
UnlockedReaders == {"planned-phase", "sync", "milestone-complete"}
(* They look something up before they take the lock, and then rewrite what *)
(* they find under it.                                                     *)
Prunes == {"prune", "auto-prune"}
LookAhead == {"update-progress", "complete-phase"} \cup Prunes

(* A replacement leaves a status that is not there alone.                  *)
SetStatus(b, status) ==
  IF b.status = Absent THEN b ELSE [b EXCEPT !.status = status]

Patch(b, n) == SetStatus([b EXCEPT !.phase = n], Plain("paused"))

AdvancePlan(b) ==
  CASE b.plan = NotStarted -> b
    [] b.plan # NotStarted /\ b.plan >= b.total ->
         SetStatus(b, Plain("ready for verification"))
    [] b.plan # NotStarted /\ b.plan < b.total ->
         SetStatus([b EXCEPT !.plan = @ + 1], Plain("ready to execute"))

RecordMetric(b, n)   == [b EXCEPT !.metrics = @ \cup {n}]
AddDecision(b, n, t) == [b EXCEPT !.decisions = @ \cup {<<n, t>>}]
AddBlocker(b, t)     == [b EXCEPT !.blockers = @ \cup {t}]
ResolveBlocker(b, m) == [b EXCEPT !.blockers = @ \ m]
RecordSession(b)     == [b EXCEPT !.session = TRUE]

(* Beginning the phase that is being executed resumes it: the plan counter *)
(* is left where it is.                                                    *)
BeginPhase(b, c) ==
  IF b.status = Executing(c.phase)
  THEN b
  ELSE SetStatus([b EXCEPT !.phase = c.phase, !.plan = 1,
                           !.total = IF c.count = 0 THEN @ ELSE c.count],
                 Executing(c.phase))

PlannedPhase(b, c) ==
  SetStatus([b EXCEPT !.total = c.count], Plain("ready to execute"))

(* `phase complete` moves on to the next phase, counts the completion and  *)
(* records the phase in the metrics; the percentage is not capped here.    *)
PhaseComplete(b, c) ==
  LET counted == b.completed + 1
  IN  SetStatus([b EXCEPT !.phase = IF c.next = 0 THEN c.phase ELSE c.next,
                          !.plan = NotStarted,
                          !.completed = counted,
                          !.progress = IF b.phases <= 0 THEN @
                                       ELSE Rounded(counted, b.phases),
                          !.velocity = @ + c.count,
                          !.rows = @ \cup {c.phase}],
                IF c.next = 0 THEN Plain("milestone complete")
                              ELSE Plain("ready to plan"))

PhaseRemove(b) == [b EXCEPT !.phases = @ - 1]

(* What `state prune` moves out: decisions and metric rows up to a cutoff. *)
(* (No command marks a blocker as resolved, so none is pruned.)            *)
Pruned(b, cutoff) ==
  [decisions |-> {d \in b.decisions : d[1] <= cutoff},
   rows      |-> {n \in b.rows : n <= cutoff}]
Prune(b, cutoff) ==
  [b EXCEPT !.decisions = @ \ Pruned(b, cutoff).decisions,
            !.rows = @ \ Pruned(b, cutoff).rows]

---------------------------------------------------------------------------
(* What a command has looked up outside the text it rewrites.              *)

(* `state sync` takes the last phase with open plans for the current one,  *)
(* or the first with any plans at all.                                     *)
SyncsTo(d, n) ==
  IF Open(d) # {} THEN n \in Open(d) /\ \A m \in Open(d) : m <= n
  ELSE n \in Finished(d) /\ \A m \in Finished(d) : n <= m
SyncedTotal(b, d) ==
  IF \E n \in Phases : SyncsTo(d, n)
  THEN d[CHOOSE n \in Phases : SyncsTo(d, n)].plans ELSE b.total

Nothing == [n |-> 0, percent |-> 0]
Lookups == [n : Int, percent : 0..100]

(* The lookup of command c that finds body b and disk d.                   *)
Lookup(c, b, d) ==
  CASE c.op = "update-progress" -> [Nothing EXCEPT !.percent = Percent(Done(d), Plans(d))]
    [] c.op = "sync"            -> [n |-> SyncedTotal(b, d),
                                    percent |-> Percent(Done(d), Plans(d))]
    [] c.op \in Prunes          -> [Nothing EXCEPT !.n = b.phase - KeepRecent]
    [] c.op = "complete-phase"  -> [Nothing EXCEPT !.n = IF c.phase = 0 THEN b.phase
                                                                       ELSE c.phase]
    [] OTHER                    -> Nothing

(* What a command may have looked up beforehand, as far as it matters.     *)
Seen(c) ==
  CASE c.op = "update-progress" -> [n : {0}, percent : 0..100]
    [] c.op = "sync"            -> [n : 0..MaxPlans, percent : 0..100]
    [] c.op \in Prunes          -> [n : Phases, percent : {0}]
    [] c.op = "complete-phase"  -> [n : Phases, percent : {0}]
    [] OTHER                    -> {Nothing}

UpdateProgress(b, seen) == [b EXCEPT !.progress = seen.percent]
Sync(b, seen) == [b EXCEPT !.total = seen.n, !.progress = seen.percent]
CompletePhase(b, seen) == SetStatus(b, Complete(seen.n))
MilestoneComplete(b) == SetStatus(b, Plain("milestone complete"))

(* The body that command c makes of body b, given its lookup.              *)
Transform(c, b, seen) ==
  CASE c.op = "patch"              -> Patch(b, c.phase)
    [] c.op = "advance-plan"       -> AdvancePlan(b)
    [] c.op = "record-metric"      -> RecordMetric(b, c.phase)
    [] c.op = "update-progress"    -> UpdateProgress(b, seen)
    [] c.op = "add-decision"       -> AddDecision(b, c.phase, c.note)
    [] c.op = "add-blocker"        -> AddBlocker(b, c.blocker)
    [] c.op = "resolve-blocker"    -> ResolveBlocker(b, c.matches)
    [] c.op = "record-session"     -> RecordSession(b)
    [] c.op = "begin-phase"        -> BeginPhase(b, c)
    [] c.op = "planned-phase"      -> PlannedPhase(b, c)
    [] c.op = "milestone-switch"   -> b
    [] c.op = "sync"               -> Sync(b, seen)
    [] c.op \in Prunes             -> Prune(b, seen.n)
    [] c.op = "complete-phase"     -> CompletePhase(b, seen)
    [] c.op = "phase-complete"     -> PhaseComplete(b, c)
    [] c.op = "phase-remove"       -> PhaseRemove(b)
    [] c.op = "milestone-complete" -> MilestoneComplete(b)

(* The frontmatter that goes with it.                                      *)
Stamp(c, old, b, d) ==
  IF c.op = "milestone-switch" THEN SwitchedFrontmatter ELSE SyncFrontmatter(old, b, d)
====
