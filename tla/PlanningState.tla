---- MODULE PlanningState ----
(***************************************************************************)
(* Processes that run one `state` command each over STATE.md: several      *)
(* agents work on one project and call the planning tool at the same time. *)
(*                                                                         *)
(* The file is guarded by STATE.md.lock, created exclusively.  A process   *)
(* that finds it retries, removes it when it is 10 s old, and after the    *)
(* last try removes it whatever its age and goes on without.  Most         *)
(* commands read, transform and write under the lock                       *)
(* (readModifyWriteStateMd); three read and transform first and lock only  *)
(* the write (writeStateMd).  `state prune` then moves the entries it took *)
(* out to STATE-ARCHIVE.md, with no lock.                                  *)
(*                                                                         *)
(* One step is one access to a shared file.  The scan of the phase         *)
(* directories for the frontmatter is taken with the read of STATE.md, or  *)
(* with the transform before the lock.                                     *)
(***************************************************************************)
EXTENDS StateCommands

CONSTANTS Procs,       \* invocations of the tool
          Menu,          \* the commands each may run
          Starts,        \* the texts a project may start from
          StartDisks,    \* the phase directories it may start from
          MaxTries,      \* maxRetries (10 in the code)
          MaxKills,      \* bound: processes killed in a behavior
          AutoPrune,     \* workflow.auto_prune_state
          None           \* no lock, no scan, no command

VARIABLES
  state,     \* STATE.md: its body and its frontmatter
  lock,      \* STATE.md.lock: None, or who made it and whether it is 10 s old
  archive,   \* decisions and metric rows in STATE-ARCHIVE.md
  disk,      \* plans and summaries in the phase directories
  proc,      \* the processes
  acked,     \* decisions a command has reported as added
  broken,    \* a process went on without the lock, or removed a live one's
  blind      \* a writer replaced a text, or an archive, it had not read

vars == <<state, lock, archive, disk, proc, acked, broken, blind>>

Texts == [body: Bodies, fm: Frontmatters]
Locks == [owner: Procs, old: BOOLEAN]

ASSUME StateAssumption ==
  /\ Menu \in [Procs -> SUBSET Commands]
  /\ Starts \subseteq Bodies
  /\ StartDisks \subseteq Disks
  /\ MaxTries \in Nat \ {0}
  /\ MaxKills \in Nat
  /\ AutoPrune \in BOOLEAN
  /\ None \notin Commands \cup Disks \cup Texts \cup Locks

Empty == [decisions |-> {}, rows |-> {}]
Both(x, y) == [decisions |-> x.decisions \cup y.decisions, rows |-> x.rows \cup y.rows]
Archives == [decisions: SUBSET Decisions, rows: SUBSET Phases]

(* A process: base is the text it has read, new the one it will write,     *)
(* seen its lookup, scan the cached scan of the directories                *)
(* (_diskScanCache), out what a prune has taken out, shelf the archive as  *)
(* it read it, ok FALSE once a write has thrown.                           *)
Processes ==
  [pc: {"start", "look", "load", "stamp", "lock", "stale", "giveup", "read", "write",
        "unlock", "fetch", "store", "done", "dead"},
   cmd: Commands \cup {None}, tries: 0..MaxTries, seen: Lookups,
   base: Texts \cup {None}, new: Texts \cup {None}, scan: Disks \cup {None},
   out: Archives, shelf: Archives, ok: BOOLEAN]

Fresh == [pc |-> "start", cmd |-> None, tries |-> 0, seen |-> Nothing, base |-> None,
          new |-> None, scan |-> None, out |-> Empty, shelf |-> Empty, ok |-> TRUE]

(* A process that has ended, and one that was killed with entries that its *)
(* prune had taken out.                                                    *)
Over == [Fresh EXCEPT !.pc = "done"]
Left(out) == [Fresh EXCEPT !.pc = "dead", !.out = out]

(* The project may hold the lock of a process that was killed before.      *)
Init ==
  /\ \E b \in Starts, d \in StartDisks :
       /\ state = [body |-> b, fm |-> BuildFrontmatter(b, d)]
       /\ disk = d
       /\ acked = b.decisions
  /\ \E dead \in {D \in SUBSET Procs : Cardinality(D) <= MaxKills} :
       /\ proc = [p \in Procs |-> IF p \in dead THEN Left(Empty) ELSE Fresh]
       /\ lock \in {None} \cup [owner: dead, old: BOOLEAN]
  /\ archive = Empty
  /\ broken = FALSE
  /\ blind = FALSE

---------------------------------------------------------------------------
At(p, pc) == proc[p].pc = pc
Op(p) == proc[p].cmd.op
InSection(p) == proc[p].pc \in {"read", "write", "unlock"}
Ended(p) == proc[p].pc \in {"done", "dead"}
Goto(p, pc) == proc' = [proc EXCEPT ![p].pc = pc]

(* A command starts with its lookup, with reading STATE.md, or with the    *)
(* lock.                                                                   *)
FirstStep(c) ==
  IF c.op \in LookAhead THEN "look"
  ELSE IF c.op \in UnlockedReaders THEN "load" ELSE "lock"

Start(p, c) ==
  /\ At(p, "start")
  /\ c \in Menu[p]
  /\ proc' = [proc EXCEPT ![p].cmd = c, ![p].pc = FirstStep(c)]
  /\ UNCHANGED <<state, lock, archive, disk, acked, broken, blind>>

\* Mutant of Look: it fills the cache of scans, outside the lock.
LookScans(p) ==
  /\ At(p, "look")
  /\ LET seen == Lookup(proc[p].cmd, state.body, disk)
     IN  proc' = [proc EXCEPT ![p] =
                    IF Op(p) \in Prunes /\ seen.n <= 0 THEN Over
                    ELSE [@ EXCEPT !.pc = "lock", !.seen = seen, !.scan = disk]]
  /\ UNCHANGED <<state, lock, archive, disk, acked, broken, blind>>

(* A prune that finds nothing old enough ends here.                        *)
Look(p) ==
  /\ At(p, "look")
  /\ LET seen == Lookup(proc[p].cmd, state.body, disk)
     IN  proc' = [proc EXCEPT ![p] =
                    IF Op(p) \in Prunes /\ seen.n <= 0 THEN Over
                    ELSE [@ EXCEPT !.pc = "lock", !.seen = seen]]
  /\ UNCHANGED <<state, lock, archive, disk, acked, broken, blind>>

Load(p) ==
  /\ At(p, "load")
  /\ proc' = [proc EXCEPT ![p].pc = "stamp", ![p].base = state,
                          ![p].seen = Lookup(proc[p].cmd, state.body, disk)]
  /\ UNCHANGED <<state, lock, archive, disk, acked, broken, blind>>

(* The text command c makes of text s, when it scans disk d.               *)
Rewritten(c, s, seen, d) ==
  LET body == Transform(c, s.body, seen)
  IN  [body |-> body, fm |-> Stamp(c, s.fm, body, d)]

(* writeStateMd forgets the cached scan and derives the frontmatter before *)
(* it takes the lock.                                                      *)
Prepare(p) ==
  /\ At(p, "stamp")
  /\ proc' = [proc EXCEPT ![p].pc = "lock",
                ![p].new = Rewritten(proc[p].cmd, proc[p].base, proc[p].seen, disk)]
  /\ UNCHANGED <<state, lock, archive, disk, acked, broken, blind>>

---------------------------------------------------------------------------
(* acquireStateLock.                                                       *)

Section(p) == IF Op(p) \in UnlockedReaders THEN "write" ELSE "read"

\* Mutant of Acquire: the lock file is not created exclusively.
AcquireShared(p) ==
  /\ At(p, "lock")
  /\ lock' = [owner |-> p, old |-> FALSE]
  /\ Goto(p, Section(p))
  /\ UNCHANGED <<state, archive, disk, acked, broken, blind>>

Acquire(p) ==
  /\ At(p, "lock")
  /\ lock = None
  /\ lock' = [owner |-> p, old |-> FALSE]
  /\ Goto(p, Section(p))
  /\ UNCHANGED <<state, archive, disk, acked, broken, blind>>

\* Mutant of Contended: the last try waits for the lock to grow old.
ContendedWaits(p) ==
  /\ At(p, "lock")
  /\ lock # None
  /\ \/ lock.old /\ Goto(p, "stale")
     \/ ~lock.old /\ proc[p].tries + 1 < MaxTries
        /\ proc' = [proc EXCEPT ![p].tries = @ + 1]
  /\ UNCHANGED <<state, lock, archive, disk, acked, broken, blind>>

(* The lock is there.  What is done about it depends on its age and on the *)
(* tries that are left; by the time it is done the lock may be another's.  *)
Contended(p) ==
  /\ At(p, "lock")
  /\ lock # None
  /\ \/ lock.old /\ Goto(p, "stale")
     \/ ~lock.old /\ proc[p].tries + 1 >= MaxTries /\ Goto(p, "giveup")
     \/ ~lock.old /\ proc[p].tries + 1 < MaxTries
        /\ proc' = [proc EXCEPT ![p].tries = @ + 1]
  /\ UNCHANGED <<state, lock, archive, disk, acked, broken, blind>>

(* Whoever made the lock that is there now, and is still in its section.   *)
StealsFromLive == lock # None /\ InSection(lock.owner)

\* Mutants of RemoveStale: a stolen lock does not count as a try, or one too
\* many is allowed.
RemoveStaleFree(p) ==
  /\ At(p, "stale")
  /\ lock' = None
  /\ Goto(p, "lock")
  /\ broken' = (broken \/ StealsFromLive)
  /\ UNCHANGED <<state, archive, disk, acked, blind>>
RemoveStaleOnce(p) ==
  /\ At(p, "stale")
  /\ lock' = None
  /\ proc' = [proc EXCEPT ![p].tries = @ + 1,
                          ![p].pc = IF proc[p].tries + 1 > MaxTries THEN Section(p) ELSE "lock"]
  /\ broken' = (broken \/ StealsFromLive)
  /\ UNCHANGED <<state, archive, disk, acked, blind>>

RemoveStale(p) ==
  /\ At(p, "stale")
  /\ lock' = None
  /\ LET last == proc[p].tries + 1 >= MaxTries
     IN  /\ proc' = [proc EXCEPT ![p].tries = @ + 1,
                                 ![p].pc = IF last THEN Section(p) ELSE "lock"]
         /\ broken' = (broken \/ StealsFromLive \/ last)
  /\ UNCHANGED <<state, archive, disk, acked, blind>>

GiveUp(p) ==
  /\ At(p, "giveup")
  /\ lock' = None
  /\ Goto(p, Section(p))
  /\ broken' = TRUE
  /\ UNCHANGED <<state, archive, disk, acked, blind>>

(* The 10 seconds pass.                                                    *)
Age ==
  /\ lock # None /\ ~lock.old
  /\ lock' = [lock EXCEPT !.old = TRUE]
  /\ UNCHANGED <<state, archive, disk, proc, acked, broken, blind>>

---------------------------------------------------------------------------
(* The guarded part.                                                       *)

(* A scan made earlier by the same process is used again.                  *)
Scan(p) == IF proc[p].scan = None THEN disk ELSE proc[p].scan

\* Mutant of Read: the lock is given up once the text is read.
ReadReleases(p) ==
  /\ At(p, "read")
  /\ lock' = None
  /\ proc' = [proc EXCEPT ![p].pc = "write", ![p].base = state, ![p].scan = Scan(p),
                ![p].new = Rewritten(proc[p].cmd, state, proc[p].seen, Scan(p)),
                ![p].out = IF Op(p) \in Prunes THEN Pruned(state.body, proc[p].seen.n)
                                              ELSE Empty]
  /\ UNCHANGED <<state, archive, disk, acked, broken, blind>>

Read(p) ==
  /\ At(p, "read")
  /\ proc' = [proc EXCEPT ![p].pc = "write", ![p].base = state, ![p].scan = Scan(p),
                ![p].new = Rewritten(proc[p].cmd, state, proc[p].seen, Scan(p)),
                ![p].out = IF Op(p) \in Prunes THEN Pruned(state.body, proc[p].seen.n)
                                              ELSE Empty]
  /\ UNCHANGED <<state, lock, archive, disk, acked, broken, blind>>

Write(p) ==
  /\ At(p, "write")
  /\ state' = proc[p].new
  /\ blind' = (blind \/ (Op(p) \in UnlockedReaders /\ proc[p].base # state))
  /\ proc' = [proc EXCEPT ![p].pc = "unlock", ![p].base = None, ![p].new = None]
  /\ UNCHANGED <<lock, archive, disk, acked, broken>>

\* Mutant of WriteFails: no finally, the lock stays.
WriteFailsAtOnce(p) ==
  /\ At(p, "write")
  /\ proc' = [proc EXCEPT ![p] = Over]
  /\ UNCHANGED <<state, lock, archive, disk, acked, broken, blind>>

(* The write throws; the lock is released all the same.                    *)
WriteFails(p) ==
  /\ At(p, "write")
  /\ proc' = [proc EXCEPT ![p].pc = "unlock", ![p].ok = FALSE, ![p].out = Empty,
                          ![p].base = None, ![p].new = None]
  /\ UNCHANGED <<state, lock, archive, disk, acked, broken, blind>>

\* Mutant of AfterUnlock: a prune only removes.
AfterUnlockForgets(p) ==
  IF proc[p].ok /\ Op(p) = "phase-complete" /\ AutoPrune
  THEN [Fresh EXCEPT !.pc = "look", !.cmd = [op |-> "auto-prune"], !.scan = proc[p].scan]
  ELSE Over

(* After the lock: a prune archives what it took out, `phase complete`     *)
(* prunes too if it is configured to, the others report and end.           *)
AfterUnlock(p) ==
  IF proc[p].out # Empty THEN [proc[p] EXCEPT !.pc = "fetch"]
  ELSE IF proc[p].ok /\ Op(p) = "phase-complete" /\ AutoPrune
  THEN [Fresh EXCEPT !.pc = "look", !.cmd = [op |-> "auto-prune"], !.scan = proc[p].scan]
  ELSE Over

(* releaseStateLock removes the lock file, whoever made it.                *)
Unlock(p) ==
  /\ At(p, "unlock")
  /\ lock' = None
  /\ proc' = [proc EXCEPT ![p] = AfterUnlock(p)]
  /\ acked' = IF proc[p].ok /\ Op(p) = "add-decision"
              THEN acked \cup {<<proc[p].cmd.phase, proc[p].cmd.note>>}
              ELSE acked
  /\ UNCHANGED <<state, archive, disk, broken, blind>>

FetchArchive(p) ==
  /\ At(p, "fetch")
  /\ proc' = [proc EXCEPT ![p].pc = "store", ![p].shelf = archive]
  /\ UNCHANGED <<state, lock, archive, disk, acked, broken, blind>>

StoreArchive(p) ==
  /\ At(p, "store")
  /\ archive' = Both(proc[p].shelf, proc[p].out)
  /\ blind' = (blind \/ proc[p].shelf # archive)
  /\ proc' = [proc EXCEPT ![p] = Over]
  /\ UNCHANGED <<state, lock, disk, acked, broken>>

---------------------------------------------------------------------------
(* A process is killed: its lock file and its half-done work stay.         *)
Kill(p) ==
  /\ ~Ended(p) /\ ~At(p, "start")
  /\ Cardinality({q \in Procs : At(q, "dead")}) < MaxKills
  /\ proc' = [proc EXCEPT ![p] = Left(proc[p].out)]
  /\ UNCHANGED <<state, lock, archive, disk, acked, broken, blind>>

(* Agents write plans, and summaries of executed plans, as they go.        *)
PlanWritten(n) ==
  /\ disk[n].plans < MaxPlans
  /\ disk' = [disk EXCEPT ![n].plans = @ + 1]
  /\ UNCHANGED <<state, lock, archive, proc, acked, broken, blind>>

SummaryWritten(n) ==
  /\ disk[n].done < disk[n].plans
  /\ disk' = [disk EXCEPT ![n].done = @ + 1]
  /\ UNCHANGED <<state, lock, archive, proc, acked, broken, blind>>

Step(p) ==
  \/ Look(p) \/ Load(p) \/ Prepare(p)
  \/ Acquire(p) \/ Contended(p) \/ RemoveStale(p) \/ GiveUp(p)
  \/ Read(p) \/ Write(p) \/ WriteFails(p) \/ Unlock(p)
  \/ FetchArchive(p) \/ StoreArchive(p)

Next ==
  \/ \E p \in Procs : Step(p) \/ Kill(p) \/ (\E c \in Menu[p] : Start(p, c))
  \/ Age
  \/ \E n \in Phases : PlanWritten(n) \/ SummaryWritten(n)

Spec == Init /\ [][Next]_vars

---------------------------------------------------------------------------
TypeOK ==
  /\ state \in Texts
  /\ lock \in Locks \cup {None}
  /\ archive \in Archives
  /\ disk \in Disks
  /\ acked \subseteq Decisions
  /\ broken \in BOOLEAN /\ blind \in BOOLEAN
  /\ proc \in [Procs -> Processes]

(* acquireStateLock: as long as no process has run out of tries and no     *)
(* lock of a live process was taken for stale, one process at a time is    *)
(* between the acquisition and the release, and the lock is its own.       *)
MutualExclusion ==
  ~broken => \A p \in Procs : InSection(p) => lock # None /\ lock.owner = p

(* The finally blocks: a lock file belongs to a process that is in its     *)
(* section or was killed there.  No failure leaves one behind.             *)
NoOrphanLock ==
  lock # None => InSection(lock.owner) \/ At(lock.owner, "dead")

(* A decision that `state add-decision` reported as added stays, in        *)
(* STATE.md, in the archive or with the prune that is moving it there (a   *)
(* kill between the two loses it), unless the lock was passed over or a    *)
(* text was replaced unread.                                               *)
DecisionsKept ==
  ~broken /\ ~blind =>
    acked \subseteq state.body.decisions \cup archive.decisions
                      \cup UNION {proc[p].out.decisions : p \in Procs}

(* The commands whose frontmatter is older than their lock: derived before *)
(* it, or from the scan that `phase complete` made under an earlier one.   *)
StampsEarly(p) ==
  Op(p) \in UnlockedReaders \cup {"milestone-switch", "auto-prune"}

(* The number of executed plans in the frontmatter never goes back: the    *)
(* scan and the write are under one lock, so a slow process cannot publish *)
(* an older count over a newer one.  The exceptions are the writers that   *)
(* scanned before they had the lock.                                       *)
CountsNeverRegress ==
  [][\/ state'.fm.done >= state.fm.done
     \/ broken
     \/ \E p \in Procs : Write(p) /\ StampsEarly(p)]_vars

(* How many steps process p may still need: a bound that falls with the    *)
(* tries.  `phase complete` may have a prune to do when it is through.     *)
Running(p) == ~At(p, "start") /\ ~Ended(p)
Work(p) ==
  LET left == 2 * (MaxTries - proc[p].tries)
      pass == 2 * MaxTries + 10
  IN  (IF Running(p) /\ Op(p) = "phase-complete" THEN pass ELSE 0)
      + CASE At(p, "start")  -> 2 * pass
          [] At(p, "load")   -> pass
          [] At(p, "look")   -> pass - 1
          [] At(p, "stamp")  -> pass - 1
          [] At(p, "lock")   -> left + 7
          [] At(p, "stale")  -> left + 6
          [] At(p, "giveup") -> left + 6
          [] At(p, "read")   -> 5
          [] At(p, "write")  -> 4
          [] At(p, "unlock") -> 3
          [] At(p, "fetch")  -> 2
          [] At(p, "store")  -> 1
          [] Ended(p)        -> 0

(* acquireStateLock never waits for ever: every step of a process brings   *)
(* it nearer to its end, and no step of another, a kill or a failed write  *)
(* included, sends it back.                                                *)
NoStepIsLost ==
  [][\A p \in Procs : proc'[p] = proc[p] \/ Work(p)' < Work(p)]_vars

(* And no command is ever stuck: while it runs, it has a step to take,     *)
(* whatever lock it finds.                                                 *)
NeverStuck == \A p \in Procs : Running(p) => ENABLED Step(p)

(* STATE.md behaves as one register that every command rewrites at once,   *)
(* until the lock is passed over or a text is replaced unread.             *)
MayMake(old, new) == \E c \in Commands : \E seen \in Seen(c) : new = Transform(c, old, seen)
Register == INSTANCE StateRegister WITH content <- state.body,
                                        degraded <- (broken \/ blind),
                                        Rewrites <- MayMake
RegisterSpec == Register!Spec
====
