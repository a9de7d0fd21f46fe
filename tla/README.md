# A TLA+ model of kinder and of its planning tool

The repository holds two programs. kinder (a fork of kind, Go module `sigs.k8s.io/kind`) creates
Kubernetes clusters whose nodes are containers of docker, podman or nerdctl, and adds what a
developer does with them afterwards: pausing and resuming a cluster, highly available control planes
that survive it, snapshots, a development loop. The planning tool (`.cursor/get-shit-done/bin`,
JavaScript) keeps the project's roadmap, state, phases and settings in files under `.planning`; many
agents call it at the same time. This directory holds TLA+ modules translated from the source of both,
the TLC runs that check them on small instances, and theorems about them that TLAPS proves for every
instance.

Paths below are relative to the repository.

## 1. The system

### 1.1 kinder

One `kinder` process runs one command and ends. There is no daemon and no lock on a cluster: all
state lives in the container runtime (containers, labels, networks), inside the node containers
(files under `/kind`, etcd, certificates, Envoy's configuration) and in the user's kubeconfig and
snapshot store. Two processes therefore meet only through that state, between any two calls of
either, and what a killed process leaves behind is what the next one finds.

| Component | State | Operations | Talks to |
|---|---|---|---|
| pause, resume (`pkg/internal/lifecycle`) | none of its own; containers, endpoints, LB config, etcd certificates | `Pause`, `Resume` and its phases, `ClusterStatus` | runtime, load balancer, certificate regeneration, IP pinning |
| certificate regeneration (`lifecycle/certregen.go`) | etcd manifests, certificates, etcd membership | `IPDriftDetected`, `RegenerateEtcdPeerCertsWholesale` | kubelet and etcd in the nodes; called by resume |
| creation (`pkg/cluster/internal/create`) | a cached node list | `Cluster`, its actions and addons | providers, kubeconfig, deletion (cleanup) |
| deletion (`pkg/cluster/internal/delete`) | none | `Cluster` | providers, kubeconfig; called by create |
| pinning and probe (`pkg/internal/ippin`, `doctor/ipamprobe.go`) | `/kind/ipam-state.json`, a scratch network | `ProbeIPAM`, `RecordAndPinHAControlPlane`, `ReadIPAMState` | runtime; called by create and resume |
| providers (`pkg/cluster/internal/providers`) | containers, the `kind` network | `Provision`, `ListNodes`, `DeleteNodes` | runtime |
| kubeconfig (`pkg/cluster/internal/kubeconfig`) | the kubeconfig file and its lock file | `Export`, `Remove` | file system |
| load balancer (`pkg/cluster/internal/loadbalancer`) | Envoy's `cds.yaml`, `lds.yaml` | entrypoint, `WriteDynamicConfig` | called by create and resume |
| snapshots (`pkg/internal/snapshot`) | archives with digest files | `Create`, `Restore`, store, prune | pause, resume, etcd, images, volumes |
| dev loop (`pkg/internal/dev`) | channels, a timer | watcher or poller, debouncer, cycle runner | file system, build, load, rollout |
| doctor, configuration, node image build, command line, kindnetd | - | read-only checks, conversions, sequential scripts, a daemon of its own | - |

What is hard in it, and what makes each component correct:

* **Pause and resume** are loops that go on after an error and report it at the end, over a cluster
  in any state. They must stop and start in an order that keeps quorum, lose no error on the way,
  leave a cluster that routes, and keep the address every etcd certificate names. Hard: partial
  failure, kills between a disconnect and its reconnect, another process on the same cluster,
  addresses that another cluster takes while a container is stopped, a load balancer whose
  entrypoint empties the config, an idempotency check that only looks at container states.
* **Creation** checks and acts without a lock, starts its containers concurrently, returns at the
  first error while others are still being created, and cleans up. It must hand over a cluster
  that resume can rely on: all control planes recorded and pinned, or none. Hard: the check-then-act
  race, the cleanup racing creations in flight, a probe that decides twice.
* **Deletion** must be repeatable: nodes gone, kubeconfig entry gone, whatever failed before.
* **Certificate regeneration** takes a whole etcd cluster down and up again, with the order of its
  updates decided by a sort. It must not end with two members claiming one address or a member left
  down. Hard: chains of exchanged addresses, failures between its phases.
* **Snapshots** pause, capture or rewrite, and resume, over several files and nodes, without
  rollback. Hard: a crash or a failure between any two steps.
* **The dev loop** must run a cycle after the last change, whatever is coalesced or dropped.

### 1.2 The planning tool

`gsd-tools.cjs` is started anew for every command, finds the project's root and the active
workstream, does its work on the files of one planning directory (`.planning`, or
`.planning/workstreams/<name>`) and ends. Nothing but files connects two commands.

| Component | State | Operations | Talks to |
|---|---|---|---|
| state file (`lib/state.cjs`) | `STATE.md` with its frontmatter, `STATE.md.lock`, `STATE-ARCHIVE.md` | 17 `state` commands, `phase complete`'s part of it, prune | called by phases and milestones; reads the phase directories |
| phases and roadmap (`phase.cjs`, `roadmap.cjs`, `planning-workspace.cjs`) | `ROADMAP.md`, `phases/`, `.lock` | add, add-batch, insert, remove, complete, update-plan-progress, annotate-dependencies | state file, requirements |
| milestones and requirements (`milestone.cjs`) | `REQUIREMENTS.md`, `MILESTONES.md`, `milestones/` | requirements mark-complete, milestone complete, phases clear | state file, phases |
| workstreams (`workstream.cjs`, `planning-workspace.cjs`) | `workstreams/`, the pointer of each session and the shared one | create with migration, complete with archive, set | move the files of all the others |
| configuration (`config.cjs`, `core.cjs`) | `config.json` | config-set, config-new-project, config-ensure-section, loadConfig | health repairs |
| health (`verify.cjs`) | none | `validate health` and its repairs, `validate consistency`, phase completeness | every file above |
| views (`init.cjs`, `roadmap.cjs`, `commands.cjs`, `workstream.cjs`) | none | what `init ...`, `roadmap analyze`, `progress`, `stats` and the lists answer | agents act on them |
| model routing (`core.cjs`, `model-profiles.cjs`) | none | which model and effort an agent gets | configuration |
| project root (`core.cjs`, `gsd-tools.cjs`) | none | worktree, pointer, search for the root | every command |
| knowledge graph (`graphify.cjs`) | `graph.json`, its last snapshot | query with a budget, snapshot, difference | - |
| learnings, imports, intelligence files, profiles, audits, document checks, commits | files of text | one input, one output | - |

What is hard in it:

* **The state file** has a lock that gives up: the tenth try removes it and goes on without. Three
  commands read before they lock, a prune moves text to a second file after it has unlocked, and the
  scan of the directories is cached. An acknowledged entry must survive all that, and nothing may hang.
* **Phases, requirements, settings** share the other lock, which is broken after 30 s, or after 10 s
  of waiting, whoever it belongs to; milestones, repairs, marking requirements and the directories of a removal do
  without. An acknowledged phase, completion or setting must still be there when all is quiet, with a
  number of its own.
* **Workstreams** move the files, the lock file among them, away under running commands, and back when a move fails.
* **Views and health** read the same files with patterns of their own, and must not contradict each other:
  an agent that is told two things about a phase does its work twice, or nowhere.

`PROJECT.json` lists the components with their sources, and every hazard at its line.

## 2. Modules

| Module | Models |
|---|---|
| `Lifecycle` | pause and resume of one cluster by any number of processes |
| `MCLifecycle` | instances of it for TLC |
| `LifecycleProofs` | theorems about it: its types, the pinned addresses, what a successful pause or resume has done |
| `LifecycleResume` | theorems about it: the order a resume works in, routing, peer addresses, recovery |
| `Provision` | creation, pinning, probe, deletion, kubeconfig of several clusters by any number of processes |
| `MCProvision` | instances of it for TLC |
| `ProvisionProofs` | theorems about it: what a successful creation or deletion leaves |
| `StateCommands` | `STATE.md` as a value, and what each command makes of it (functions) |
| `StateRegister` | the abstract specification: one register, rewritten at once |
| `PlanningState` | processes that run state commands under the lock; implements `StateRegister` |
| `MCPlanningState` | instances of it for TLC |
| `PlanningStateProofs` | theorems: types, mutual exclusion, no orphan lock, no lost decision |
| `PlanningTree` | the files of one planning directory, and what commands and views compute from them (functions) |
| `PlanningPhases` | processes that add, insert, remove, complete, mark, set, repair, archive |
| `Workstreams` | composes it with creating, migrating and archiving workstreams |
| `PlanningViews` | what the reading commands answer, over the states of `Workstreams` |
| `PlanningPhasesProofs` | theorems about these four: the lock of a planning directory excludes; types, phases and settings that stay, repairs that converge |
| `WorkstreamsOutcomes` | theorems about the same: no directory is lost when workstreams are created and completed, and a project stays in one piece |
| `PlanningFits` | theorems about the same: roadmap, directories and STATE.md fit together, so that completions stay, the manager and the health check work, and the views agree |
| `ModelRouting` | which model an agent gets at which attempt |
| `ProjectRoot` | where a command works |
| `MCWorkstreams` | instances of `PlanningViews` for TLC; evaluates `ModelRouting` and `ProjectRoot` on small inputs |
| `KnowledgeGraph` | graph queries, their budget, differences; evaluated in `MCPlanningState` |
| `PlanningLookupProofs` | theorems about these three |

### Lifecycle

Each process `p` has a record `cmd[p]`: its command, its phase `pc`, its position `i` in the loop
of that phase, the resolved strategy, whether an error was recorded (`failed`). A step is one call to the
container runtime together with the code around it, up to the next call. `container`, `attach`,
`ip`, `taken` are what the runtime knows; `ipam`, `label`, `lbConfig`, `cert` is what lies in the
containers.

| Code | Actions |
|---|---|
| `Pause`: checks, idempotency | `PauseRefused`, `PauseBegins` |
| `Pause`: stop loop, result | `StopNode`, `StopFails`, `PauseReturns` |
| `Resume`: checks, idempotency, phase 0 | `ResumeRefused`, `ResumeBegins` with `Strategy` |
| `startNodes` (phases 1, 2, 4) | `StartNode`, `StartFails`, `StartCancelled`, `GroupStarted` |
| phase 1.25, `reapplyLBConfig` | `ApplyLBConfig`, `LBConfigFails`, `LBFamilyUnknown` |
| phase 1.5, `applyPinnedIPsBeforeCPStart` | `DisconnectCP`, `DisconnectFails`, `ConnectCP`, `ConnectFails`, `AllPinned` |
| phase 4.5 | `DetectDrift` with `Drifted`, `Regenerate`, `RegenerateFails` |
| readiness gate | `NodesReady`, `ReadyTimeout` |
| the context | `Cancel` |
| outside | `Kill`, `ContainerDies`, `OtherJoins`, `OtherLeaves`, `EntrypointRuns` |

The initial states are the clusters that creation hands over: running, under any label, and pinned
or not; `CreatedForResume` of `Provision` states that no others are handed over.

The fields `alone` and `faultless` observe a command and decide nothing: whether another process or
a dying container interfered with it, and whether one of its calls failed by itself. Properties that
promise something only to an undisturbed command read them.

Abstractions: an address is a value compared for equality; the readiness hook of phase 3 only warns
and is left out; a certificate is the address it names; regeneration is one step here.

### Provision

`container[c][n]` is the container of node `n` of cluster `c`, with its resume-strategy label,
whether it holds the IPAM file, and its endpoint. `flying[p]` is the set of `run` calls of a creation that
have not ended; they go on when the creation has returned or was killed. `scratch` and `leaked` are the
probe's network. The cleanup of a failed creation runs the same actions as `kinder delete
cluster`, as the code calls the same function.

| Code | Actions |
|---|---|
| `create.Cluster`: `alreadyExists` | `StartCreate`, `Check` |
| `Provision`: images, network | `PrepareFails` |
| `ProbeIPAM`, called twice | `SkipProbe`, `ScratchCreated`, `ScratchRefused`, `ProbeEnds` with `Verdict` |
| `UntilErrorConcurrent(docker run ...)` | `RunSucceeds`, `RunFails` with `FirstError`, `AllRun` |
| `pinContainer` for each control plane | `Record`, `Unplug`, `Plug`, `Recover` and their failures, `AllPinned` |
| the actions of the creation | `ListForActions`, `SetUp`, `SetupFails` |
| kubeconfig export with its attempts | `Export`, `ExportFails` |
| `delete.Cluster` | `StartDelete`, `List`, `Unkube`, `Rm` and their failures |
| outside | `Kill` |

Abstractions: addresses, which only `Lifecycle` needs; the failure of a pinned connect when the
address is taken meanwhile is possible whenever another process is creating containers. An update
of the kubeconfig is one step that may find the lock held. `late`, `alone` and `cleanup` observe.
Two `CONSTANTS` restrict the environment, so that a run can say what goes wrong without a fault:
`RuntimeFails` (calls also fail by themselves) and `Exclusive` (one command per cluster at a time).

### PlanningState

`StateCommands` takes STATE.md for a record of the fields and sections that the commands read and
write (`Bodies`), the frontmatter for its counters (`Frontmatters`), and has one operator per command;
`Transform` and `Stamp` put them together. `proc[p]` holds what process `p` keeps between two accesses
to the disk: the text it has read (`base`), the one it will write (`new`), its lookup (`seen`), the
cached scan (`scan`), what a prune has taken out (`out`), the tries that are spent. A step is one access to a shared file.

| Code | Actions |
|---|---|
| command entry, lookups before the lock | `Start`, `Look` |
| `planned-phase`, `sync`, `milestone-complete`: read and transform before the lock | `Load`, `Prepare` |
| `acquireStateLock` | `Acquire`, `Contended`, `RemoveStale`, `GiveUp` |
| `readModifyWriteStateMd`, `writeStateMd` | `Read`, `Write`, `WriteFails`, `Unlock` |
| `state prune`: the archive | `FetchArchive`, `StoreArchive` |
| outside | `Age` (10 s pass), `Kill`, `PlanWritten`, `SummaryWritten` |

`broken` says that somebody went on without the lock or removed that of a live process, `blind` that a text was
replaced by somebody who had not read it; both observe, and say exactly when the promises lapse.

### PlanningPhases, Workstreams, PlanningViews

`tree[at]` is the content of a planning directory: the sections of ROADMAP.md in order, the phase
directories with their plans and summaries, the ticked requirements, STATE.md as far as phases and
health read it, the keys of config.json. `made` are the directories that exist, `lock[at]` the lock file with
its owner and age, `shelf` the milestone archive, `pointer` the active workstream of every session and the
shared one, `attic[p]` the archive a `workstream complete` fills.

| Code | Actions |
|---|---|
| `withPlanningLock` | `Acquire`, `SeeStale`, `BreakStale`, `GiveUpWaiting`, `LastTry`, `Release`, `Fail` |
| `phase add`, `add-batch`, `insert` | `AddBegins`, `InsertBegins`, `ReadForAdd`, `MakeDirectory`, `WriteRoadmap` |
| `phase remove` | `RemoveBegins`, `DeleteDirectory`, `RenameNext`, `Renamed`, `ReadRoadmap`, `WriteRoadmap` |
| `phase complete`, `update-plan-progress`, `annotate-dependencies` | `CompleteBegins`, `ProgressBegins`, `AnnotateBegins`, `ReadRoadmap`, `WriteRoadmap`, `ReadRequirements`, `WriteRequirements`, `LookUpNext`, `MoveState` |
| `requirements mark-complete` | `MarkBegins`, `Mark` |
| `milestone complete`, `phases clear` | `MilestoneBegins`, `ArchiveRoadmap`, `Register`, `CloseState`, `Shelve`, `Shelved`; `ClearBegins`, `ClearNext`, `Cleared` |
| `config-set`, `config-new-project`, `config-ensure-section` | `SetBegins`, `WriteConfig`; `EnsureBegins`, `EnsureConfig` |
| `validate health --repair` | `RepairBegins`, `Repair`, `AddKey`, `Repaired` |
| `workstream create`, `migrateToWorkstreams` | `CreateBegins`, `MigrateBegins`, `MovePart`, `Moved`, `MoveFails`, `MoveBack`, `Abandon`, `OpenWorkstream`, `Activate` |
| `workstream complete` | `WsCompleteBegins`, `Deactivate`, `ArchiveEntry`, `ArchiveFails`, `Restore`, `Restored`, `Archived` |
| `workstream set` | `SetPointer` |
| outside | `Work` (an agent), `Age` (30 s pass), `Kill` |

`robbed` says that a lock was deleted while its owner worked under it; it observes.

What is abstracted. Phase numbers are pairs, of one milestone, named as ROADMAP.md writes them: letter
suffixes, project codes, the 999.x backlog and custom identifiers are left out. A checklist is at the top, the `TBD` line of an
added section acts as its checkbox, and new sections are appended at the end. Where two directories have one number, which one is
found is fixed. Wave annotation applies to sections with a plan list, whatever the plans' frontmatter says. The
instant between making a directory that a lock needs and creating the lock, and temporary files, are left
out. A session is named after its process, however the code finds its key. Settings are the keys of the
`workflow` section; the migration of old keys (`depth`, `multiRepo`, `sub_repos`) that loading may write back is left out. STATE.md's counters
belong to `StateCommands`. A VERIFICATION.md is a parameter of the views, and a summary belongs to a plan of its directory.

### The functions

`ModelRouting` translates the profile tables, `resolveModelInternal`, `resolveReasoningEffortInternal` and `resolveModelForTier`.
`ProjectRoot` takes a path for the sequence of directories from the start upwards, each with what the search asks of it; the flag `multiRepo` only
asks for what is tried without it next, and `GSD_PROJECT` is left out. `KnowledgeGraph` takes a graph for a function of nodes and a
sequence of edges, with the estimate of tokens as a constant operator; identifiers are unique, and a budget is a natural number (0 is none).

## 3. Runs

Run inside this directory: `tlc -workers 2 -config X.cfg M`.

| Run | Question | Result |
|---|---|---|
| `lifecycle` (`Lifecycle.cfg`) | Sequences of pauses and resumes under every label and `--strategy`, with failures, kills and dying containers | passes, 287 thousand states |
| `lifecycle_concurrent` (`LifecycleConcurrent.cfg`) | Two processes on a pinned cluster, and containers of another cluster on the network | passes, 3.2 million states |
| `lifecycle_liveness` (`LifecycleLiveness.cfg`) | Does every command end? | passes |
| `provision` (`Provision.cfg`) | Two processes create and delete one HA cluster; every call may fail | passes, 3.2 million states |
| `provision_pair` (`ProvisionPair.cfg`) | Two clusters side by side; calls only fail where commands collide | passes, 267 thousand states |
| `forced_regen` (`VForcedRegen.cfg`) | "cert-regen ... always regenerates" | violated |
| `rerun_lb` (`VRerunLB.cfg`) | "re-run kinder resume to retry" | violated |
| `failed_cleanup` (`VCleanup.cfg`) | "In case of errors nodes are deleted" | violated |
| `label_contract` (`VLabel.cfg`) | the ip-pinned label as a contract | violated |
| `planning_state` (`PlanningState.cfg`) | Two processes run state commands beside one that died with or without the lock; locks age, writes throw, agents write plans | passes, 1.5 million states |
| `workstreams` (`Workstreams.cfg`) | Every pair of planning commands at once, flat and in workstreams, sound and damaged, with a left lock, a kill, a failing rename | passes, 371 thousand states |
| `removal_numbers` (`VRemoval.cfg`) | "renumber all subsequent integer phases" | violated |

What the properties say:

* `PauseStopsEverything`, `ResumeStartsEverything`, `ResumeRestoresRouting`: a command that reports success has done
  it for every node, and the load balancer routes again.
* `QuorumSafeOrder`: the order of stops and starts, also from partly running clusters.
* `ResumeKeepsPeerAddresses`: after a successful resume each control plane has the address its etcd
  certificate names, by pinning or by regeneration.
* `NoStartUnpinned`: no control plane of a pinned cluster is started while one is off the network.
* `PinnedAddressKept`: under every interleaving a pinned control plane runs at its recorded
  address or without a network.
* `UnpinnedResumeRecovers`: a cluster that is not pinned can be resumed after any history. A pinned
  one cannot: a resume that stops between a disconnect and its reconnect leaves an endpoint that
  the next resume fails to disconnect (`resume.go:169`).
* `CommandsEnd`: every loop, retry and wait is bounded.
* `CreatedIsComplete`, `CreatedForResume`, `LeftoversWereInFlight`, `KubeconfigFollows`: what
  creation and deletion leave, each the strongest form that holds; the violated runs show the
  stronger ones the source claims.

* `MutualExclusion`, `NoOrphanLock`, `NeverStuck`, `NoStepIsLost`: the state lock excludes until it is passed
  over, no failure leaves it behind, and every command ends: while it runs it has a step to take, and every step
  lowers a bound (`Work`) that no other process raises.
* `DecisionsKept`: an acknowledged decision is in STATE.md, in the archive, or in the hands of the prune that
  moves it, until the lock is passed over or a text is replaced unread.
* `CountsNeverRegress`: the count of executed plans in the frontmatter never goes back, but for the
  commands that scan before they lock (`StampsEarly`).
* `RegisterSpec`: `PlanningState` implements `StateRegister`: STATE.md is one register that every command
  rewrites at once from what is there, which is what the comment on `readModifyWriteStateMd` promises. The
  mapping is `content <- state.body`, `degraded <- broken \/ blind`, `Rewrites <- MayMake`.
* `LockExcludes`, `PhasesKept`, `NumbersUnique`, `CompletionRecorded`, `SettingsKept`: what the lock of a planning
  directory protects, and that an acknowledged phase, number, completion or setting stays.
* `ManagerNeverStalls`: there is always a phase to discuss, plan or execute, or work in progress, until all are
  complete; `WorkStartsOnOwnPhase`: the commands that start work hand out the same directory, the current one;
  `ViewsAgree`: no two views contradict each other on a phase or a count.
* `HealthyAtRest`, `RepairConverges`: what the other commands leave is sound for the health check, and a repair leaves nothing
  it could repair, except the key its own defaults lack (`W016`). `W011` is left out of the first: it fires after every milestone that ends normally.
* `DirsConserved`, `ProjectWhole`: no phase directory is lost by milestones, migrations, archives and their
  rollbacks, and roadmap, state and directories stay together.
* `RoutingChecked`, `RootChecked` (`MCWorkstreams`), `GraphChecked` (`MCPlanningState`): the functions of the last three
  modules have their properties on every small input. TLC evaluates them as assumptions of these runs.

Where a promise names exceptions (`Ran(Taking)`, `mark`, `ensure`, `repair`, `StampsEarly`), the code
itself works without the lock or takes things away there: a removal, a clearing, or a migration beside another command can undo what that command
acknowledged, and `requirements mark-complete` overwrites what a completion ticks meanwhile.

**Bounds.** Two control planes are the least that make an HA cluster, and the code treats each of
them alike but for its position; one worker and one load balancer give every phase a node. The
address pool of `Lifecycle.cfg` has one address per node, so that regeneration sees every
permutation of the addresses. `LifecycleConcurrent.cfg` leaves out the worker, and has one other
container (`MaxOthers = 1`) that can take the address of a stopped node: it meets neither start order
nor regeneration, which `Lifecycle.cfg` covers. Two processes are enough for each race described in the
hazards, all of which are between two commands. `Provision` needs no bound: a process has at most one command.
Processes, and addresses, are interchangeable, so the symmetry sets are sound; the liveness run uses none.
In `planning_state` the first process has the full menu of 17 commands and the second the three kinds that differ
in their locking (under it, before it, with a prune after it); a third can only have died before. Two tries
(`MaxTries`) have a first, a last, and a stale lock on each; two phases of two plans have an old and a current one. In
`workstreams` two processes run one of 17 and one of 15 commands (a command that meets itself as it meets the others is in one menu), over three starts (a sound flat project
with the lock of a dead process, a damaged one, a workstream; the pointer shared, or a session's own). `MaxKills = 1` and
`MaxFaults = 1`: with a second failing rename a rollback deletes what it could not move back (`workstream.cjs`).
Every race of the hazards is between two commands. The model values of these two runs differ in role, so there is no symmetry.
Deadlock is checked in `workstreams`, where `Rest` stutters when nobody works: a command without a step is an error. In
`planning_state` every process ends and nothing follows, so deadlock is not checked there, and `NeverStuck` says it of running commands.

**Fairness.** `FairSpec` assumes weak fairness of the steps of each running command: a process that is
not killed goes on, since each of its calls returns (the runtime's calls, and `tryUntil` has a deadline).
Nothing outside, and no start of a command, is fair. The planning runs need no fairness: that their commands end is stated by
`NeverStuck` and `NoStepIsLost`, and by the absence of deadlock.

**The late entrypoint.** `docker start` returns when the container runs, not when its entrypoint has
written Envoy's empty files. `LateEntrypoint` lets that write come after the re-apply of phase 1.25. The safety runs take
`FALSE`; with `TRUE`, `ResumeRestoresRouting` does not hold.

**What the violated runs show.** `forced_regen`: after a resume whose regeneration failed every container
runs, and a forced resume returns at the idempotency check. `rerun_lb`: only the load balancer was
down; phase 1 starts it, the three attempts fail, and the re-run finds everything running.
`failed_cleanup`: one `run` fails, the cleanup lists the nodes, and another `run` ends after that.
`label_contract`: the second probe of a creation finds the subnet held by the probe of another.
`removal_numbers`: the loop that lowers the numbers behind a removed phase meets its own output, so that both later
sections get the removed number while their directories are renumbered properly.
The findings in `PROJECT.json` quote the lines.

**Seen while modelling, without a run.** The workstream pointer is read before the project root is searched (`gsd-tools.cjs:292`, `:399`), so a command
started in a sub-repository ignores the active workstream. A query merges two edges between the same nodes whatever their
relation (`graphify.cjs:256`) while a difference tells them apart (`:485`). `phase complete` acknowledges success
without recording it when ROADMAP.md is being moved by a migration (`phase.cjs:885`). MILESTONES.md is shared and
unlocked. A workstream whose STATE.md says "milestone complete" is hidden from the others' list although phases were added later (`workstream.cjs:436`).
`init milestone-op` counts a phase with any summary as complete.

## 4. Proofs

`tlapm M.tla` for each of the eight proof modules. Those about `Lifecycle` hold for every cluster (any number of nodes), network, set of
processes, labels and options that meets the three named assumptions of `Lifecycle`.

* `TypeCorrect == Spec => []TypeOK`. `TypeOK` alone is not inductive: `ConnectCP` reads
  `CPs[cmd[p].i]` and `ipam` of it, so the invariant `TypeInv` adds `PinTarget`: a process at
  `connect` has a position inside `CPs`, and a control plane with a recorded address. Its proof needs that no step of
  another process moves it (`OthersStep`), that only its own `DisconnectCP` gets it there
  (`OnlyDisconnectConnects`), and that the records never change (`IpamKept`).
* `PinnedAddressAlwaysKept == Spec => []PinnedAddressKept`, by `PinInv == TypeInv /\
  PinnedAddressKept`. One lemma, `KeepsAddressStep`, goes through the actions: a start picks the
  address of the endpoint (`StartKeepsAddress`), a stop gives it back (`StopKeepsAddress`), a pin
  connects the recorded address, and regeneration writes the address a running control plane has, which is the
  recorded one.
* `PauseAlwaysStopsEverything == Spec => []PauseStopsEverything` and
  `ResumeAlwaysStartsEverything == Spec => []ResumeStartsEverything`, by the inductive `OutcomeInv`.
  What holds at the return must be known at every step before it: `PauseDone` says that until a stop
  fails, every node behind position `i` is stopped; `ResumeDone` says the same of the group being
  started, and that the groups before it run, up to the readiness gate, which no resume with a recorded
  error reaches. Both speak of commands that are `alone`; `AloneInv` says that then no other process is in
  a command, so only the process's own steps matter. Every step of a process begins a
  command or continues one (`BeginsOrContinues`), and a start stops no container (`StartGrows`).
* The five theorems of `LifecycleResume`, by `ResumeInv`: `OutcomeInv` and `PinnedAddressKept` with three facts about the
  cluster in any state (`RunsAtEndpoint`: a running container has its endpoint's address; `OnlyLabelPins`;
  `EntrypointInTime`) and, for an undisturbed resume, what each phase has established: the load balancer's config once
  phase 1.25 is over (`Routed`), the control planes pinned behind the position of the loop (`Pinned`), certificates that name the addresses
  at the gate (`PeersNamed`), no error without a failed call (`Recovers`). `OrderAlwaysQuorumSafe` and
  `RoutingAlwaysRestored` assume `~LateEntrypoint`: with a late entrypoint both are false, which is the
  hazard at `config.go:229`. `UnpinnedAlwaysRecovers` assumes `AddressesSuffice`, one address for each node and each other container:
  without it a start can find the network full. Both are assumptions of these theorems only, since the model is meant to have the other states too
  (`LifecycleConcurrent.cfg` has too few addresses).

Those about `Provision` hold for every set of processes, clusters and nodes that meets `NodesAssumption`, `OptionsAssumption` and
`AbsentAssumption`, exclusive or not, with calls that fail or not. `ProvisionInv` says of a command that no other has worked beside
(`Progress`) what each of its phases has established: which containers exist or are in flight (`Complete`); that the control planes
are as `run` made them up to the pin loop, and inside it pinned, in turn or fresh by their position (`Handed`, with `PinState`); that what is not on the
deletion's list was in flight (`Listed`); whether the kubeconfig names the cluster (`Kubeconfig`). `AloneInv` and `OnlyNodes` make
it inductive: a step of another process works on another cluster (`Frame`, `FrameKeepsInv`), and late `run`s of an ended command keep its cluster busy. Each action then
keeps what its own command has come through (`Kept`), in one lemma per phase. From `ProvisionInv` follow `ProvisionTypes`, `CreationsAreComplete`,
`CreationsHandOver`, `DeletionsLeaveInFlight` and `KubeconfigAlwaysFollows`.

Those about `PlanningState` hold for every number of processes, menu, start, number of tries and kills that
meets `StateNumbers` and `StateAssumption`.

* `StateTypeCorrect == Spec => []TypeOK`, by `TInv`, which adds what a process holds at each step (`OneOK`: its lookup is one
  of `Seen` of its command, its text is there when it is to be written). It rests on `TransformType`: every command
  makes a body of a body, and every stamp a frontmatter, so counters and percentages stay in range.
* `StateMutualExclusion == Spec => []MutualExclusion` and `StateNoOrphanLock`, by `Excl`.
  Only `Acquire` enters a section with a lock; the two other ways in set `broken`.
* `StateDecisionsKept == Spec => []DecisionsKept`, by `DInv`: until `broken`, the text a process in its section has read is the text
  that is there (`BaseOK`), so rewriting it loses no decision of another, and what a prune takes out is what it carries (`OutOK`).
* `StateImplementsRegister == Spec => RegisterSpec`: with `BaseOK`, a write that is neither `broken` nor `blind` rewrites the text that is
  there (`WriteIsRewrite`); any other write, and every way past the lock, is a `Lapse`, and no other step changes the register.
* `StateCountsNeverRegress == Spec => CountsNeverRegress`, by `CountInv`: no counter that a process holds is ahead of the directories, where
  plans only get done (`DiskGrows`, `DoneMonotone`), only an automatic prune keeps a scan from one write to the next, and what was counted under the lock is no
  older than what it replaces.
* `StateNoStepIsLost == Spec => NoStepIsLost`: `StepWorks` goes through the actions with the table `RestOf` of the work that is left at each step;
  the tries stay below `MaxTries` until the lock is had (`OneOK`).

`WorkstreamLocksExclude == WsSpec => []LockExcludes` holds for every set of processes, names, menus, starts, kills and
faults that meets `PlacesAssumption`, `StartsAssumption`, `MenuAssumption` and `FaultsAssumption`. `LockExcludes` is not inductive:
two processes could be at work while the lock file is gone. `LockInv` adds `OwnLock` (until `robbed`, whoever works under a lock
wrote the file that is there) and the types of what the steps read. The proof sorts the
steps into those that follow a command without touching a lock (`Quiet`), those that replace a lock file (`Replaces`, where `robbed` pays for a
lock taken from its owner: this is where archiving, putting back and abandoning carry lock files along) and `Create`, the one way into a section.

The theorems of `PlanningPhasesProofs` hold for the same constants, with any sets of titles, requirements and settings (`SettingsAssumption`: the keys
of a fresh configuration and of a repaired one are among the settings). The starts are any typed trees with finitely many directories, damaged ones included: nothing is assumed of
how roadmap, directories and state fit together, except by `NumbersStayUnique` and by the theorems of `PlanningFits`. `FilesAssumption` says that the absent file
is no roadmap and no directory.

* `FilesKeepTypes == WsSpec => []TypeOK`, by `TypeInv`, which adds to the types of the files what a process carries from step to step: the draft of a roadmap,
  the phases still to name, the number it will give, the counts a health check took (`Carries`, by the step it is at). It needs the functions of `PlanningTree` to stay in their types:
  a batch, an insertion and a removal make roadmaps of roadmaps, a new number is above all that are there (`NextIntegerAbove`, `NextDecimalAbove`, on `GreatestNumber`),
  and what is first or last of a finite set of phases exists (`FirstNumber`).
* `AddedPhasesStay == WsSpec => []PhasesKept`, by `PhasesInv`: a draft under the lock holds every section of the file, with its number (`Labels`), and each name asked for is either still
  to come or has a section in the draft and a directory of the same number (`Placed`). A draft stays ahead of the file because no other process writes the file while its owner
  is in the section, which is where `LockInv` comes in; directories only come, since what takes them is excluded (`Disturbing`).
* `NumbersStayUnique == WsSpec => [](~Ran({"ws-create", "ws-complete"}) => NumbersUnique)`, for starts whose roadmap and directories give each number once, by `NumbersInv`:
  every draft numbers its sections once too, and the number a process is about to give is above all of its draft and of the directories (`Above`: after the last for an
  addition, after the last that subdivides its base for an insertion). Directories that come after it was chosen are the work of another drafter, which `LockInv` excludes.
* `SettingsStayInForce == WsSpec => []SettingsKept`, by `SettingsInv`: what a process in its section has read of config.json is what is there, and a key that was applied
  is still there. Most steps touch no configuration (`MostSettle`); those that do write under the lock, or move a directory. A setting of `.planning` outlives
  migrations because they leave config.json where it is.
* `LoneRepairConverges == WsSpec => []RepairConverges`, by `RepairInv`: while a repair works alone, every fault there is is on its list or the key that its
  defaults lack. Each repair mends its own fault and brings up at most faults that are still on the list (`RepairStep`, `KeyStep`). That the file with a missing key is still the
  one that was diagnosed when the key goes in is where `Alone` is needed.

`DirectoriesStay == WsSpec => []((Ran({"ws-complete"}) => OneCreates) => DirsConserved)` (`WorkstreamsOutcomes`) holds for any number of faults, where
the run has one. Its invariant is `DirsInv`: each directory of the start is in a place that no failing migration is about to delete
(`StoredInv`); phases/ is the last part moved, so the rollback of a migration, which deletes its destination, finds it still in the old place
(`LastInv`, `Endmost`); two migrations are never under way at once (`AloneInv`), because the first makes workstreams/, which keeps the second from moving anything
(`MadeInv` puts directories only into planning directories that exist). Only a `workstream complete` can take workstreams/ away under a running migration. Then, without any
fault but a move that finds its destination gone, two processes that create the same workstream can lose a directory: the first fails and deletes what the second has moved.
TLC finds that with three processes, which is why the hypothesis is there and why `DirsConserved` holds without it for the two of the run.

`ProjectsStayWhole == WsSpec => [](OneFault /\ OwnState => ProjectWhole)` (same module) is about a process that nobody works beside. Its invariant `WholeInv` says
where each of roadmap, STATE.md, requirements and phases/ is at every step of the two commands. While a migration moves, each part is in one of the two directories and empty in the
other, and one that has gone over is on the list of what a rollback would bring back (`MovingOK`); while it moves back, each part that is still over there is on the rest
of that list, and no rename can fail any more (`MovingBackOK`), which is what a second fault would break: the part stays behind and is deleted with the destination.
An archiving that is not of the project itself leaves it where it is (`Elsewhere`); otherwise each part is in the directory, or in the archive and on
the rollback's list, once (`ArchivingOK`, `RestoringOK`). A rollback replays the list, so the proof needs that reversing and taking the head keep what is on a list and that it is on it once
(`AmongParts`, `OnceParts`). `OneFault` is `MaxFaults <= 1`; `OwnState` excludes the one intended change, a project without STATE.md that gets one because the new
workstream is opened where the project lies. The run satisfies both.

The five theorems of `PlanningFits` say that files fit together, which no command can bring about where they did not. Each is about every start of
a kind, which contains the starts of the runs: `Fitting` (every number is given once, no directory without its section, a section for the integer phase of each decimal one,
dependencies on sections of lower numbers), `Boxed` (one section and one checkbox for each number), `Sane` (both, and the checks find nothing), `Legible` (one section, one checkbox
and at most one directory of the same name for each number, no plans without a section). All rest on `NumbersInv` and on `LockInv`: what holds of a file between two commands is false in the middle of one, so
each invariant also says what the draft of the process in the section has that the file has not yet.

* `ManagerOffersWork == WsSpec => []ManagerNeverStalls`, by `FitInv`: drafts and files are closed under dependencies (`Fits`), and a directory without a section is one that a draft already
  names. Then the least phase that is not complete waits for nothing (`LeastNumber` over pairs of numbers), and it is recommended or in progress. A new phase depends on the one before
  it, an inserted one on its base, so `Grounded` carries from the step that chose the number that this phase is in the draft.
* `CompletionsRecorded == WsSpec => []CompletionRecorded`, by `PlaceInv` and `RecordInv`. The directory is looked up before the lock is taken, the roadmap is ticked under it, the requirements are
  read and written in steps of their own. `RecordDone` says at each of them, until the next command, which part is ticked already, of every text that the place has, a draft of another process included (`Texts`); `PlaceInv`
  that a completed phase has a section or a directory of its number, so that no later section takes its number and appears without a tick (`TextTurns`).
* `HealthyWhenDone == WsSpec => []HealthyAtRest`, by `HealthInv` on top of both: sections have directories in phases/ or in the archive, numbers have no gaps (`DenseGrows`), and the phase a completion will name in STATE.md
  is still there when it does (`HealthNext`).
* `WorkStartsInPlace == WsSpec => [](~Ran({"ws-create", "ws-complete"}) => WorkStartsOnOwnPhase)` and `ViewsAlwaysAgree`, of `ViewsAgree` with the same exclusion, by `ViewInv`: a section and a directory of one number have one name
  (`Entitled`, because the number that is given is above all that are there), a directory without a section holds no plans (`Planless`), and each section has its own checkbox (`OwnBoxes`).
  The statuses then follow by cases (`ViewsOfStatus`). The counts need sums over sets of any size, whose folds are recursive: `SumsExist` and `SameRecursion` show that the fold satisfies its
  equations, `AnyFirst` that the order does not matter, `SameSum` that directories which hold nothing may be left out, each by the least counterexample (`SmallestSubset`) instead of induction. That as many sections
  have begun as directories are executed is an injection (`ExecutedBegun`).

The functions: `EffortFitsModel`, `LaterAttemptsClimb`, `RoutingOffIsProfile` (for every configuration,
`IsConfig`, under `UnsetAssumption`); `RootsAreStable`, `NothingIsPlannedInside`, `SubdirectoriesShareRoot`, `PointerIsReadBeforeTheSearch`
(for paths of any length; the nearest owner exists by well-founded induction on the naturals); `CutsAreClosed`, `CutsAreSpent`, `EveryHopLeads`,
`FittingResultsAreKept`, `DiffsAreExact` (for every graph, and every estimate with values in Nat). That a number of hops reaches exactly the nodes that
many edges away (`ExpandsToNeighbourhood`) needs induction over the recursive function, and is only checked on small graphs.

Only model-checked: of `Lifecycle` liveness; of `PlanningState` only `NeverStuck`. What the theorems about `Workstreams` exclude:

* `ProjectWhole` is neither checked nor true for two faults: with a second failing rename a rollback deletes the roadmap that it could not move back.
* `NumbersUnique`, `WorkStartsOnOwnPhase` and `ViewsAgree` beside migrations hold for the two processes of the run, and are proved without migrations: a third process that adds phases in the
  flat directory, while a migration that has emptied it fails and moves its parts back, can give a number a second time.

Liveness under fairness, `ENABLED` (in `NeverStuck`) and induction over data are outside what TLAPS proves.

## 5. Plan

1. `EtcdRegen`: the phases of `RegenerateEtcdPeerCertsWholesale` over manifests, certificates and
   etcd membership, with the release-before-claim sort as a function on sequences of updates checked
   against "no two members claim one address", the simultaneous cycle, and the force-new-cluster bootstrap.
   Refinement: it implements `Regenerate` and `RegenerateFails` of `Lifecycle`.
2. `Snapshot`: `Create` and `Restore` over the abstract states of a cluster (running, paused, etcd old or
   restored per control plane), with a crash between any two steps; the store with archive and digest,
   capture beside prune.
3. `DevLoop`: watcher, debouncer and cycle runner over channels of capacity one; the last change is followed by a cycle.
4. `KubeconfigLock`: lock file, stale lock, takeover, read-merge-write; and the duplicate-network cleanup of `ensureNetwork`.
5. An abstract specification of pause and resume (a cluster that is running, paused or in between) that `Lifecycle` implements.
6. Theorems: what the other properties of `Workstreams` say when a workstream is created and completed meanwhile, for one process at a time; safety of `EtcdRegen`'s cycle.

## 6. Not modelled

Doctor's checks, configuration loading and validation, kubeadm templates, patches and version comparison
are conversions of one input without shared state. The node image build is a sequential script. kindnetd is a
daemon inside the nodes. Addons only warn (`runAddonTimed`), so they change no outcome of a
creation. nerdctl creates its containers one after the other and never pins; `Lifecycle` covers its strategy
(`Nerdctl`), `Provision` does not model it.

Of the planning tool: dispatch, argument parsing and output formats; `WAITING.json` signals (one write or removal of one file); the
`init` commands that only gather settings and file names; learnings, imports and intelligence files (stores of one file per
entry with text for agents); profiles, templates, audits and document checks, which read one input and report on it; commits, which git itself
serialises; the build of the knowledge graph, an external tool.
