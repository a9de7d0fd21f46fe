----------------------------- MODULE Lifecycle -----------------------------
(***************************************************************************)
(* `kinder pause` and `kinder resume` (pkg/internal/lifecycle) over the    *)
(* containers of one cluster.                                              *)
(*                                                                         *)
(* Every kinder process p in Procs runs one command at a time; nothing in  *)
(* the program locks the cluster, so commands of two processes interleave  *)
(* at the granularity of the container-runtime calls they make.  Each such *)
(* call may fail, a process may be killed between two calls, a resume may  *)
(* be cancelled through its context, containers may die, and containers of *)
(* other clusters come and go on the shared `kind` network.                *)
(***************************************************************************)
EXTENDS Naturals, Sequences, FiniteSets

CONSTANTS
    Procs,      \* kinder processes
    CPs,        \* control-plane nodes in the order ControlPlaneNodes sorts them
    Workers,    \* worker nodes, in order
    LBs,        \* <<lb>> when the cluster has an external load balancer, or <<>>
    Addresses,  \* addresses of the `kind` network
    NoIP,       \* a container that has no address, a file that is absent
    Dynamic,    \* endpoint connected without --ip: an address is chosen at start
    Detached,   \* container not connected to the network
    Nerdctl,    \* the container runtime is nerdctl
    Labels,     \* resume-strategy labels under which clusters were created
    Options,    \* values of --strategy that resumes are given
    LateEntrypoint, \* `start` may return before the LB's entrypoint has run
    MaxOthers   \* bound: containers of other clusters on the network

NodesOf(s) == {s[k] : k \in DOMAIN s}
CPSet      == NodesOf(CPs)
LBSet      == NodesOf(LBs)
Nodes      == CPSet \cup NodesOf(Workers) \cup LBSet
HA         == Len(CPs) >= 2

ASSUME NodesAssumption ==
    /\ CPs \in Seq(CPSet) /\ Workers \in Seq(NodesOf(Workers)) /\ LBs \in Seq(LBSet)
    /\ Len(CPs) >= 1 /\ Len(LBs) <= 1
    /\ CPSet \cap NodesOf(Workers) = {}
    /\ CPSet \cap LBSet = {}
    /\ LBSet \cap NodesOf(Workers) = {}
ASSUME NetworkAssumption ==
    /\ NoIP \notin Addresses /\ Dynamic \notin Addresses /\ Detached \notin Addresses
    /\ NoIP # Dynamic /\ NoIP # Detached /\ Dynamic # Detached
    /\ MaxOthers \in Nat
ASSUME StrategyAssumption ==
    /\ Nerdctl \in BOOLEAN /\ LateEntrypoint \in BOOLEAN
    /\ Labels \subseteq {"ip-pinned", "cert-regen", ""}
    /\ "auto" \in Options /\ Options \subseteq {"auto", "ip-pin", "cert-regen"}

VARIABLES
    container,  \* state the runtime reports of each node's container
    attach,     \* network endpoint of each container: Detached, Dynamic or its --ip
    ip,         \* address each container holds now
    taken,      \* addresses held by containers of other clusters
    ipam,       \* address in /kind/ipam-state.json of each control plane, or NoIP
    label,      \* resume-strategy label of the control-plane containers
    lbConfig,   \* Envoy's cds.yaml/lds.yaml in the load balancer
    booting,    \* the load balancer's entrypoint has not written its files yet
    cert,       \* address the etcd manifest and peer certificate of a CP name
    cmd         \* the command each process runs, or its last one

net  == <<attach, ip, taken>>
lb   == <<lbConfig, booting>>
vars == <<container, attach, ip, taken, ipam, label, lbConfig, booting, cert, cmd>>

-----------------------------------------------------------------------------
(* Types. *)

Phases  == {"idle", "stop", "startLB", "lbConfig", "pin", "connect",
            "startCP", "startWorker", "drift", "regen", "ready"}
Results == {"none", "ok", "noop", "err", "killed"}

\* `failed` is len(errs) > 0.  `alone` and `faultless` observe the command and
\* decide nothing: no other process ran and nothing changed beside it; no
\* runtime call of it failed by itself.
Commands == [op : {"none", "pause", "resume"}, pc : Phases, i : Nat,
             opt : Options, strategy : {"ip-pinned", "cert-regen", ""},
             failed : BOOLEAN, cancelled : BOOLEAN, result : Results,
             alone : BOOLEAN, faultless : BOOLEAN]

TypeOK ==
    /\ container \in [Nodes -> {"running", "exited"}]
    /\ attach \in [Nodes -> Addresses \cup {Dynamic, Detached}]
    /\ ip \in [Nodes -> Addresses \cup {NoIP}]
    /\ taken \subseteq Addresses
    /\ ipam \in [CPSet -> Addresses \cup {NoIP}]
    /\ label \in Labels
    /\ lbConfig \in {"empty", "rendered"} /\ booting \in BOOLEAN
    /\ cert \in [CPSet -> Addresses]
    /\ cmd \in [Procs -> Commands]

Idle == [op |-> "none", pc |-> "idle", i |-> 1, opt |-> "auto", strategy |-> "",
         failed |-> FALSE, cancelled |-> FALSE, result |-> "none",
         alone |-> FALSE, faultless |-> TRUE]

(* A cluster `kinder create cluster` has just set up: everything runs, and   *)
(* under the ip-pinned label the control planes are pinned to the address    *)
(* their file records, or, when the second IPAM probe of the creation        *)
(* failed, not pinned at all (module Provision).                             *)
Init ==
    /\ container = [n \in Nodes |-> "running"]
    /\ ip \in {f \in [Nodes -> Addresses] : \A m, n \in Nodes : f[m] = f[n] => m = n}
    /\ label \in Labels
    /\ \E pinned \in BOOLEAN :
          /\ pinned => label = "ip-pinned" /\ HA
          /\ ipam = [c \in CPSet |-> IF pinned THEN ip[c] ELSE NoIP]
          /\ attach = [n \in Nodes |-> IF pinned /\ n \in CPSet THEN ip[n] ELSE Dynamic]
    /\ cert = [c \in CPSet |-> ip[c]]
    /\ taken = {}
    /\ lbConfig = "rendered" /\ booting = FALSE
    /\ cmd = [p \in Procs |-> Idle]

-----------------------------------------------------------------------------
(* The container runtime, as the lifecycle code uses it. *)

Free == Addresses \ (taken \cup {ip[n] : n \in Nodes})

\* The addresses with which the runtime can start a stopped container: a
\* static address is not reserved while its container is stopped.
StartAddresses(n) ==
    IF attach[n] = Detached THEN {NoIP}
    ELSE IF attach[n] = Dynamic THEN Free
    ELSE {attach[n]} \cap Free

\* The container of n stops, and its address returns to the network.
StopContainer(n) ==
    /\ container' = [container EXCEPT ![n] = "exited"]
    /\ ip' = [ip EXCEPT ![n] = NoIP]
    /\ booting' = (booting /\ n \notin LBSet)
    /\ UNCHANGED <<attach, taken, lbConfig>>

\* The container of n starts; the load balancer's entrypoint empties Envoy's
\* dynamic config.  Starting a running container changes nothing.
StartContainer(n) ==
    \/ container[n] = "running" /\ UNCHANGED <<container, net, lb>>
    \/ /\ container[n] = "exited"
       /\ \E a \in StartAddresses(n) :
             /\ container' = [container EXCEPT ![n] = "running"]
             /\ ip' = [ip EXCEPT ![n] = a]
       /\ IF n \in LBSet
          THEN IF LateEntrypoint THEN booting' = TRUE /\ UNCHANGED lbConfig
                                 ELSE lbConfig' = "empty" /\ UNCHANGED booting
          ELSE UNCHANGED lb
       /\ UNCHANGED <<attach, taken>>

\* The entrypoint of a started load balancer writes "resources: []".
EntrypointRuns ==
    /\ booting
    /\ booting' = FALSE /\ lbConfig' = "empty"
    /\ UNCHANGED <<container, net, ipam, label, cert, cmd>>

AllIn(S, state) == \A n \in S : container[n] = state

\* ClusterStatus: what `inspect` reports of all containers, when it answers.
ClusterStatus ==
    IF AllIn(Nodes, "running") THEN "Running"
    ELSE IF AllIn(Nodes, "exited") THEN "Paused"
    ELSE "Error"

-----------------------------------------------------------------------------
(* Control flow of a command. *)

At(p, pc)   == cmd[p].pc = pc
Goto(p, pc) == cmd' = [cmd EXCEPT ![p].pc = pc, ![p].i = 1]
Advance(p)  == cmd' = [cmd EXCEPT ![p].i = @ + 1]
\* The command returns, its local variables with it; `fault`: because a call of
\* it failed by itself.
Finish(p, result, fault) ==
    cmd' = [cmd EXCEPT ![p] = [Idle EXCEPT !.op = cmd[p].op, !.opt = cmd[p].opt, !.result = result,
                    !.alone = cmd[p].alone, !.faultless = cmd[p].faultless /\ ~fault]]
Return(p, result) == Finish(p, result, FALSE)
Halt(p, fault)    == Finish(p, "err", fault)
NotAlone(c) == [q \in Procs |-> [c[q] EXCEPT !.alone = FALSE]]
LastErrors(p) == IF cmd[p].failed THEN "err" ELSE "ok"

\* A command starts at phase pc: the other processes are no longer alone.
Begin(p, command) ==
    cmd' = [NotAlone(cmd) EXCEPT ![p] =
              [command EXCEPT !.alone = \A q \in Procs \ {p} : At(q, "idle")]]

-----------------------------------------------------------------------------
(* Pause. *)

\* Mutants of StopOrder: the load balancer is forgotten; control planes go first.
StopOrderNoLB   == Workers \o CPs
StopOrderCPFirst == CPs \o Workers \o LBs

StopOrder == Workers \o CPs \o LBs

NewPause == [Idle EXCEPT !.op = "pause"]

\* The nodes cannot be listed, or no runtime is found: nothing is touched.
PauseRefused(p) ==
    /\ At(p, "idle")
    /\ Begin(p, [NewPause EXCEPT !.result = "err", !.faultless = FALSE])
    /\ UNCHANGED <<container, net, ipam, label, lb, cert>>

\* The idempotency check; an inspect that fails reads as status "Error".  On an
\* HA cluster captureHASnapshot then writes /kind/pause-snapshot.json: it fails
\* no pause, and the readiness hook of phase 3, which reads the file, only warns.
PauseBegins(p) ==
    /\ At(p, "idle")
    /\ \E status \in {ClusterStatus, "Error"} :
          LET clean == [NewPause EXCEPT !.faultless = status = ClusterStatus]
          IN  IF status = "Paused"
              THEN Begin(p, [clean EXCEPT !.result = "noop"])
              ELSE Begin(p, [clean EXCEPT !.pc = "stop"])
    /\ UNCHANGED <<container, net, ipam, label, lb, cert>>

Stopping(p) == At(p, "stop") /\ cmd[p].i \in DOMAIN StopOrder

StopNode(p) ==
    /\ Stopping(p)
    /\ StopContainer(StopOrder[cmd[p].i])
    /\ Advance(p)
    /\ UNCHANGED <<ipam, label, cert>>

\* The error is recorded and the loop goes on; the container may have stopped.
StopFails(p) ==
    /\ Stopping(p)
    /\ \/ StopContainer(StopOrder[cmd[p].i])
       \/ UNCHANGED <<container, net, lb>>
    /\ cmd' = [cmd EXCEPT ![p].i = @ + 1, ![p].failed = TRUE, ![p].faultless = FALSE]
    /\ UNCHANGED <<ipam, label, cert>>

PauseReturns(p) ==
    /\ At(p, "stop") /\ cmd[p].i > Len(StopOrder)
    /\ Return(p, LastErrors(p))
    /\ UNCHANGED <<container, net, ipam, label, lb, cert>>

Pause(p) ==
    \/ PauseRefused(p) \/ PauseBegins(p)
    \/ StopNode(p) \/ StopFails(p) \/ PauseReturns(p)

-----------------------------------------------------------------------------
(* Resume. *)

NewResume == [Idle EXCEPT !.op = "resume"]

ResumeRefused(p) ==
    /\ At(p, "idle")
    /\ \E opt \in Options :
          Begin(p, [NewResume EXCEPT !.opt = opt, !.result = "err", !.faultless = FALSE])
    /\ UNCHANGED <<container, net, ipam, label, lb, cert>>

\* Mutant of Strategy: the flag's value is taken for the strategy.
StrategyUnmapped(opt, readLabel) == IF opt = "auto" THEN readLabel ELSE opt

\* Phase 0.  readLabel is what readResumeStrategy returns: the label, or "" when
\* the inspect fails.
Strategy(opt, readLabel) ==
    IF ~HA THEN ""
    ELSE CASE opt = "ip-pin"     -> "ip-pinned"
           [] opt = "cert-regen" -> "cert-regen"
           [] opt = "auto"       -> IF readLabel = "ip-pinned" /\ Nerdctl
                                    THEN "cert-regen" ELSE readLabel

ResumeBegins(p) ==
    /\ At(p, "idle")
    /\ \E opt \in Options, status \in {ClusterStatus, "Error"}, readLabel \in {label, ""} :
          LET new == [NewResume EXCEPT !.opt = opt,
                        !.faultless = status = ClusterStatus /\ readLabel = label]
          IN  IF status = "Running"
              THEN Begin(p, [new EXCEPT !.result = "noop"])
              ELSE Begin(p, [new EXCEPT !.pc = "startLB",
                                        !.strategy = Strategy(opt, readLabel)])
    /\ UNCHANGED <<container, net, ipam, label, lb, cert>>

\* The caller's context is cancelled; a snapshot command passes it one.
Cancel(p) ==
    /\ cmd[p].op = "resume" /\ ~At(p, "idle") /\ ~cmd[p].cancelled
    /\ cmd' = [cmd EXCEPT ![p].cancelled = TRUE, ![p].faultless = FALSE]
    /\ UNCHANGED <<container, net, ipam, label, lb, cert>>

StartGroup(pc) ==
    CASE pc = "startLB"     -> LBs
      [] pc = "startCP"     -> CPs
      [] pc = "startWorker" -> Workers

Starting(p) ==
    /\ cmd[p].pc \in {"startLB", "startCP", "startWorker"}
    /\ cmd[p].i \in DOMAIN StartGroup(cmd[p].pc)
NodeToStart(p) == StartGroup(cmd[p].pc)[cmd[p].i]

StartNode(p) ==
    /\ Starting(p) /\ ~cmd[p].cancelled
    /\ StartContainer(NodeToStart(p))
    /\ Advance(p)
    /\ UNCHANGED <<ipam, label, cert>>

\* The runtime refuses to start a stopped container whose address another
\* container holds, or fails by itself; the loop goes on with the next node.
StartFails(p) ==
    /\ Starting(p) /\ ~cmd[p].cancelled
    /\ \E refused \in BOOLEAN :
          /\ refused => /\ container[NodeToStart(p)] = "exited"
                        /\ StartAddresses(NodeToStart(p)) = {}
          /\ cmd' = [cmd EXCEPT ![p].i = @ + 1, ![p].failed = TRUE,
                                ![p].faultless = @ /\ refused]
    /\ UNCHANGED <<container, net, ipam, label, lb, cert>>

\* A cancelled context ends the loop over the group with an error.
StartCancelled(p) ==
    /\ Starting(p) /\ cmd[p].cancelled
    /\ cmd' = [cmd EXCEPT ![p].i = Len(StartGroup(cmd[p].pc)) + 1, ![p].failed = TRUE]
    /\ UNCHANGED <<container, net, ipam, label, lb, cert>>

\* Mutant of AfterWorkers: the errors of the starts are not looked at.
AfterWorkersForgetful(p) ==
    IF cmd[p].strategy \in {"cert-regen", ""} /\ HA THEN Goto(p, "drift") ELSE Goto(p, "ready")

\* Phase 4.5 is entered by a cert-regen or legacy HA resume without errors.
AfterWorkers(p) ==
    IF cmd[p].strategy \in {"cert-regen", ""} /\ HA /\ ~cmd[p].failed
    THEN Goto(p, "drift")
    ELSE IF cmd[p].failed THEN Return(p, "err") ELSE Goto(p, "ready")

\* Mutant of AfterLB: legacy clusters are pinned too.
AfterLBLegacyPins(p) == IF cmd[p].strategy \in {"ip-pinned", ""} THEN "pin" ELSE "startCP"

AfterLB(p) == IF cmd[p].strategy = "ip-pinned" THEN "pin" ELSE "startCP"

GroupStarted(p) ==
    /\ cmd[p].pc \in {"startLB", "startCP", "startWorker"}
    /\ cmd[p].i > Len(StartGroup(cmd[p].pc))
    /\ CASE At(p, "startLB") ->
              Goto(p, IF LBs # <<>> /\ ~cmd[p].failed THEN "lbConfig" ELSE AfterLB(p))
         [] At(p, "startCP")     -> Goto(p, "startWorker")
         [] At(p, "startWorker") -> AfterWorkers(p)
    /\ UNCHANGED <<container, net, ipam, label, lb, cert>>

MaxAttempts == 3

\* Phase 1.25.  WriteDynamicConfig executes in the load balancer's container.
ApplyLBConfig(p) ==
    /\ At(p, "lbConfig")
    /\ container[LBs[1]] = "running"
    /\ lbConfig' = "rendered"
    /\ Goto(p, AfterLB(p))
    /\ UNCHANGED <<container, net, ipam, label, booting, cert>>

\* Mutants of LBConfigFails: exhausted retries are only warned about; the count of
\* the attempts starts over.
LBConfigWarns(p) ==
    /\ At(p, "lbConfig")
    /\ Goto(p, AfterLB(p))
    /\ UNCHANGED <<container, net, ipam, label, lb, cert>>
LBConfigRetries(p) ==
    /\ At(p, "lbConfig")
    /\ cmd' = [cmd EXCEPT ![p].i = IF @ < MaxAttempts THEN @ + 1 ELSE 1]
    /\ UNCHANGED <<container, net, ipam, label, lb, cert>>

\* One attempt fails: by itself, or because the container has stopped.
LBConfigFails(p) ==
    /\ At(p, "lbConfig")
    /\ \E fault \in BOOLEAN :
          /\ fault \/ container[LBs[1]] = "exited"
          /\ IF cmd[p].i < MaxAttempts
             THEN cmd' = [cmd EXCEPT ![p].i = @ + 1, ![p].faultless = @ /\ ~fault]
             ELSE Halt(p, fault)
    /\ UNCHANGED <<container, net, ipam, label, lb, cert>>

\* The ip-family label of the load balancer cannot be read: no attempt is made.
LBFamilyUnknown(p) ==
    /\ At(p, "lbConfig") /\ cmd[p].i = 1
    /\ Halt(p, TRUE)
    /\ UNCHANGED <<container, net, ipam, label, lb, cert>>

PinNode(p) == CPs[cmd[p].i]

\* Phase 1.5 for one control plane: its file is read, then its container is
\* disconnected, whether it runs or not.
DisconnectCP(p) ==
    /\ At(p, "pin") /\ cmd[p].i \in DOMAIN CPs
    /\ ipam[PinNode(p)] # NoIP
    /\ attach[PinNode(p)] # Detached
    /\ attach' = [attach EXCEPT ![PinNode(p)] = Detached]
    /\ ip' = [ip EXCEPT ![PinNode(p)] = NoIP]
    /\ cmd' = [cmd EXCEPT ![p].pc = "connect"]
    /\ UNCHANGED <<container, taken, ipam, label, lb, cert>>

\* No file, no endpoint to disconnect, or a call that fails by itself.
DisconnectFails(p) ==
    /\ At(p, "pin") /\ cmd[p].i \in DOMAIN CPs
    /\ \E fault \in BOOLEAN :
          /\ fault \/ ipam[PinNode(p)] = NoIP \/ attach[PinNode(p)] = Detached
          /\ Halt(p, fault)
    /\ UNCHANGED <<container, net, ipam, label, lb, cert>>

\* A running container needs the address now, a stopped one when it starts; an
\* endpoint another process has meanwhile connected is refused.
CanConnect(n) == /\ attach[n] = Detached
                 /\ container[n] = "running" => ipam[n] \in Free

\* Mutant of ConnectCP: the address is not passed to `network connect`.
ConnectCPUnpinned(p) ==
    /\ At(p, "connect")
    /\ attach' = [attach EXCEPT ![PinNode(p)] = Dynamic]
    /\ cmd' = [cmd EXCEPT ![p].pc = "pin", ![p].i = @ + 1]
    /\ UNCHANGED <<container, ip, taken, ipam, label, lb, cert>>

ConnectCP(p) ==
    /\ At(p, "connect")
    /\ CanConnect(PinNode(p))
    /\ attach' = [attach EXCEPT ![PinNode(p)] = ipam[PinNode(p)]]
    /\ ip' = [ip EXCEPT ![PinNode(p)] =
                  IF container[PinNode(p)] = "running" THEN ipam[PinNode(p)] ELSE NoIP]
    /\ cmd' = [cmd EXCEPT ![p].pc = "pin", ![p].i = @ + 1]
    /\ UNCHANGED <<container, taken, ipam, label, lb, cert>>

\* Mutant of ConnectFails: a pin that fails is only warned about.
ConnectWarns(p) ==
    /\ At(p, "connect")
    /\ cmd' = [cmd EXCEPT ![p].pc = "pin", ![p].i = @ + 1, ![p].faultless = FALSE]
    /\ UNCHANGED <<container, net, ipam, label, lb, cert>>

\* The resume halts and leaves the control plane without an endpoint.
ConnectFails(p) ==
    /\ At(p, "connect")
    /\ \E fault \in BOOLEAN : (fault \/ ~CanConnect(PinNode(p))) /\ Halt(p, fault)
    /\ UNCHANGED <<container, net, ipam, label, lb, cert>>

AllPinned(p) ==
    /\ At(p, "pin") /\ cmd[p].i > Len(CPs)
    /\ Goto(p, "startCP")
    /\ UNCHANGED <<container, net, ipam, label, lb, cert>>

\* Mutant of Drifted: a cluster without the file is taken for unchanged.
DriftedLegacyBlind == \E c \in CPSet : ipam[c] # NoIP /\ ip[c] # ipam[c]

\* IPDriftDetected on some control plane: a legacy cluster without the file, an
\* address that differs from the file's, or none.
Drifted == \E c \in CPSet : ipam[c] = NoIP \/ ip[c] # ipam[c]

\* Phase 4.5; a detection that fails counts as drift, --strategy=cert-regen
\* skips the detection.
DetectDrift(p) ==
    /\ At(p, "drift")
    /\ \E error \in BOOLEAN :
          cmd' = [cmd EXCEPT
                    ![p].pc = IF cmd[p].opt = "cert-regen" \/ Drifted \/ error
                              THEN "regen" ELSE "ready",
                    ![p].faultless = @ /\ ~error]
    /\ UNCHANGED <<container, net, ipam, label, lb, cert>>

\* RegenerateEtcdPeerCertsWholesale as resume sees it: the certificates of all
\* control planes name their addresses, and the files keep what they recorded.
CanRegenerate(c) == container[c] = "running" /\ ip[c] # NoIP

Regenerate(p) ==
    /\ At(p, "regen")
    /\ \A c \in CPSet : CanRegenerate(c)
    /\ cert' = [c \in CPSet |-> ip[c]]
    /\ Goto(p, "ready")
    /\ UNCHANGED <<container, net, ipam, label, lb>>

\* It fails after it has rewritten the certificates of some control planes.
RegenerateFails(p) ==
    /\ At(p, "regen")
    /\ \E done \in SUBSET {c \in CPSet : CanRegenerate(c)}, fault \in BOOLEAN :
          /\ fault \/ \E c \in CPSet : ~CanRegenerate(c)
          /\ cert' = [c \in CPSet |-> IF c \in done THEN ip[c] ELSE cert[c]]
          /\ Halt(p, fault)
    /\ UNCHANGED <<container, net, ipam, label, lb>>

\* The readiness gate: every node is reported Ready before the deadline ...
NodesReady(p) ==
    /\ At(p, "ready") /\ ~cmd[p].cancelled
    /\ Return(p, "ok")
    /\ UNCHANGED <<container, net, ipam, label, lb, cert>>

\* ... or the deadline passes, or the context is cancelled.
ReadyTimeout(p) ==
    /\ At(p, "ready")
    /\ Halt(p, TRUE)
    /\ UNCHANGED <<container, net, ipam, label, lb, cert>>

Resume(p) ==
    \/ ResumeRefused(p) \/ ResumeBegins(p) \/ Cancel(p)
    \/ StartNode(p) \/ StartFails(p) \/ StartCancelled(p) \/ GroupStarted(p)
    \/ ApplyLBConfig(p) \/ LBConfigFails(p) \/ LBFamilyUnknown(p)
    \/ DisconnectCP(p) \/ DisconnectFails(p) \/ ConnectCP(p) \/ ConnectFails(p)
    \/ AllPinned(p) \/ DetectDrift(p) \/ Regenerate(p) \/ RegenerateFails(p)
    \/ NodesReady(p) \/ ReadyTimeout(p)

-----------------------------------------------------------------------------
(* What happens beside the commands. *)

\* The process is killed between two of its calls.
Kill(p) ==
    /\ ~At(p, "idle")
    /\ Return(p, "killed")
    /\ UNCHANGED <<container, net, ipam, label, lb, cert>>

\* A container dies; whatever commands run are no longer undisturbed.
ContainerDies(n) ==
    /\ container[n] = "running"
    /\ StopContainer(n)
    /\ cmd' = NotAlone(cmd)
    /\ UNCHANGED <<ipam, label, cert>>

\* A container of another cluster joins the network, or leaves it.
OtherJoins ==
    /\ Cardinality(taken) < MaxOthers
    /\ \E a \in Free : taken' = taken \cup {a}
    /\ UNCHANGED <<container, attach, ip, ipam, label, lb, cert, cmd>>

OtherLeaves ==
    /\ \E a \in taken : taken' = taken \ {a}
    /\ cmd' = NotAlone(cmd)
    /\ UNCHANGED <<container, attach, ip, ipam, label, lb, cert>>

Environment == EntrypointRuns \/ OtherJoins \/ OtherLeaves \/ \E n \in Nodes : ContainerDies(n)

Next == (\E p \in Procs : Pause(p) \/ Resume(p) \/ Kill(p)) \/ Environment

Spec == Init /\ [][Next]_vars

\* A process that runs goes on running: each of its calls returns.
Running(p) == (Pause(p) \/ Resume(p)) /\ ~At(p, "idle")
FairSpec   == Spec /\ \A p \in Procs : WF_vars(Running(p))

-----------------------------------------------------------------------------
(* What the commands promise. *)

Succeeded(p, op) == cmd[p].op = op /\ cmd[p].result \in {"ok", "noop"} /\ cmd[p].alone

\* A pause that reports success, without another process or a dying container
\* beside it, leaves no container running, whatever its stops reported.
PauseStopsEverything ==
    \A p \in Procs : Succeeded(p, "pause") => AllIn(Nodes, "exited")

\* A resume that reports success, undisturbed, leaves every container running:
\* no failed or cancelled start is lost on the way to the readiness gate.
ResumeStartsEverything ==
    \A p \in Procs : Succeeded(p, "resume") => AllIn(Nodes, "running")

\* A resume that did its work leaves the load balancer with a rendered config,
\* although starting its container emptied it (phase 1.25).
ResumeRestoresRouting ==
    \A p \in Procs : Succeeded(p, "resume") /\ cmd[p].result = "ok" /\ LBs # <<>>
                        => lbConfig = "rendered"

\* A resume that did its work leaves every control plane of an HA cluster at the
\* address its etcd certificate names: by pinning, or by regeneration.
ResumeKeepsPeerAddresses ==
    \A p \in Procs : Succeeded(p, "resume") /\ cmd[p].result = "ok" /\ HA
                        => \A c \in CPSet : ip[c] = cert[c]

\* The contract of a pinned control plane, under every interleaving of commands,
\* failure and kill: it runs at its recorded address or without a network, and
\* its certificate always names that address.
PinnedAddressKept ==
    \A c \in CPSet : ipam[c] # NoIP =>
        /\ attach[c] \in {ipam[c], Detached}
        /\ ip[c] \in {ipam[c], NoIP}
        /\ cert[c] = ipam[c]

\* Quorum-safe order: as long as no step failed, the containers a command has
\* yet to stop do not depend on one it stopped, and a control plane is started
\* behind a configured load balancer, a worker after all control planes.
QuorumSafeOrder ==
    \A p \in Procs : cmd[p].alone /\ ~cmd[p].failed =>
        /\ Stopping(p) => (StopOrder[cmd[p].i] \in CPSet => AllIn(NodesOf(Workers), "exited"))
        /\ Stopping(p) => (StopOrder[cmd[p].i] \in LBSet => AllIn(Nodes \ LBSet, "exited"))
        /\ Starting(p) => (NodeToStart(p) \in CPSet =>
              AllIn(LBSet, "running") /\ (LBs = <<>> \/ lbConfig = "rendered"))
        /\ Starting(p) => (NodeToStart(p) \in NodesOf(Workers) => AllIn(CPSet, "running"))

\* A resume that pins starts no control plane while one of them is off the
\* network or unpinned: a pin that fails ends the resume (phase 1.5).
NoStartUnpinned ==
    \A p \in Procs :
        /\ cmd[p].alone /\ cmd[p].strategy = "ip-pinned"
        /\ cmd[p].pc \in {"startCP", "startWorker", "ready"}
        => \A c \in CPSet : attach[c] = ipam[c]

\* Nothing the commands leave behind blocks the next resume of a cluster that
\* is not pinned: it only fails when one of its own calls fails, however the
\* commands before it ended.
UnpinnedResumeRecovers ==
    \A p \in Procs :
        /\ cmd[p].op = "resume" /\ cmd[p].result = "err" /\ cmd[p].opt # "ip-pin"
        /\ label # "ip-pinned" /\ cmd[p].alone
        => ~cmd[p].faultless

\* Every command ends: the retries, loops and waits of the code are bounded.
CommandsEnd == \A p \in Procs : ~At(p, "idle") ~> At(p, "idle")

-----------------------------------------------------------------------------
(* What the source says of a resume, and the code does not keep. *)

\* pkg/internal/lifecycle/resume.go:58 "skips drift detection (always
\* regenerates)", of --strategy=cert-regen:
\* after such a resume every HA certificate names its control plane's address.
ForcedRegenRegenerates ==
    \A p \in Procs : Succeeded(p, "resume") /\ cmd[p].opt = "cert-regen" /\ HA
                        => \A c \in CPSet : ip[c] = cert[c]

\* pkg/internal/lifecycle/lbreapply.go:85 "re-run kinder resume to retry": a resume
\* that has used up its attempts on the load balancer's config leaves a cluster
\* that another resume works on, and does not wave off as already running.
RerunRetriesLB ==
    [][\A p \in Procs :
         At(p, "lbConfig") /\ cmd[p].i = MaxAttempts /\ cmd'[p].result = "err"
            => ClusterStatus' # "Running"]_vars
=============================================================================
