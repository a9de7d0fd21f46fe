-------------------------- MODULE LifecycleProofs --------------------------
(***************************************************************************)
(* Proofs about Lifecycle, for every cluster, network, number of kinder    *)
(* processes and set of options.                                           *)
(***************************************************************************)
EXTENDS Lifecycle, TLAPS

CmdType == cmd \in [Procs -> Commands]

\* What TypeOK says beside the commands.
ClusterType ==
    /\ container \in [Nodes -> {"running", "exited"}]
    /\ attach \in [Nodes -> Addresses \cup {Dynamic, Detached}]
    /\ ip \in [Nodes -> Addresses \cup {NoIP}]
    /\ taken \subseteq Addresses
    /\ ipam \in [CPSet -> Addresses \cup {NoIP}]
    /\ label \in Labels
    /\ lbConfig \in {"empty", "rendered"} /\ booting \in BOOLEAN
    /\ cert \in [CPSet -> Addresses]

-----------------------------------------------------------------------------
(* The control flow keeps the commands well-typed. *)

\* The record of an idle process is a command (Options always has "auto").
LEMMA IdleIsCommand == Idle \in Commands
BY StrategyAssumption DEF Idle, Commands, Phases, Results

\* Returning with any result leaves well-typed commands.
LEMMA FinishType ==
    ASSUME CmdType, NEW p \in Procs, NEW r \in Results, NEW f \in BOOLEAN, Finish(p, r, f)
    PROVE  CmdType'
<1>1. cmd[p] \in Commands
  BY DEF CmdType
<1>2. [Idle EXCEPT !.op = cmd[p].op, !.opt = cmd[p].opt, !.result = r, !.alone = cmd[p].alone,
                   !.faultless = cmd[p].faultless /\ ~f] \in Commands
  BY <1>1, IdleIsCommand DEF Commands
<1> QED
  BY <1>2 DEF Finish, CmdType

\* So does a return without a fault ...
LEMMA ReturnType ==
    ASSUME CmdType, NEW p \in Procs, NEW r \in Results, Return(p, r)
    PROVE  CmdType'
BY FinishType DEF Return

\* ... and a return with an error.
LEMMA HaltType ==
    ASSUME CmdType, NEW p \in Procs, NEW f \in BOOLEAN, Halt(p, f)
    PROVE  CmdType'
BY FinishType DEF Halt, Results

\* Going to a phase keeps the commands well-typed.
LEMMA GotoType ==
    ASSUME CmdType, NEW p \in Procs, NEW pc \in Phases, Goto(p, pc)
    PROVE  CmdType'
<1>1. [cmd[p] EXCEPT !.pc = pc, !.i = 1] \in Commands
  BY DEF CmdType, Commands
<1>2. cmd' = [cmd EXCEPT ![p] = [cmd[p] EXCEPT !.pc = pc, !.i = 1]]
  BY DEF CmdType, Goto
<1> QED
  BY <1>1, <1>2 DEF CmdType

\* So does going to the next node of a phase.
LEMMA AdvanceType ==
    ASSUME CmdType, NEW p \in Procs, Advance(p)
    PROVE  CmdType'
<1>1. cmd[p] \in Commands
  BY DEF CmdType
<1>2. cmd[p].i + 1 \in Nat
  <2>1. cmd[p].i \in Nat
    BY <1>1 DEF Commands
  <2> QED
    BY <2>1
<1>3. [cmd[p] EXCEPT !.i = cmd[p].i + 1] \in Commands
  BY <1>1, <1>2 DEF Commands
<1>4. cmd' = [cmd EXCEPT ![p] = [cmd[p] EXCEPT !.i = cmd[p].i + 1]]
  BY DEF CmdType, Advance
<1> QED
  BY <1>3, <1>4 DEF CmdType

\* A change beside the commands only clears their `alone`.
LEMMA NotAloneType ==
    ASSUME CmdType
    PROVE  NotAlone(cmd) \in [Procs -> Commands]
BY DEF CmdType, NotAlone, Commands

\* A command begins well-typed beside the others.
LEMMA BeginType ==
    ASSUME CmdType, NEW p \in Procs, NEW command \in Commands, Begin(p, command)
    PROVE  CmdType'
<1>1. NotAlone(cmd) \in [Procs -> Commands]
  BY NotAloneType
<1>2. [command EXCEPT !.alone = \A q \in Procs \ {p} : At(q, "idle")] \in Commands
  BY DEF Commands
<1> QED
  BY <1>1, <1>2 DEF Begin, CmdType

\* A command of pause or resume begins well-typed, and at the first phase of its
\* loop or done.
LEMMA CommandBegins ==
    ASSUME label \in Labels, NEW p \in Procs,
           PauseRefused(p) \/ PauseBegins(p) \/ ResumeRefused(p) \/ ResumeBegins(p)
    PROVE  \E command \in Commands : /\ Begin(p, command)
                                     /\ command.pc \in {"idle", "stop", "startLB"}
<1>. USE IdleIsCommand
<1>1. CASE PauseRefused(p)
  <2> DEFINE command == [NewPause EXCEPT !.result = "err", !.faultless = FALSE]
  <2>1. command \in Commands /\ command.pc = "idle"
    BY DEF NewPause, Idle, Commands, Results
  <2> QED
    BY <1>1, <2>1 DEF PauseRefused
<1>2. CASE PauseBegins(p)
  <2>1. PICK status : LET clean == [NewPause EXCEPT !.faultless = status = ClusterStatus]
                      IN  \/ Begin(p, [clean EXCEPT !.result = "noop"])
                          \/ Begin(p, [clean EXCEPT !.pc = "stop"])
    BY <1>2 DEF PauseBegins
  <2> DEFINE clean == [NewPause EXCEPT !.faultless = status = ClusterStatus]
  <2>2. clean \in Commands /\ clean.pc = "idle"
    BY DEF NewPause, Idle, Commands
  <2>3. Begin(p, [clean EXCEPT !.result = "noop"]) \/ Begin(p, [clean EXCEPT !.pc = "stop"])
    BY <2>1
  <2> HIDE DEF clean
  <2>4. /\ [clean EXCEPT !.result = "noop"] \in Commands
        /\ [clean EXCEPT !.result = "noop"].pc = "idle"
        /\ [clean EXCEPT !.pc = "stop"] \in Commands
        /\ [clean EXCEPT !.pc = "stop"].pc = "stop"
    BY <2>2 DEF Commands, Results, Phases
  <2> QED
    BY <2>3, <2>4
<1>3. CASE ResumeRefused(p)
  <2>1. PICK opt \in Options :
           Begin(p, [NewResume EXCEPT !.opt = opt, !.result = "err", !.faultless = FALSE])
    BY <1>3 DEF ResumeRefused
  <2> DEFINE command == [NewResume EXCEPT !.opt = opt, !.result = "err", !.faultless = FALSE]
  <2>2. command \in Commands /\ command.pc = "idle"
    BY DEF NewResume, Idle, Commands, Results
  <2> QED
    BY <2>1, <2>2
<1>4. CASE ResumeBegins(p)
  <2> DEFINE new(opt, status, readLabel) ==
               [NewResume EXCEPT !.opt = opt,
                  !.faultless = status = ClusterStatus /\ readLabel = label]
  <2>1. PICK opt \in Options, status \in {ClusterStatus, "Error"}, readLabel \in {label, ""} :
           \/ Begin(p, [new(opt, status, readLabel) EXCEPT !.result = "noop"])
           \/ Begin(p, [new(opt, status, readLabel) EXCEPT !.pc = "startLB",
                                         !.strategy = Strategy(opt, readLabel)])
    BY <1>4 DEF ResumeBegins
  <2>2. Strategy(opt, readLabel) \in {"ip-pinned", "cert-regen", ""}
    <3>1. readLabel \in {"ip-pinned", "cert-regen", ""}
      BY StrategyAssumption
    <3>2. opt \in {"auto", "ip-pin", "cert-regen"}
      BY StrategyAssumption
    <3> QED
      BY <3>1, <3>2 DEF Strategy
  <2>3. new(opt, status, readLabel) \in Commands /\ new(opt, status, readLabel).pc = "idle"
    BY DEF NewResume, Idle, Commands
  <2> HIDE DEF new
  <2> DEFINE noop == [new(opt, status, readLabel) EXCEPT !.result = "noop"]
             begun == [new(opt, status, readLabel) EXCEPT !.pc = "startLB",
                                         !.strategy = Strategy(opt, readLabel)]
  <2>4. noop \in Commands /\ noop.pc = "idle"
    BY <2>3 DEF Commands, Results
  <2>5. begun \in Commands /\ begun.pc = "startLB"
    BY <2>2, <2>3 DEF Commands, Phases
  <2> HIDE DEF noop, begun
  <2>6. Begin(p, noop) \/ Begin(p, begun)
    BY <2>1 DEF noop, begun
  <2> QED
    BY <2>4, <2>5, <2>6
<1> QED
  BY <1>1, <1>2, <1>3, <1>4

-----------------------------------------------------------------------------
(* The container runtime keeps the cluster well-typed. *)

\* A position in the list of control planes names a control plane, a node.
LEMMA CPNode == ASSUME NEW i \in DOMAIN CPs PROVE CPs[i] \in CPSet /\ CPs[i] \in Nodes
BY DEF Nodes, CPSet, NodesOf

\* A position in the order of a pause names a node.
LEMMA StopNodeInNodes == ASSUME NEW i \in DOMAIN StopOrder PROVE StopOrder[i] \in Nodes
<1>1. /\ CPs \in Seq(Nodes) /\ Workers \in Seq(Nodes) /\ LBs \in Seq(Nodes)
  BY NodesAssumption DEF Nodes, CPSet, LBSet, NodesOf
<1>2. StopOrder \in Seq(Nodes)
  BY <1>1 DEF StopOrder
<1> QED
  BY <1>2

\* The next node a resume starts is a node.
LEMMA StartNodeInNodes == ASSUME NEW p \in Procs, Starting(p) PROVE NodeToStart(p) \in Nodes
<1>1. CASE cmd[p].pc = "startLB"
  BY <1>1 DEF Starting, NodeToStart, StartGroup, Nodes, LBSet, NodesOf
<1>2. CASE cmd[p].pc = "startCP"
  BY <1>2 DEF Starting, NodeToStart, StartGroup, Nodes, CPSet, NodesOf
<1>3. CASE cmd[p].pc = "startWorker"
  BY <1>3 DEF Starting, NodeToStart, StartGroup, Nodes, NodesOf
<1> QED
  BY <1>1, <1>2, <1>3 DEF Starting

\* A container starts at an address of the network or at none.
LEMMA StartAddressesType ==
    ASSUME ClusterType, NEW n \in Nodes
    PROVE  StartAddresses(n) \subseteq Addresses \cup {NoIP}
BY DEF StartAddresses, Free

\* A stop keeps the types of what it changes of the cluster.
LEMMA StopContainerType ==
    ASSUME ClusterType, NEW n \in Nodes, StopContainer(n), UNCHANGED <<ipam, label, cert>>
    PROVE  ClusterType'
BY DEF ClusterType, StopContainer

\* A start does, too.
LEMMA StartContainerType ==
    ASSUME ClusterType, NEW n \in Nodes, StartContainer(n), UNCHANGED <<ipam, label, cert>>
    PROVE  ClusterType'
<1>1. CASE container[n] = "running" /\ UNCHANGED <<container, net, lb>>
  BY <1>1 DEF ClusterType, net, lb
<1>2. CASE container[n] = "exited"
  <2>1. StartAddresses(n) \subseteq Addresses \cup {NoIP}
    BY StartAddressesType
  <2>2. PICK a \in Addresses \cup {NoIP} : container' = [container EXCEPT ![n] = "running"]
                                           /\ ip' = [ip EXCEPT ![n] = a]
    BY <1>2, <2>1 DEF StartContainer
  <2>3. lbConfig' \in {"empty", "rendered"} /\ booting' \in BOOLEAN
    BY <1>2 DEF StartContainer, ClusterType, lb
  <2>4. UNCHANGED <<attach, taken>>
    BY <1>2 DEF StartContainer
  <2> QED
    BY <2>2, <2>3, <2>4 DEF ClusterType
<1> QED
  BY <1>1, <1>2 DEF StartContainer

-----------------------------------------------------------------------------
(* The control plane a resume is about to connect. *)

\* A command of p leaves the commands of the others as they are, but not alone.
Same(q)      == \/ cmd'[q] = cmd[q]
                \/ cmd'[q] = [cmd[q] EXCEPT !.alone = FALSE]
OthersKept(p) == \A q \in Procs \ {p} : Same(q)

\* A command that begins leaves the phase and position of the other processes.
LEMMA BeginKeepsOthers ==
    ASSUME CmdType, NEW p \in Procs, NEW command, Begin(p, command)
    PROVE  OthersKept(p)
BY DEF CmdType, Begin, NotAlone, OthersKept, Same

\* A step that updates the command of p leaves the other processes' commands.
LEMMA UpdateKeepsOthers ==
    ASSUME CmdType, NEW p \in Procs, NEW command, cmd' = [cmd EXCEPT ![p] = command]
    PROVE  OthersKept(p)
BY DEF CmdType, OthersKept, Same

\* A return of p leaves the other processes' commands.
LEMMA ReturnKeepsOthers ==
    ASSUME CmdType, NEW p \in Procs, NEW r, NEW f, Return(p, r) \/ Halt(p, f)
    PROVE  OthersKept(p)
BY UpdateKeepsOthers DEF Return, Halt, Finish

\* A step of p leaves the phase and the position of every other process.
LEMMA OthersStep ==
    ASSUME CmdType, NEW p \in Procs, Pause(p) \/ Resume(p) \/ Kill(p)
    PROVE  OthersKept(p)
<1>1. CASE PauseRefused(p) \/ PauseBegins(p) \/ ResumeRefused(p) \/ ResumeBegins(p)
  <2>1. PICK command : Begin(p, command)
    BY <1>1 DEF PauseRefused, PauseBegins, ResumeRefused, ResumeBegins
  <2> QED
    BY <2>1, BeginKeepsOthers
<1>2. CASE \/ PauseReturns(p) \/ LBFamilyUnknown(p) \/ DisconnectFails(p) \/ ConnectFails(p)
           \/ RegenerateFails(p) \/ NodesReady(p) \/ ReadyTimeout(p) \/ Kill(p)
  <2>1. (\E r : Return(p, r)) \/ (\E f : Halt(p, f))
    BY <1>2 DEF PauseReturns, LBFamilyUnknown, DisconnectFails, ConnectFails,
       RegenerateFails, NodesReady, ReadyTimeout, Kill
  <2> QED
    BY <2>1, ReturnKeepsOthers
<1>3. CASE StopNode(p) \/ StartNode(p)
  BY <1>3 DEF StopNode, StartNode, Advance, CmdType, OthersKept, Same
<1>4. CASE StopFails(p) \/ StartFails(p) \/ StartCancelled(p)
  BY <1>4 DEF StopFails, StartFails, StartCancelled, CmdType, OthersKept, Same
<1>5. CASE ApplyLBConfig(p) \/ AllPinned(p) \/ Regenerate(p)
  BY <1>5 DEF ApplyLBConfig, AllPinned, Regenerate, Goto, CmdType, OthersKept, Same
<1>6. CASE LBConfigFails(p)
  <2>1. PICK f : \/ cmd' = [cmd EXCEPT ![p].i = @ + 1, ![p].faultless = @ /\ ~f]
                 \/ Halt(p, f)
    BY <1>6 DEF LBConfigFails
  <2> QED
    BY <2>1, ReturnKeepsOthers DEF CmdType, OthersKept, Same
<1>7. CASE Cancel(p) \/ DisconnectCP(p) \/ ConnectCP(p) \/ DetectDrift(p)
  BY <1>7 DEF Cancel, DisconnectCP, ConnectCP, DetectDrift, CmdType, OthersKept, Same
<1>8. CASE GroupStarted(p)
  <2>1. PICK r, pc : Goto(p, pc) \/ Return(p, r)
    BY <1>8 DEF GroupStarted, AfterWorkers, At
  <2> QED
    BY <2>1, ReturnKeepsOthers DEF Goto, CmdType, OthersKept, Same
<1> QED
  BY <1>1, <1>2, <1>3, <1>4, <1>5, <1>6, <1>7, <1>8 DEF Pause, Resume

\* A command that begins is at the phase it begins with.
LEMMA BeginPc ==
    ASSUME CmdType, NEW p \in Procs, NEW command \in Commands, Begin(p, command)
    PROVE  cmd'[p].pc = command.pc
<1>1. cmd'[p] = [command EXCEPT !.alone = \A q \in Procs \ {p} : At(q, "idle")]
  BY DEF Begin, NotAlone, CmdType
<1> QED
  BY <1>1 DEF Commands

\* A command that goes to a phase is there.
LEMMA GotoPc ==
    ASSUME CmdType, NEW p \in Procs, NEW pc, Goto(p, pc)
    PROVE  cmd'[p].pc = pc /\ cmd'[p].i = 1
<1>1. cmd'[p] = [cmd[p] EXCEPT !.pc = pc, !.i = 1]
  BY DEF Goto, CmdType
<1>2. cmd[p] \in Commands
  BY DEF CmdType
<1>3. {"pc", "i"} \subseteq DOMAIN cmd[p]
  BY <1>2 DEF Commands
<1> QED
  BY <1>1, <1>3

\* The calls that work through a list, and a cancellation, stay in their phase.
LEMMA StayPc ==
    ASSUME CmdType, NEW p \in Procs,
           \/ StopNode(p) \/ StopFails(p) \/ StartNode(p) \/ StartFails(p) \/ StartCancelled(p)
           \/ Cancel(p)
    PROVE  cmd'[p].pc = cmd[p].pc
<1>1. cmd[p] \in Commands
  BY DEF CmdType
<1>2. CASE StopNode(p) \/ StartNode(p)
  <2>1. Advance(p)
    BY <1>2 DEF StopNode, StartNode
  <2>2. cmd'[p] = [cmd[p] EXCEPT !.i = cmd[p].i + 1]
    BY <2>1 DEF Advance, CmdType
  <2> QED
    BY <1>1, <2>2 DEF Commands
<1>3. CASE StopFails(p)
  <2>1. cmd'[p] = [cmd[p] EXCEPT !.i = cmd[p].i + 1, !.failed = TRUE, !.faultless = FALSE]
    BY <1>3 DEF StopFails, CmdType
  <2> QED
    BY <1>1, <2>1 DEF Commands
<1>4. CASE StartFails(p)
  <2>1. PICK refused \in BOOLEAN :
          cmd' = [cmd EXCEPT ![p].i = @ + 1, ![p].failed = TRUE, ![p].faultless = @ /\ refused]
    BY <1>4 DEF StartFails
  <2>2. cmd'[p] = [cmd[p] EXCEPT !.i = cmd[p].i + 1, !.failed = TRUE,
                                 !.faultless = cmd[p].faultless /\ refused]
    BY <2>1 DEF CmdType
  <2> QED
    BY <1>1, <2>2 DEF Commands
<1>5. CASE StartCancelled(p)
  <2>1. cmd'[p] = [cmd[p] EXCEPT !.i = Len(StartGroup(cmd[p].pc)) + 1, !.failed = TRUE]
    BY <1>5 DEF StartCancelled, CmdType
  <2> QED
    BY <1>1, <2>1 DEF Commands
<1>6. CASE Cancel(p)
  <2>1. cmd'[p] = [cmd[p] EXCEPT !.cancelled = TRUE, !.faultless = FALSE]
    BY <1>6 DEF Cancel, CmdType
  <2> QED
    BY <1>1, <2>1 DEF Commands
<1> QED
  BY <1>2, <1>3, <1>4, <1>5, <1>6

\* Where the other calls that do not return get to.
LEMMA MovePc ==
    ASSUME CmdType, NEW p \in Procs
    PROVE  /\ DisconnectCP(p) => cmd'[p].pc = "connect"
           /\ ConnectCP(p) => cmd'[p].pc = "pin"
           /\ DetectDrift(p) => cmd'[p].pc \in {"regen", "ready"}
           /\ LBConfigFails(p) => cmd'[p].pc = "lbConfig" \/ \E f : Finish(p, "err", f)
           /\ Cancel(p) => cmd'[p].i = cmd[p].i
<1>1. cmd[p] \in Commands
  BY DEF CmdType
<1>2. ASSUME DisconnectCP(p) PROVE cmd'[p].pc = "connect"
  <2>1. cmd'[p] = [cmd[p] EXCEPT !.pc = "connect"]
    BY <1>2 DEF DisconnectCP, CmdType
  <2> QED
    BY <1>1, <2>1 DEF Commands
<1>3. ASSUME ConnectCP(p) PROVE cmd'[p].pc = "pin"
  <2>1. cmd'[p] = [cmd[p] EXCEPT !.pc = "pin", !.i = cmd[p].i + 1]
    BY <1>3 DEF ConnectCP, CmdType
  <2> QED
    BY <1>1, <2>1 DEF Commands
<1>4. ASSUME DetectDrift(p) PROVE cmd'[p].pc \in {"regen", "ready"}
  <2>1. PICK pc \in {"regen", "ready"}, error \in BOOLEAN :
           cmd' = [cmd EXCEPT ![p].pc = pc, ![p].faultless = @ /\ ~error]
    BY <1>4 DEF DetectDrift
  <2>2. cmd'[p] = [cmd[p] EXCEPT !.pc = pc, !.faultless = cmd[p].faultless /\ ~error]
    BY <2>1 DEF CmdType
  <2> QED
    BY <1>1, <2>2 DEF Commands
<1>5. ASSUME LBConfigFails(p) PROVE cmd'[p].pc = "lbConfig" \/ \E f : Finish(p, "err", f)
  <2>1. PICK f : \/ cmd' = [cmd EXCEPT ![p].i = @ + 1, ![p].faultless = @ /\ ~f]
                 \/ Finish(p, "err", f)
    BY <1>5 DEF LBConfigFails, Halt
  <2>2. CASE cmd' = [cmd EXCEPT ![p].i = @ + 1, ![p].faultless = @ /\ ~f]
    <3>1. cmd'[p] = [cmd[p] EXCEPT !.i = cmd[p].i + 1, !.faultless = cmd[p].faultless /\ ~f]
      BY <2>2 DEF CmdType
    <3>2. cmd'[p].pc = cmd[p].pc
      BY <1>1, <3>1 DEF Commands
    <3> QED
      BY <1>5, <3>2 DEF LBConfigFails, At
  <2> QED
    BY <2>1, <2>2
<1>6. ASSUME Cancel(p) PROVE cmd'[p].i = cmd[p].i
  <2>1. cmd'[p] = [cmd[p] EXCEPT !.cancelled = TRUE, !.faultless = FALSE]
    BY <1>6 DEF Cancel, CmdType
  <2> QED
    BY <1>1, <2>1 DEF Commands
<1> QED
  BY <1>2, <1>3, <1>4, <1>5, <1>6

\* A process only gets to `network connect` by its own DisconnectCP.
LEMMA OnlyDisconnectConnects ==
    ASSUME CmdType, label \in Labels, NEW p \in Procs, Pause(p) \/ Resume(p) \/ Kill(p), At(p, "connect")'
    PROVE  DisconnectCP(p) \/ (At(p, "connect") /\ cmd'[p].i = cmd[p].i)
<1>1. ASSUME NEW r, NEW f, Finish(p, r, f) PROVE FALSE
  <2>1. cmd'[p] = [Idle EXCEPT !.op = cmd[p].op, !.opt = cmd[p].opt, !.result = r,
                     !.alone = cmd[p].alone, !.faultless = cmd[p].faultless /\ ~f]
    BY <1>1 DEF Finish, CmdType
  <2> QED
    BY <2>1 DEF Idle, At
<1>2. CASE PauseRefused(p) \/ PauseBegins(p) \/ ResumeRefused(p) \/ ResumeBegins(p)
  BY <1>2, CommandBegins, BeginPc DEF At
<1>3. CASE \/ PauseReturns(p) \/ LBFamilyUnknown(p) \/ DisconnectFails(p) \/ ConnectFails(p)
           \/ RegenerateFails(p) \/ NodesReady(p) \/ ReadyTimeout(p) \/ Kill(p)
  BY <1>1, <1>3 DEF PauseReturns, LBFamilyUnknown, DisconnectFails, ConnectFails,
     RegenerateFails, NodesReady, ReadyTimeout, Kill, Return, Halt
<1>4. CASE StopNode(p) \/ StopFails(p) \/ StartNode(p) \/ StartFails(p) \/ StartCancelled(p)
  <2>1. At(p, "connect")
    BY <1>4, StayPc DEF At
  <2> QED
    BY <1>4, <2>1 DEF StopNode, StopFails, Stopping, StartNode, StartFails, StartCancelled, Starting, At
<1>5. CASE Cancel(p)
  BY <1>5, StayPc, MovePc DEF At
<1>6. CASE ApplyLBConfig(p) \/ AllPinned(p) \/ Regenerate(p)
  BY <1>6, GotoPc DEF ApplyLBConfig, AfterLB, AllPinned, Regenerate, At
<1>7. CASE LBConfigFails(p) \/ ConnectCP(p) \/ DetectDrift(p)
  BY <1>1, <1>7, MovePc DEF At
<1>8. CASE GroupStarted(p)
  <2>1. \/ \E pc \in {"lbConfig", "pin", "startCP", "startWorker", "drift", "ready"} : Goto(p, pc)
        \/ Return(p, "err")
    BY <1>8 DEF GroupStarted, AfterWorkers, AfterLB, At
  <2> QED
    BY <1>1, <2>1, GotoPc DEF Return, At
<1> QED
  BY <1>2, <1>3, <1>4, <1>5, <1>6, <1>7, <1>8 DEF Pause, Resume

\* The files the pins read are written when the cluster is created.
LEMMA IpamKept == ASSUME Next PROVE UNCHANGED <<ipam, label>>
<1>1. ASSUME NEW p \in Procs, Pause(p) \/ Kill(p) PROVE UNCHANGED <<ipam, label>>
  BY <1>1 DEF Pause, Kill, PauseRefused, PauseBegins, StopNode, StopFails, PauseReturns
<1>2. ASSUME NEW p \in Procs, Resume(p) PROVE UNCHANGED <<ipam, label>>
  BY <1>2 DEF Resume, ResumeRefused, ResumeBegins, Cancel, StartNode, StartFails, StartCancelled,
     GroupStarted, ApplyLBConfig, LBConfigFails, LBFamilyUnknown, DisconnectCP, DisconnectFails,
     ConnectCP, ConnectFails, AllPinned, DetectDrift, Regenerate, RegenerateFails, NodesReady,
     ReadyTimeout
<1>3. CASE Environment
  BY <1>3 DEF Environment, EntrypointRuns, OtherJoins, OtherLeaves, ContainerDies
<1> QED
  BY <1>1, <1>2, <1>3 DEF Next

\* A resume that has disconnected a control plane has read its file.
PinTarget ==
    \A p \in Procs : At(p, "connect") => cmd[p].i \in DOMAIN CPs /\ ipam[PinNode(p)] # NoIP

\* Every step keeps a process that is about to reconnect a control plane aimed at
\* one whose recorded address is known.
LEMMA PinTargetStep ==
    ASSUME CmdType, label \in Labels, PinTarget, Next
    PROVE  PinTarget'
<1>1. SUFFICES ASSUME NEW q \in Procs, At(q, "connect")'
               PROVE  cmd'[q].i \in DOMAIN CPs /\ ipam'[CPs[cmd'[q].i]] # NoIP
  BY DEF PinTarget, PinNode
<1>2. ipam' = ipam
  BY IpamKept
<1>3. CASE At(q, "connect") /\ cmd'[q].i = cmd[q].i
  BY <1>2, <1>3 DEF PinTarget, PinNode
<1>4. CASE DisconnectCP(q)
  BY <1>2, <1>4 DEF DisconnectCP, PinNode, CmdType
<1>5. ASSUME NEW p \in Procs, p # q, Pause(p) \/ Resume(p) \/ Kill(p)
      PROVE  At(q, "connect") /\ cmd'[q].i = cmd[q].i
  <2>1. Same(q)
    BY <1>5, OthersStep DEF OthersKept
  <2>2. cmd[q] \in Commands
    BY DEF CmdType
  <2> QED
    BY <1>1, <2>1, <2>2 DEF Same, At, Commands
<1>6. CASE Environment
  <2>1. cmd' = NotAlone(cmd) \/ cmd' = cmd
    BY <1>6 DEF Environment, EntrypointRuns, OtherJoins, OtherLeaves, ContainerDies
  <2>2. cmd[q] \in Commands
    BY DEF CmdType
  <2>3. cmd'[q] = [cmd[q] EXCEPT !.alone = FALSE] \/ cmd'[q] = cmd[q]
    BY <2>1 DEF NotAlone
  <2>4. cmd'[q].pc = cmd[q].pc /\ cmd'[q].i = cmd[q].i
    BY <2>2, <2>3 DEF Commands
  <2>5. At(q, "connect") /\ cmd'[q].i = cmd[q].i
    BY <1>1, <2>4 DEF At
  <2> QED
    BY <1>3, <2>5
<1> QED
  BY <1>1, <1>3, <1>4, <1>5, <1>6, OnlyDisconnectConnects DEF Next

-----------------------------------------------------------------------------
(* Type correctness. *)

\* Every step keeps the commands well-typed.
LEMMA CmdStep ==
    ASSUME CmdType, label \in Labels, Next
    PROVE  CmdType'
<1>1. ASSUME NEW p \in Procs, Pause(p) PROVE CmdType'
  <2>1. CASE PauseRefused(p) \/ PauseBegins(p)
    BY <2>1, CommandBegins, BeginType
  <2>3. CASE StopNode(p)
    BY <2>3, AdvanceType DEF StopNode
  <2>4. CASE StopFails(p)
    <3>1. cmd[p] \in Commands /\ cmd[p].i \in Nat
      BY DEF CmdType, Commands
    <3>2. cmd[p].i + 1 \in Nat
      BY <3>1
    <3>3. [cmd[p] EXCEPT !.i = cmd[p].i + 1, !.failed = TRUE, !.faultless = FALSE] \in Commands
      BY <3>1, <3>2 DEF Commands
    <3> QED
      BY <2>4, <3>3 DEF StopFails, CmdType
  <2>5. CASE PauseReturns(p)
    BY <2>5, ReturnType DEF PauseReturns, LastErrors, Results
  <2> QED
    BY <1>1, <2>1, <2>3, <2>4, <2>5 DEF Pause
<1>2. ASSUME NEW p \in Procs, Resume(p) PROVE CmdType'
  <2>1. cmd[p] \in Commands
    BY DEF CmdType
  <2>2. cmd[p].i \in Nat /\ cmd[p].i + 1 \in Nat
    <3>1. cmd[p].i \in Nat
      BY <2>1 DEF Commands
    <3> QED
      BY <3>1
  <2>3. CASE ResumeRefused(p) \/ ResumeBegins(p)
    BY <2>3, CommandBegins, BeginType
  <2>5. CASE Cancel(p)
    BY <2>1, <2>5 DEF Cancel, CmdType, Commands
  <2>6. CASE StartNode(p)
    BY <2>6, AdvanceType DEF StartNode
  <2>7. CASE StartFails(p)
    <3>1. PICK refused \in BOOLEAN :
             cmd' = [cmd EXCEPT ![p].i = @ + 1, ![p].failed = TRUE,
                                ![p].faultless = @ /\ refused]
      BY <2>7 DEF StartFails
    <3>2. [cmd[p] EXCEPT !.i = cmd[p].i + 1, !.failed = TRUE,
                         !.faultless = cmd[p].faultless /\ refused] \in Commands
      BY <2>1, <2>2 DEF Commands
    <3> QED
      BY <3>1, <3>2 DEF CmdType
  <2>8. CASE StartCancelled(p)
    <3>1. Len(StartGroup(cmd[p].pc)) + 1 \in Nat
      <4>1. StartGroup(cmd[p].pc) \in {LBs, CPs, Workers}
        BY <2>8 DEF StartCancelled, Starting, StartGroup
      <4>2. Len(LBs) \in Nat /\ Len(CPs) \in Nat /\ Len(Workers) \in Nat
        BY NodesAssumption
      <4>3. Len(StartGroup(cmd[p].pc)) \in Nat
        BY <4>1, <4>2
      <4> QED
        BY <4>3
    <3>2. [cmd[p] EXCEPT !.i = Len(StartGroup(cmd[p].pc)) + 1, !.failed = TRUE] \in Commands
      BY <2>1, <3>1 DEF Commands
    <3> QED
      BY <2>8, <3>2 DEF StartCancelled, CmdType
  <2>9. CASE GroupStarted(p)
    <3>1. CASE At(p, "startLB")
      <4>1. PICK pc \in Phases : Goto(p, pc)
        BY <2>9, <3>1 DEF GroupStarted, AfterLB, Phases, At
      <4> QED
        BY <4>1, GotoType
    <3>2. CASE At(p, "startCP")
      BY <2>9, <3>2, GotoType DEF GroupStarted, Phases, At
    <3>3. CASE At(p, "startWorker")
      <4>1. \/ Goto(p, "drift") \/ Goto(p, "ready") \/ Return(p, "err")
        BY <2>9, <3>3 DEF GroupStarted, AfterWorkers, At
      <4> QED
        BY <4>1, GotoType, ReturnType DEF Phases, Results
    <3> QED
      BY <2>9, <3>1, <3>2, <3>3 DEF GroupStarted, At
  <2>10. CASE ApplyLBConfig(p)
    BY <2>10, GotoType DEF ApplyLBConfig, AfterLB, Phases
  <2>11. CASE LBConfigFails(p)
    <3>1. PICK fault \in BOOLEAN :
             \/ cmd' = [cmd EXCEPT ![p].i = @ + 1, ![p].faultless = @ /\ ~fault]
             \/ Halt(p, fault)
      BY <2>11 DEF LBConfigFails
    <3>2. [cmd[p] EXCEPT !.i = cmd[p].i + 1, !.faultless = cmd[p].faultless /\ ~fault] \in Commands
      BY <2>1, <2>2 DEF Commands
    <3>3. CASE cmd' = [cmd EXCEPT ![p].i = @ + 1, ![p].faultless = @ /\ ~fault]
      BY <3>2, <3>3 DEF CmdType
    <3> QED
      BY <3>1, <3>3, HaltType
  <2>12. CASE LBFamilyUnknown(p)
    BY <2>12, HaltType DEF LBFamilyUnknown
  <2>13. CASE DisconnectCP(p)
    BY <2>1, <2>13 DEF DisconnectCP, CmdType, Commands, Phases
  <2>14. CASE DisconnectFails(p)
    BY <2>14, HaltType DEF DisconnectFails
  <2>15. CASE ConnectCP(p)
    <3>1. [cmd[p] EXCEPT !.pc = "pin", !.i = cmd[p].i + 1] \in Commands
      BY <2>1, <2>2 DEF Commands, Phases
    <3> QED
      BY <2>15, <3>1 DEF ConnectCP, CmdType
  <2>16. CASE ConnectFails(p)
    BY <2>16, HaltType DEF ConnectFails
  <2>17. CASE AllPinned(p)
    BY <2>17, GotoType DEF AllPinned, Phases
  <2>18. CASE DetectDrift(p)
    <3>1. PICK error \in BOOLEAN :
             cmd' = [cmd EXCEPT ![p].pc = IF cmd[p].opt = "cert-regen" \/ Drifted \/ error
                                          THEN "regen" ELSE "ready",
                                ![p].faultless = @ /\ ~error]
      BY <2>18 DEF DetectDrift
    <3>2. [cmd[p] EXCEPT !.pc = IF cmd[p].opt = "cert-regen" \/ Drifted \/ error
                                THEN "regen" ELSE "ready",
                         !.faultless = cmd[p].faultless /\ ~error] \in Commands
      BY <2>1 DEF Commands, Phases
    <3> QED
      BY <3>1, <3>2 DEF CmdType
  <2>19. CASE Regenerate(p)
    BY <2>19, GotoType DEF Regenerate, Phases
  <2>20. CASE RegenerateFails(p)
    BY <2>20, HaltType DEF RegenerateFails
  <2>21. CASE NodesReady(p)
    BY <2>21, ReturnType DEF NodesReady, Results
  <2>22. CASE ReadyTimeout(p)
    BY <2>22, HaltType DEF ReadyTimeout
  <2> QED
    BY <1>2, <2>3, <2>5, <2>6, <2>7, <2>8, <2>9, <2>10, <2>11, <2>12, <2>13, <2>14,
       <2>15, <2>16, <2>17, <2>18, <2>19, <2>20, <2>21, <2>22 DEF Resume
<1>3. ASSUME NEW p \in Procs, Kill(p) PROVE CmdType'
  BY <1>3, ReturnType DEF Kill, Results
<1>4. CASE Environment
  <2>1. cmd' = NotAlone(cmd) \/ cmd' = cmd
    BY <1>4 DEF Environment, EntrypointRuns, OtherJoins, OtherLeaves, ContainerDies
  <2> QED
    BY <2>1, NotAloneType DEF CmdType
<1> QED
  BY <1>1, <1>2, <1>3, <1>4 DEF Next

\* Every step keeps the cluster well-typed.
LEMMA ClusterStep ==
    ASSUME ClusterType, PinTarget, Next
    PROVE  ClusterType'
<1> DEFINE Still == UNCHANGED <<container, net, ipam, label, lb, cert>>
<1>1. ASSUME Still PROVE ClusterType'
  BY <1>1 DEF ClusterType, net, lb
<1>2. ASSUME NEW p \in Procs, Pause(p) PROVE ClusterType'
  <2>1. CASE StopNode(p) \/ StopFails(p)
    <3>1. UNCHANGED <<ipam, label, cert>> /\ cmd[p].i \in DOMAIN StopOrder
      BY <2>1 DEF StopNode, StopFails, Stopping
    <3>2. StopContainer(StopOrder[cmd[p].i]) \/ Still
      BY <2>1 DEF StopNode, StopFails
    <3> QED
      BY <1>1, <3>1, <3>2, StopContainerType, StopNodeInNodes
  <2>2. CASE PauseRefused(p) \/ PauseBegins(p) \/ PauseReturns(p)
    <3>1. Still
      BY <2>2 DEF PauseRefused, PauseBegins, PauseReturns
    <3> QED
      BY <1>1, <3>1
  <2> QED
    BY <1>2, <2>1, <2>2 DEF Pause
<1>3. ASSUME NEW p \in Procs, Resume(p) PROVE ClusterType'
  <2>1. CASE StartNode(p)
    BY <2>1, StartContainerType, StartNodeInNodes DEF StartNode
  <2>2. CASE ApplyLBConfig(p)
    BY <2>2 DEF ApplyLBConfig, ClusterType, net
  <2>3. CASE DisconnectCP(p)
    <3>1. PinNode(p) \in Nodes
      BY <2>3, CPNode DEF DisconnectCP, PinNode
    <3> QED
      BY <2>3, <3>1 DEF DisconnectCP, ClusterType, lb
  <2>4. CASE ConnectCP(p)
    <3>1. cmd[p].i \in DOMAIN CPs /\ ipam[PinNode(p)] # NoIP
      BY <2>4 DEF ConnectCP, PinTarget
    <3>2. PinNode(p) \in CPSet /\ PinNode(p) \in Nodes
      BY <3>1, CPNode DEF PinNode
    <3>3. ipam[PinNode(p)] \in Addresses
      BY <3>1, <3>2 DEF ClusterType
    <3> QED
      BY <2>4, <3>2, <3>3 DEF ConnectCP, ClusterType, lb
  <2>5. CASE Regenerate(p) \/ RegenerateFails(p)
    <3>1. cert' \in [CPSet -> Addresses]
      <4>1. \A c \in CPSet : ip[c] # NoIP => ip[c] \in Addresses
        BY DEF ClusterType, Nodes
      <4>2. CASE Regenerate(p)
        BY <4>1, <4>2 DEF Regenerate, CanRegenerate
      <4>3. CASE RegenerateFails(p)
        <5>1. PICK done \in SUBSET {c \in CPSet : CanRegenerate(c)} :
                 cert' = [c \in CPSet |-> IF c \in done THEN ip[c] ELSE cert[c]]
          BY <4>3 DEF RegenerateFails
        <5> QED
          BY <4>1, <5>1 DEF ClusterType, CanRegenerate
      <4> QED
        BY <2>5, <4>2, <4>3
    <3>2. UNCHANGED <<container, net, ipam, label, lb>>
      BY <2>5 DEF Regenerate, RegenerateFails
    <3> QED
      BY <3>1, <3>2 DEF ClusterType, net, lb
  <2>6. CASE \/ ResumeRefused(p) \/ ResumeBegins(p) \/ Cancel(p) \/ StartFails(p)
             \/ StartCancelled(p) \/ GroupStarted(p) \/ LBConfigFails(p) \/ LBFamilyUnknown(p)
             \/ DisconnectFails(p) \/ ConnectFails(p) \/ AllPinned(p) \/ DetectDrift(p)
             \/ NodesReady(p) \/ ReadyTimeout(p)
    <3>1. Still
      BY <2>6 DEF ResumeRefused, ResumeBegins, Cancel, StartFails, StartCancelled,
         GroupStarted, LBConfigFails, LBFamilyUnknown, DisconnectFails, ConnectFails,
         AllPinned, DetectDrift, NodesReady, ReadyTimeout
    <3> QED
      BY <1>1, <3>1
  <2> QED
    BY <1>3, <2>1, <2>2, <2>3, <2>4, <2>5, <2>6 DEF Resume
<1>4. ASSUME NEW p \in Procs, Kill(p) PROVE ClusterType'
  BY <1>1, <1>4 DEF Kill
<1>5. CASE Environment
  <2>1. CASE EntrypointRuns
    BY <2>1 DEF EntrypointRuns, ClusterType, net
  <2>2. CASE OtherJoins \/ OtherLeaves
    BY <2>2 DEF OtherJoins, OtherLeaves, ClusterType, lb, Free
  <2>3. ASSUME NEW n \in Nodes, ContainerDies(n) PROVE ClusterType'
    BY <2>3, StopContainerType DEF ContainerDies
  <2> QED
    BY <1>5, <2>1, <2>2, <2>3 DEF Environment
<1> QED
  BY <1>2, <1>3, <1>4, <1>5 DEF Next

\* TypeOK, in the parts the lemmas above preserve.
LEMMA TypeParts == TypeOK <=> ClusterType /\ CmdType
BY DEF TypeOK, ClusterType, CmdType

\* TypeOK with PinTarget is inductive: the address a resume is about to pass to
\* `network connect` is one of the network.
TypeInv == TypeOK /\ PinTarget

\* A cluster that was just created is well-typed.
LEMMA TypeInit == Init => TypeInv
<1> SUFFICES ASSUME Init PROVE TypeInv
  OBVIOUS
<1>1. CmdType
  BY IdleIsCommand DEF Init, CmdType
<1>2. ClusterType
  <2>1. ip \in [Nodes -> Addresses]
    BY DEF Init
  <2>2. PICK pinned \in BOOLEAN :
          /\ ipam = [c \in CPSet |-> IF pinned THEN ip[c] ELSE NoIP]
          /\ attach = [n \in Nodes |-> IF pinned /\ n \in CPSet THEN ip[n] ELSE Dynamic]
    BY DEF Init
  <2>3. ipam \in [CPSet -> Addresses \cup {NoIP}]
    BY <2>1, <2>2 DEF Nodes
  <2>4. attach \in [Nodes -> Addresses \cup {Dynamic, Detached}]
    BY <2>1, <2>2
  <2>5. cert \in [CPSet -> Addresses]
    BY <2>1 DEF Init, Nodes
  <2> QED
    BY <2>1, <2>3, <2>4, <2>5 DEF Init, ClusterType
<1>3. PinTarget
  BY DEF Init, PinTarget, At, Idle
<1> QED
  BY <1>1, <1>2, <1>3, TypeParts DEF TypeInv

\* Every step of the specification preserves the inductive type invariant.
LEMMA TypeStep == TypeInv /\ [Next]_vars => TypeInv'
<1> SUFFICES ASSUME TypeInv, [Next]_vars PROVE TypeInv'
  OBVIOUS
<1>1. ClusterType /\ CmdType /\ PinTarget /\ label \in Labels
  BY TypeParts DEF TypeInv, ClusterType
<1>2. CASE Next
  <2>1. ClusterType' /\ CmdType' /\ PinTarget'
    BY <1>1, <1>2, ClusterStep, CmdStep, PinTargetStep
  <2> QED
    BY <2>1 DEF TypeInv, TypeOK, ClusterType, CmdType
<1>3. CASE UNCHANGED vars
  BY <1>3 DEF TypeInv, TypeOK, PinTarget, At, PinNode, vars
<1> QED
  BY <1>2, <1>3

\* Every variable keeps its type, in every cluster and under every interleaving.
THEOREM TypeCorrect == Spec => []TypeOK
<1>1. TypeInv => TypeOK
  BY DEF TypeInv
<1> QED
  BY TypeInit, TypeStep, <1>1, PTL DEF Spec

-----------------------------------------------------------------------------
(* Pinned control planes keep their address. *)

\* PinnedAddressKept of one control plane.
KeepsAddress(c) ==
    ipam[c] # NoIP => /\ attach[c] \in {ipam[c], Detached}
                      /\ ip[c] \in {ipam[c], NoIP}
                      /\ cert[c] = ipam[c]

\* A start picks the address a pinned container is connected with, or none.
LEMMA StartKeepsAddress ==
    ASSUME ClusterType, NEW n \in Nodes, NEW c \in CPSet, KeepsAddress(c), StartContainer(n),
           UNCHANGED <<ipam, cert>>
    PROVE  KeepsAddress(c)'
<1>1. CASE UNCHANGED net
  BY <1>1 DEF net, KeepsAddress
<1>2. CASE container[n] = "exited" /\ \E a \in StartAddresses(n) : ip' = [ip EXCEPT ![n] = a]
  <2>1. PICK a \in StartAddresses(n) : ip' = [ip EXCEPT ![n] = a]
    BY <1>2
  <2>2. c \in Nodes /\ attach' = attach
    BY <1>2 DEF Nodes, StartContainer, net
  <2>3. ASSUME ipam[c] # NoIP, c = n PROVE a \in {ipam[c], NoIP}
    <3>1. ipam[c] \in Addresses
      BY <2>3 DEF ClusterType
    <3>2. attach[n] \in {ipam[c], Detached} /\ attach[n] # Dynamic
      BY <2>3, <3>1, NetworkAssumption DEF KeepsAddress
    <3> QED
      BY <2>1, <3>2 DEF StartAddresses
  <2> QED
    BY <2>1, <2>2, <2>3 DEF KeepsAddress, ClusterType
<1> QED
  BY <1>1, <1>2 DEF StartContainer

\* A stop leaves a pinned container its endpoint, and no address but its own.
LEMMA StopKeepsAddress ==
    ASSUME ClusterType, NEW n \in Nodes, NEW c \in CPSet, KeepsAddress(c), StopContainer(n),
           UNCHANGED <<ipam, cert>>
    PROVE  KeepsAddress(c)'
<1>1. c \in Nodes
  BY DEF Nodes
<1> QED
  BY <1>1 DEF StopContainer, KeepsAddress, ClusterType

\* No step gives a pinned control plane another endpoint, address or certificate.
LEMMA KeepsAddressStep ==
    ASSUME ClusterType, PinTarget, NEW c \in CPSet, KeepsAddress(c), Next
    PROVE  KeepsAddress(c)'
<1> DEFINE Still == UNCHANGED <<attach, ip, ipam, cert>>
<1>1. ASSUME Still PROVE KeepsAddress(c)'
  BY <1>1 DEF KeepsAddress
<1>2. c \in Nodes
  BY DEF Nodes
<1>3. ASSUME NEW p \in Procs, Pause(p) PROVE KeepsAddress(c)'
  <2>1. CASE StopNode(p) \/ StopFails(p)
    <3>1. UNCHANGED <<ipam, label, cert>> /\ cmd[p].i \in DOMAIN StopOrder
      BY <2>1 DEF StopNode, StopFails, Stopping
    <3>2. StopContainer(StopOrder[cmd[p].i]) \/ Still
      BY <2>1 DEF StopNode, StopFails, net
    <3> QED
      BY <1>1, <3>1, <3>2, StopKeepsAddress, StopNodeInNodes
  <2>2. CASE PauseRefused(p) \/ PauseBegins(p) \/ PauseReturns(p)
    <3>1. Still
      BY <2>2 DEF PauseRefused, PauseBegins, PauseReturns, net
    <3> QED
      BY <1>1, <3>1
  <2> QED
    BY <1>3, <2>1, <2>2 DEF Pause
<1>4. ASSUME NEW p \in Procs, Resume(p) PROVE KeepsAddress(c)'
  <2>1. CASE StartNode(p)
    BY <2>1, StartKeepsAddress, StartNodeInNodes DEF StartNode
  <2>2. CASE DisconnectCP(p)
    BY <1>2, <2>2 DEF DisconnectCP, KeepsAddress, ClusterType
  <2>3. CASE ConnectCP(p)
    <3>1. UNCHANGED <<ipam, cert>>
      BY <2>3 DEF ConnectCP
    <3>2. CASE c = PinNode(p)
      <4>1. attach'[c] = ipam[c] /\ ip'[c] \in {ipam[c], NoIP}
        BY <1>2, <2>3, <3>2 DEF ConnectCP, ClusterType
      <4> QED
        BY <3>1, <4>1 DEF KeepsAddress
    <3>3. CASE c # PinNode(p)
      <4>1. attach'[c] = attach[c] /\ ip'[c] = ip[c]
        BY <1>2, <2>3, <3>3 DEF ConnectCP, ClusterType
      <4> QED
        BY <3>1, <4>1 DEF KeepsAddress
    <3> QED
      BY <3>2, <3>3
  <2>4. CASE Regenerate(p) \/ RegenerateFails(p)
    <3>1. UNCHANGED <<attach, ip, ipam>>
      BY <2>4 DEF Regenerate, RegenerateFails, net
    <3>2. cert'[c] = cert[c] \/ (cert'[c] = ip[c] /\ ip[c] # NoIP)
      <4>1. CASE Regenerate(p)
        BY <4>1 DEF Regenerate, CanRegenerate
      <4>2. CASE RegenerateFails(p)
        <5>1. PICK done \in SUBSET {k \in CPSet : CanRegenerate(k)} :
                 cert' = [k \in CPSet |-> IF k \in done THEN ip[k] ELSE cert[k]]
          BY <4>2 DEF RegenerateFails
        <5> QED
          BY <5>1 DEF CanRegenerate
      <4> QED
        BY <2>4, <4>1, <4>2
    <3> QED
      BY <3>1, <3>2 DEF KeepsAddress
  <2>5. CASE \/ ResumeRefused(p) \/ ResumeBegins(p) \/ Cancel(p) \/ StartFails(p)
             \/ StartCancelled(p) \/ GroupStarted(p) \/ ApplyLBConfig(p) \/ LBConfigFails(p)
             \/ LBFamilyUnknown(p) \/ DisconnectFails(p) \/ ConnectFails(p) \/ AllPinned(p)
             \/ DetectDrift(p) \/ NodesReady(p) \/ ReadyTimeout(p)
    <3>1. Still
      BY <2>5 DEF ResumeRefused, ResumeBegins, Cancel, StartFails, StartCancelled,
         GroupStarted, ApplyLBConfig, LBConfigFails, LBFamilyUnknown, DisconnectFails,
         ConnectFails, AllPinned, DetectDrift, NodesReady, ReadyTimeout, net
    <3> QED
      BY <1>1, <3>1
  <2> QED
    BY <1>4, <2>1, <2>2, <2>3, <2>4, <2>5 DEF Resume
<1>5. ASSUME NEW p \in Procs, Kill(p) PROVE KeepsAddress(c)'
  BY <1>1, <1>5 DEF Kill, net
<1>6. CASE Environment
  <2>1. CASE EntrypointRuns \/ OtherJoins \/ OtherLeaves
    BY <1>1, <2>1 DEF EntrypointRuns, OtherJoins, OtherLeaves, net
  <2>2. ASSUME NEW n \in Nodes, ContainerDies(n) PROVE KeepsAddress(c)'
    BY <2>2, StopKeepsAddress DEF ContainerDies
  <2> QED
    BY <1>6, <2>1, <2>2 DEF Environment
<1> QED
  BY <1>3, <1>4, <1>5, <1>6 DEF Next

PinInv == TypeInv /\ PinnedAddressKept

\* A cluster that was just created keeps the contract of the pinned addresses.
LEMMA PinInit == Init => PinInv
<1> SUFFICES ASSUME Init PROVE PinnedAddressKept
  BY TypeInit DEF PinInv
<1>1. PICK pinned \in BOOLEAN :
        /\ ipam = [c \in CPSet |-> IF pinned THEN ip[c] ELSE NoIP]
        /\ attach = [n \in Nodes |-> IF pinned /\ n \in CPSet THEN ip[n] ELSE Dynamic]
  BY DEF Init
<1>2. cert = [c \in CPSet |-> ip[c]]
  BY DEF Init
<1> QED
  BY <1>1, <1>2 DEF PinnedAddressKept, Nodes

\* Every step preserves it.
LEMMA PinStep == PinInv /\ [Next]_vars => PinInv'
<1> SUFFICES ASSUME PinInv, [Next]_vars PROVE PinInv'
  OBVIOUS
<1>1. ClusterType /\ PinTarget /\ TypeInv'
  BY TypeStep, TypeParts DEF PinInv, TypeInv
<1>2. ASSUME NEW c \in CPSet PROVE KeepsAddress(c)
  BY DEF PinInv, PinnedAddressKept, KeepsAddress
<1>3. CASE Next
  <2>1. ASSUME NEW c \in CPSet PROVE KeepsAddress(c)'
    BY <1>1, <1>2, <1>3, KeepsAddressStep
  <2> QED
    BY <1>1, <2>1 DEF PinInv, PinnedAddressKept, KeepsAddress
<1>4. CASE UNCHANGED vars
  BY <1>1, <1>4 DEF PinInv, PinnedAddressKept, vars
<1> QED
  BY <1>3, <1>4

\* A pinned control plane runs at its recorded address or without a network, and
\* its certificate names that address: any number of processes may pause and
\* resume at once, fail, or be killed between a disconnect and its reconnect.
THEOREM PinnedAddressAlwaysKept == Spec => []PinnedAddressKept
<1>1. PinInv => PinnedAddressKept
  BY DEF PinInv
<1> QED
  BY PinInit, PinStep, <1>1, PTL DEF Spec
-----------------------------------------------------------------------------
(* A pause or a resume that reports success, undisturbed, has stopped or    *)
(* started every container.                                                *)

Finished(p) == At(p, "idle") /\ cmd[p].result \in {"ok", "noop"}

\* While the command of p is alone, no other process runs one.
AloneInv == \A p \in Procs : cmd[p].alone => \A q \in Procs \ {p} : At(q, "idle")

\* A pause has one phase, and a resume never is in it; a result ends a command.
PhaseOf(p) ==
    /\ ~At(p, "idle") => cmd[p].result = "none"
    /\ cmd[p].op = "pause" => cmd[p].pc \in {"idle", "stop"}
    /\ cmd[p].op = "resume" => cmd[p].pc # "stop"

\* The nodes that the loop over order has passed.
Behind(p, order) == {order[k] : k \in {j \in DOMAIN order : j < cmd[p].i}}

\* What a pause has done so far: until a stop fails, every node behind it is
\* stopped.
PauseDone(p) ==
    cmd[p].op = "pause" =>
        /\ At(p, "stop") /\ ~cmd[p].failed => AllIn(Behind(p, StopOrder), "exited")
        /\ Finished(p) => AllIn(Nodes, "exited")

LatePhases  == {"drift", "regen", "ready"}
StartPhases == {"startLB", "startCP", "startWorker"}

\* What a resume has done so far: until a start fails, the groups behind it run,
\* and in the group it starts, the nodes behind it.
ResumeDone(p) ==
    cmd[p].op = "resume" =>
        /\ Finished(p) => AllIn(Nodes, "running")
        /\ cmd[p].pc \in LatePhases => ~cmd[p].failed
        /\ ~At(p, "idle") /\ ~cmd[p].failed =>
              /\ ~At(p, "startLB") => AllIn(LBSet, "running")
              /\ cmd[p].pc \in LatePhases \cup {"startWorker"} => AllIn(CPSet, "running")
              /\ cmd[p].pc \in LatePhases => AllIn(NodesOf(Workers), "running")
              /\ cmd[p].pc \in StartPhases =>
                    AllIn(Behind(p, StartGroup(cmd[p].pc)), "running")

Outcome(p) == PauseDone(p) /\ ResumeDone(p)

OutcomeInv ==
    /\ TypeInv /\ AloneInv
    /\ \A p \in Procs : PhaseOf(p) /\ (cmd[p].alone => Outcome(p))

-----------------------------------------------------------------------------
(* Steps of a command, seen from its record. *)

Begins(p) == PauseRefused(p) \/ PauseBegins(p) \/ ResumeRefused(p) \/ ResumeBegins(p)

\* A step of a command that runs: it is still what it was, and the other
\* processes' commands are untouched.
Continues(p) ==
    /\ ~At(p, "idle")
    /\ cmd'[p].op = cmd[p].op /\ cmd'[p].alone = cmd[p].alone
    /\ At(p, "idle")' \/ cmd'[p].result = cmd[p].result
    /\ \A q \in Procs \ {p} : cmd'[q] = cmd[q]

\* A command that returns has continued, and is idle with its result.
LEMMA FinishContinues ==
    ASSUME CmdType, NEW p \in Procs, ~At(p, "idle"), NEW r, NEW f, Finish(p, r, f)
    PROVE  Continues(p) /\ cmd'[p].pc = "idle" /\ cmd'[p].result = r
<1>1. cmd'[p] = [Idle EXCEPT !.op = cmd[p].op, !.opt = cmd[p].opt, !.result = r,
                   !.alone = cmd[p].alone, !.faultless = cmd[p].faultless /\ ~f]
  BY DEF Finish, CmdType
<1>2. \A q \in Procs \ {p} : cmd'[q] = cmd[q]
  BY DEF Finish, CmdType
<1>3. /\ cmd'[p].op = cmd[p].op /\ cmd'[p].alone = cmd[p].alone
      /\ cmd'[p].pc = "idle" /\ cmd'[p].result = r
  BY <1>1 DEF Idle
<1> QED
  BY <1>2, <1>3 DEF Continues, At

\* So has a command that goes to another phase.
LEMMA GotoContinues ==
    ASSUME CmdType, NEW p \in Procs, ~At(p, "idle"), NEW pc, Goto(p, pc)
    PROVE  Continues(p)
<1>1. cmd[p] \in Commands
  BY DEF CmdType
<1>2. cmd'[p] = [cmd[p] EXCEPT !.pc = pc, !.i = 1]
  BY DEF Goto, CmdType
<1>3. /\ cmd'[p].op = cmd[p].op /\ cmd'[p].alone = cmd[p].alone
      /\ cmd'[p].result = cmd[p].result
  BY <1>1, <1>2 DEF Commands
<1>4. \A q \in Procs \ {p} : cmd'[q] = cmd[q]
  BY DEF Goto, CmdType
<1> QED
  BY <1>3, <1>4 DEF Continues

\* Every step of a process either begins a command or continues one.
LEMMA BeginsOrContinues ==
    ASSUME CmdType, NEW p \in Procs, Pause(p) \/ Resume(p) \/ Kill(p)
    PROVE  Begins(p) \/ Continues(p)
<1>1. cmd[p] \in Commands
  BY DEF CmdType
<1>2. CASE Begins(p)
  BY <1>2
<1>3. CASE \/ PauseReturns(p) \/ LBFamilyUnknown(p) \/ DisconnectFails(p) \/ ConnectFails(p)
           \/ RegenerateFails(p) \/ NodesReady(p) \/ ReadyTimeout(p) \/ Kill(p)
  <2>1. ~At(p, "idle") /\ \E r, f : Finish(p, r, f)
    BY <1>3 DEF PauseReturns, LBFamilyUnknown, DisconnectFails, ConnectFails,
       RegenerateFails, NodesReady, ReadyTimeout, Kill, Return, Halt, At
  <2> QED
    BY <2>1, FinishContinues
<1>4. CASE StopNode(p) \/ StartNode(p)
  <2>1. ~At(p, "idle")
    BY <1>4 DEF StopNode, StartNode, Stopping, Starting, At
  <2>2. Advance(p)
    BY <1>4 DEF StopNode, StartNode
  <2>3. cmd'[p] = [cmd[p] EXCEPT !.i = cmd[p].i + 1]
    BY <2>2 DEF Advance, CmdType
  <2>4. /\ cmd'[p].op = cmd[p].op /\ cmd'[p].alone = cmd[p].alone
        /\ cmd'[p].result = cmd[p].result
    BY <1>1, <2>3 DEF Commands
  <2>5. \A q \in Procs \ {p} : cmd'[q] = cmd[q]
    BY <2>2 DEF Advance, CmdType
  <2> QED
    BY <2>1, <2>4, <2>5 DEF Continues
<1>5. CASE StopFails(p) \/ StartFails(p) \/ StartCancelled(p)
  <2>1. ~At(p, "idle")
    BY <1>5 DEF StopFails, StartFails, StartCancelled, Stopping, Starting, At
  <2>2. \A q \in Procs \ {p} : cmd'[q] = cmd[q]
    BY <1>5 DEF StopFails, StartFails, StartCancelled, CmdType
  <2>3. /\ cmd'[p].op = cmd[p].op /\ cmd'[p].alone = cmd[p].alone
        /\ cmd'[p].result = cmd[p].result
    <3>1. CASE StopFails(p)
      <4>1. cmd'[p] = [cmd[p] EXCEPT !.i = cmd[p].i + 1, !.failed = TRUE, !.faultless = FALSE]
        BY <3>1 DEF StopFails, CmdType
      <4> QED
        BY <1>1, <4>1 DEF Commands
    <3>2. CASE StartFails(p)
      <4>1. PICK refused \in BOOLEAN :
              cmd' = [cmd EXCEPT ![p].i = @ + 1, ![p].failed = TRUE, ![p].faultless = @ /\ refused]
        BY <3>2 DEF StartFails
      <4>2. cmd'[p] = [cmd[p] EXCEPT !.i = cmd[p].i + 1, !.failed = TRUE,
                                     !.faultless = cmd[p].faultless /\ refused]
        BY <4>1 DEF CmdType
      <4> QED
        BY <1>1, <4>2 DEF Commands
    <3>3. CASE StartCancelled(p)
      <4>1. cmd'[p] = [cmd[p] EXCEPT !.i = Len(StartGroup(cmd[p].pc)) + 1, !.failed = TRUE]
        BY <3>3 DEF StartCancelled, CmdType
      <4> QED
        BY <1>1, <4>1 DEF Commands
    <3> QED
      BY <1>5, <3>1, <3>2, <3>3
  <2> QED
    BY <2>1, <2>2, <2>3 DEF Continues
<1>6. CASE ApplyLBConfig(p) \/ AllPinned(p) \/ Regenerate(p)
  <2>1. ~At(p, "idle") /\ \E pc : Goto(p, pc)
    BY <1>6 DEF ApplyLBConfig, AllPinned, Regenerate, At
  <2> QED
    BY <2>1, GotoContinues
<1>7. CASE LBConfigFails(p)
  <2>1. ~At(p, "idle")
    BY <1>7 DEF LBConfigFails, At
  <2>2. PICK f : \/ cmd' = [cmd EXCEPT ![p].i = @ + 1, ![p].faultless = @ /\ ~f]
                 \/ Finish(p, "err", f)
    BY <1>7 DEF LBConfigFails, Halt
  <2>3. CASE cmd' = [cmd EXCEPT ![p].i = @ + 1, ![p].faultless = @ /\ ~f]
    <3>1. cmd'[p] = [cmd[p] EXCEPT !.i = cmd[p].i + 1, !.faultless = cmd[p].faultless /\ ~f]
      BY <2>3 DEF CmdType
    <3>2. /\ cmd'[p].op = cmd[p].op /\ cmd'[p].alone = cmd[p].alone
          /\ cmd'[p].result = cmd[p].result
      BY <1>1, <3>1 DEF Commands
    <3>3. \A q \in Procs \ {p} : cmd'[q] = cmd[q]
      BY <2>3 DEF CmdType
    <3> QED
      BY <2>1, <3>2, <3>3 DEF Continues
  <2> QED
    BY <2>1, <2>2, <2>3, FinishContinues
<1>8. CASE Cancel(p) \/ DisconnectCP(p) \/ ConnectCP(p) \/ DetectDrift(p)
  <2>1. ~At(p, "idle")
    BY <1>8 DEF Cancel, DisconnectCP, ConnectCP, DetectDrift, At
  <2>2. \A q \in Procs \ {p} : cmd'[q] = cmd[q]
    BY <1>8 DEF Cancel, DisconnectCP, ConnectCP, DetectDrift, CmdType
  <2>3. /\ cmd'[p].op = cmd[p].op /\ cmd'[p].alone = cmd[p].alone
        /\ cmd'[p].result = cmd[p].result
    <3>1. CASE Cancel(p) \/ DisconnectCP(p)
      <4>1. \/ cmd'[p] = [cmd[p] EXCEPT !.cancelled = TRUE, !.faultless = FALSE]
            \/ cmd'[p] = [cmd[p] EXCEPT !.pc = "connect"]
        BY <3>1 DEF Cancel, DisconnectCP, CmdType
      <4> QED
        BY <1>1, <4>1 DEF Commands
    <3>2. CASE ConnectCP(p)
      <4>1. cmd'[p] = [cmd[p] EXCEPT !.pc = "pin", !.i = cmd[p].i + 1]
        BY <3>2 DEF ConnectCP, CmdType
      <4> QED
        BY <1>1, <4>1 DEF Commands
    <3>3. CASE DetectDrift(p)
      <4>1. PICK error \in BOOLEAN :
              cmd' = [cmd EXCEPT
                        ![p].pc = IF cmd[p].opt = "cert-regen" \/ Drifted \/ error
                                  THEN "regen" ELSE "ready",
                        ![p].faultless = @ /\ ~error]
        BY <3>3 DEF DetectDrift
      <4> DEFINE pc == IF cmd[p].opt = "cert-regen" \/ Drifted \/ error THEN "regen" ELSE "ready"
      <4>2. cmd'[p] = [cmd[p] EXCEPT !.pc = pc, !.faultless = cmd[p].faultless /\ ~error]
        BY <4>1 DEF CmdType
      <4> QED
        BY <1>1, <4>2 DEF Commands
    <3> QED
      BY <1>8, <3>1, <3>2, <3>3
  <2> QED
    BY <2>1, <2>2, <2>3 DEF Continues
<1>9. CASE GroupStarted(p)
  <2>1. ~At(p, "idle")
    BY <1>9 DEF GroupStarted, At
  <2>2. PICK r, pc, f : Goto(p, pc) \/ Finish(p, r, f)
    BY <1>9 DEF GroupStarted, AfterWorkers, Return, At
  <2> QED
    BY <2>1, <2>2, GotoContinues, FinishContinues
<1> QED
  BY <1>2, <1>3, <1>4, <1>5, <1>6, <1>7, <1>8, <1>9 DEF Pause, Resume, Begins

-----------------------------------------------------------------------------
(* The phases of a command. *)

\* What a pause that runs can do.
LEMMA PauseSteps ==
    ASSUME NEW p \in Procs, Pause(p) \/ Resume(p) \/ Kill(p), At(p, "stop"), cmd[p].op # "resume"
    PROVE  StopNode(p) \/ StopFails(p) \/ PauseReturns(p) \/ Kill(p)
BY DEF Pause, Resume, At, PauseRefused, PauseBegins, ResumeRefused, ResumeBegins, Cancel,
   StartNode, StartFails, StartCancelled, Starting, GroupStarted, ApplyLBConfig, LBConfigFails,
   LBFamilyUnknown, DisconnectCP, DisconnectFails, ConnectCP, ConnectFails, AllPinned,
   DetectDrift, Regenerate, RegenerateFails, NodesReady, ReadyTimeout

\* A pause that goes on stays in its phase, or returns.
LEMMA PausePhase ==
    ASSUME CmdType, NEW p \in Procs, Pause(p) \/ Resume(p) \/ Kill(p), At(p, "stop"),
           cmd[p].op # "resume"
    PROVE  cmd'[p].pc \in {"idle", "stop"}
<1>1. CASE StopNode(p) \/ StopFails(p)
  BY <1>1, StayPc DEF At
<1>2. CASE PauseReturns(p) \/ Kill(p)
  BY <1>2, FinishContinues DEF PauseReturns, Kill, Return, At
<1> QED
  BY <1>1, <1>2, PauseSteps

\* A resume that goes on never stops containers.
LEMMA ResumePhase ==
    ASSUME CmdType, NEW p \in Procs, Pause(p) \/ Resume(p) \/ Kill(p), ~At(p, "idle"), ~At(p, "stop")
    PROVE  cmd'[p].pc # "stop"
<1>1. CASE \/ PauseReturns(p) \/ LBFamilyUnknown(p) \/ DisconnectFails(p) \/ ConnectFails(p)
           \/ RegenerateFails(p) \/ NodesReady(p) \/ ReadyTimeout(p) \/ Kill(p)
  <2>1. \E r, f : Finish(p, r, f)
    BY <1>1 DEF PauseReturns, LBFamilyUnknown, DisconnectFails, ConnectFails,
       RegenerateFails, NodesReady, ReadyTimeout, Kill, Return, Halt
  <2> QED
    BY <2>1, FinishContinues
<1>2. CASE StartNode(p) \/ StartFails(p) \/ StartCancelled(p) \/ Cancel(p)
  BY <1>2, StayPc DEF At
<1>3. CASE ApplyLBConfig(p) \/ AllPinned(p) \/ Regenerate(p)
  BY <1>3, GotoPc DEF ApplyLBConfig, AfterLB, AllPinned, Regenerate
<1>4. CASE LBConfigFails(p) \/ DisconnectCP(p) \/ ConnectCP(p) \/ DetectDrift(p)
  BY <1>4, MovePc, FinishContinues
<1>5. CASE GroupStarted(p)
  <2>1. \/ \E pc \in {"lbConfig", "pin", "startCP", "startWorker", "drift", "ready"} : Goto(p, pc)
        \/ Finish(p, "err", FALSE)
    BY <1>5 DEF GroupStarted, AfterWorkers, AfterLB, Return, At
  <2> QED
    BY <2>1, GotoPc, FinishContinues
<1> QED
  BY <1>1, <1>2, <1>3, <1>4, <1>5
  DEF Pause, Resume, PauseRefused, PauseBegins, ResumeRefused, ResumeBegins, StopNode, StopFails,
      Stopping, At

-----------------------------------------------------------------------------
(* A pause that goes on. *)

\* The order of a pause names every node.
LEMMA StopOrderCovers == \A n \in Nodes : \E k \in DOMAIN StopOrder : StopOrder[k] = n
<1>1. /\ CPs \in Seq(CPSet) /\ Workers \in Seq(NodesOf(Workers)) /\ LBs \in Seq(LBSet)
  BY NodesAssumption
<1>2. /\ DOMAIN CPs = 1..Len(CPs) /\ Len(CPs) \in Nat
      /\ DOMAIN Workers = 1..Len(Workers) /\ Len(Workers) \in Nat
      /\ DOMAIN LBs = 1..Len(LBs) /\ Len(LBs) \in Nat
  BY <1>1
<1>3. DOMAIN StopOrder = 1..(Len(Workers) + Len(CPs) + Len(LBs))
  BY <1>1 DEF StopOrder
<1>4. ASSUME NEW k \in DOMAIN Workers
      PROVE  k \in DOMAIN StopOrder /\ StopOrder[k] = Workers[k]
  BY <1>1, <1>2, <1>3 DEF StopOrder
<1>5. ASSUME NEW k \in DOMAIN CPs
      PROVE  /\ Len(Workers) + k \in DOMAIN StopOrder
             /\ StopOrder[Len(Workers) + k] = CPs[k]
  BY <1>1, <1>2, <1>3 DEF StopOrder
<1>6. ASSUME NEW k \in DOMAIN LBs
      PROVE  /\ Len(Workers) + Len(CPs) + k \in DOMAIN StopOrder
             /\ StopOrder[Len(Workers) + Len(CPs) + k] = LBs[k]
  BY <1>1, <1>2, <1>3 DEF StopOrder
<1> QED
  BY <1>4, <1>5, <1>6 DEF Nodes, CPSet, LBSet, NodesOf

\* The order of a pause is a sequence.
LEMMA StopOrderSeq == DOMAIN StopOrder = 1..Len(StopOrder) /\ Len(StopOrder) \in Nat
<1>1. /\ CPs \in Seq(Nodes) /\ Workers \in Seq(Nodes) /\ LBs \in Seq(Nodes)
  BY NodesAssumption DEF Nodes, CPSet, LBSet, NodesOf
<1>2. StopOrder \in Seq(Nodes)
  BY <1>1 DEF StopOrder
<1> QED
  BY <1>2

\* While a pause runs, each of its steps stops the next node or records an error,
\* and it only reports success behind the last node, without an error.
LEMMA PauseStep ==
    ASSUME ClusterType, CmdType, NEW p \in Procs, Pause(p) \/ Resume(p) \/ Kill(p),
           cmd[p].op = "pause", At(p, "stop"), PauseDone(p)
    PROVE  PauseDone(p)'
<1>1. cmd[p] \in Commands /\ cmd[p].i \in Nat
  BY DEF CmdType, Commands
<1>2. StopNode(p) \/ StopFails(p) \/ PauseReturns(p) \/ Kill(p)
  BY PauseSteps
<1>3. CASE StopNode(p)
  <2>1. cmd'[p] = [cmd[p] EXCEPT !.i = cmd[p].i + 1]
    BY <1>3 DEF StopNode, Advance, CmdType
  <2>2. cmd'[p].pc = "stop" /\ cmd'[p].failed = cmd[p].failed /\ cmd'[p].i = cmd[p].i + 1
    BY <1>1, <2>1 DEF Commands, At
  <2>3. container' = [container EXCEPT ![StopOrder[cmd[p].i]] = "exited"]
    BY <1>3 DEF StopNode, StopContainer
  <2>4. \A n \in Nodes : container[n] = "exited" => container'[n] = "exited"
    BY <2>3 DEF ClusterType
  <2>5. cmd[p].i \in DOMAIN StopOrder /\ StopOrder[cmd[p].i] \in Nodes
    BY <1>3, StopNodeInNodes DEF StopNode, Stopping
  <2>6. container'[StopOrder[cmd[p].i]] = "exited"
    BY <2>3, <2>5 DEF ClusterType
  <2>7. ASSUME ~cmd[p].failed PROVE AllIn(Behind(p, StopOrder), "exited")'
    <3>1. AllIn(Behind(p, StopOrder), "exited")
      BY <2>7 DEF PauseDone
    <3>2. ASSUME NEW k \in DOMAIN StopOrder, k < cmd'[p].i
          PROVE  container'[StopOrder[k]] = "exited"
      <4>1. k \in Nat /\ StopOrder[k] \in Nodes
        BY StopNodeInNodes, StopOrderSeq
      <4>2. CASE k = cmd[p].i
        BY <2>6, <4>2
      <4>3. CASE k < cmd[p].i
        BY <2>4, <3>1, <4>1, <4>3 DEF AllIn, Behind
      <4> QED
        BY <1>1, <2>2, <3>2, <4>1, <4>2, <4>3
    <3> QED
      BY <3>2 DEF AllIn, Behind
  <2> QED
    BY <2>2, <2>7 DEF PauseDone, At, Finished
<1>4. CASE StopFails(p)
  <2>1. cmd'[p] = [cmd[p] EXCEPT !.i = cmd[p].i + 1, !.failed = TRUE, !.faultless = FALSE]
    BY <1>4 DEF StopFails, CmdType
  <2>2. cmd'[p].pc = "stop" /\ cmd'[p].failed
    BY <1>1, <2>1 DEF Commands, At
  <2> QED
    BY <2>2 DEF PauseDone, At, Finished
<1>5. CASE PauseReturns(p)
  <2>1. cmd'[p].pc = "idle" /\ cmd'[p].result = LastErrors(p)
    BY <1>5, FinishContinues DEF PauseReturns, Return, At
  <2>2. ASSUME ~cmd[p].failed PROVE AllIn(Nodes, "exited")'
    <3>1. AllIn(Behind(p, StopOrder), "exited") /\ cmd[p].i > Len(StopOrder)
      BY <1>5, <2>2 DEF PauseDone, PauseReturns
    <3>2. \A k \in DOMAIN StopOrder : k < cmd[p].i
      BY <1>1, <3>1, StopOrderSeq
    <3>3. AllIn(Nodes, "exited")
      BY <3>1, <3>2, StopOrderCovers DEF AllIn, Behind
    <3> QED
      BY <1>5, <3>3 DEF PauseReturns, AllIn
  <2> QED
    BY <2>1, <2>2 DEF LastErrors, PauseDone, At, Finished
<1>6. CASE Kill(p)
  <2>1. cmd'[p].pc = "idle" /\ cmd'[p].result = "killed"
    BY <1>6, FinishContinues DEF Kill, Return
  <2> QED
    BY <2>1 DEF PauseDone, At, Finished
<1> QED
  BY <1>2, <1>3, <1>4, <1>5, <1>6

-----------------------------------------------------------------------------
(* A resume that goes on. *)

\* The groups of a resume are sequences, and between them name every node.
LEMMA StartGroups ==
    /\ \A pc \in StartPhases : /\ DOMAIN StartGroup(pc) = 1..Len(StartGroup(pc))
                              /\ Len(StartGroup(pc)) \in Nat
    /\ NodesOf(StartGroup("startLB")) = LBSet
    /\ NodesOf(StartGroup("startCP")) = CPSet
    /\ NodesOf(StartGroup("startWorker")) = NodesOf(Workers)
    /\ Nodes = LBSet \cup CPSet \cup NodesOf(Workers)
<1>1. StartGroup("startLB") = LBs /\ StartGroup("startCP") = CPs /\ StartGroup("startWorker") = Workers
  BY DEF StartGroup
<1>2. /\ DOMAIN CPs = 1..Len(CPs) /\ Len(CPs) \in Nat
      /\ DOMAIN Workers = 1..Len(Workers) /\ Len(Workers) \in Nat
      /\ DOMAIN LBs = 1..Len(LBs) /\ Len(LBs) \in Nat
  BY NodesAssumption
<1> QED
  BY <1>1, <1>2 DEF StartPhases, Nodes, LBSet, CPSet

\* A resume that returns with an error, or is killed, claims nothing.
LEMMA ResumeEnds ==
    ASSUME CmdType, NEW p \in Procs, ~At(p, "idle"), NEW r \in {"err", "killed"}, NEW f,
           Finish(p, r, f)
    PROVE  ResumeDone(p)'
<1>1. cmd'[p].pc = "idle" /\ cmd'[p].result = r
  BY FinishContinues
<1> QED
  BY <1>1 DEF ResumeDone, Finished, At, LatePhases

\* A resume that fails to start a node goes on without any claim but its failure.
LEMMA ResumeErrs ==
    ASSUME NEW p \in Procs, cmd'[p].failed, cmd'[p].pc \in StartPhases
    PROVE  ResumeDone(p)'
BY DEF ResumeDone, Finished, At, LatePhases, StartPhases

\* A resume that changes its phase without starting a container keeps its claims,
\* when it only skips what it has passed.
LEMMA ResumeMoves ==
    ASSUME NEW p \in Procs, cmd[p].op = "resume", ~At(p, "idle"), ~At(p, "stop"), ResumeDone(p),
           container' = container, cmd'[p].op = cmd[p].op, cmd'[p].failed = cmd[p].failed,
           \/ cmd'[p].pc = cmd[p].pc /\ cmd'[p].i = cmd[p].i
           \/ ~At(p, "startLB") /\ cmd'[p].pc \in {"lbConfig", "pin", "connect"}
           \/ ~At(p, "startLB") /\ cmd'[p].pc = "startCP" /\ cmd'[p].i = 1
           \/ cmd[p].pc \in LatePhases /\ cmd'[p].pc \in LatePhases
    PROVE  ResumeDone(p)'
<1>1. CASE cmd'[p].pc = cmd[p].pc /\ cmd'[p].i = cmd[p].i
  BY <1>1 DEF ResumeDone, Finished, At, AllIn, Behind
<1>2. CASE ~At(p, "startLB") /\ cmd'[p].pc \in {"lbConfig", "pin", "connect"}
  BY <1>2 DEF ResumeDone, Finished, At, AllIn, LatePhases, StartPhases
<1>3. CASE ~At(p, "startLB") /\ cmd'[p].pc = "startCP" /\ cmd'[p].i = 1
  <2>1. Behind(p, StartGroup(cmd[p].pc))' = {}
    <3>1. \A k \in DOMAIN StartGroup("startCP") : ~(k < 1)
      BY StartGroups DEF StartPhases
    <3> QED
      BY <1>3, <3>1 DEF Behind
  <2> QED
    BY <1>3, <2>1 DEF ResumeDone, Finished, At, AllIn, LatePhases, StartPhases
<1>4. CASE cmd[p].pc \in LatePhases /\ cmd'[p].pc \in LatePhases
  BY <1>4 DEF ResumeDone, Finished, At, AllIn, LatePhases, StartPhases
<1> QED
  BY <1>1, <1>2, <1>3, <1>4

\* A start makes its node run and stops none.
LEMMA StartGrows ==
    ASSUME ClusterType, NEW n \in Nodes, StartContainer(n)
    PROVE  /\ container'[n] = "running"
           /\ \A m \in Nodes : container[m] = "running" => container'[m] = "running"
<1>1. CASE container[n] = "running" /\ UNCHANGED container
  BY <1>1
<1>2. CASE container' = [container EXCEPT ![n] = "running"]
  BY <1>2 DEF ClusterType
<1> QED
  BY <1>1, <1>2 DEF StartContainer

\* A resume that starts its next node may claim it, too.
LEMMA ResumeStarts ==
    ASSUME ClusterType, CmdType, NEW p \in Procs, cmd[p].op = "resume", ResumeDone(p), StartNode(p)
    PROVE  ResumeDone(p)'
<1> DEFINE group == StartGroup(cmd[p].pc)
<1>1. cmd[p] \in Commands /\ cmd[p].i \in Nat
  BY DEF CmdType, Commands
<1>2. cmd'[p] = [cmd[p] EXCEPT !.i = cmd[p].i + 1]
  BY DEF StartNode, Advance, CmdType
<1>3. /\ cmd'[p].pc = cmd[p].pc /\ cmd'[p].failed = cmd[p].failed
      /\ cmd'[p].op = cmd[p].op /\ cmd'[p].i = cmd[p].i + 1
  BY <1>1, <1>2 DEF Commands
<1>4. cmd[p].pc \in StartPhases /\ cmd[p].i \in DOMAIN group
  BY DEF StartNode, Starting, StartPhases
<1>5. NodesOf(group) \subseteq Nodes
  BY <1>4, StartGroups DEF StartPhases
<1>6. /\ container'[group[cmd[p].i]] = "running"
      /\ \A m \in Nodes : container[m] = "running" => container'[m] = "running"
  BY <1>4, <1>5, StartGrows DEF StartNode, NodeToStart, NodesOf
<1>7. ASSUME ~cmd[p].failed PROVE AllIn(Behind(p, StartGroup(cmd[p].pc)), "running")'
  <2>1. AllIn(Behind(p, group), "running")
    BY <1>4, <1>7 DEF ResumeDone, At, StartPhases
  <2>2. ASSUME NEW k \in DOMAIN group, k < cmd[p].i + 1
        PROVE  container'[group[k]] = "running"
    <3>1. k \in Nat /\ group[k] \in Nodes
      BY <1>4, <1>5, StartGroups DEF NodesOf
    <3>2. CASE k = cmd[p].i
      BY <1>6, <3>2
    <3>3. CASE k < cmd[p].i
      BY <1>6, <2>1, <3>1, <3>3 DEF AllIn, Behind
    <3> QED
      BY <1>1, <2>2, <3>1, <3>2, <3>3
  <2> QED
    BY <1>3, <2>2 DEF AllIn, Behind
<1>8. ASSUME NEW S, S \subseteq Nodes, AllIn(S, "running") PROVE AllIn(S, "running")'
  BY <1>6, <1>8 DEF AllIn
<1> HIDE DEF group
<1>9. LBSet \subseteq Nodes /\ CPSet \subseteq Nodes
  BY DEF Nodes
<1> QED
  BY <1>3, <1>4, <1>7, <1>8, <1>9 DEF ResumeDone, Finished, At, LatePhases, StartPhases

\* A resume that has passed a group without an error has started all of it.
LEMMA ResumeGroupStarted ==
    ASSUME CmdType, NEW p \in Procs, cmd[p].op = "resume", ResumeDone(p), GroupStarted(p)
    PROVE  ResumeDone(p)'
<1> DEFINE group == StartGroup(cmd[p].pc)
<1>1. cmd[p] \in Commands /\ cmd[p].i \in Nat
  BY DEF CmdType, Commands
<1>2. cmd[p].pc \in StartPhases /\ cmd[p].i > Len(group) /\ container' = container
  BY DEF GroupStarted, StartPhases
<1>3. ASSUME ~cmd[p].failed PROVE AllIn(NodesOf(group), "running")
  <2>1. AllIn(Behind(p, group), "running")
    BY <1>2, <1>3 DEF ResumeDone, At, StartPhases
  <2>2. \A k \in DOMAIN group : k < cmd[p].i
    BY <1>1, <1>2, StartGroups
  <2> QED
    BY <2>1, <2>2 DEF AllIn, Behind, NodesOf
<1> HIDE DEF group
<1>4. ASSUME NEW pc, Goto(p, pc)
      PROVE  /\ cmd'[p].pc = pc /\ cmd'[p].i = 1
             /\ cmd'[p].failed = cmd[p].failed /\ cmd'[p].op = cmd[p].op
  <2>1. cmd'[p] = [cmd[p] EXCEPT !.pc = pc, !.i = 1]
    BY <1>4 DEF Goto, CmdType
  <2> QED
    BY <1>1, <2>1 DEF Commands
<1>5. ASSUME NEW pc \in StartPhases, cmd'[p].pc = pc, cmd'[p].i = 1
      PROVE  Behind(p, StartGroup(cmd[p].pc))' = {}
  <2>1. \A k \in DOMAIN StartGroup(pc) : ~(k < 1)
    BY StartGroups
  <2> QED
    BY <1>5, <2>1 DEF Behind
<1>6. CASE At(p, "startLB")
  <2>1. ~cmd[p].failed => AllIn(LBSet, "running")
    BY <1>3, <1>6, StartGroups DEF At, group
  <2>2. PICK pc \in {"lbConfig", "pin", "startCP"} : Goto(p, pc)
    BY <1>6 DEF GroupStarted, AfterLB, At
  <2> QED
    BY <1>2, <1>4, <1>5, <2>1, <2>2 DEF ResumeDone, Finished, At, AllIn, LatePhases, StartPhases
<1>7. CASE At(p, "startCP")
  <2>1. ~cmd[p].failed => AllIn(LBSet, "running") /\ AllIn(CPSet, "running")
    BY <1>3, <1>7, StartGroups DEF At, ResumeDone, group
  <2>2. Goto(p, "startWorker")
    BY <1>7 DEF GroupStarted, At
  <2> QED
    BY <1>2, <1>4, <1>5, <2>1, <2>2 DEF ResumeDone, Finished, At, AllIn, LatePhases, StartPhases
<1>8. CASE At(p, "startWorker")
  <2>1. ~cmd[p].failed => /\ AllIn(LBSet, "running") /\ AllIn(CPSet, "running")
                         /\ AllIn(NodesOf(Workers), "running")
    BY <1>3, <1>8, StartGroups DEF At, ResumeDone, group
  <2>2. (~cmd[p].failed /\ \E pc \in {"drift", "ready"} : Goto(p, pc)) \/ Return(p, "err")
    BY <1>8 DEF GroupStarted, AfterWorkers, At
  <2>3. CASE Return(p, "err")
    BY <1>8, <2>3, ResumeEnds DEF Return, At
  <2> QED
    BY <1>2, <1>4, <2>1, <2>2, <2>3 DEF ResumeDone, Finished, At, AllIn, LatePhases, StartPhases
<1> QED
  BY <1>2, <1>6, <1>7, <1>8 DEF StartPhases, At

\* Once all nodes run and no start failed, the readiness gate may report success.
LEMMA ResumeSucceeds ==
    ASSUME CmdType, NEW p \in Procs, cmd[p].op = "resume", ResumeDone(p), NodesReady(p)
    PROVE  ResumeDone(p)'
<1>1. cmd'[p].pc = "idle" /\ container' = container
  BY FinishContinues DEF NodesReady, Return, At
<1>2. AllIn(Nodes, "running")
  BY StartGroups DEF NodesReady, At, ResumeDone, LatePhases, AllIn
<1> QED
  BY <1>1, <1>2 DEF ResumeDone, Finished, At, AllIn, LatePhases

\* Each step of a resume that runs keeps its claims.
LEMMA ResumeStep ==
    ASSUME ClusterType, CmdType, NEW p \in Procs, Pause(p) \/ Resume(p) \/ Kill(p),
           cmd[p].op = "resume", ~At(p, "idle"), ~At(p, "stop"), ResumeDone(p)
    PROVE  ResumeDone(p)'
<1>1. cmd[p] \in Commands
  BY DEF CmdType
<1>2. CASE \/ LBFamilyUnknown(p) \/ DisconnectFails(p) \/ ConnectFails(p)
           \/ RegenerateFails(p) \/ ReadyTimeout(p) \/ Kill(p)
  <2>1. \E r \in {"err", "killed"} : \E f : Finish(p, r, f)
    BY <1>2 DEF LBFamilyUnknown, DisconnectFails, ConnectFails, RegenerateFails,
       ReadyTimeout, Kill, Return, Halt
  <2> QED
    BY <2>1, ResumeEnds
<1>3. CASE StartFails(p) \/ StartCancelled(p)
  <2>1. cmd[p].pc \in StartPhases
    BY <1>3 DEF StartFails, StartCancelled, Starting, StartPhases
  <2>2. cmd'[p].failed /\ cmd'[p].pc = cmd[p].pc
    <3>1. CASE StartFails(p)
      <4>1. PICK refused \in BOOLEAN :
              cmd' = [cmd EXCEPT ![p].i = @ + 1, ![p].failed = TRUE, ![p].faultless = @ /\ refused]
        BY <3>1 DEF StartFails
      <4>2. cmd'[p] = [cmd[p] EXCEPT !.i = cmd[p].i + 1, !.failed = TRUE,
                                     !.faultless = cmd[p].faultless /\ refused]
        BY <4>1 DEF CmdType
      <4> QED
        BY <1>1, <4>2 DEF Commands
    <3>2. CASE StartCancelled(p)
      <4>1. cmd'[p] = [cmd[p] EXCEPT !.i = Len(StartGroup(cmd[p].pc)) + 1, !.failed = TRUE]
        BY <3>2 DEF StartCancelled, CmdType
      <4> QED
        BY <1>1, <4>1 DEF Commands
    <3> QED
      BY <1>3, <3>1, <3>2
  <2> QED
    BY <2>1, <2>2, ResumeErrs
<1>5. CASE ApplyLBConfig(p) \/ AllPinned(p) \/ Regenerate(p)
  <2>1. PICK pc : /\ Goto(p, pc)
                  /\ \/ cmd[p].pc \in {"lbConfig", "pin"} /\ pc \in {"pin", "startCP"}
                     \/ cmd[p].pc \in LatePhases /\ pc \in LatePhases
    BY <1>5 DEF ApplyLBConfig, AfterLB, AllPinned, Regenerate, At, LatePhases
  <2>2. cmd'[p] = [cmd[p] EXCEPT !.pc = pc, !.i = 1]
    BY <2>1 DEF Goto, CmdType
  <2>3. /\ cmd'[p].pc = pc /\ cmd'[p].i = 1
        /\ cmd'[p].op = cmd[p].op /\ cmd'[p].failed = cmd[p].failed
    BY <1>1, <2>2 DEF Commands
  <2>4. container' = container
    BY <1>5 DEF ApplyLBConfig, AllPinned, Regenerate
  <2> QED
    BY <2>1, <2>3, <2>4, ResumeMoves DEF At
<1>6. CASE LBConfigFails(p)
  <2>1. PICK f \in BOOLEAN : \/ cmd' = [cmd EXCEPT ![p].i = @ + 1, ![p].faultless = @ /\ ~f]
                             \/ Finish(p, "err", f)
    BY <1>6 DEF LBConfigFails, Halt
  <2>2. CASE cmd' = [cmd EXCEPT ![p].i = @ + 1, ![p].faultless = @ /\ ~f]
    <3>1. cmd'[p] = [cmd[p] EXCEPT !.i = cmd[p].i + 1, !.faultless = cmd[p].faultless /\ ~f]
      BY <2>2 DEF CmdType
    <3>2. /\ cmd'[p].pc = "lbConfig"
          /\ cmd'[p].op = cmd[p].op /\ cmd'[p].failed = cmd[p].failed
      BY <1>1, <1>6, <3>1 DEF Commands, LBConfigFails, At
    <3> QED
      BY <1>6, <3>2, ResumeMoves DEF LBConfigFails, At
  <2> QED
    BY <2>1, <2>2, ResumeEnds
<1>7. CASE DisconnectCP(p) \/ ConnectCP(p)
  <2>1. cmd[p].pc \in {"pin", "connect"} /\ container' = container
    BY <1>7 DEF DisconnectCP, ConnectCP, At
  <2>2. /\ cmd'[p].pc \in {"pin", "connect"}
        /\ cmd'[p].op = cmd[p].op /\ cmd'[p].failed = cmd[p].failed
    <3>1. CASE DisconnectCP(p)
      BY <1>1, <3>1 DEF DisconnectCP, CmdType, Commands
    <3>2. CASE ConnectCP(p)
      BY <1>1, <3>2 DEF ConnectCP, CmdType, Commands
    <3> QED
      BY <1>7, <3>1, <3>2
  <2> QED
    BY <2>1, <2>2, ResumeMoves DEF At
<1>8. CASE DetectDrift(p)
  <2>1. PICK pc \in {"regen", "ready"}, error \in BOOLEAN :
           cmd' = [cmd EXCEPT ![p].pc = pc, ![p].faultless = @ /\ ~error]
    BY <1>8 DEF DetectDrift
  <2>2. cmd'[p] = [cmd[p] EXCEPT !.pc = pc, !.faultless = cmd[p].faultless /\ ~error]
    BY <2>1 DEF CmdType
  <2>3. cmd'[p].pc = pc /\ cmd'[p].op = cmd[p].op /\ cmd'[p].failed = cmd[p].failed
    BY <1>1, <2>2 DEF Commands
  <2> QED
    BY <1>8, <2>3, ResumeMoves DEF DetectDrift, At, LatePhases
<1>9. CASE Cancel(p)
  <2>1. cmd'[p] = [cmd[p] EXCEPT !.cancelled = TRUE, !.faultless = FALSE]
    BY <1>9 DEF Cancel, CmdType
  <2>2. /\ cmd'[p].pc = cmd[p].pc /\ cmd'[p].i = cmd[p].i
        /\ cmd'[p].op = cmd[p].op /\ cmd'[p].failed = cmd[p].failed
    BY <1>1, <2>1 DEF Commands
  <2> QED
    BY <1>9, <2>2, ResumeMoves DEF Cancel
<1> QED
  BY <1>2, <1>3, <1>5, <1>6, <1>7, <1>8, <1>9, ResumeStarts, ResumeGroupStarted, ResumeSucceeds
  DEF Pause, Resume, PauseRefused, PauseBegins, ResumeRefused, ResumeBegins, StopNode, StopFails,
      Stopping, PauseReturns, At

-----------------------------------------------------------------------------
(* A command that begins. *)

\* The record of a command that begins.
LEMMA BeginRecord ==
    ASSUME CmdType, NEW p \in Procs, NEW command, Begin(p, command)
    PROVE  cmd'[p] = [command EXCEPT !.alone = \A q \in Procs \ {p} : At(q, "idle")]
BY DEF Begin, NotAlone, CmdType

\* A pause that begins: it is refused, has nothing to do, or is before its first node.
LEMMA PauseBegun ==
    ASSUME CmdType, NEW p \in Procs, PauseRefused(p) \/ PauseBegins(p)
    PROVE  PhaseOf(p)' /\ Outcome(p)'
<1> DEFINE alone == \A q \in Procs \ {p} : At(q, "idle")
           refused == [NewPause EXCEPT !.result = "err", !.faultless = FALSE]
           clean(f) == [NewPause EXCEPT !.faultless = f]
<1>1. /\ cmd'[p].op = "pause" /\ cmd'[p].i = 1
      /\ \/ cmd'[p].pc = "idle" /\ cmd'[p].result = "err"
         \/ cmd'[p].pc = "stop" /\ cmd'[p].result = "none"
         \/ cmd'[p].pc = "idle" /\ cmd'[p].result = "noop" /\ ClusterStatus = "Paused"
  <2>1. CASE PauseRefused(p)
    <3>1. cmd'[p] = [refused EXCEPT !.alone = alone]
      BY <2>1, BeginRecord DEF PauseRefused
    <3> QED
      BY <3>1 DEF NewPause, Idle
  <2>2. CASE PauseBegins(p)
    <3>1. PICK f : \/ ClusterStatus = "Paused" /\ Begin(p, [clean(f) EXCEPT !.result = "noop"])
                   \/ Begin(p, [clean(f) EXCEPT !.pc = "stop"])
      BY <2>2 DEF PauseBegins
    <3>2. CASE ClusterStatus = "Paused" /\ Begin(p, [clean(f) EXCEPT !.result = "noop"])
      <4>1. cmd'[p] = [[clean(f) EXCEPT !.result = "noop"] EXCEPT !.alone = alone]
        BY <3>2, BeginRecord
      <4> QED
        BY <3>2, <4>1 DEF NewPause, Idle
    <3>3. CASE Begin(p, [clean(f) EXCEPT !.pc = "stop"])
      <4>1. cmd'[p] = [[clean(f) EXCEPT !.pc = "stop"] EXCEPT !.alone = alone]
        BY <3>3, BeginRecord
      <4> QED
        BY <4>1 DEF NewPause, Idle
    <3> QED
      BY <3>1, <3>2, <3>3
  <2> QED
    BY <2>1, <2>2
<1>2. container' = container
  BY DEF PauseRefused, PauseBegins
<1>3. ClusterStatus = "Paused" => AllIn(Nodes, "exited")
  BY DEF ClusterStatus
<1>4. Behind(p, StopOrder)' = {}
  BY <1>1, StopOrderSeq DEF Behind
<1> QED
  BY <1>1, <1>2, <1>3, <1>4
  DEF PhaseOf, Outcome, PauseDone, ResumeDone, Finished, At, AllIn

\* So for a resume.
LEMMA ResumeBegun ==
    ASSUME CmdType, NEW p \in Procs, ResumeRefused(p) \/ ResumeBegins(p)
    PROVE  PhaseOf(p)' /\ Outcome(p)'
<1> DEFINE alone == \A q \in Procs \ {p} : At(q, "idle")
           refused(o) == [NewResume EXCEPT !.opt = o, !.result = "err", !.faultless = FALSE]
           new(o, f) == [NewResume EXCEPT !.opt = o, !.faultless = f]
           noop(o, f) == [new(o, f) EXCEPT !.result = "noop"]
           begun(o, f, s) == [new(o, f) EXCEPT !.pc = "startLB", !.strategy = s]
<1>1. /\ cmd'[p].op = "resume" /\ cmd'[p].i = 1
      /\ \/ cmd'[p].pc = "idle" /\ cmd'[p].result = "err"
         \/ cmd'[p].pc = "startLB" /\ cmd'[p].result = "none"
         \/ cmd'[p].pc = "idle" /\ cmd'[p].result = "noop" /\ ClusterStatus = "Running"
  <2>1. CASE ResumeRefused(p)
    <3>1. PICK o : Begin(p, refused(o))
      BY <2>1 DEF ResumeRefused
    <3>2. cmd'[p] = [refused(o) EXCEPT !.alone = alone]
      BY <3>1, BeginRecord
    <3> QED
      BY <3>2 DEF NewResume, Idle
  <2>2. CASE ResumeBegins(p)
    <3>1. PICK o, f, s : \/ ClusterStatus = "Running" /\ Begin(p, noop(o, f))
                         \/ Begin(p, begun(o, f, s))
      BY <2>2 DEF ResumeBegins
    <3>2. CASE ClusterStatus = "Running" /\ Begin(p, noop(o, f))
      <4>1. cmd'[p] = [noop(o, f) EXCEPT !.alone = alone]
        BY <3>2, BeginRecord
      <4> QED
        BY <3>2, <4>1 DEF NewResume, Idle
    <3>3. CASE Begin(p, begun(o, f, s))
      <4>1. cmd'[p] = [begun(o, f, s) EXCEPT !.alone = alone]
        BY <3>3, BeginRecord
      <4> QED
        BY <4>1 DEF NewResume, Idle
    <3> QED
      BY <3>1, <3>2, <3>3
  <2> QED
    BY <2>1, <2>2
<1>2. container' = container
  BY DEF ResumeRefused, ResumeBegins
<1>3. ClusterStatus = "Running" => AllIn(Nodes, "running")
  BY DEF ClusterStatus
<1>4. At(p, "startLB")' => Behind(p, StartGroup(cmd[p].pc))' = {}
  <2>1. \A k \in DOMAIN StartGroup("startLB") : ~(k < 1)
    BY StartGroups DEF StartPhases
  <2> QED
    BY <1>1, <2>1 DEF Behind, At
<1> QED
  BY <1>1, <1>2, <1>3, <1>4
  DEF PhaseOf, Outcome, PauseDone, ResumeDone, Finished, At, AllIn, LatePhases, StartPhases

-----------------------------------------------------------------------------
(* The invariant. *)

\* A cluster that was just created has run no command.
LEMMA OutcomeInit == Init => OutcomeInv
<1> SUFFICES ASSUME Init PROVE OutcomeInv
  OBVIOUS
<1>1. ASSUME NEW p \in Procs PROVE cmd[p] = Idle
  BY DEF Init
<1>2. ASSUME NEW p \in Procs
      PROVE  cmd[p].op = "none" /\ cmd[p].pc = "idle" /\ cmd[p].alone = FALSE
  <2>1. Idle.op = "none" /\ Idle.pc = "idle" /\ Idle.alone = FALSE
    BY DEF Idle
  <2> QED
    BY <1>1, <2>1
<1>3. AloneInv
  BY <1>2 DEF AloneInv
<1>4. ASSUME NEW p \in Procs PROVE PhaseOf(p) /\ ~cmd[p].alone
  BY <1>2 DEF PhaseOf, At
<1> QED
  BY <1>3, <1>4, TypeInit DEF OutcomeInv

\* A command that begins is alone only if no other command runs, and takes it from
\* the others.
LEMMA OutcomeBegin ==
    ASSUME OutcomeInv, NEW p \in Procs, Begins(p)
    PROVE  (AloneInv /\ \A q \in Procs : PhaseOf(q) /\ (cmd[q].alone => Outcome(q)))'
<1>1. CmdType
  BY TypeParts DEF OutcomeInv, TypeInv
<1>2. PICK command : Begin(p, command) /\ command \in Commands
  BY CommandBegins, TypeParts DEF OutcomeInv, TypeInv, ClusterType, Begins
<1>3. cmd'[p] = [command EXCEPT !.alone = \A q \in Procs \ {p} : At(q, "idle")]
  BY <1>1, <1>2 DEF Begin, NotAlone, CmdType
<1>4. cmd'[p].alone => \A q \in Procs \ {p} : At(q, "idle")
  BY <1>2, <1>3 DEF Commands
<1>5. ASSUME NEW q \in Procs \ {p}
      PROVE  /\ ~cmd'[q].alone /\ cmd'[q].result = cmd[q].result
             /\ cmd'[q].op = cmd[q].op /\ cmd'[q].pc = cmd[q].pc
  <2>1. cmd'[q] = [cmd[q] EXCEPT !.alone = FALSE]
    BY <1>1, <1>2 DEF Begin, NotAlone, CmdType
  <2>2. cmd[q] \in Commands
    BY <1>1 DEF CmdType
  <2> QED
    BY <2>1, <2>2 DEF Commands
<1>6. AloneInv'
  BY <1>4, <1>5 DEF AloneInv, At
<1>7. PhaseOf(p)' /\ Outcome(p)'
  BY <1>1, PauseBegun, ResumeBegun DEF Begins
<1>8. ASSUME NEW q \in Procs \ {p} PROVE PhaseOf(q)'
  BY <1>5 DEF OutcomeInv, PhaseOf, At
<1> QED
  BY <1>5, <1>6, <1>7, <1>8

\* A command that goes on while it is alone is the only one that does; one that is
\* not promises nothing.
LEMMA OutcomeContinue ==
    ASSUME OutcomeInv, NEW p \in Procs, Pause(p) \/ Resume(p) \/ Kill(p), Continues(p)
    PROVE  (AloneInv /\ \A q \in Procs : PhaseOf(q) /\ (cmd[q].alone => Outcome(q)))'
<1>1. ClusterType /\ CmdType
  BY TypeParts DEF OutcomeInv, TypeInv
<1>2. ASSUME NEW q \in Procs \ {p} PROVE ~cmd[q].alone
  BY DEF OutcomeInv, AloneInv, Continues
<1>3. ASSUME NEW q \in Procs \ {p} PROVE ~cmd'[q].alone /\ PhaseOf(q)'
  BY <1>2 DEF Continues, OutcomeInv, PhaseOf, At
<1>4. AloneInv'
  BY <1>3 DEF OutcomeInv, AloneInv, Continues, At
<1>5. PhaseOf(p)'
  <2>1. CASE cmd[p].op = "pause"
    BY <1>1, <2>1, PausePhase DEF OutcomeInv, PhaseOf, Continues, At
  <2>2. CASE cmd[p].op = "resume"
    BY <1>1, <2>2, ResumePhase DEF OutcomeInv, PhaseOf, Continues, At
  <2>3. ~At(p, "idle")' => cmd'[p].result = "none"
    BY DEF OutcomeInv, PhaseOf, Continues
  <2> QED
    BY <2>1, <2>2, <2>3 DEF PhaseOf, Continues
<1>6. ASSUME cmd[p].alone PROVE Outcome(p)'
  <2>1. PauseDone(p) /\ ResumeDone(p) /\ PhaseOf(p)
    BY <1>6 DEF OutcomeInv, Outcome
  <2>2. PauseDone(p)'
    BY <1>1, <2>1, PauseStep DEF PauseDone, PhaseOf, Continues, At
  <2>3. ResumeDone(p)'
    BY <1>1, <2>1, ResumeStep DEF ResumeDone, PhaseOf, Continues, At
  <2> QED
    BY <2>2, <2>3 DEF Outcome
<1>7. cmd'[p].alone = cmd[p].alone
  BY DEF Continues
<1> QED
  BY <1>3, <1>4, <1>5, <1>6, <1>7

\* What happens beside the commands leaves the containers alone, or the commands
\* are not alone with it.
LEMMA OutcomeEnvironment ==
    ASSUME OutcomeInv, Environment
    PROVE  (AloneInv /\ \A q \in Procs : PhaseOf(q) /\ (cmd[q].alone => Outcome(q)))'
<1>1. CmdType
  BY TypeParts DEF OutcomeInv, TypeInv
<1>2. CASE UNCHANGED <<container, cmd>>
  BY <1>2 DEF OutcomeInv, AloneInv, PhaseOf, Outcome, PauseDone, ResumeDone, Finished, Behind,
     AllIn, At
<1>3. CASE cmd' = NotAlone(cmd)
  <2>1. ASSUME NEW q \in Procs
        PROVE  /\ ~cmd'[q].alone /\ cmd'[q].result = cmd[q].result
             /\ cmd'[q].op = cmd[q].op /\ cmd'[q].pc = cmd[q].pc
    <3>1. cmd'[q] = [cmd[q] EXCEPT !.alone = FALSE]
      BY <1>3 DEF NotAlone
    <3>2. cmd[q] \in Commands
      BY <1>1 DEF CmdType
    <3> QED
      BY <3>1, <3>2 DEF Commands
  <2> QED
    BY <2>1 DEF OutcomeInv, AloneInv, PhaseOf, At
<1> QED
  BY <1>2, <1>3 DEF Environment, EntrypointRuns, OtherJoins, OtherLeaves, ContainerDies

\* The invariant is inductive.
LEMMA OutcomeStep == OutcomeInv /\ [Next]_vars => OutcomeInv'
<1> SUFFICES ASSUME OutcomeInv, [Next]_vars PROVE OutcomeInv'
  OBVIOUS
<1>1. TypeInv'
  BY TypeStep DEF OutcomeInv
<1>2. ASSUME NEW p \in Procs, Pause(p) \/ Resume(p) \/ Kill(p) PROVE OutcomeInv'
  <2>1. CmdType
    BY TypeParts DEF OutcomeInv, TypeInv
  <2> QED
    BY <1>1, <1>2, <2>1, BeginsOrContinues, OutcomeBegin, OutcomeContinue DEF OutcomeInv
<1>3. CASE Environment
  BY <1>1, <1>3, OutcomeEnvironment DEF OutcomeInv
<1>4. CASE UNCHANGED vars
  BY <1>1, <1>4 DEF vars, OutcomeInv, AloneInv, PhaseOf, Outcome, PauseDone, ResumeDone, Finished,
     Behind, AllIn, At
<1> QED
  BY <1>2, <1>3, <1>4 DEF Next

\* What the invariant says of a command that has succeeded.
LEMMA SucceededOutcome ==
    ASSUME OutcomeInv, NEW p \in Procs, NEW op, Succeeded(p, op)
    PROVE  Outcome(p) /\ Finished(p)
BY DEF Succeeded, OutcomeInv, PhaseOf, Finished

\* A pause that reports success, without another process or a dying container
\* beside it, leaves no container running.
THEOREM PauseAlwaysStopsEverything == Spec => []PauseStopsEverything
<1>1. OutcomeInv => PauseStopsEverything
  BY SucceededOutcome DEF PauseStopsEverything, Outcome, PauseDone, Succeeded
<1> QED
  BY OutcomeInit, OutcomeStep, <1>1, PTL DEF Spec

\* A resume that reports success, undisturbed, leaves every container running: no
\* failed or cancelled start is lost on the way to the readiness gate.
THEOREM ResumeAlwaysStartsEverything == Spec => []ResumeStartsEverything
<1>1. OutcomeInv => ResumeStartsEverything
  BY SucceededOutcome DEF ResumeStartsEverything, Outcome, ResumeDone, Succeeded
<1> QED
  BY OutcomeInit, OutcomeStep, <1>1, PTL DEF Spec

=============================================================================
