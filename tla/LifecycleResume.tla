-------------------------- MODULE LifecycleResume --------------------------
(***************************************************************************)
(* Proofs about what an undisturbed resume keeps on its way and leaves     *)
(* behind: the order it works in, the routing, the peer addresses, and     *)
(* that an unpinned cluster can always be resumed.  They build on the      *)
(* invariants of LifecycleProofs.                                          *)
(***************************************************************************)
EXTENDS LifecycleProofs, FiniteSetTheorems

\* A running container that is connected has an address: that of its endpoint,
\* when the endpoint has one.  A stopped container has none.
AtEndpoint(n) ==
    /\ container[n] = "running" /\ attach[n] # Detached =>
          /\ ip[n] # NoIP
          /\ attach[n] # Dynamic => ip[n] = attach[n]
    /\ container[n] = "exited" => ip[n] = NoIP

RunsAtEndpoint == \A n \in Nodes : AtEndpoint(n)

\* Only the control planes of a cluster labelled ip-pinned are ever pinned.
OnlyLabelPins ==
    label # "ip-pinned" => /\ \A c \in CPSet : ipam[c] = NoIP
                           /\ \A n \in Nodes : attach[n] = Dynamic

\* The entrypoint of the load balancer has written its files when `start` returns.
EntrypointInTime == ~LateEntrypoint => ~booting

ClusterInv == RunsAtEndpoint /\ OnlyLabelPins /\ EntrypointInTime

\* An idle process may not have run a command yet; one that runs has an operation.
Operates(p) == ~At(p, "idle") => cmd[p].op # "none"

Ok(p) == At(p, "idle") /\ cmd[p].result = "ok"

BehindLB == {"pin", "connect", "startCP", "startWorker"} \cup LatePhases

\* Behind phase 1.25 the load balancer has its configuration, or an error is recorded.
Routed(p) ==
    /\ cmd[p].pc \in BehindLB /\ ~cmd[p].failed => lbConfig = "rendered"
    /\ Ok(p) => lbConfig = "rendered"

\* In phase 1.5 the control planes behind the position are pinned, but for the one
\* that is off the network just now; behind phase 1.5 all are.
Pinned(p) ==
    /\ cmd[p].pc \in {"pin", "connect"} =>
          /\ cmd[p].strategy = "ip-pinned"
          /\ \A c \in Behind(p, CPs) :
                attach[c] = ipam[c] \/ (At(p, "connect") /\ c = PinNode(p))
    /\ cmd[p].strategy = "ip-pinned" =>
          /\ cmd[p].pc \notin {"drift", "regen"}
          /\ cmd[p].pc \in {"startCP", "startWorker", "ready"} => \A c \in CPSet : attach[c] = ipam[c]

\* An HA resume gets to the readiness gate with certificates that name the addresses,
\* when it has not pinned them, and returns with success only so.
PeersNamed(p) ==
    HA => /\ At(p, "ready") /\ cmd[p].strategy # "ip-pinned" => \A c \in CPSet : ip[c] = cert[c]
          /\ Ok(p) => \A c \in CPSet : ip[c] = cert[c]

\* A resume of an unpinned cluster, none of whose own calls has failed.
Blameless(p) == cmd[p].opt # "ip-pin" /\ label # "ip-pinned" /\ cmd[p].faultless

\* It meets no error.
Recovers(p) ==
    Blameless(p) =>
        /\ cmd[p].strategy # "ip-pinned" /\ cmd[p].result # "err"
        /\ ~cmd[p].failed /\ ~cmd[p].cancelled

\* Every container of the cluster, and of the others, can have an address.
AddressesSuffice ==
    IsFiniteSet(Addresses) /\ Cardinality(Addresses) >= Cardinality(Nodes) + MaxOthers

Claims(p) ==
    /\ At(p, "lbConfig") => LBs # <<>>
    /\ ~LateEntrypoint /\ LBs # <<>> => Routed(p)
    /\ Pinned(p) /\ PeersNamed(p)
    /\ AddressesSuffice => Recovers(p)

\* The others take no more addresses than they may.
OthersBounded == IsFiniteSet(taken) /\ Cardinality(taken) <= MaxOthers

ResumeInv ==
    /\ OutcomeInv /\ PinnedAddressKept /\ ClusterInv /\ OthersBounded
    /\ \A p \in Procs : Operates(p) /\ (cmd[p].op = "resume" /\ cmd[p].alone => Claims(p))

-----------------------------------------------------------------------------
(* What the steps of a resume make of its record. *)

\* What only the beginning and the end of a command change.
Kept(p) ==
    /\ cmd'[p].op = cmd[p].op /\ cmd'[p].opt = cmd[p].opt /\ cmd'[p].alone = cmd[p].alone
    /\ cmd'[p].strategy = cmd[p].strategy /\ cmd'[p].result = cmd[p].result

\* A step without any error of its own.
Clean(p) ==
    /\ cmd'[p].failed = cmd[p].failed /\ cmd'[p].cancelled = cmd[p].cancelled
    /\ cmd'[p].faultless = cmd[p].faultless

\* A change of phase keeps everything but the phase and the position.
LEMMA GotoRecord ==
    ASSUME CmdType, NEW p \in Procs, NEW pc, Goto(p, pc)
    PROVE  Kept(p) /\ Clean(p) /\ cmd'[p].pc = pc /\ cmd'[p].i = 1
<1>1. cmd[p] \in Commands
  BY DEF CmdType
<1>2. cmd'[p] = [cmd[p] EXCEPT !.pc = pc, !.i = 1]
  BY DEF Goto, CmdType
<1> QED
  BY <1>1, <1>2 DEF Commands, Kept, Clean

\* A return forgets what the command was about to do.
LEMMA FinishRecord ==
    ASSUME CmdType, NEW p \in Procs, NEW r, NEW f, Finish(p, r, f)
    PROVE  /\ cmd'[p].pc = "idle" /\ cmd'[p].result = r /\ cmd'[p].opt = cmd[p].opt
           /\ cmd'[p].op = cmd[p].op /\ cmd'[p].alone = cmd[p].alone
           /\ cmd'[p].strategy = "" /\ ~cmd'[p].failed /\ ~cmd'[p].cancelled
           /\ cmd'[p].faultless = (cmd[p].faultless /\ ~f)
<1>1. cmd'[p] = [Idle EXCEPT !.op = cmd[p].op, !.opt = cmd[p].opt, !.result = r,
                   !.alone = cmd[p].alone, !.faultless = cmd[p].faultless /\ ~f]
  BY DEF Finish, CmdType
<1> QED
  BY <1>1 DEF Idle

\* The loop over a group goes on, with an error or without; only a refused start of
\* a stopped container is nobody's fault.
LEMMA StartRecord ==
    ASSUME CmdType, NEW p \in Procs
    PROVE  /\ StartNode(p) => /\ Kept(p) /\ Clean(p)
                              /\ cmd'[p].pc = cmd[p].pc /\ cmd'[p].i = cmd[p].i + 1
           /\ StartFails(p) =>
                 /\ Kept(p) /\ cmd'[p].pc = cmd[p].pc /\ cmd'[p].failed
                 /\ cmd'[p].faultless => cmd[p].faultless /\ container[NodeToStart(p)] = "exited"
                                                         /\ StartAddresses(NodeToStart(p)) = {}
           /\ StartCancelled(p) =>
                 /\ Kept(p) /\ cmd'[p].pc = cmd[p].pc /\ cmd'[p].failed
                 /\ cmd'[p].faultless = cmd[p].faultless /\ cmd[p].cancelled
<1>1. cmd[p] \in Commands
  BY DEF CmdType
<1>2. ASSUME StartNode(p)
      PROVE  Kept(p) /\ Clean(p) /\ cmd'[p].pc = cmd[p].pc /\ cmd'[p].i = cmd[p].i + 1
  <2>1. cmd'[p] = [cmd[p] EXCEPT !.i = cmd[p].i + 1]
    BY <1>2 DEF StartNode, Advance, CmdType
  <2> QED
    BY <1>1, <2>1 DEF Commands, Kept, Clean
<1>3. ASSUME StartFails(p)
      PROVE  /\ Kept(p) /\ cmd'[p].pc = cmd[p].pc /\ cmd'[p].failed
             /\ cmd'[p].faultless => cmd[p].faultless /\ container[NodeToStart(p)] = "exited"
                                                     /\ StartAddresses(NodeToStart(p)) = {}
  <2>1. PICK refused \in BOOLEAN :
          /\ refused => container[NodeToStart(p)] = "exited" /\ StartAddresses(NodeToStart(p)) = {}
          /\ cmd' = [cmd EXCEPT ![p].i = @ + 1, ![p].failed = TRUE, ![p].faultless = @ /\ refused]
    BY <1>3 DEF StartFails
  <2>2. cmd'[p] = [cmd[p] EXCEPT !.i = cmd[p].i + 1, !.failed = TRUE,
                                 !.faultless = cmd[p].faultless /\ refused]
    BY <2>1 DEF CmdType
  <2>3. cmd'[p].faultless = (cmd[p].faultless /\ refused)
    BY <1>1, <2>2 DEF Commands
  <2>4. Kept(p) /\ cmd'[p].pc = cmd[p].pc /\ cmd'[p].failed
    BY <1>1, <2>2 DEF Commands, Kept
  <2> QED
    BY <2>1, <2>3, <2>4
<1>4. ASSUME StartCancelled(p)
      PROVE  /\ Kept(p) /\ cmd'[p].pc = cmd[p].pc /\ cmd'[p].failed
             /\ cmd'[p].faultless = cmd[p].faultless
  <2>1. cmd'[p] = [cmd[p] EXCEPT !.i = Len(StartGroup(cmd[p].pc)) + 1, !.failed = TRUE]
    BY <1>4 DEF StartCancelled, CmdType
  <2> QED
    BY <1>1, <2>1 DEF Commands, Kept
<1> QED
  BY <1>2, <1>3, <1>4 DEF StartCancelled

\* The other steps that neither return nor change the phase by Goto.
LEMMA PhaseRecord ==
    ASSUME CmdType, NEW p \in Procs
    PROVE  /\ LBConfigFails(p) =>
                 \/ /\ Kept(p) /\ cmd'[p].pc = cmd[p].pc
                    /\ cmd'[p].failed = cmd[p].failed /\ cmd'[p].cancelled = cmd[p].cancelled
                    /\ cmd'[p].faultless => cmd[p].faultless
                 \/ \E f \in BOOLEAN : Finish(p, "err", f) /\ (f \/ container[LBs[1]] = "exited")
           /\ DisconnectCP(p) =>
                 Kept(p) /\ Clean(p) /\ cmd'[p].pc = "connect" /\ cmd'[p].i = cmd[p].i
           /\ ConnectCP(p) =>
                 Kept(p) /\ Clean(p) /\ cmd'[p].pc = "pin" /\ cmd'[p].i = cmd[p].i + 1
           /\ DetectDrift(p) =>
                 /\ Kept(p) /\ cmd'[p].pc \in {"regen", "ready"}
                 /\ cmd'[p].pc = "ready" => ~Drifted
                 /\ cmd'[p].failed = cmd[p].failed /\ cmd'[p].cancelled = cmd[p].cancelled
                 /\ cmd'[p].faultless => cmd[p].faultless
           /\ Cancel(p) =>
                 /\ Kept(p) /\ cmd'[p].pc = cmd[p].pc /\ cmd'[p].i = cmd[p].i
                 /\ cmd'[p].failed = cmd[p].failed /\ ~cmd'[p].faultless
<1>1. cmd[p] \in Commands
  BY DEF CmdType
<1>2. ASSUME LBConfigFails(p)
      PROVE  \/ /\ Kept(p) /\ cmd'[p].pc = cmd[p].pc
                /\ cmd'[p].failed = cmd[p].failed /\ cmd'[p].cancelled = cmd[p].cancelled
                /\ cmd'[p].faultless => cmd[p].faultless
             \/ \E f \in BOOLEAN : Finish(p, "err", f) /\ (f \/ container[LBs[1]] = "exited")
  <2>1. PICK f \in BOOLEAN :
          /\ f \/ container[LBs[1]] = "exited"
          /\ \/ cmd' = [cmd EXCEPT ![p].i = @ + 1, ![p].faultless = @ /\ ~f]
             \/ Finish(p, "err", f)
    BY <1>2 DEF LBConfigFails, Halt
  <2>2. CASE cmd' = [cmd EXCEPT ![p].i = @ + 1, ![p].faultless = @ /\ ~f]
    <3>1. cmd'[p] = [cmd[p] EXCEPT !.i = cmd[p].i + 1, !.faultless = cmd[p].faultless /\ ~f]
      BY <2>2 DEF CmdType
    <3>2. cmd'[p].faultless = (cmd[p].faultless /\ ~f)
      BY <1>1, <3>1 DEF Commands
    <3>3. /\ Kept(p) /\ cmd'[p].pc = cmd[p].pc
          /\ cmd'[p].failed = cmd[p].failed /\ cmd'[p].cancelled = cmd[p].cancelled
      BY <1>1, <3>1 DEF Commands, Kept
    <3> QED
      BY <3>2, <3>3
  <2> QED
    BY <2>1, <2>2
<1>3. ASSUME DisconnectCP(p)
      PROVE  Kept(p) /\ Clean(p) /\ cmd'[p].pc = "connect" /\ cmd'[p].i = cmd[p].i
  <2>1. cmd'[p] = [cmd[p] EXCEPT !.pc = "connect"]
    BY <1>3 DEF DisconnectCP, CmdType
  <2> QED
    BY <1>1, <2>1 DEF Commands, Kept, Clean
<1>4. ASSUME ConnectCP(p)
      PROVE  Kept(p) /\ Clean(p) /\ cmd'[p].pc = "pin" /\ cmd'[p].i = cmd[p].i + 1
  <2>1. cmd'[p] = [cmd[p] EXCEPT !.pc = "pin", !.i = cmd[p].i + 1]
    BY <1>4 DEF ConnectCP, CmdType
  <2> QED
    BY <1>1, <2>1 DEF Commands, Kept, Clean
<1>5. ASSUME DetectDrift(p)
      PROVE  /\ Kept(p) /\ cmd'[p].pc \in {"regen", "ready"}
             /\ cmd'[p].pc = "ready" => ~Drifted
             /\ cmd'[p].failed = cmd[p].failed /\ cmd'[p].cancelled = cmd[p].cancelled
             /\ cmd'[p].faultless => cmd[p].faultless
  <2>1. PICK error \in BOOLEAN :
          cmd' = [cmd EXCEPT ![p].pc = IF cmd[p].opt = "cert-regen" \/ Drifted \/ error
                                       THEN "regen" ELSE "ready",
                             ![p].faultless = @ /\ ~error]
    BY <1>5 DEF DetectDrift
  <2> DEFINE pc == IF cmd[p].opt = "cert-regen" \/ Drifted \/ error THEN "regen" ELSE "ready"
  <2>5. pc \in {"regen", "ready"} /\ (pc = "ready" => ~Drifted)
    OBVIOUS
  <2> HIDE DEF pc
  <2>2. cmd'[p] = [cmd[p] EXCEPT !.pc = pc, !.faultless = cmd[p].faultless /\ ~error]
    BY <2>1 DEF CmdType, pc
  <2>3. cmd'[p].faultless = (cmd[p].faultless /\ ~error)
    BY <1>1, <2>2 DEF Commands
  <2>4. /\ Kept(p) /\ cmd'[p].pc = pc
        /\ cmd'[p].failed = cmd[p].failed /\ cmd'[p].cancelled = cmd[p].cancelled
    BY <1>1, <2>2 DEF Commands, Kept
  <2> QED
    BY <2>3, <2>4, <2>5
<1>6. ASSUME Cancel(p)
      PROVE  /\ Kept(p) /\ cmd'[p].pc = cmd[p].pc /\ cmd'[p].i = cmd[p].i
             /\ cmd'[p].failed = cmd[p].failed /\ ~cmd'[p].faultless
  <2>1. cmd'[p] = [cmd[p] EXCEPT !.cancelled = TRUE, !.faultless = FALSE]
    BY <1>6 DEF Cancel, CmdType
  <2> QED
    BY <1>1, <2>1 DEF Commands, Kept
<1> QED
  BY <1>2, <1>3, <1>4, <1>5, <1>6

-----------------------------------------------------------------------------
(* The cluster beside the commands. *)

\* What a step does to the containers, their endpoints and their addresses.
LEMMA ClusterMoves ==
    ASSUME Next
    PROVE  \/ \E n \in Nodes : /\ StopContainer(n) \/ StartContainer(n)
                               /\ UNCHANGED <<taken, ipam, label, cert>>
           \/ \E p \in Procs : DisconnectCP(p) \/ ConnectCP(p)
           \/ UNCHANGED <<container, attach, ip, ipam, label>> /\ (booting' => booting)
<1> DEFINE Still == UNCHANGED <<container, attach, ip, ipam, label>> /\ (booting' => booting)
           Contained == \E n \in Nodes : /\ StopContainer(n) \/ StartContainer(n)
                                        /\ UNCHANGED <<taken, ipam, label, cert>>
<1>1. ASSUME NEW p \in Procs, Pause(p) PROVE Still \/ Contained
  <2>1. CASE StopNode(p) \/ StopFails(p)
    <3>1. UNCHANGED <<ipam, label, cert>> /\ cmd[p].i \in DOMAIN StopOrder
      BY <2>1 DEF StopNode, StopFails, Stopping
    <3>2. StopContainer(StopOrder[cmd[p].i]) \/ UNCHANGED <<container, net, lb>>
      BY <2>1 DEF StopNode, StopFails
    <3>3. StopContainer(StopOrder[cmd[p].i]) => taken' = taken
      BY DEF StopContainer
    <3> QED
      BY <3>1, <3>2, <3>3, StopNodeInNodes DEF net, lb
  <2>2. CASE PauseRefused(p) \/ PauseBegins(p) \/ PauseReturns(p)
    BY <2>2 DEF PauseRefused, PauseBegins, PauseReturns, net, lb
  <2> QED
    BY <1>1, <2>1, <2>2 DEF Pause
<1>2. ASSUME NEW p \in Procs, Resume(p) PROVE Still \/ Contained \/ DisconnectCP(p) \/ ConnectCP(p)
  <2>1. CASE StartNode(p)
    <3>1. StartContainer(NodeToStart(p)) => taken' = taken
      BY DEF StartContainer, net
    <3> QED
      BY <2>1, <3>1, StartNodeInNodes DEF StartNode
  <2>2. CASE ApplyLBConfig(p) \/ Regenerate(p) \/ RegenerateFails(p)
    BY <2>2 DEF ApplyLBConfig, Regenerate, RegenerateFails, net, lb
  <2>3. CASE \/ ResumeRefused(p) \/ ResumeBegins(p) \/ Cancel(p) \/ StartFails(p)
             \/ StartCancelled(p) \/ GroupStarted(p) \/ LBConfigFails(p) \/ LBFamilyUnknown(p)
             \/ DisconnectFails(p) \/ ConnectFails(p) \/ AllPinned(p) \/ DetectDrift(p)
             \/ NodesReady(p) \/ ReadyTimeout(p)
    <3>1. UNCHANGED <<container, net, ipam, label, lb, cert>>
      BY <2>3 DEF ResumeRefused, ResumeBegins, Cancel, StartFails, StartCancelled,
         GroupStarted, LBConfigFails, LBFamilyUnknown, DisconnectFails, ConnectFails,
         AllPinned, DetectDrift, NodesReady, ReadyTimeout
    <3> QED
      BY <3>1 DEF net, lb
  <2> QED
    BY <1>2, <2>1, <2>2, <2>3 DEF Resume
<1>3. ASSUME NEW p \in Procs, Kill(p) PROVE Still
  BY <1>3 DEF Kill, net, lb
<1>4. CASE Environment
  <2>1. CASE EntrypointRuns \/ OtherJoins \/ OtherLeaves
    BY <2>1 DEF EntrypointRuns, OtherJoins, OtherLeaves, net, lb
  <2>2. ASSUME NEW n \in Nodes, ContainerDies(n) PROVE Contained
    BY <2>2 DEF ContainerDies, StopContainer
  <2> QED
    BY <1>4, <2>1, <2>2 DEF Environment
<1> QED
  BY <1>1, <1>2, <1>3, <1>4 DEF Next

\* Every step leaves a container that runs and is connected at its endpoint's address.
LEMMA EndpointStep ==
    ASSUME ClusterType, PinTarget, NEW n \in Nodes, AtEndpoint(n), Next
    PROVE  AtEndpoint(n)'
<1>1. ASSUME NEW m \in Nodes, StopContainer(m) PROVE AtEndpoint(n)'
  BY <1>1 DEF StopContainer, AtEndpoint, ClusterType
<1>2. ASSUME NEW m \in Nodes, StartContainer(m) PROVE AtEndpoint(n)'
  <2>1. CASE UNCHANGED <<container, net>>
    BY <2>1 DEF AtEndpoint, net
  <2>2. CASE container[m] = "exited" /\ container' = [container EXCEPT ![m] = "running"]
             /\ attach' = attach /\ \E a \in StartAddresses(m) : ip' = [ip EXCEPT ![m] = a]
    <3>1. PICK a \in StartAddresses(m) : ip' = [ip EXCEPT ![m] = a]
      BY <2>2
    <3>2. CASE m = n
      <4>1. container'[n] = "running" /\ ip'[n] = a /\ attach'[n] = attach[n]
        BY <2>2, <3>1, <3>2 DEF ClusterType
      <4>2. attach[n] # Detached => a \in Addresses /\ (attach[n] # Dynamic => a = attach[n])
        BY <3>1, <3>2 DEF StartAddresses, Free
      <4> QED
        BY <4>1, <4>2, NetworkAssumption DEF AtEndpoint
    <3>3. CASE m # n
      BY <2>2, <3>1, <3>3 DEF AtEndpoint, ClusterType
    <3> QED
      BY <3>2, <3>3
  <2> QED
    BY <1>2, <2>1, <2>2 DEF StartContainer
<1>3. ASSUME NEW p \in Procs, DisconnectCP(p) PROVE AtEndpoint(n)'
  <2>1. PinNode(p) \in Nodes
    BY <1>3, CPNode DEF DisconnectCP, PinNode
  <2> QED
    BY <1>3, <2>1 DEF DisconnectCP, AtEndpoint, ClusterType
<1>4. ASSUME NEW p \in Procs, ConnectCP(p) PROVE AtEndpoint(n)'
  <2> DEFINE c == PinNode(p)
  <2>1. c \in CPSet /\ c \in Nodes /\ ipam[c] # NoIP
    BY <1>4, CPNode DEF ConnectCP, PinTarget, PinNode
  <2>2. /\ attach' = [attach EXCEPT ![c] = ipam[c]]
        /\ ip' = [ip EXCEPT ![c] = IF container[c] = "running" THEN ipam[c] ELSE NoIP]
        /\ container' = container
    BY <1>4 DEF ConnectCP
  <2> HIDE DEF c
  <2>3. CASE c = n
    BY <2>1, <2>2, <2>3 DEF AtEndpoint, ClusterType
  <2>4. CASE c # n
    BY <2>2, <2>4 DEF AtEndpoint, ClusterType
  <2> QED
    BY <2>3, <2>4
<1>5. CASE UNCHANGED <<container, attach, ip>>
  BY <1>5 DEF AtEndpoint
<1> QED
  BY <1>1, <1>2, <1>3, <1>4, <1>5, ClusterMoves

\* The cluster starts at its endpoints, with its entrypoint done.
LEMMA ClusterInit == Init => ClusterInv /\ OthersBounded
<1> SUFFICES ASSUME Init PROVE ClusterInv /\ OthersBounded
  OBVIOUS
<1>1. PICK pinned \in BOOLEAN :
        /\ pinned => label = "ip-pinned"
        /\ ipam = [c \in CPSet |-> IF pinned THEN ip[c] ELSE NoIP]
        /\ attach = [n \in Nodes |-> IF pinned /\ n \in CPSet THEN ip[n] ELSE Dynamic]
  BY DEF Init
<1>2. ASSUME NEW n \in Nodes PROVE AtEndpoint(n)
  <2>1. ip[n] \in Addresses /\ container[n] = "running"
    BY DEF Init
  <2> QED
    BY <1>1, <2>1, NetworkAssumption DEF AtEndpoint
<1>3. OnlyLabelPins
  BY <1>1 DEF OnlyLabelPins
<1>4. OthersBounded
  BY FS_EmptySet, NetworkAssumption DEF Init, OthersBounded
<1> QED
  BY <1>2, <1>3, <1>4 DEF ClusterInv, RunsAtEndpoint, EntrypointInTime, Init

\* Every step keeps it so.
LEMMA ClusterInvStep ==
    ASSUME ClusterType, PinTarget, ClusterInv, Next
    PROVE  ClusterInv'
<1>1. RunsAtEndpoint'
  BY EndpointStep DEF ClusterInv, RunsAtEndpoint
<1>2. UNCHANGED <<ipam, label>>
  BY IpamKept
<1>3. OnlyLabelPins'
  <2> SUFFICES ASSUME label # "ip-pinned" PROVE \A n \in Nodes : attach'[n] = Dynamic
    BY <1>2 DEF ClusterInv, OnlyLabelPins
  <2>1. \A c \in CPSet : ipam[c] = NoIP
    BY DEF ClusterInv, OnlyLabelPins
  <2>2. ASSUME NEW p \in Procs PROVE ~DisconnectCP(p) /\ ~ConnectCP(p)
    BY <2>1, CPNode DEF DisconnectCP, ConnectCP, PinTarget, PinNode
  <2>3. attach' = attach
    BY <2>2, ClusterMoves DEF StopContainer, StartContainer, net
  <2> QED
    BY <2>3 DEF ClusterInv, OnlyLabelPins
<1>4. EntrypointInTime'
  <2>1. ASSUME NEW n \in Nodes, StopContainer(n) \/ StartContainer(n), ~LateEntrypoint
        PROVE  booting' => booting
    BY <2>1 DEF StopContainer, StartContainer, lb
  <2>2. ASSUME NEW p \in Procs, DisconnectCP(p) \/ ConnectCP(p) PROVE booting' = booting
    BY <2>2 DEF DisconnectCP, ConnectCP, lb
  <2> QED
    BY <2>1, <2>2, ClusterMoves DEF ClusterInv, EntrypointInTime
<1> QED
  BY <1>1, <1>3, <1>4 DEF ClusterInv

\* The others join only up to their bound.
LEMMA OthersBoundedStep ==
    ASSUME OthersBounded, Next
    PROVE  OthersBounded'
<1>1. CASE taken' = taken
  BY <1>1 DEF OthersBounded
<1>2. CASE OtherJoins
  <2>1. PICK a : taken' = taken \cup {a}
    BY <1>2 DEF OtherJoins
  <2>2. /\ IsFiniteSet(taken') /\ Cardinality(taken') \in {Cardinality(taken), Cardinality(taken) + 1}
        /\ Cardinality(taken) \in Nat
    BY <2>1, FS_AddElement, FS_CardinalityType DEF OthersBounded
  <2> QED
    BY <1>2, <2>2, NetworkAssumption DEF OtherJoins, OthersBounded
<1>3. CASE OtherLeaves
  <2>1. PICK a \in taken : taken' = taken \ {a}
    BY <1>3 DEF OtherLeaves
  <2>2. /\ IsFiniteSet(taken') /\ Cardinality(taken') = Cardinality(taken) - 1
        /\ Cardinality(taken) \in Nat
    BY <2>1, FS_RemoveElement, FS_CardinalityType DEF OthersBounded
  <2> QED
    BY <2>2, NetworkAssumption DEF OthersBounded
<1>4. \/ taken' = taken \/ OtherJoins \/ OtherLeaves
  BY DEF Next, Pause, Resume, Kill, Environment, PauseRefused, PauseBegins, StopNode, StopFails,
     PauseReturns, StopContainer, StartContainer, ResumeRefused, ResumeBegins, Cancel, StartNode,
     StartFails, StartCancelled, GroupStarted, ApplyLBConfig, LBConfigFails, LBFamilyUnknown,
     DisconnectCP, DisconnectFails, ConnectCP, ConnectFails, AllPinned, DetectDrift, Regenerate,
     RegenerateFails, NodesReady, ReadyTimeout, EntrypointRuns, ContainerDies, net
<1> QED
  BY <1>1, <1>2, <1>3, <1>4

-----------------------------------------------------------------------------
(* A resume that ends. *)

\* The nodes of a sequence are finitely many.
LEMMA NodesOfFinite == ASSUME NEW S, NEW s \in Seq(S) PROVE IsFiniteSet(NodesOf(s))
<1>1. DOMAIN s = 1..Len(s) /\ Len(s) \in Nat
  OBVIOUS
<1>2. IsFiniteSet(DOMAIN s)
  BY <1>1, FS_Interval
<1> DEFINE f == [k \in DOMAIN s |-> s[k]]
<1>3. f \in Surjection(DOMAIN s, NodesOf(s))
  BY DEF Surjection, NodesOf
<1> QED
  BY <1>2, <1>3, FS_Surjection

\* While a container is stopped, an address is left to start it with.
LEMMA FreeAddress ==
    ASSUME ClusterType, RunsAtEndpoint, OthersBounded, AddressesSuffice,
           NEW n \in Nodes, container[n] = "exited"
    PROVE  Free # {}
<1> DEFINE rest == Nodes \ {n}
           used == {ip[m] : m \in rest}
           f == [m \in rest |-> ip[m]]
<1>1. IsFiniteSet(Nodes)
  <2>1. IsFiniteSet(CPSet) /\ IsFiniteSet(LBSet) /\ IsFiniteSet(NodesOf(Workers))
    BY NodesOfFinite, NodesAssumption DEF CPSet, LBSet
  <2> QED
    BY <2>1, FS_Union DEF Nodes
<1>2. IsFiniteSet(rest) /\ Cardinality(rest) = Cardinality(Nodes) - 1
  BY <1>1, FS_RemoveElement
<1>3. IsFiniteSet(used) /\ Cardinality(used) <= Cardinality(rest)
  <2>1. f \in Surjection(rest, used)
    BY DEF Surjection
  <2> HIDE DEF f, rest, used
  <2> QED
    BY <1>2, <2>1, FS_Surjection
<1>4. ip[n] = NoIP
  BY DEF RunsAtEndpoint, AtEndpoint
<1> SUFFICES ASSUME Free = {} PROVE FALSE
  OBVIOUS
<1>5. Addresses \subseteq taken \cup used
  BY <1>4, NetworkAssumption DEF Free
<1> HIDE DEF rest, used, f
<1>6. Cardinality(Addresses) <= Cardinality(taken \cup used)
  BY <1>3, <1>5, FS_Union, FS_Subset DEF OthersBounded
<1>7. Cardinality(taken \cup used) <= Cardinality(taken) + Cardinality(used)
  <2>1. IsFiniteSet(taken) /\ IsFiniteSet(used) /\ IsFiniteSet(taken \cap used)
    BY <1>3, FS_Subset DEF OthersBounded
  <2>2. /\ Cardinality(taken) \in Nat /\ Cardinality(used) \in Nat
        /\ Cardinality(taken \cap used) \in Nat
    BY <2>1, FS_CardinalityType
  <2>3. Cardinality(taken \cup used)
           = Cardinality(taken) + Cardinality(used) - Cardinality(taken \cap used)
    BY <2>1, FS_Union
  <2> QED
    BY <2>2, <2>3
<1>8. /\ Cardinality(Addresses) \in Nat /\ Cardinality(taken \cup used) \in Nat
      /\ Cardinality(taken) \in Nat /\ Cardinality(used) \in Nat
      /\ Cardinality(Nodes) \in Nat /\ Cardinality(rest) \in Nat /\ MaxOthers \in Nat
  BY <1>1, <1>2, <1>3, FS_Union, FS_CardinalityType, NetworkAssumption
  DEF OthersBounded, AddressesSuffice
<1> QED
  BY <1>2, <1>3, <1>6, <1>7, <1>8 DEF OthersBounded, AddressesSuffice

\* A resume that halts or is killed claims no more than that an error has a cause.
LEMMA ClaimsEnd ==
    ASSUME CmdType, NEW p \in Procs, NEW r \in {"err", "killed"}, NEW f \in BOOLEAN,
           Finish(p, r, f), label' = label,
           r = "err" /\ AddressesSuffice /\ Blameless(p) => f
    PROVE  Claims(p)'
<1>1. /\ cmd'[p].pc = "idle" /\ cmd'[p].result = r /\ cmd'[p].opt = cmd[p].opt
      /\ cmd'[p].strategy = "" /\ ~cmd'[p].failed /\ ~cmd'[p].cancelled
      /\ cmd'[p].faultless = (cmd[p].faultless /\ ~f)
  BY FinishRecord
<1>2. At(p, "lbConfig")' => LBs # <<>>
  BY <1>1 DEF At
<1>3. Routed(p)' /\ PeersNamed(p)'
  BY <1>1 DEF Routed, PeersNamed, Ok, At, BehindLB, LatePhases
<1>4. Pinned(p)'
  BY <1>1 DEF Pinned
<1>5. AddressesSuffice => Recovers(p)'
  BY <1>1 DEF Recovers, Blameless
<1> QED
  BY <1>2, <1>3, <1>4, <1>5 DEF Claims

\* The error of a blameless resume would have a cause: none is met.
LEMMA ErrorsHaveCauses ==
    ASSUME ClusterType, CmdType, NEW p \in Procs, ClusterInv, AddressesSuffice, Blameless(p),
           cmd[p].op = "resume", ~At(p, "idle"), ResumeDone(p), Claims(p)
    PROVE  /\ ~DisconnectFails(p) /\ ~ConnectFails(p)
           /\ At(p, "lbConfig") => container[LBs[1]] # "exited"
           /\ At(p, "regen") => \A c \in CPSet : CanRegenerate(c)
           /\ ~cmd[p].failed /\ ~cmd[p].cancelled
<1>1. cmd[p].strategy # "ip-pinned" /\ ~cmd[p].failed /\ ~cmd[p].cancelled
  BY DEF Claims, Recovers
<1>2. ~DisconnectFails(p) /\ ~ConnectFails(p)
  BY <1>1 DEF DisconnectFails, ConnectFails, Claims, Pinned, At
<1>3. ASSUME At(p, "lbConfig") PROVE container[LBs[1]] # "exited"
  <2>1. LBs # <<>>
    BY <1>3 DEF Claims
  <2>2. LBs[1] \in LBSet
    BY <2>1, NodesAssumption DEF LBSet, NodesOf
  <2>3. AllIn(LBSet, "running")
    BY <1>1, <1>3 DEF ResumeDone, At
  <2> QED
    BY <2>2, <2>3 DEF AllIn
<1>4. ASSUME At(p, "regen"), NEW c \in CPSet PROVE CanRegenerate(c)
  <2>1. container[c] = "running"
    BY <1>1, <1>4 DEF ResumeDone, At, LatePhases, AllIn
  <2>2. c \in Nodes /\ attach[c] = Dynamic
    BY DEF Blameless, ClusterInv, OnlyLabelPins, Nodes
  <2> QED
    BY <2>1, <2>2, NetworkAssumption DEF ClusterInv, RunsAtEndpoint, AtEndpoint, CanRegenerate
<1> QED
  BY <1>1, <1>2, <1>3, <1>4

\* The steps that end a resume without success keep its claims.
LEMMA HaltClaims ==
    ASSUME ClusterType, CmdType, NEW p \in Procs, ClusterInv, cmd[p].op = "resume",
           ~At(p, "idle"), ResumeDone(p), Claims(p),
           \/ LBFamilyUnknown(p) \/ DisconnectFails(p) \/ ConnectFails(p) \/ RegenerateFails(p)
           \/ ReadyTimeout(p) \/ Kill(p)
           \/ At(p, "lbConfig") /\ label' = label
                 /\ \E f \in BOOLEAN : Finish(p, "err", f) /\ (f \/ container[LBs[1]] = "exited")
           \/ cmd[p].failed /\ label' = label /\ Return(p, "err")
    PROVE  Claims(p)'
<1>1. label' = label
  BY DEF LBFamilyUnknown, DisconnectFails, ConnectFails, RegenerateFails, ReadyTimeout, Kill
<1>2. CASE LBFamilyUnknown(p) \/ ReadyTimeout(p)
  <2>1. Finish(p, "err", TRUE)
    BY <1>2 DEF LBFamilyUnknown, ReadyTimeout, Halt
  <2> QED
    BY <1>1, <2>1, ClaimsEnd
<1>3. CASE Kill(p)
  <2>1. Finish(p, "killed", FALSE)
    BY <1>3 DEF Kill, Return
  <2> QED
    BY <1>1, <2>1, ClaimsEnd
<1>4. CASE DisconnectFails(p) \/ ConnectFails(p)
  <2>1. PICK f \in BOOLEAN : Finish(p, "err", f)
    BY <1>4 DEF DisconnectFails, ConnectFails, Halt
  <2> QED
    BY <1>1, <1>4, <2>1, ClaimsEnd, ErrorsHaveCauses
<1>5. CASE RegenerateFails(p)
  <2>1. PICK f \in BOOLEAN : Finish(p, "err", f) /\ (f \/ \E c \in CPSet : ~CanRegenerate(c))
    BY <1>5 DEF RegenerateFails, Halt
  <2>2. At(p, "regen")
    BY <1>5 DEF RegenerateFails
  <2> QED
    BY <1>1, <2>1, <2>2, ClaimsEnd, ErrorsHaveCauses
<1>6. CASE At(p, "lbConfig") /\
             \E f \in BOOLEAN : Finish(p, "err", f) /\ (f \/ container[LBs[1]] = "exited")
  BY <1>1, <1>6, ClaimsEnd, ErrorsHaveCauses
<1>7. CASE cmd[p].failed /\ Return(p, "err")
  BY <1>1, <1>7, ClaimsEnd, ErrorsHaveCauses DEF Return
<1> QED
  BY <1>2, <1>3, <1>4, <1>5, <1>6, <1>7

-----------------------------------------------------------------------------
(* A resume that goes on. *)

\* What the loops over the groups change: a group's start touches the load balancer
\* only in phase 1, and the end of a group leads to the next phase.
LEMMA GroupMoves ==
    ASSUME CmdType, NEW p \in Procs
    PROVE  /\ StartNode(p) /\ ~At(p, "startLB") => lbConfig' = lbConfig
           /\ StartNode(p) => UNCHANGED <<attach, ipam, label, cert>>
           /\ GroupStarted(p) =>
                \/ cmd[p].failed /\ Return(p, "err")
                \/ /\ Kept(p) /\ Clean(p) /\ cmd'[p].i = 1
                   /\ \/ /\ At(p, "startLB") /\ LBs # <<>> /\ ~cmd[p].failed
                         /\ cmd'[p].pc = "lbConfig"
                      \/ /\ At(p, "startLB") /\ (LBs = <<>> \/ cmd[p].failed)
                         /\ cmd'[p].pc = AfterLB(p)
                      \/ At(p, "startCP") /\ cmd'[p].pc = "startWorker"
                      \/ /\ At(p, "startWorker") /\ ~cmd[p].failed
                         /\ \/ /\ cmd[p].strategy \in {"cert-regen", ""} /\ HA
                               /\ cmd'[p].pc = "drift"
                            \/ /\ cmd[p].strategy = "ip-pinned" \/ ~HA
                               /\ cmd'[p].pc = "ready"
<1>1. ASSUME StartNode(p) PROVE UNCHANGED <<attach, ipam, label, cert>>
  BY <1>1 DEF StartNode, StartContainer, net
<1>2. ASSUME StartNode(p), ~At(p, "startLB") PROVE lbConfig' = lbConfig
  <2>1. NodeToStart(p) \notin LBSet
    <3>1. CASE At(p, "startCP")
      BY <1>2, <3>1, NodesAssumption DEF StartNode, Starting, NodeToStart, StartGroup, At, CPSet, NodesOf
    <3>2. CASE At(p, "startWorker")
      BY <1>2, <3>2, NodesAssumption DEF StartNode, Starting, NodeToStart, StartGroup, At, NodesOf
    <3> QED
      BY <1>2, <3>1, <3>2 DEF StartNode, Starting, At
  <2> QED
    BY <1>2, <2>1 DEF StartNode, StartContainer, lb
<1>3. ASSUME GroupStarted(p), At(p, "startLB")
      PROVE  /\ Kept(p) /\ Clean(p) /\ cmd'[p].i = 1
             /\ \/ LBs # <<>> /\ ~cmd[p].failed /\ cmd'[p].pc = "lbConfig"
                \/ (LBs = <<>> \/ cmd[p].failed) /\ cmd'[p].pc = AfterLB(p)
  <2>1. Goto(p, IF LBs # <<>> /\ ~cmd[p].failed THEN "lbConfig" ELSE AfterLB(p))
    BY <1>3 DEF GroupStarted, At
  <2> QED
    BY <2>1, GotoRecord
<1>4. ASSUME GroupStarted(p), At(p, "startCP")
      PROVE  Kept(p) /\ Clean(p) /\ cmd'[p].i = 1 /\ cmd'[p].pc = "startWorker"
  <2>1. Goto(p, "startWorker")
    BY <1>4 DEF GroupStarted, At
  <2> QED
    BY <2>1, GotoRecord
<1>5. ASSUME GroupStarted(p), At(p, "startWorker")
      PROVE  \/ cmd[p].failed /\ Return(p, "err")
             \/ /\ Kept(p) /\ Clean(p) /\ cmd'[p].i = 1 /\ ~cmd[p].failed
                /\ \/ /\ cmd[p].strategy \in {"cert-regen", ""} /\ HA
                      /\ cmd'[p].pc = "drift"
                   \/ /\ cmd[p].strategy = "ip-pinned" \/ ~HA
                      /\ cmd'[p].pc = "ready"
  <2>1. AfterWorkers(p)
    BY <1>5 DEF GroupStarted, At
  <2>2. cmd[p].strategy \in {"ip-pinned", "cert-regen", ""}
    BY DEF CmdType, Commands
  <2>3. CASE cmd[p].failed
    BY <2>1, <2>3 DEF AfterWorkers
  <2>4. CASE ~cmd[p].failed /\ cmd[p].strategy \in {"cert-regen", ""} /\ HA
    <3>1. Goto(p, "drift")
      BY <2>1, <2>4 DEF AfterWorkers
    <3> QED
      BY <2>4, <3>1, GotoRecord
  <2>5. CASE ~cmd[p].failed /\ ~(cmd[p].strategy \in {"cert-regen", ""} /\ HA)
    <3>1. Goto(p, "ready")
      BY <2>1, <2>5 DEF AfterWorkers
    <3> QED
      BY <2>2, <2>5, <3>1, GotoRecord
  <2> QED
    BY <2>3, <2>4, <2>5
<1>6. GroupStarted(p) => At(p, "startLB") \/ At(p, "startCP") \/ At(p, "startWorker")
  BY DEF GroupStarted, At
<1> QED
  BY <1>1, <1>2, <1>3, <1>4, <1>5, <1>6

\* The steps with which a resume goes to another phase by itself.
LEMMA GotoMoves ==
    ASSUME CmdType, NEW p \in Procs
    PROVE  /\ ApplyLBConfig(p) => Kept(p) /\ Clean(p) /\ cmd'[p].pc = AfterLB(p) /\ cmd'[p].i = 1
           /\ AllPinned(p) => Kept(p) /\ Clean(p) /\ cmd'[p].pc = "startCP" /\ cmd'[p].i = 1
           /\ Regenerate(p) => Kept(p) /\ Clean(p) /\ cmd'[p].pc = "ready" /\ cmd'[p].i = 1
BY GotoRecord DEF ApplyLBConfig, AllPinned, Regenerate

\* A step after which the resume still runs.
GoesOn(p) ==
    /\ ~At(p, "idle")'
    /\ \/ StartNode(p) \/ StartFails(p) \/ StartCancelled(p) \/ GroupStarted(p)
       \/ ApplyLBConfig(p) \/ LBConfigFails(p) \/ DisconnectCP(p) \/ ConnectCP(p)
       \/ AllPinned(p) \/ DetectDrift(p) \/ Regenerate(p) \/ Cancel(p)

\* It only leaves the load balancer's phase with a configuration or an error.
LEMMA RoutedStep ==
    ASSUME CmdType, NEW p \in Procs, LBs # <<>>, ~At(p, "idle"), Routed(p), GoesOn(p)
    PROVE  Routed(p)'
<1>1. ASSUME lbConfig' = lbConfig, ~cmd'[p].failed => ~cmd[p].failed,
             cmd'[p].pc \in BehindLB => cmd[p].pc \in BehindLB \/ cmd'[p].failed
      PROVE  Routed(p)'
  BY <1>1 DEF Routed, Ok, GoesOn
<1>2. CASE StartNode(p)
  <2>1. cmd'[p].pc = cmd[p].pc /\ cmd'[p].failed = cmd[p].failed
    BY <1>2, StartRecord DEF Clean
  <2>2. CASE At(p, "startLB")
    BY <2>1, <2>2 DEF Routed, Ok, At, BehindLB, LatePhases
  <2>3. CASE ~At(p, "startLB")
    BY <1>1, <1>2, <2>1, <2>3, GroupMoves
  <2> QED
    BY <2>2, <2>3
<1>3. CASE StartFails(p) \/ StartCancelled(p)
  <2>1. cmd'[p].failed
    BY <1>3, StartRecord
  <2> QED
    BY <2>1 DEF Routed, Ok, GoesOn
<1>4. CASE GroupStarted(p)
  <2>1. lbConfig' = lbConfig
    BY <1>4 DEF GroupStarted, lb
  <2>2. ~Return(p, "err")
    BY FinishRecord DEF Return, GoesOn, At
  <2>3. cmd'[p].failed = cmd[p].failed
    BY <1>4, <2>2, GroupMoves DEF Clean
  <2>4. CASE At(p, "startLB")
    <3>1. cmd'[p].pc = "lbConfig" \/ cmd[p].failed
      BY <1>4, <2>2, <2>4, GroupMoves DEF At
    <3> QED
      BY <1>1, <2>1, <2>3, <3>1 DEF BehindLB, LatePhases
  <2>5. CASE ~At(p, "startLB")
    <3>1. cmd[p].pc \in BehindLB
      BY <1>4, <2>5 DEF GroupStarted, At, BehindLB
    <3> QED
      BY <1>1, <2>1, <2>3, <3>1
  <2> QED
    BY <2>4, <2>5
<1>5. CASE ApplyLBConfig(p)
  BY <1>5 DEF ApplyLBConfig, Routed
<1>6. CASE LBConfigFails(p)
  <2>1. lbConfig' = lbConfig /\ At(p, "lbConfig")
    BY <1>6 DEF LBConfigFails, lb
  <2>2. cmd'[p].pc = cmd[p].pc
    BY <1>6, PhaseRecord, FinishRecord DEF GoesOn, At
  <2> QED
    BY <2>1, <2>2 DEF Routed, Ok, At, BehindLB, LatePhases
<1>7. CASE DisconnectCP(p) \/ ConnectCP(p) \/ DetectDrift(p)
  <2>1. lbConfig' = lbConfig /\ cmd[p].pc \in BehindLB
    BY <1>7 DEF DisconnectCP, ConnectCP, DetectDrift, At, BehindLB, LatePhases, lb
  <2>2. cmd'[p].failed = cmd[p].failed
    BY <1>7, PhaseRecord DEF Clean
  <2> QED
    BY <1>1, <2>1, <2>2
<1>8. CASE AllPinned(p) \/ Regenerate(p)
  <2>1. lbConfig' = lbConfig /\ cmd[p].pc \in BehindLB
    BY <1>8 DEF AllPinned, Regenerate, At, BehindLB, LatePhases, lb
  <2>2. cmd'[p].failed = cmd[p].failed
    BY <1>8, GotoMoves DEF Clean
  <2> QED
    BY <1>1, <2>1, <2>2
<1>9. CASE Cancel(p)
  <2>1. lbConfig' = lbConfig
    BY <1>9 DEF Cancel, lb
  <2> QED
    BY <1>1, <1>9, <2>1, PhaseRecord
<1> QED
  BY <1>2, <1>3, <1>4, <1>5, <1>6, <1>7, <1>8, <1>9 DEF GoesOn

\* The position of a command, and those of the control planes, are numbers.
LEMMA PositionTypes ==
    ASSUME CmdType, NEW p \in Procs
    PROVE  cmd[p].i \in Nat /\ DOMAIN CPs = 1..Len(CPs) /\ Len(CPs) \in Nat
                            /\ DOMAIN CPs \subseteq Nat
<1>1. cmd[p] \in Commands
  BY DEF CmdType
<1>2. DOMAIN CPs = 1..Len(CPs) /\ Len(CPs) \in Nat
  BY NodesAssumption
<1>3. cmd[p].i \in Nat
  BY <1>1 DEF Commands
<1> QED
  BY <1>2, <1>3

\* It pins one control plane after the other, and goes on when all are.
LEMMA PinnedStep ==
    ASSUME ClusterType, CmdType, PinTarget, NEW p \in Procs, ~At(p, "idle"), Pinned(p), GoesOn(p)
    PROVE  Pinned(p)'
<1>1. ASSUME attach' = attach, ipam' = ipam, cmd'[p].strategy = cmd[p].strategy,
             cmd'[p].pc = cmd[p].pc, cmd'[p].i = cmd[p].i \/ cmd[p].pc \notin {"pin", "connect"}
      PROVE  Pinned(p)'
  BY <1>1 DEF Pinned, Behind, PinNode, At
<1>2. ASSUME attach' = attach, ipam' = ipam, cmd'[p].strategy = cmd[p].strategy,
             cmd'[p].pc \notin {"pin", "connect"},
             cmd[p].strategy = "ip-pinned" =>
                /\ cmd'[p].pc \notin {"drift", "regen"}
                /\ cmd'[p].pc \in {"startCP", "startWorker", "ready"} =>
                      cmd[p].pc \in {"startCP", "startWorker", "ready"}
      PROVE  Pinned(p)'
  BY <1>2 DEF Pinned
<1>3. ASSUME attach' = attach, ipam' = ipam, cmd'[p].strategy = cmd[p].strategy,
             cmd'[p].pc = AfterLB(p), cmd'[p].i = 1
      PROVE  Pinned(p)'
  <2>1. CASE cmd[p].strategy = "ip-pinned"
    <3>1. \A k \in DOMAIN CPs : ~(k < 1)
      BY NodesAssumption
    <3>2. Behind(p, CPs)' = {}
      BY <1>3, <3>1 DEF Behind
    <3> QED
      BY <1>3, <2>1, <3>2 DEF Pinned, AfterLB
  <2>2. CASE cmd[p].strategy # "ip-pinned"
    BY <1>3, <2>2 DEF Pinned, AfterLB
  <2> QED
    BY <2>1, <2>2
<1>4. CASE StartNode(p) \/ StartFails(p) \/ StartCancelled(p)
  <2>1. attach' = attach /\ ipam' = ipam
    BY <1>4, GroupMoves DEF StartFails, StartCancelled, net
  <2>2. cmd'[p].pc = cmd[p].pc /\ cmd'[p].strategy = cmd[p].strategy
    BY <1>4, StartRecord DEF Kept
  <2>3. cmd[p].pc \notin {"pin", "connect"}
    BY <1>4 DEF StartNode, StartFails, StartCancelled, Starting
  <2> QED
    BY <1>1, <2>1, <2>2, <2>3
<1>5. CASE GroupStarted(p)
  <2>1. attach' = attach /\ ipam' = ipam
    BY <1>5 DEF GroupStarted, net
  <2>2. ~Return(p, "err")
    BY FinishRecord DEF Return, GoesOn, At
  <2>3. cmd'[p].strategy = cmd[p].strategy /\ cmd'[p].i = 1
    BY <1>5, <2>2, GroupMoves DEF Kept
  <2>4. CASE cmd'[p].pc = AfterLB(p)
    BY <1>3, <2>1, <2>3, <2>4
  <2>5. CASE cmd'[p].pc # AfterLB(p)
    BY <1>2, <1>5, <2>1, <2>2, <2>3, <2>5, GroupMoves DEF At
  <2> QED
    BY <2>4, <2>5
<1>6. CASE ApplyLBConfig(p)
  BY <1>3, <1>6, GotoMoves DEF ApplyLBConfig, net, Kept
<1>7. CASE LBConfigFails(p)
  <2>1. attach' = attach /\ ipam' = ipam /\ At(p, "lbConfig")
    BY <1>7 DEF LBConfigFails, net
  <2>2. cmd'[p].pc = cmd[p].pc /\ cmd'[p].strategy = cmd[p].strategy
    BY <1>7, PhaseRecord, FinishRecord DEF GoesOn, At, Kept
  <2> QED
    BY <1>1, <2>1, <2>2 DEF At
<1>8. CASE DisconnectCP(p)
  <2>1. /\ attach' = [attach EXCEPT ![PinNode(p)] = Detached] /\ ipam' = ipam /\ At(p, "pin")
    BY <1>8 DEF DisconnectCP
  <2>2. /\ cmd'[p].pc = "connect" /\ cmd'[p].i = cmd[p].i
        /\ cmd'[p].strategy = cmd[p].strategy
    BY <1>8, PhaseRecord DEF Kept
  <2>3. PinNode(p)' = PinNode(p) /\ Behind(p, CPs)' = Behind(p, CPs)
    BY <2>2 DEF PinNode, Behind
  <2>4. \A c \in Behind(p, CPs) : attach[c] = ipam[c] /\ c \in Nodes
    BY <2>1, CPNode DEF Pinned, At, Behind
  <2>5. \A c \in Behind(p, CPs) : attach'[c] = ipam[c] \/ c = PinNode(p)
    BY <2>1, <2>4 DEF ClusterType
  <2> QED
    BY <2>1, <2>2, <2>3, <2>5 DEF Pinned, At
<1>9. CASE ConnectCP(p)
  <2>1. /\ attach' = [attach EXCEPT ![PinNode(p)] = ipam[PinNode(p)]] /\ ipam' = ipam
        /\ At(p, "connect")
    BY <1>9 DEF ConnectCP
  <2>2. /\ cmd'[p].pc = "pin" /\ cmd'[p].i = cmd[p].i + 1
        /\ cmd'[p].strategy = cmd[p].strategy
    BY <1>9, PhaseRecord DEF Kept
  <2>3. cmd[p].i \in Nat /\ DOMAIN CPs \subseteq Nat
    BY PositionTypes
  <2>4. ASSUME NEW k \in DOMAIN CPs, k < cmd[p].i + 1 PROVE attach'[CPs[k]] = ipam[CPs[k]]
    <3>1. CPs[k] \in Nodes
      BY CPNode
    <3>2. CASE CPs[k] = PinNode(p)
      BY <2>1, <3>1, <3>2 DEF ClusterType
    <3>3. CASE CPs[k] # PinNode(p)
      <4>1. k # cmd[p].i /\ k < cmd[p].i
        BY <2>3, <2>4, <3>3 DEF PinNode
      <4>2. attach[CPs[k]] = ipam[CPs[k]]
        BY <2>1, <3>3, <4>1 DEF Pinned, Behind, At
      <4> QED
        BY <2>1, <3>1, <3>3, <4>2 DEF ClusterType
    <3> QED
      BY <3>2, <3>3
  <2> QED
    BY <2>1, <2>2, <2>4 DEF Pinned, Behind, At
<1>10. CASE AllPinned(p)
  <2>1. attach' = attach /\ ipam' = ipam /\ At(p, "pin") /\ cmd[p].i > Len(CPs)
    BY <1>10 DEF AllPinned, net
  <2>2. cmd'[p].pc = "startCP" /\ cmd'[p].strategy = cmd[p].strategy
    BY <1>10, GotoMoves DEF Kept
  <2>3. \A k \in DOMAIN CPs : k < cmd[p].i
    BY <2>1, PositionTypes
  <2>4. \A c \in CPSet : attach[c] = ipam[c]
    BY <2>1, <2>3 DEF Pinned, Behind, At, CPSet, NodesOf
  <2> QED
    BY <2>1, <2>2, <2>4 DEF Pinned
<1>11. CASE DetectDrift(p)
  <2>1. attach' = attach /\ ipam' = ipam /\ At(p, "drift")
    BY <1>11 DEF DetectDrift, net
  <2>2. cmd'[p].pc \in {"regen", "ready"} /\ cmd'[p].strategy = cmd[p].strategy
    BY <1>11, PhaseRecord DEF Kept
  <2> QED
    BY <1>2, <2>1, <2>2 DEF Pinned, At
<1>12. CASE Regenerate(p)
  <2>1. attach' = attach /\ ipam' = ipam /\ At(p, "regen")
    BY <1>12 DEF Regenerate, net
  <2>2. cmd'[p].pc = "ready" /\ cmd'[p].strategy = cmd[p].strategy
    BY <1>12, GotoMoves DEF Kept
  <2> QED
    BY <1>2, <2>1, <2>2 DEF Pinned, At
<1>13. CASE Cancel(p)
  BY <1>1, <1>13, PhaseRecord DEF Cancel, net, Kept
<1> QED
  BY <1>4, <1>5, <1>6, <1>7, <1>8, <1>9, <1>10, <1>11, <1>12, <1>13 DEF GoesOn

\* It gets to the readiness gate with pinned addresses, or with certificates that
\* name the addresses.
LEMMA PeersStep ==
    ASSUME CmdType, NEW p \in Procs, ~At(p, "idle"), PinnedAddressKept, PeersNamed(p), GoesOn(p)
    PROVE  PeersNamed(p)'
<1>1. ASSUME cmd'[p].pc # "ready" PROVE PeersNamed(p)'
  BY <1>1 DEF PeersNamed, Ok, GoesOn, At
<1>2. CASE StartNode(p) \/ StartFails(p) \/ StartCancelled(p)
  BY <1>1, <1>2, StartRecord DEF StartNode, StartFails, StartCancelled, Starting
<1>3. CASE GroupStarted(p)
  <2>1. ~Return(p, "err")
    BY FinishRecord DEF Return, GoesOn, At
  <2>2. AfterLB(p) # "ready"
    BY DEF AfterLB
  <2>3. CASE cmd'[p].pc = "ready"
    <3>1. cmd'[p].strategy = "ip-pinned" \/ ~HA
      BY <1>3, <2>1, <2>2, <2>3, GroupMoves DEF Kept
    <3> QED
      BY <3>1 DEF PeersNamed, Ok, GoesOn
  <2> QED
    BY <1>1, <2>3
<1>4. CASE ApplyLBConfig(p) \/ AllPinned(p)
  BY <1>1, <1>4, GotoMoves DEF AfterLB
<1>5. CASE LBConfigFails(p)
  <2>1. cmd'[p].pc = "lbConfig"
    BY <1>5, PhaseRecord, FinishRecord DEF LBConfigFails, GoesOn, At
  <2> QED
    BY <1>1, <2>1
<1>6. CASE DisconnectCP(p) \/ ConnectCP(p)
  BY <1>1, <1>6, PhaseRecord
<1>7. CASE DetectDrift(p)
  <2>1. ip' = ip /\ cert' = cert
    BY <1>7 DEF DetectDrift, net
  <2>2. ASSUME cmd'[p].pc = "ready", NEW c \in CPSet PROVE ip[c] = cert[c]
    <3>1. ipam[c] # NoIP /\ ip[c] = ipam[c]
      BY <1>7, <2>2, PhaseRecord DEF Drifted
    <3> QED
      BY <3>1 DEF PinnedAddressKept
  <2> QED
    BY <2>1, <2>2 DEF PeersNamed, Ok, GoesOn, At
<1>8. CASE Regenerate(p)
  <2>1. ip' = ip /\ cert' = [c \in CPSet |-> ip[c]]
    BY <1>8 DEF Regenerate, net
  <2> QED
    BY <2>1 DEF PeersNamed, Ok, GoesOn
<1>9. CASE Cancel(p)
  <2>1. ip' = ip /\ cert' = cert
    BY <1>9 DEF Cancel, net
  <2>2. cmd'[p].pc = cmd[p].pc /\ cmd'[p].strategy = cmd[p].strategy
    BY <1>9, PhaseRecord DEF Kept
  <2> QED
    BY <2>1, <2>2 DEF PeersNamed, Ok, GoesOn, At
<1> QED
  BY <1>2, <1>3, <1>4, <1>5, <1>6, <1>7, <1>8, <1>9 DEF GoesOn

\* A resume of an unpinned cluster is refused no start: an address is left.
LEMMA RecoversStep ==
    ASSUME ClusterType, CmdType, NEW p \in Procs, ClusterInv, OthersBounded, AddressesSuffice,
           ~At(p, "idle"), cmd[p].result # "err", Recovers(p), GoesOn(p)
    PROVE  Recovers(p)'
<1>1. ASSUME label' = label, Kept(p), cmd'[p].failed = cmd[p].failed,
             cmd'[p].cancelled = cmd[p].cancelled, cmd'[p].faultless => cmd[p].faultless
      PROVE  Recovers(p)'
  BY <1>1 DEF Recovers, Blameless, Kept
<1>2. CASE StartNode(p)
  BY <1>1, <1>2, StartRecord, GroupMoves DEF Clean
<1>3. CASE StartFails(p)
  <2> SUFFICES ASSUME Blameless(p)' PROVE FALSE
    BY DEF Recovers
  <2>1. label' = label
    BY <1>3 DEF StartFails
  <2>2. /\ NodeToStart(p) \in Nodes /\ container[NodeToStart(p)] = "exited"
        /\ StartAddresses(NodeToStart(p)) = {}
    BY <1>3, StartRecord, StartNodeInNodes DEF Blameless, StartFails
  <2>3. attach[NodeToStart(p)] = Dynamic
    BY <2>1, <2>2 DEF Blameless, ClusterInv, OnlyLabelPins
  <2>4. Free = {}
    BY <2>2, <2>3, NetworkAssumption DEF StartAddresses
  <2> QED
    BY <2>2, <2>4, FreeAddress DEF ClusterInv
<1>4. CASE StartCancelled(p)
  <2>1. label' = label /\ cmd[p].cancelled
    BY <1>4 DEF StartCancelled
  <2> QED
    BY <1>4, <2>1, StartRecord DEF Recovers, Blameless, Kept
<1>5. CASE GroupStarted(p)
  <2>1. ~Return(p, "err")
    BY FinishRecord DEF Return, GoesOn, At
  <2>2. label' = label
    BY <1>5 DEF GroupStarted
  <2> QED
    BY <1>1, <1>5, <2>1, <2>2, GroupMoves DEF Clean
<1>6. CASE ApplyLBConfig(p) \/ AllPinned(p) \/ Regenerate(p)
  <2>1. label' = label
    BY <1>6 DEF ApplyLBConfig, AllPinned, Regenerate
  <2> QED
    BY <1>1, <1>6, <2>1, GotoMoves DEF Clean
<1>7. CASE LBConfigFails(p)
  <2>1. label' = label
    BY <1>7 DEF LBConfigFails
  <2>2. \A f : ~Finish(p, "err", f)
    BY FinishRecord DEF GoesOn, At
  <2> QED
    BY <1>1, <1>7, <2>1, <2>2, PhaseRecord
<1>8. CASE DisconnectCP(p) \/ ConnectCP(p) \/ DetectDrift(p)
  <2>1. label' = label
    BY <1>8 DEF DisconnectCP, ConnectCP, DetectDrift
  <2> QED
    BY <1>1, <1>8, <2>1, PhaseRecord DEF Clean
<1>9. CASE Cancel(p)
  BY <1>9, PhaseRecord DEF Recovers, Blameless
<1> QED
  BY <1>2, <1>3, <1>4, <1>5, <1>6, <1>7, <1>8, <1>9 DEF GoesOn

\* The phase of the load balancer's configuration is one of clusters that have one.
LEMMA LBPhaseStep ==
    ASSUME CmdType, NEW p \in Procs, At(p, "lbConfig") => LBs # <<>>, GoesOn(p), At(p, "lbConfig")'
    PROVE  LBs # <<>>
<1>1. CASE StartNode(p) \/ StartFails(p) \/ StartCancelled(p) \/ Cancel(p)
  BY <1>1, StartRecord, PhaseRecord DEF At
<1>2. CASE GroupStarted(p)
  <2>1. ~Return(p, "err")
    BY FinishRecord DEF Return, GoesOn, At
  <2> QED
    BY <1>2, <2>1, GroupMoves DEF At, AfterLB
<1>3. CASE ApplyLBConfig(p) \/ AllPinned(p) \/ Regenerate(p)
  BY <1>3, GotoMoves DEF At, AfterLB
<1>4. CASE LBConfigFails(p)
  BY <1>4 DEF LBConfigFails
<1>5. CASE DisconnectCP(p) \/ ConnectCP(p) \/ DetectDrift(p)
  BY <1>5, PhaseRecord DEF At
<1> QED
  BY <1>1, <1>2, <1>3, <1>4, <1>5 DEF GoesOn

\* A resume that reports success was at the readiness gate, all its starts done.
LEMMA SuccessClaims ==
    ASSUME ClusterType, CmdType, NEW p \in Procs, ClusterInv, PinnedAddressKept,
           cmd[p].op = "resume", ResumeDone(p), Claims(p), NodesReady(p)
    PROVE  Claims(p)'
<1>1. At(p, "ready") /\ ~cmd[p].failed /\ AllIn(CPSet, "running")
  BY DEF NodesReady, ResumeDone, At, LatePhases
<1>2. UNCHANGED <<container, attach, ip, ipam, label, lbConfig, cert>>
  BY DEF NodesReady, net, lb
<1>3. /\ cmd'[p].pc = "idle" /\ cmd'[p].result = "ok" /\ cmd'[p].opt = cmd[p].opt
      /\ cmd'[p].strategy = "" /\ ~cmd'[p].failed /\ ~cmd'[p].cancelled
      /\ cmd'[p].faultless = (cmd[p].faultless /\ TRUE)
  BY FinishRecord DEF NodesReady, Return
<1>4. At(p, "lbConfig")' => LBs # <<>>
  BY <1>3 DEF At
<1>5. ~LateEntrypoint /\ LBs # <<>> => Routed(p)'
  BY <1>1, <1>2, <1>3 DEF Claims, Routed, At, BehindLB, LatePhases
<1>6. Pinned(p)'
  BY <1>3 DEF Pinned
<1>7. PeersNamed(p)'
  <2>1. ASSUME HA, NEW c \in CPSet PROVE ip[c] = cert[c]
    <3>1. CASE cmd[p].strategy # "ip-pinned"
      BY <1>1, <2>1, <3>1 DEF Claims, PeersNamed
    <3>2. CASE cmd[p].strategy = "ip-pinned"
      <4>1. attach[c] = ipam[c]
        BY <1>1, <3>2 DEF Claims, Pinned, At
      <4>2. c \in Nodes /\ attach[c] \in Addresses
        BY <4>1, NetworkAssumption DEF ClusterType, Nodes
      <4>3. ipam[c] # NoIP /\ cert[c] = ipam[c]
        BY <4>1, <4>2, NetworkAssumption DEF PinnedAddressKept
      <4>4. ip[c] = attach[c]
        BY <1>1, <4>2, NetworkAssumption DEF ClusterInv, RunsAtEndpoint, AtEndpoint, AllIn
      <4> QED
        BY <4>1, <4>3, <4>4
    <3> QED
      BY <3>1, <3>2
  <2> QED
    BY <1>2, <1>3, <2>1 DEF PeersNamed, At
<1>8. AddressesSuffice => Recovers(p)'
  BY <1>3 DEF Recovers
<1> QED
  BY <1>4, <1>5, <1>6, <1>7, <1>8 DEF Claims

\* Whatever an undisturbed resume that runs does next, its claims hold.
LEMMA ClaimsStep ==
    ASSUME ClusterType, CmdType, PinTarget, ClusterInv, OthersBounded, PinnedAddressKept,
           NEW p \in Procs, Pause(p) \/ Resume(p) \/ Kill(p), cmd[p].op = "resume",
           ~At(p, "idle"), PhaseOf(p), ResumeDone(p), Claims(p)
    PROVE  Claims(p)'
<1>1. ASSUME GoesOn(p) PROVE Claims(p)'
  <2>1. cmd[p].result # "err"
    BY DEF PhaseOf
  <2>2. At(p, "lbConfig")' => LBs # <<>>
    BY <1>1, LBPhaseStep DEF Claims
  <2>3. ~LateEntrypoint /\ LBs # <<>> => Routed(p)'
    BY <1>1, RoutedStep DEF Claims
  <2>4. Pinned(p)' /\ PeersNamed(p)'
    BY <1>1, PinnedStep, PeersStep DEF Claims
  <2>5. AddressesSuffice => Recovers(p)'
    BY <1>1, <2>1, RecoversStep DEF Claims
  <2> QED
    BY <2>2, <2>3, <2>4, <2>5 DEF Claims
<1>2. CASE \/ LBFamilyUnknown(p) \/ DisconnectFails(p) \/ ConnectFails(p) \/ RegenerateFails(p)
           \/ ReadyTimeout(p) \/ Kill(p)
  BY <1>2, HaltClaims
<1>3. CASE LBConfigFails(p) /\ At(p, "idle")'
  <2>1. label' = label /\ At(p, "lbConfig")
    BY <1>3 DEF LBConfigFails
  <2>2. \E f \in BOOLEAN : Finish(p, "err", f) /\ (f \/ container[LBs[1]] = "exited")
    BY <1>3, PhaseRecord DEF At
  <2> QED
    BY <2>1, <2>2, HaltClaims
<1>4. CASE GroupStarted(p) /\ At(p, "idle")'
  <2>1. label' = label
    BY <1>4 DEF GroupStarted
  <2>2. cmd[p].failed /\ Return(p, "err")
    BY <1>4, GroupMoves DEF At, AfterLB
  <2> QED
    BY <2>1, <2>2, HaltClaims
<1>5. CASE NodesReady(p)
  BY <1>5, SuccessClaims
<1>6. CASE \/ StartNode(p) \/ StartFails(p) \/ StartCancelled(p) \/ ApplyLBConfig(p)
           \/ DisconnectCP(p) \/ ConnectCP(p) \/ AllPinned(p) \/ DetectDrift(p)
           \/ Regenerate(p) \/ Cancel(p)
  <2>1. cmd'[p].pc # "idle"
    BY <1>6, StartRecord, GotoMoves, PhaseRecord DEF At, AfterLB
  <2> QED
    BY <1>1, <1>6, <2>1 DEF GoesOn, At
<1>7. CASE (LBConfigFails(p) \/ GroupStarted(p)) /\ ~At(p, "idle")'
  BY <1>1, <1>7 DEF GoesOn
<1>8. ~At(p, "stop")
  BY DEF PhaseOf, At
<1> QED
  BY <1>2, <1>3, <1>4, <1>5, <1>6, <1>7, <1>8
  DEF Pause, Resume, PauseRefused, PauseBegins, ResumeRefused, ResumeBegins, StopNode, StopFails,
      Stopping, PauseReturns, At

-----------------------------------------------------------------------------
(* A resume that begins, and the invariant. *)

\* A resume begins without errors, in its first phase, or is over.
LEMMA ResumeBeginsClaims ==
    ASSUME CmdType, label \in Labels, NEW p \in Procs, ResumeRefused(p) \/ ResumeBegins(p)
    PROVE  Claims(p)'
<1> DEFINE alone == \A q \in Procs \ {p} : At(q, "idle")
           refused(o) == [NewResume EXCEPT !.opt = o, !.result = "err", !.faultless = FALSE]
           new(o, f) == [NewResume EXCEPT !.opt = o, !.faultless = f]
           noop(o, f) == [new(o, f) EXCEPT !.result = "noop"]
           begun(o, f, s) == [new(o, f) EXCEPT !.pc = "startLB", !.strategy = s]
<1>1. /\ cmd'[p].pc \in {"idle", "startLB"} /\ cmd'[p].result # "ok"
      /\ ~cmd'[p].failed /\ ~cmd'[p].cancelled
      /\ cmd'[p].result = "err" => ~cmd'[p].faultless
      /\ cmd'[p].opt # "ip-pin" /\ label # "ip-pinned" => cmd'[p].strategy # "ip-pinned"
      /\ cmd'[p].strategy = "ip-pinned" => cmd'[p].pc = "startLB"
  <2>1. CASE ResumeRefused(p)
    <3>1. PICK o : Begin(p, refused(o))
      BY <2>1 DEF ResumeRefused
    <3>2. cmd'[p] = [refused(o) EXCEPT !.alone = alone]
      BY <3>1, BeginRecord
    <3> QED
      BY <3>2 DEF NewResume, Idle
  <2>2. CASE ResumeBegins(p)
    <3>1. PICK o \in Options, status \in {ClusterStatus, "Error"}, r \in {label, ""} :
             \/ Begin(p, noop(o, status = ClusterStatus /\ r = label))
             \/ Begin(p, begun(o, status = ClusterStatus /\ r = label, Strategy(o, r)))
      BY <2>2 DEF ResumeBegins
    <3> DEFINE f == status = ClusterStatus /\ r = label
    <3>2. CASE Begin(p, noop(o, f))
      <4>1. cmd'[p] = [noop(o, f) EXCEPT !.alone = alone]
        BY <3>2, BeginRecord
      <4> QED
        BY <4>1 DEF NewResume, Idle
    <3>3. CASE Begin(p, begun(o, f, Strategy(o, r)))
      <4> DEFINE s == Strategy(o, r)
      <4>1. o # "ip-pin" /\ label # "ip-pinned" => s # "ip-pinned"
        BY StrategyAssumption DEF Strategy
      <4> HIDE DEF s
      <4>2. cmd'[p] = [begun(o, f, s) EXCEPT !.alone = alone]
        BY <3>3, BeginRecord DEF s
      <4>3. /\ cmd'[p].pc = "startLB" /\ cmd'[p].result = "none" /\ cmd'[p].opt = o
            /\ cmd'[p].strategy = s /\ ~cmd'[p].failed /\ ~cmd'[p].cancelled
        BY <4>2 DEF NewResume, Idle
      <4> QED
        BY <4>1, <4>3
    <3> QED
      BY <3>1, <3>2, <3>3
  <2> QED
    BY <2>1, <2>2
<1>2. label' = label
  BY DEF ResumeRefused, ResumeBegins
<1>3. At(p, "lbConfig")' => LBs # <<>>
  BY <1>1 DEF At
<1>4. Routed(p)' /\ PeersNamed(p)'
  BY <1>1 DEF Routed, PeersNamed, Ok, At, BehindLB, LatePhases
<1>5. Pinned(p)'
  BY <1>1 DEF Pinned
<1>6. Recovers(p)'
  BY <1>1, <1>2 DEF Recovers, Blameless
<1> QED
  BY <1>3, <1>4, <1>5, <1>6 DEF Claims

\* A command that begins has its operation.
LEMMA BegunOperates ==
    ASSUME CmdType, NEW p \in Procs
    PROVE  /\ PauseRefused(p) \/ PauseBegins(p) => cmd'[p].op = "pause"
           /\ ResumeRefused(p) \/ ResumeBegins(p) => cmd'[p].op = "resume"
<1> DEFINE alone == \A q \in Procs \ {p} : At(q, "idle")
<1>1. ASSUME PauseRefused(p) PROVE cmd'[p].op = "pause"
  <2>1. cmd'[p] = [[NewPause EXCEPT !.result = "err", !.faultless = FALSE] EXCEPT !.alone = alone]
    BY <1>1, BeginRecord DEF PauseRefused
  <2> QED
    BY <2>1 DEF NewPause, Idle
<1>2. ASSUME PauseBegins(p) PROVE cmd'[p].op = "pause"
  <2> DEFINE clean(f) == [NewPause EXCEPT !.faultless = f]
  <2>1. PICK status : \/ Begin(p, [clean(status = ClusterStatus) EXCEPT !.result = "noop"])
                      \/ Begin(p, [clean(status = ClusterStatus) EXCEPT !.pc = "stop"])
    BY <1>2 DEF PauseBegins
  <2> DEFINE f == status = ClusterStatus
  <2>2. \/ cmd'[p] = [[clean(f) EXCEPT !.result = "noop"] EXCEPT !.alone = alone]
        \/ cmd'[p] = [[clean(f) EXCEPT !.pc = "stop"] EXCEPT !.alone = alone]
    BY <2>1, BeginRecord
  <2> HIDE DEF f
  <2> QED
    BY <2>2 DEF NewPause, Idle
<1>3. ASSUME ResumeRefused(p) PROVE cmd'[p].op = "resume"
  <2>1. PICK o : Begin(p, [NewResume EXCEPT !.opt = o, !.result = "err", !.faultless = FALSE])
    BY <1>3 DEF ResumeRefused
  <2>2. cmd'[p] = [[NewResume EXCEPT !.opt = o, !.result = "err", !.faultless = FALSE]
                     EXCEPT !.alone = alone]
    BY <2>1, BeginRecord
  <2> QED
    BY <2>2 DEF NewResume, Idle
<1>4. ASSUME ResumeBegins(p) PROVE cmd'[p].op = "resume"
  <2> DEFINE fresh(o, f) == [NewResume EXCEPT !.opt = o, !.faultless = f]
  <2>1. PICK o, status, r :
           \/ Begin(p, [fresh(o, status = ClusterStatus /\ r = label) EXCEPT !.result = "noop"])
           \/ Begin(p, [fresh(o, status = ClusterStatus /\ r = label)
                          EXCEPT !.pc = "startLB", !.strategy = Strategy(o, r)])
    BY <1>4 DEF ResumeBegins
  <2> DEFINE f == status = ClusterStatus /\ r = label
             s == Strategy(o, r)
  <2>2. \/ cmd'[p] = [[fresh(o, f) EXCEPT !.result = "noop"] EXCEPT !.alone = alone]
        \/ cmd'[p] = [[fresh(o, f) EXCEPT !.pc = "startLB", !.strategy = s] EXCEPT !.alone = alone]
    BY <2>1, BeginRecord
  <2> HIDE DEF f, s
  <2> QED
    BY <2>2 DEF NewResume, Idle
<1> QED
  BY <1>1, <1>2, <1>3, <1>4

\* A cluster that was just created has run no command.
LEMMA ResumeInit == Init => ResumeInv
<1> SUFFICES ASSUME Init PROVE ResumeInv
  OBVIOUS
<1>1. ASSUME NEW p \in Procs PROVE cmd[p].pc = "idle" /\ cmd[p].alone = FALSE
  BY DEF Init, Idle
<1>2. PinnedAddressKept
  BY PinInit DEF PinInv
<1> QED
  BY <1>1, <1>2, OutcomeInit, ClusterInit DEF ResumeInv, Operates, At

\* What begins beside a resume takes its claims; a resume that begins has few.
LEMMA ResumeBegin ==
    ASSUME ResumeInv, NEW p \in Procs, Begins(p)
    PROVE  \A q \in Procs : Operates(q)' /\ (cmd'[q].op = "resume" /\ cmd'[q].alone => Claims(q)')
<1>1. CmdType /\ label \in Labels
  BY TypeParts DEF ResumeInv, OutcomeInv, TypeInv, ClusterType
<1>2. PICK command : Begin(p, command)
  BY CommandBegins, <1>1 DEF Begins
<1>3. ASSUME NEW q \in Procs \ {p} PROVE ~cmd'[q].alone /\ Operates(q)'
  <2>1. cmd'[q] = [cmd[q] EXCEPT !.alone = FALSE]
    BY <1>1, <1>2 DEF Begin, NotAlone, CmdType
  <2>2. cmd[q] \in Commands
    BY <1>1 DEF CmdType
  <2>3. ~cmd'[q].alone /\ cmd'[q].op = cmd[q].op /\ cmd'[q].pc = cmd[q].pc
    BY <2>1, <2>2 DEF Commands
  <2> QED
    BY <2>3 DEF ResumeInv, Operates, At
<1>4. Operates(p)' /\ (cmd'[p].op = "resume" => Claims(p)')
  BY <1>1, BegunOperates, ResumeBeginsClaims DEF Begins, Operates
<1> QED
  BY <1>3, <1>4

\* A command that goes on while it is alone is the only one that does.
LEMMA ResumeContinue ==
    ASSUME ResumeInv, NEW p \in Procs, Pause(p) \/ Resume(p) \/ Kill(p), Continues(p)
    PROVE  \A q \in Procs : Operates(q)' /\ (cmd'[q].op = "resume" /\ cmd'[q].alone => Claims(q)')
<1>1. ClusterType /\ CmdType /\ PinTarget
  BY TypeParts DEF ResumeInv, OutcomeInv, TypeInv
<1>2. ASSUME NEW q \in Procs \ {p} PROVE ~cmd'[q].alone /\ Operates(q)'
  <2>1. ~cmd[q].alone /\ cmd'[q] = cmd[q]
    BY DEF ResumeInv, OutcomeInv, AloneInv, Continues
  <2> QED
    BY <2>1 DEF ResumeInv, Operates, At
<1>3. Operates(p)'
  BY DEF ResumeInv, Operates, Continues
<1>4. ASSUME cmd'[p].op = "resume", cmd'[p].alone PROVE Claims(p)'
  <2>1. cmd[p].op = "resume" /\ cmd[p].alone /\ ~At(p, "idle")
    BY <1>4 DEF Continues
  <2>2. PhaseOf(p) /\ ResumeDone(p) /\ Claims(p)
    BY <2>1 DEF ResumeInv, OutcomeInv, Outcome
  <2> QED
    BY <1>1, <2>1, <2>2, ClaimsStep DEF ResumeInv
<1> QED
  BY <1>2, <1>3, <1>4

\* What happens beside the commands takes their claims, or leaves what they are about.
LEMMA ResumeEnvironment ==
    ASSUME ResumeInv, Environment
    PROVE  \A q \in Procs : Operates(q)' /\ (cmd'[q].op = "resume" /\ cmd'[q].alone => Claims(q)')
<1>1. CmdType
  BY TypeParts DEF ResumeInv, OutcomeInv, TypeInv
<1>2. CASE UNCHANGED <<container, attach, ip, ipam, label, cert, cmd>>
           /\ (lbConfig' = lbConfig \/ LateEntrypoint)
  <2>1. ASSUME NEW q \in Procs, Claims(q) PROVE Claims(q)'
    <3>1. At(q, "lbConfig")' => LBs # <<>>
      BY <1>2, <2>1 DEF Claims, At
    <3>2. ~LateEntrypoint /\ LBs # <<>> => Routed(q)'
      BY <1>2, <2>1 DEF Claims, Routed, Ok, At
    <3>3. Pinned(q)'
      BY <1>2, <2>1 DEF Claims, Pinned, Behind, PinNode, At
    <3>4. PeersNamed(q)'
      BY <1>2, <2>1 DEF Claims, PeersNamed, Ok, At
    <3>5. AddressesSuffice => Recovers(q)'
      BY <1>2, <2>1 DEF Claims, Recovers, Blameless
    <3> QED
      BY <3>1, <3>2, <3>3, <3>4, <3>5 DEF Claims
  <2> QED
    BY <1>2, <2>1 DEF ResumeInv, Operates, At
<1>3. CASE cmd' = NotAlone(cmd)
  <2>1. ASSUME NEW q \in Procs
        PROVE  ~cmd'[q].alone /\ cmd'[q].op = cmd[q].op /\ cmd'[q].pc = cmd[q].pc
    <3>1. cmd'[q] = [cmd[q] EXCEPT !.alone = FALSE]
      BY <1>3 DEF NotAlone
    <3>2. cmd[q] \in Commands
      BY <1>1 DEF CmdType
    <3> QED
      BY <3>1, <3>2 DEF Commands
  <2> QED
    BY <2>1 DEF ResumeInv, Operates, At
<1>4. CASE EntrypointRuns
  BY <1>2, <1>4 DEF EntrypointRuns, ResumeInv, ClusterInv, EntrypointInTime, net
<1>5. CASE OtherJoins
  BY <1>2, <1>5 DEF OtherJoins, lb
<1> QED
  BY <1>3, <1>4, <1>5 DEF Environment, OtherLeaves, ContainerDies

\* The invariant is inductive.
LEMMA ResumeInvStep == ResumeInv /\ [Next]_vars => ResumeInv'
<1> SUFFICES ASSUME ResumeInv, [Next]_vars PROVE ResumeInv'
  OBVIOUS
<1> DEFINE Rest == \A q \in Procs : Operates(q)
                         /\ (cmd[q].op = "resume" /\ cmd[q].alone => Claims(q))
<1>1. OutcomeInv' /\ PinnedAddressKept'
  BY OutcomeStep, PinStep DEF ResumeInv, OutcomeInv, PinInv
<1>2. ClusterType /\ CmdType /\ PinTarget
  BY TypeParts DEF ResumeInv, OutcomeInv, TypeInv
<1>3. ASSUME Next PROVE ClusterInv' /\ OthersBounded' /\ Rest'
  <2>1. ClusterInv' /\ OthersBounded'
    BY <1>2, <1>3, ClusterInvStep, OthersBoundedStep DEF ResumeInv
  <2>2. ASSUME NEW p \in Procs, Pause(p) \/ Resume(p) \/ Kill(p) PROVE Rest'
    BY <1>2, <2>2, BeginsOrContinues, ResumeBegin, ResumeContinue
  <2>3. ASSUME Environment PROVE Rest'
    BY <2>3, ResumeEnvironment
  <2> QED
    BY <1>3, <2>1, <2>2, <2>3 DEF Next
<1>4. ASSUME UNCHANGED vars PROVE ClusterInv' /\ OthersBounded' /\ Rest'
  <2>1. ClusterInv' /\ OthersBounded'
    BY <1>4 DEF vars, ResumeInv, ClusterInv, RunsAtEndpoint, AtEndpoint, OnlyLabelPins,
       EntrypointInTime, OthersBounded
  <2>2. Rest'
    BY <1>4 DEF vars, ResumeInv, Operates, Claims, Routed, Ok, Pinned, Behind, PinNode, PeersNamed,
       Recovers, Blameless, At
  <2> QED
    BY <2>1, <2>2
<1> QED
  BY <1>1, <1>3, <1>4 DEF ResumeInv

\* A command that runs alone in a phase of a resume is a resume that keeps its claims.
LEMMA PhaseClaims ==
    ASSUME ResumeInv, NEW p \in Procs, cmd[p].alone, ~At(p, "idle"), ~At(p, "stop")
    PROVE  cmd[p].op = "resume" /\ ResumeDone(p) /\ Claims(p)
<1>1. cmd[p].op \in {"none", "pause", "resume"}
  BY TypeParts DEF ResumeInv, OutcomeInv, TypeInv, CmdType, Commands
<1>2. cmd[p].op = "resume"
  BY <1>1 DEF ResumeInv, OutcomeInv, Operates, PhaseOf, At
<1> QED
  BY <1>2 DEF ResumeInv, OutcomeInv, Outcome

\* A pause that runs has not failed to stop what comes before its next node.
LEMMA StoppedBefore ==
    ASSUME ResumeInv, NEW p \in Procs, cmd[p].alone, ~cmd[p].failed, Stopping(p)
    PROVE  /\ StopOrder[cmd[p].i] \in CPSet => AllIn(NodesOf(Workers), "exited")
           /\ StopOrder[cmd[p].i] \in LBSet => AllIn(Nodes \ LBSet, "exited")
<1> DEFINE i == cmd[p].i
<1>1. cmd[p].op = "pause"
  <2>1. cmd[p].op \in {"none", "pause", "resume"}
    BY TypeParts DEF ResumeInv, OutcomeInv, TypeInv, CmdType, Commands
  <2> QED
    BY <2>1 DEF ResumeInv, OutcomeInv, Operates, PhaseOf, Stopping, At
<1>2. AllIn(Behind(p, StopOrder), "exited")
  BY <1>1 DEF ResumeInv, OutcomeInv, Outcome, PauseDone, Stopping
<1>3. \A k \in DOMAIN StopOrder : k < i => container[StopOrder[k]] = "exited"
  BY <1>2 DEF AllIn, Behind
<1>4. /\ CPs \in Seq(CPSet) /\ Workers \in Seq(NodesOf(Workers)) /\ LBs \in Seq(LBSet)
  BY NodesAssumption
<1>5. /\ DOMAIN CPs = 1..Len(CPs) /\ Len(CPs) \in Nat
      /\ DOMAIN Workers = 1..Len(Workers) /\ Len(Workers) \in Nat
      /\ DOMAIN LBs = 1..Len(LBs) /\ Len(LBs) \in Nat
      /\ DOMAIN StopOrder = 1..(Len(Workers) + Len(CPs) + Len(LBs))
  BY <1>4 DEF StopOrder
<1>6. ASSUME NEW k \in DOMAIN Workers PROVE k \in DOMAIN StopOrder /\ StopOrder[k] = Workers[k]
  BY <1>4, <1>5 DEF StopOrder
<1>7. ASSUME NEW k \in DOMAIN CPs
      PROVE  Len(Workers) + k \in DOMAIN StopOrder /\ StopOrder[Len(Workers) + k] = CPs[k]
  BY <1>4, <1>5 DEF StopOrder
<1>8. i \in DOMAIN StopOrder /\ i \in Nat
  BY <1>5 DEF Stopping
<1>9. i > Len(Workers) \/ StopOrder[i] \in NodesOf(Workers)
  BY <1>5, <1>6, <1>8 DEF NodesOf
<1>10. i > Len(Workers) + Len(CPs) \/ i \in DOMAIN Workers \/ StopOrder[i] \in CPSet
  <2>1. CASE i > Len(Workers) /\ i <= Len(Workers) + Len(CPs)
    <3>1. i - Len(Workers) \in DOMAIN CPs /\ Len(Workers) + (i - Len(Workers)) = i
      BY <1>5, <1>8, <2>1
    <3> QED
      BY <1>7, <3>1 DEF CPSet, NodesOf
  <2>2. i > Len(Workers) + Len(CPs) \/ i \in DOMAIN Workers
           \/ (i > Len(Workers) /\ i <= Len(Workers) + Len(CPs))
    BY <1>5, <1>8
  <2> QED
    BY <2>1, <2>2
<1>11. ASSUME StopOrder[i] \in CPSet PROVE AllIn(NodesOf(Workers), "exited")
  <2>1. i > Len(Workers)
    BY <1>9, <1>11, NodesAssumption
  <2>2. ASSUME NEW k \in DOMAIN Workers PROVE container[Workers[k]] = "exited"
    <3>1. k < i
      BY <1>5, <1>8, <2>1
    <3> QED
      BY <1>3, <1>6, <3>1
  <2> QED
    BY <2>2 DEF AllIn, NodesOf
<1>12. ASSUME StopOrder[i] \in LBSet PROVE AllIn(Nodes \ LBSet, "exited")
  <2>1. i > Len(Workers) + Len(CPs)
    <3>1. i \notin DOMAIN Workers
      BY <1>6, <1>12, NodesAssumption DEF NodesOf
    <3> QED
      BY <1>10, <1>12, <3>1, NodesAssumption
  <2>2. ASSUME NEW k \in DOMAIN Workers PROVE container[Workers[k]] = "exited"
    <3>1. k < i
      BY <1>5, <1>8, <2>1
    <3> QED
      BY <1>3, <1>6, <3>1
  <2>3. ASSUME NEW k \in DOMAIN CPs PROVE container[CPs[k]] = "exited"
    <3>1. Len(Workers) + k < i
      BY <1>5, <1>8, <2>1
    <3> QED
      BY <1>3, <1>7, <3>1
  <2> QED
    BY <2>2, <2>3 DEF AllIn, Nodes, CPSet, NodesOf
<1> QED
  BY <1>11, <1>12

-----------------------------------------------------------------------------
(* The theorems. *)

\* Quorum-safe order: as long as no step of an undisturbed command failed, what it has
\* yet to stop depends on nothing it stopped, and a control plane is started behind a
\* configured load balancer, a worker after all control planes; provided `start`
\* returns after the load balancer's entrypoint.
THEOREM OrderAlwaysQuorumSafe == ASSUME ~LateEntrypoint PROVE Spec => []QuorumSafeOrder
<1>1. ASSUME ResumeInv PROVE QuorumSafeOrder
  <2>1. SUFFICES ASSUME NEW p \in Procs, cmd[p].alone, ~cmd[p].failed, Starting(p)
                 PROVE  /\ NodeToStart(p) \in CPSet =>
                             AllIn(LBSet, "running") /\ (LBs = <<>> \/ lbConfig = "rendered")
                        /\ NodeToStart(p) \in NodesOf(Workers) => AllIn(CPSet, "running")
    BY <1>1, StoppedBefore DEF QuorumSafeOrder
  <2>2. ~At(p, "idle") /\ ~At(p, "stop")
    BY <2>1 DEF Starting, At
  <2>3. ResumeDone(p) /\ Claims(p) /\ cmd[p].op = "resume"
    BY <1>1, <2>1, <2>2, PhaseClaims
  <2>4. CASE At(p, "startLB")
    <3>1. NodeToStart(p) \in LBSet
      BY <2>1, <2>4 DEF Starting, NodeToStart, StartGroup, At, LBSet, NodesOf
    <3> QED
      BY <3>1, NodesAssumption
  <2>5. CASE At(p, "startCP")
    <3>1. NodeToStart(p) \in CPSet
      BY <2>1, <2>5 DEF Starting, NodeToStart, StartGroup, At, CPSet, NodesOf
    <3>2. AllIn(LBSet, "running") /\ (LBs = <<>> \/ lbConfig = "rendered")
      BY <2>1, <2>3, <2>5 DEF ResumeDone, Claims, Routed, At, BehindLB
    <3> QED
      BY <3>1, <3>2, NodesAssumption
  <2>6. CASE At(p, "startWorker")
    <3>1. NodeToStart(p) \in NodesOf(Workers)
      BY <2>1, <2>6 DEF Starting, NodeToStart, StartGroup, At, NodesOf
    <3>2. AllIn(CPSet, "running")
      BY <2>1, <2>3, <2>6 DEF ResumeDone, At
    <3> QED
      BY <3>1, <3>2, NodesAssumption
  <2> QED
    BY <2>1, <2>4, <2>5, <2>6 DEF Starting, At
<1> QED
  BY ResumeInit, ResumeInvStep, <1>1, PTL DEF Spec

\* A resume that pins starts no control plane while one of them is off the network or
\* unpinned: a pin that fails ends the resume.
THEOREM NeverStartsUnpinned == Spec => []NoStartUnpinned
<1>1. ASSUME ResumeInv PROVE NoStartUnpinned
  <2> SUFFICES ASSUME NEW p \in Procs, cmd[p].alone, cmd[p].strategy = "ip-pinned",
                      cmd[p].pc \in {"startCP", "startWorker", "ready"}
               PROVE  \A c \in CPSet : attach[c] = ipam[c]
    BY DEF NoStartUnpinned
  <2>1. Claims(p)
    BY <1>1, PhaseClaims DEF At
  <2> QED
    BY <2>1 DEF Claims, Pinned
<1> QED
  BY ResumeInit, ResumeInvStep, <1>1, PTL DEF Spec

\* What the invariant says of a resume that has succeeded.
LEMMA SucceededClaims ==
    ASSUME ResumeInv, NEW p \in Procs, Succeeded(p, "resume"), cmd[p].result = "ok"
    PROVE  Claims(p) /\ Ok(p)
<1>1. Finished(p)
  BY SucceededOutcome DEF ResumeInv
<1> QED
  BY <1>1 DEF ResumeInv, Succeeded, Finished, Ok

\* A resume that did its work leaves the load balancer with a rendered config, although
\* starting its container emptied it; provided `start` returns after the entrypoint.
THEOREM RoutingAlwaysRestored == ASSUME ~LateEntrypoint PROVE Spec => []ResumeRestoresRouting
<1>1. ResumeInv => ResumeRestoresRouting
  BY SucceededClaims DEF ResumeRestoresRouting, Claims, Routed
<1> QED
  BY ResumeInit, ResumeInvStep, <1>1, PTL DEF Spec

\* A resume that did its work leaves every control plane of an HA cluster at the address
\* its etcd certificate names: by pinning, or by regeneration.
THEOREM PeerAddressesAlwaysKept == Spec => []ResumeKeepsPeerAddresses
<1>1. ResumeInv => ResumeKeepsPeerAddresses
  BY SucceededClaims DEF ResumeKeepsPeerAddresses, Claims, PeersNamed
<1> QED
  BY ResumeInit, ResumeInvStep, <1>1, PTL DEF Spec

\* A resume of a cluster that is not pinned only fails when one of its own calls fails,
\* however the commands before it ended; provided the network has an address for every
\* container on it.
THEOREM UnpinnedAlwaysRecovers == ASSUME AddressesSuffice PROVE Spec => []UnpinnedResumeRecovers
<1>1. ASSUME ResumeInv PROVE UnpinnedResumeRecovers
  BY <1>1 DEF UnpinnedResumeRecovers, ResumeInv, Claims, Recovers, Blameless
<1> QED
  BY ResumeInit, ResumeInvStep, <1>1, PTL DEF Spec
=============================================================================
