----------------------------- MODULE Provision -----------------------------
(***************************************************************************)
(* `kinder create cluster` and `kinder delete cluster`: the checks, the    *)
(* containers, the pinning of HA control planes, the kubeconfig entry, and *)
(* the cleanup of a creation that fails (pkg/cluster/internal/create,      *)
(* delete, kubeconfig; the docker and podman providers; pkg/internal/      *)
(* ippin).                                                                 *)
(*                                                                         *)
(* Processes share the container runtime and the kubeconfig file.  The     *)
(* `docker run`s of one creation are concurrent, and go on by themselves   *)
(* when the creation has returned at the first error, or was killed.       *)
(***************************************************************************)
EXTENDS Naturals, Sequences, FiniteSets

CONSTANTS
    Procs,        \* kinder processes
    Clusters,     \* names of clusters
    CPs,          \* CPs[c]: the control-plane nodes of cluster c, in order
    Others,       \* Others[c]: its load balancer and workers
    Absent,       \* a container that does not exist
    Exclusive,    \* at most one command at a time on each cluster
    RuntimeFails  \* calls to the container runtime also fail by themselves

CPSet(c) == {CPs[c][k] : k \in DOMAIN CPs[c]}
Nodes(c) == CPSet(c) \cup Others[c]
HA(c)    == Len(CPs[c]) >= 2
AllNodes == UNION {Nodes(c) : c \in Clusters}

ASSUME NodesAssumption ==
    /\ DOMAIN CPs = Clusters /\ DOMAIN Others = Clusters
    /\ \A c \in Clusters :
          /\ CPs[c] \in Seq(CPSet(c)) /\ Len(CPs[c]) >= 1 /\ CPSet(c) \cap Others[c] = {}
          /\ \A j, k \in DOMAIN CPs[c] : CPs[c][j] = CPs[c][k] => j = k
ASSUME OptionsAssumption == Exclusive \in BOOLEAN /\ RuntimeFails \in BOOLEAN

VARIABLES
    container,   \* container[c][n]: the container of node n of cluster c, or Absent
    flying,      \* `run` calls each process has started and that have not ended
    scratch,     \* processes whose IPAM probe's scratch network exists
    leaked,      \* a scratch network whose removal failed
    kubeconfig,  \* clusters with an entry in the kubeconfig file
    cmd          \* the command each process runs, or its last one

vars  == <<container, flying, scratch, leaked, kubeconfig, cmd>>
probe == <<scratch, leaked>>

-----------------------------------------------------------------------------
(* Types. *)

ResumeLabels == {"ip-pinned", "cert-regen", ""}
Containers   == [label : ResumeLabels,      \* resume-strategy label
                 file  : BOOLEAN,           \* /kind/ipam-state.json exists
                 net   : {"dynamic", "detached", "pinned"}]
ASSUME AbsentAssumption == Absent \notin Containers

Phases  == {"idle", "check", "probe", "scratch", "run", "pin", "unplug", "plug", "recover",
            "nodes", "setup", "export", "list", "unkube", "rm"}
Results == {"none", "ok", "stopped", "err", "killed"}

\* `stop` is StopBeforeSettingUpKubernetes.  `late`, `alone` and `cleanup`
\* observe the command and decide nothing: its runs that had not ended when its
\* cleanup listed the nodes; no other command ran on its cluster beside it; what
\* has become of the deletion that is due when a creation that began fails.
Commands == [op : {"none", "create", "delete"}, pc : Phases, cluster : Clusters,
             retain : BOOLEAN, stop : BOOLEAN, label : ResumeLabels, i : Nat,
             listed : SUBSET AllNodes, late : SUBSET AllNodes, kerr : BOOLEAN,
             result : Results, alone : BOOLEAN, cleanup : {"none", "due", "done", "failed"}]

TypeOK ==
    /\ container \in [Clusters -> [AllNodes -> Containers \cup {Absent}]]
    /\ flying \in [Procs -> SUBSET AllNodes]
    /\ scratch \subseteq Procs /\ leaked \in BOOLEAN
    /\ kubeconfig \subseteq Clusters
    /\ cmd \in [Procs -> Commands]

New(op, c) == [op |-> op, pc |-> "idle", cluster |-> c, retain |-> FALSE, stop |-> FALSE,
               label |-> "", i |-> 1, listed |-> {}, late |-> {}, kerr |-> FALSE,
               result |-> "none", alone |-> TRUE, cleanup |-> "none"]

Init ==
    /\ container = [c \in Clusters |-> [n \in AllNodes |-> Absent]]
    /\ flying = [p \in Procs |-> {}]
    /\ scratch = {} /\ leaked = FALSE
    /\ kubeconfig = {}
    /\ cmd \in [Procs -> {New("none", c) : c \in Clusters}]

-----------------------------------------------------------------------------
(* Control flow of a command. *)

At(p, pc)   == cmd[p].pc = pc
Name(p)     == cmd[p].cluster
Goto(p, pc) == cmd' = [cmd EXCEPT ![p].pc = pc, ![p].i = 1]
Existing(c) == {n \in AllNodes : container[c][n] # Absent}
\* The command returns, its local variables with it; `run`s that go on keep their label.
Finish(p, result, cleanup) ==
    cmd' = [cmd EXCEPT ![p] = [New(cmd[p].op, Name(p)) EXCEPT !.result = result, !.cleanup = cleanup,
                    !.retain = cmd[p].retain, !.late = cmd[p].late, !.alone = cmd[p].alone,
                    !.label = IF flying[p] = {} THEN "" ELSE cmd[p].label]]
Return(p, result) == Finish(p, result, cmd[p].cleanup)

\* Create returns an error, after the nodes were deleted unless --retain is given.
Fail(p) == IF cmd[p].retain THEN Return(p, "err") ELSE Goto(p, "list")

\* Commands on cluster c that run, or whose `run` calls still do.
BusyOn(c) == {p \in Procs : cmd[p].cluster = c /\ (~At(p, "idle") \/ flying[p] # {})}

Begin(p, command) ==
    /\ At(p, "idle") /\ flying[p] = {}
    /\ Exclusive => BusyOn(command.cluster) = {}
    /\ cmd' = [q \in Procs |->
                 IF q = p THEN [command EXCEPT !.alone = BusyOn(command.cluster) = {}]
                 ELSE IF cmd[q].cluster = command.cluster THEN [cmd[q] EXCEPT !.alone = FALSE]
                 ELSE cmd[q]]
    /\ UNCHANGED <<container, flying, probe, kubeconfig>>

-----------------------------------------------------------------------------
(* Create: checks, and the IPAM probe of an HA cluster. *)

StartCreate(p) ==
    \E c \in Clusters, retain, stop \in BOOLEAN :
        Begin(p, [New("create", c) EXCEPT !.pc = "check", !.retain = retain, !.stop = stop])

\* alreadyExists: check, then act.
Check(p) ==
    /\ At(p, "check")
    /\ \/ /\ Existing(Name(p)) = {}
          /\ cmd' = [cmd EXCEPT ![p].pc = "probe", ![p].cleanup = "due"]
       \/ /\ RuntimeFails \/ Existing(Name(p)) # {}
          /\ Return(p, "err")
    /\ UNCHANGED <<container, flying, probe, kubeconfig>>

\* Provision fails before it creates anything: no image, no network.
PrepareFails(p) ==
    /\ At(p, "probe") /\ cmd[p].label = "" /\ RuntimeFails
    /\ Fail(p)
    /\ UNCHANGED <<container, flying, probe, kubeconfig>>

\* All `run` calls of the plan start at once.
Launch(p, label) ==
    /\ cmd' = [cmd EXCEPT ![p].pc = "run", ![p].label = label]
    /\ flying' = [flying EXCEPT ![p] = Nodes(Name(p))]

SkipProbe(p) ==
    /\ At(p, "probe") /\ ~HA(Name(p))
    /\ Launch(p, "")
    /\ UNCHANGED <<container, probe, kubeconfig>>

\* The first probe decides the label of the control planes, the second one, after
\* the containers were created under it, whether they are pinned.
Verdict(p, verdict) ==
    IF cmd[p].label = "" THEN Launch(p, verdict)
    ELSE /\ Goto(p, IF verdict = "ip-pinned" THEN "pin" ELSE "nodes")
         /\ UNCHANGED flying

\* The probe creates its network: every probe asks for the same subnet.
ScratchCreated(p) ==
    /\ At(p, "probe") /\ HA(Name(p))
    /\ scratch = {} /\ ~leaked
    /\ scratch' = {p}
    /\ cmd' = [cmd EXCEPT ![p].pc = "scratch"]
    /\ UNCHANGED <<container, flying, leaked, kubeconfig>>

\* Mutant of ScratchRefused: the verdict is taken for the label as it is.
ScratchRefusedVerbatim(p) ==
    /\ At(p, "probe") /\ HA(Name(p))
    /\ RuntimeFails \/ scratch # {} \/ leaked
    /\ Verdict(p, "unsupported")
    /\ UNCHANGED <<container, probe, kubeconfig>>

ScratchRefused(p) ==
    /\ At(p, "probe") /\ HA(Name(p))
    /\ RuntimeFails \/ scratch # {} \/ leaked
    /\ Verdict(p, "cert-regen")
    /\ UNCHANGED <<container, probe, kubeconfig>>

\* The rest of the probe, and the removal of its network, which is best effort.
ProbeEnds(p) ==
    /\ At(p, "scratch")
    /\ \E verdict \in {"ip-pinned", "cert-regen"}, leak \in BOOLEAN :
          /\ verdict = "cert-regen" \/ leak => RuntimeFails
          /\ Verdict(p, verdict)
          /\ leaked' = (leaked \/ leak)
    /\ scratch' = scratch \ {p}
    /\ UNCHANGED <<container, kubeconfig>>

-----------------------------------------------------------------------------
(* Create: containers. *)

Created(p, n) == [label |-> IF n \in CPSet(Name(p)) THEN cmd[p].label ELSE "",
                  file |-> FALSE, net |-> "dynamic"]

RunSucceeds(p) ==
    /\ \E n \in flying[p] :
          /\ container[Name(p)][n] = Absent
          /\ container' = [container EXCEPT ![Name(p)][n] = Created(p, n)]
          /\ flying' = [flying EXCEPT ![p] = @ \ {n}]
    /\ UNCHANGED <<probe, kubeconfig, cmd>>

\* Mutant of FirstError: the failure of a `run` is not waited for.
FirstErrorLost(p) == UNCHANGED cmd

\* UntilErrorConcurrent returns the first error, and waits for no other call.
FirstError(p) == IF At(p, "run") THEN Fail(p) ELSE UNCHANGED cmd

\* A name that is taken is refused; a call that fails by itself may have created
\* its container.
RunFails(p) ==
    /\ \E n \in flying[p] :
          /\ flying' = [flying EXCEPT ![p] = @ \ {n}]
          /\ \/ /\ RuntimeFails \/ container[Name(p)][n] # Absent
                /\ UNCHANGED container
             \/ /\ RuntimeFails /\ container[Name(p)][n] = Absent
                /\ container' = [container EXCEPT ![Name(p)][n] = Created(p, n)]
    /\ FirstError(p)
    /\ UNCHANGED <<probe, kubeconfig>>

AllRun(p) ==
    /\ At(p, "run") /\ flying[p] = {}
    /\ Goto(p, IF HA(Name(p)) /\ cmd[p].label = "ip-pinned" THEN "probe" ELSE "nodes")
    /\ UNCHANGED <<container, flying, probe, kubeconfig>>

-----------------------------------------------------------------------------
(* Create: pinning of the control planes, one after the other. *)

PinNode(p)      == CPs[Name(p)][cmd[p].i]
Pinning(p)      == container[Name(p)][PinNode(p)]
NetOf(p)        == IF Pinning(p) = Absent THEN "none" ELSE Pinning(p).net
Connected(p)    == NetOf(p) \in {"dynamic", "pinned"}
SetPinning(p, x) == container' = [container EXCEPT ![Name(p)][PinNode(p)] = x]

\* The address is inspected and written to the file in the container.
Record(p) ==
    /\ At(p, "pin") /\ cmd[p].i \in DOMAIN CPs[Name(p)]
    /\ Connected(p)
    /\ SetPinning(p, [Pinning(p) EXCEPT !.file = TRUE])
    /\ cmd' = [cmd EXCEPT ![p].pc = "unplug"]
    /\ UNCHANGED <<flying, probe, kubeconfig>>

RecordFails(p) ==
    /\ At(p, "pin") /\ cmd[p].i \in DOMAIN CPs[Name(p)]
    /\ RuntimeFails \/ ~Connected(p)
    /\ Fail(p)
    /\ UNCHANGED <<container, flying, probe, kubeconfig>>

Unplug(p) ==
    /\ At(p, "unplug")
    /\ Connected(p)
    /\ SetPinning(p, [Pinning(p) EXCEPT !.net = "detached"])
    /\ cmd' = [cmd EXCEPT ![p].pc = "plug"]
    /\ UNCHANGED <<flying, probe, kubeconfig>>

UnplugFails(p) ==
    /\ At(p, "unplug")
    /\ RuntimeFails \/ ~Connected(p)
    /\ Fail(p)
    /\ UNCHANGED <<container, flying, probe, kubeconfig>>

Plug(p) ==
    /\ At(p, "plug")
    /\ NetOf(p) = "detached"
    /\ SetPinning(p, [Pinning(p) EXCEPT !.net = "pinned"])
    /\ cmd' = [cmd EXCEPT ![p].pc = "pin", ![p].i = @ + 1]
    /\ UNCHANGED <<flying, probe, kubeconfig>>

\* Another container may have taken the address since the disconnect: one that
\* another process starts.
PlugFails(p) ==
    /\ At(p, "plug")
    /\ \/ RuntimeFails \/ NetOf(p) # "detached"
       \/ \E q \in Procs \ {p} : flying[q] # {}
    /\ cmd' = [cmd EXCEPT ![p].pc = "recover"]
    /\ UNCHANGED <<container, flying, probe, kubeconfig>>

\* Mutant of Recover: a control plane that is back on the network will do.
RecoverGoesOn(p) ==
    /\ At(p, "recover")
    /\ NetOf(p) = "detached"
    /\ SetPinning(p, [Pinning(p) EXCEPT !.net = "dynamic"])
    /\ cmd' = [cmd EXCEPT ![p].pc = "pin", ![p].i = @ + 1]
    /\ UNCHANGED <<flying, probe, kubeconfig>>

\* The control plane is connected again without --ip, if that succeeds; the pin
\* has failed in either case.
Recover(p) ==
    /\ At(p, "recover")
    /\ \/ /\ NetOf(p) = "detached"
          /\ SetPinning(p, [Pinning(p) EXCEPT !.net = "dynamic"])
       \/ /\ RuntimeFails \/ NetOf(p) # "detached"
          /\ UNCHANGED container
    /\ Fail(p)
    /\ UNCHANGED <<flying, probe, kubeconfig>>

AllPinned(p) ==
    /\ At(p, "pin") /\ cmd[p].i > Len(CPs[Name(p)])
    /\ Goto(p, "nodes")
    /\ UNCHANGED <<container, flying, probe, kubeconfig>>

-----------------------------------------------------------------------------
(* Create: Kubernetes is set up and the kubeconfig exported. *)

\* The first action that asks for the nodes lists them for all others.
ListForActions(p) ==
    /\ At(p, "nodes")
    /\ cmd' = [cmd EXCEPT ![p].pc = "setup", ![p].listed = Existing(Name(p))]
    /\ UNCHANGED <<container, flying, probe, kubeconfig>>

SetupGone(p) == ~ cmd[p].listed \subseteq Existing(Name(p)) \/ cmd[p].listed \cap CPSet(Name(p)) = {}

SetUp(p) ==
    /\ At(p, "setup") /\ ~SetupGone(p)
    /\ IF cmd[p].stop THEN Return(p, "stopped") ELSE Goto(p, "export")
    /\ UNCHANGED <<container, flying, probe, kubeconfig>>

SetupFails(p) ==
    /\ At(p, "setup")
    /\ RuntimeFails \/ SetupGone(p)
    /\ Fail(p)
    /\ UNCHANGED <<container, flying, probe, kubeconfig>>

\* The addons that follow warn and never fail the creation.
Export(p) ==
    /\ At(p, "export") /\ Existing(Name(p)) \cap CPSet(Name(p)) # {}
    /\ kubeconfig' = kubeconfig \cup {Name(p)}
    /\ Return(p, "ok")
    /\ UNCHANGED <<container, flying, probe>>

ExportAttempts == 4

\* The lock of the kubeconfig file, which another process may hold, or an error.
LockHeld(p) == \E q \in Procs \ {p} : At(q, "export") \/ At(q, "unkube")

\* The last of the attempts returns the error; nothing is cleaned up.
ExportFails(p) ==
    /\ At(p, "export")
    /\ RuntimeFails \/ LockHeld(p) \/ Existing(Name(p)) \cap CPSet(Name(p)) = {}
    /\ IF cmd[p].i < ExportAttempts THEN cmd' = [cmd EXCEPT ![p].i = @ + 1] ELSE Return(p, "err")
    /\ UNCHANGED <<container, flying, probe, kubeconfig>>

Create(p) ==
    \/ StartCreate(p) \/ Check(p) \/ PrepareFails(p)
    \/ SkipProbe(p) \/ ScratchCreated(p) \/ ScratchRefused(p) \/ ProbeEnds(p)
    \/ RunSucceeds(p) \/ RunFails(p) \/ AllRun(p)
    \/ Record(p) \/ RecordFails(p) \/ Unplug(p) \/ UnplugFails(p)
    \/ Plug(p) \/ PlugFails(p) \/ Recover(p) \/ AllPinned(p)
    \/ ListForActions(p) \/ SetUp(p) \/ SetupFails(p) \/ Export(p) \/ ExportFails(p)

-----------------------------------------------------------------------------
(* Delete: a command of its own, and the cleanup of Create. *)

StartDelete(p) == \E c \in Clusters : Begin(p, [New("delete", c) EXCEPT !.pc = "list"])

\* Create ignores what its cleanup returns.
Deleted(p, result) == Finish(p, IF cmd[p].op = "create" THEN "err" ELSE result, "done")

\* Mutant of List: a cluster without nodes has been deleted already.
ListOrGone(p) ==
    /\ At(p, "list")
    /\ IF Existing(Name(p)) = {} THEN Deleted(p, "ok")
       ELSE cmd' = [cmd EXCEPT ![p].listed = Existing(Name(p)), ![p].late = flying[p],
                               ![p].pc = "unkube"]
    /\ UNCHANGED <<container, flying, probe, kubeconfig>>

List(p) ==
    /\ At(p, "list")
    /\ cmd' = [cmd EXCEPT ![p].listed = Existing(Name(p)), ![p].late = flying[p],
                          ![p].pc = "unkube"]
    /\ UNCHANGED <<container, flying, probe, kubeconfig>>

ListFails(p) ==
    /\ At(p, "list") /\ RuntimeFails
    /\ Finish(p, "err", "failed")
    /\ UNCHANGED <<container, flying, probe, kubeconfig>>

Unkube(p) ==
    /\ At(p, "unkube")
    /\ kubeconfig' = kubeconfig \ {Name(p)}
    /\ Goto(p, "rm")
    /\ UNCHANGED <<container, flying, probe>>

\* Mutant of UnkubeFails: the error ends the deletion.
UnkubeFailsEarly(p) ==
    /\ At(p, "unkube")
    /\ RuntimeFails \/ LockHeld(p)
    /\ Deleted(p, "err")
    /\ UNCHANGED <<container, flying, probe, kubeconfig>>

\* The error is kept for the end: the nodes are deleted first.
UnkubeFails(p) ==
    /\ At(p, "unkube")
    /\ RuntimeFails \/ LockHeld(p)
    /\ cmd' = [cmd EXCEPT ![p].pc = "rm", ![p].kerr = TRUE]
    /\ UNCHANGED <<container, flying, probe, kubeconfig>>

\* Mutant of RemoveContainers: names that do not carry the cluster's name.
RemoveNamesakes(p, gone) ==
    container' = [c \in Clusters |->
                    [n \in AllNodes |-> IF n \in gone THEN Absent ELSE container[c][n]]]

RemoveContainers(p, gone) ==
    container' = [container EXCEPT ![Name(p)] =
                    [n \in AllNodes |-> IF n \in gone THEN Absent ELSE @[n]]]

\* `rm -f` by name of the nodes that were listed, whoever created them since.
Rm(p) ==
    /\ At(p, "rm")
    /\ RemoveContainers(p, cmd[p].listed)
    /\ Deleted(p, IF cmd[p].kerr THEN "err" ELSE "ok")
    /\ UNCHANGED <<flying, probe, kubeconfig>>

RmFails(p) ==
    /\ At(p, "rm")
    /\ cmd[p].listed # {}
    /\ RuntimeFails \/ ~ cmd[p].listed \subseteq Existing(Name(p))
    /\ \E gone \in SUBSET cmd[p].listed : RemoveContainers(p, gone)
    /\ Finish(p, "err", "failed")
    /\ UNCHANGED <<flying, probe, kubeconfig>>

Delete(p) ==
    \/ StartDelete(p) \/ List(p) \/ ListFails(p)
    \/ Unkube(p) \/ UnkubeFails(p) \/ Rm(p) \/ RmFails(p)

-----------------------------------------------------------------------------
\* The process is killed; its `run` calls go on, its scratch network stays.
Kill(p) ==
    /\ ~At(p, "idle")
    /\ Return(p, "killed")
    /\ leaked' = (leaked \/ p \in scratch)
    /\ scratch' = scratch \ {p}
    /\ UNCHANGED <<container, flying, kubeconfig>>

Next == \E p \in Procs : Create(p) \/ Delete(p) \/ Kill(p)

Spec == Init /\ [][Next]_vars

-----------------------------------------------------------------------------
(* What the commands promise. *)

Done(p, op, results) ==
    At(p, "idle") /\ cmd[p].op = op /\ cmd[p].alone /\ cmd[p].result \in results

\* A creation that reports success has created every node of its cluster, and
\* nothing a command on another cluster does takes one away.
CreatedIsComplete ==
    \A p \in Procs : Done(p, "create", {"ok", "stopped"}) => Existing(Name(p)) = Nodes(Name(p))

\* What a created cluster hands over to pause and resume, Init of Lifecycle: all
\* control planes have the file and are pinned, or none; only under the ip-pinned
\* label; and none is left off the network by a pin that failed.
CreatedForResume ==
    \A p \in Procs : Done(p, "create", {"ok", "stopped"}) =>
        \E pinned \in BOOLEAN : \A n \in CPSet(Name(p)) :
            LET x == container[Name(p)][n]
            IN  /\ pinned => x.label = "ip-pinned"
                /\ x.file = pinned
                /\ x.net = IF pinned THEN "pinned" ELSE "dynamic"

\* A cleanup or a delete whose calls succeed leaves no container but those that
\* `run` calls of the failed creation created after the nodes were listed.
LeftoversWereInFlight ==
    \A p \in Procs : At(p, "idle") /\ cmd[p].alone /\ cmd[p].cleanup = "done"
                        => Existing(Name(p)) \subseteq cmd[p].late

\* The kubeconfig names a cluster after it was created, and no more after it was
\* deleted: also when an earlier delete removed the nodes and failed on the file.
KubeconfigFollows ==
    \A p \in Procs :
        /\ Done(p, "create", {"ok"}) => Name(p) \in kubeconfig
        /\ Done(p, "delete", {"ok"}) => Name(p) \notin kubeconfig

-----------------------------------------------------------------------------
(* What the source says, and the code does not keep. *)

\* pkg/cluster/internal/create/create.go:211 "In case of errors nodes are deleted
\* (except if retain is explicitly set)": a creation that fails, and whose cleanup
\* reports no error, leaves no node when all its `run` calls have ended.
FailedCreateLeavesNothing ==
    \A p \in Procs :
        /\ Done(p, "create", {"err"}) /\ cmd[p].cleanup \in {"due", "done"}
        /\ ~cmd[p].retain /\ flying[p] = {}
        => Existing(Name(p)) = {}

\* pkg/internal/lifecycle/resume.go:150 "The cluster-level ip-pinned label is a
\* contract that every CP carries a valid /kind/ipam-state.json".
LabelIsContract ==
    \A p \in Procs : Done(p, "create", {"ok", "stopped"}) =>
        \A n \in CPSet(Name(p)) : LET x == container[Name(p)][n]
                         IN  x.label = "ip-pinned" => x.file
=============================================================================
