-------------------------- MODULE ProvisionProofs --------------------------
(***************************************************************************)
(* Proofs about Provision, for every number of processes, every set of     *)
(* clusters and every size of them: what an undisturbed creation or        *)
(* deletion promises when it reports success.                              *)
(***************************************************************************)
EXTENDS Provision, TLAPS

-----------------------------------------------------------------------------
(* The invariant. *)

\* Containers of a cluster are containers of its nodes; so are those yet to come.
OnlyNodes ==
    /\ \A c \in Clusters : Existing(c) \subseteq Nodes(c)
    /\ \A p \in Procs : flying[p] \subseteq Nodes(Name(p))

\* While the command of p is alone, no other process works on its cluster.
AloneInv ==
    \A p, q \in Procs : p # q /\ cmd[p].alone /\ Name(q) = Name(p) => At(q, "idle") /\ flying[q] = {}

DeletePhases == {"list", "unkube", "rm"}

\* What a command in a phase has come through, whoever works beside it.
PhaseOf(p) ==
    /\ ~At(p, "idle") => /\ cmd[p].op # "none" /\ cmd[p].result = "none"
                         /\ cmd[p].cleanup \in {"none", "due"}
    /\ cmd[p].op = "delete" => cmd[p].pc \in {"idle"} \cup DeletePhases
    /\ cmd[p].pc \notin {"idle", "run"} \cup DeletePhases => flying[p] = {}
    /\ cmd[p].pc \in {"unplug", "plug", "recover"} => cmd[p].i \in DOMAIN CPs[Name(p)]

\* Before its containers are launched, an undisturbed creation finds none; until all
\* have been run, each node has its container or is about to have it; then all have.
Complete(p) ==
    /\ At(p, "check") => cmd[p].label = ""
    /\ cmd[p].pc \in {"probe", "scratch"} /\ cmd[p].label = "" => Existing(Name(p)) = {}
    /\ At(p, "run") => Existing(Name(p)) \cup flying[p] = Nodes(Name(p))
    /\ \/ cmd[p].pc \in {"probe", "scratch"} /\ cmd[p].label # ""
       \/ cmd[p].pc \in {"pin", "unplug", "plug", "nodes", "setup", "export"}
       \/ Done(p, "create", {"ok", "stopped"})
       => Existing(Name(p)) = Nodes(Name(p)) /\ flying[p] = {}

\* A control plane as it was created, and as phase `pin` has changed it so far.
Fresh(label) == [label |-> label, file |-> FALSE, net |-> "dynamic"]
PinState(i, pc, k) ==
    [label |-> "ip-pinned",
     file  |-> k < i \/ (k = i /\ pc \in {"unplug", "plug"}),
     net   |-> IF k < i THEN "pinned" ELSE IF k = i /\ pc = "plug" THEN "detached" ELSE "dynamic"]
Pinned(p, k) == PinState(cmd[p].i, cmd[p].pc, k)

\* What CreatedForResume says of a cluster.
Resumable(c) ==
    \E pinned \in BOOLEAN : \A n \in CPSet(c) :
        LET x == container[c][n]
        IN  /\ pinned => x.label = "ip-pinned"
            /\ x.file = pinned
            /\ x.net = IF pinned THEN "pinned" ELSE "dynamic"

\* The control planes of an undisturbed creation carry its label, and are pinned one
\* after the other, or not at all.
Handed(p) ==
    /\ At(p, "run") => \A n \in CPSet(Name(p)) \cap Existing(Name(p)) :
                          container[Name(p)][n] = Fresh(cmd[p].label)
    /\ cmd[p].pc \in {"probe", "scratch"} /\ cmd[p].label # "" =>
          /\ HA(Name(p)) /\ cmd[p].label = "ip-pinned"
          /\ \A n \in CPSet(Name(p)) : container[Name(p)][n] = Fresh("ip-pinned")
    /\ cmd[p].pc \in {"pin", "unplug", "plug"} =>
          \A k \in DOMAIN CPs[Name(p)] : container[Name(p)][CPs[Name(p)][k]] = Pinned(p, k)
    /\ \/ cmd[p].pc \in {"nodes", "setup", "export"}
       \/ Done(p, "create", {"ok", "stopped"})
       => Resumable(Name(p))

\* Once the nodes are listed, a container that is not on the list was in flight.
Listed(p) ==
    /\ cmd[p].pc \in {"unkube", "rm"} =>
          Existing(Name(p)) \subseteq cmd[p].listed \cup cmd[p].late /\ flying[p] \subseteq cmd[p].late
    /\ At(p, "idle") /\ cmd[p].cleanup = "done" =>
          Existing(Name(p)) \subseteq cmd[p].late /\ flying[p] \subseteq cmd[p].late

\* The kubeconfig entry goes with the last step of a creation and the first of a
\* deletion; a deletion that could not remove it remembers the error.
Kubeconfig(p) ==
    /\ Done(p, "create", {"ok"}) => Name(p) \in kubeconfig
    /\ At(p, "rm") /\ ~cmd[p].kerr => Name(p) \notin kubeconfig
    /\ ~At(p, "rm") => ~cmd[p].kerr
    /\ Done(p, "delete", {"ok"}) => Name(p) \notin kubeconfig

Progress(p) == Complete(p) /\ Handed(p) /\ Listed(p) /\ Kubeconfig(p)

ProvisionInv ==
    /\ TypeOK /\ OnlyNodes /\ AloneInv
    /\ \A p \in Procs : PhaseOf(p) /\ (cmd[p].alone => Progress(p))

-----------------------------------------------------------------------------
(* What the steps make of the record of a command. *)

CmdType == cmd \in [Procs -> Commands]

\* What every step but the beginning of a command keeps.
Same(p) == /\ cmd'[p].op = cmd[p].op /\ cmd'[p].cluster = cmd[p].cluster
           /\ cmd'[p].alone = cmd[p].alone
\* A step to another phase, or none, that keeps the rest of the control flow.
Moved(p, pc) == /\ Same(p) /\ cmd'[p].pc = pc /\ cmd'[p].label = cmd[p].label
                /\ cmd'[p].result = cmd[p].result /\ cmd'[p].cleanup = cmd[p].cleanup
                /\ cmd'[p].kerr = cmd[p].kerr
\* The command returns.
Ended(p, r, cl) == /\ Same(p) /\ cmd'[p].pc = "idle" /\ cmd'[p].result = r
                   /\ cmd'[p].cleanup = cl /\ cmd'[p].late = cmd[p].late /\ ~cmd'[p].kerr
\* A creation fails: it returns with the error, or goes on to its cleanup.
Failed(p) == Moved(p, "list") \/ Ended(p, "err", cmd[p].cleanup)

\* A step changes the command of its process only, and leaves commands.
OwnCmd(p) == CmdType' /\ \A q \in Procs \ {p} : cmd'[q] = cmd[q]

\* The record of a command that begins is a command.
LEMMA NewType ==
    ASSUME NEW op \in {"none", "create", "delete"}, NEW c \in Clusters
    PROVE  New(op, c) \in Commands
BY DEF New, Commands, Phases, Results, ResumeLabels

\* An update of one command is its own.
LEMMA UpdateOwn ==
    ASSUME CmdType, NEW p \in Procs, NEW r \in Commands, cmd' = [cmd EXCEPT ![p] = r]
    PROVE  OwnCmd(p) /\ cmd'[p] = r
BY DEF CmdType, OwnCmd

\* Going to a phase.
LEMMA GotoRecord ==
    ASSUME CmdType, NEW p \in Procs, NEW pc \in Phases, Goto(p, pc)
    PROVE  OwnCmd(p) /\ Moved(p, pc) /\ cmd'[p].i = 1
<1>1. cmd[p] \in Commands
  BY DEF CmdType
<1> DEFINE r == [cmd[p] EXCEPT !.pc = pc, !.i = 1]
<1>2. r \in Commands
  BY <1>1 DEF Commands
<1>3. cmd' = [cmd EXCEPT ![p] = r]
  BY DEF Goto, CmdType
<1>4. r.i = 1 /\ r.pc = pc /\ r.op = cmd[p].op /\ r.cluster = cmd[p].cluster
      /\ r.alone = cmd[p].alone /\ r.label = cmd[p].label /\ r.result = cmd[p].result
      /\ r.cleanup = cmd[p].cleanup /\ r.kerr = cmd[p].kerr
  BY <1>1 DEF Commands
<1> HIDE DEF r
<1>5. OwnCmd(p) /\ cmd'[p] = r
  BY <1>2, <1>3, UpdateOwn
<1> QED
  BY <1>4, <1>5 DEF Moved, Same

\* Returning.
LEMMA FinishRecord ==
    ASSUME CmdType, NEW p \in Procs, NEW r \in Results,
           NEW cl \in {"none", "due", "done", "failed"}, Finish(p, r, cl)
    PROVE  OwnCmd(p) /\ Ended(p, r, cl)
<1>1. cmd[p] \in Commands
  BY DEF CmdType
<1> DEFINE label == IF flying[p] = {} THEN "" ELSE cmd[p].label
           rec == [New(cmd[p].op, Name(p)) EXCEPT !.result = r, !.cleanup = cl,
                      !.retain = cmd[p].retain, !.late = cmd[p].late, !.alone = cmd[p].alone,
                      !.label = label]
<1>2. label \in ResumeLabels
  BY <1>1 DEF Commands, ResumeLabels
<1>3. New(cmd[p].op, Name(p)) \in Commands
  BY <1>1, NewType DEF Commands, Name
<1> HIDE DEF label
<1>4. rec \in Commands
  BY <1>1, <1>2, <1>3 DEF Commands
<1>5. /\ rec.pc = "idle" /\ rec.result = r /\ rec.cleanup = cl /\ rec.late = cmd[p].late
      /\ rec.kerr = FALSE /\ rec.op = cmd[p].op /\ rec.cluster = cmd[p].cluster
      /\ rec.alone = cmd[p].alone
  BY DEF New, Name
<1>6. cmd' = [cmd EXCEPT ![p] = rec]
  BY DEF Finish, label
<1> HIDE DEF rec
<1>7. OwnCmd(p) /\ cmd'[p] = rec
  BY <1>4, <1>6, UpdateOwn
<1> QED
  BY <1>5, <1>7 DEF Ended, Same

\* Failing.
LEMMA FailRecord ==
    ASSUME CmdType, NEW p \in Procs, Fail(p)
    PROVE  OwnCmd(p) /\ Failed(p)
<1>1. cmd[p].cleanup \in {"none", "due", "done", "failed"}
  BY DEF CmdType, Commands
<1>2. CASE Finish(p, "err", cmd[p].cleanup)
  BY <1>1, <1>2, FinishRecord DEF Results, Failed
<1>3. CASE Goto(p, "list")
  BY <1>3, GotoRecord DEF Phases, Failed
<1> QED
  BY <1>2, <1>3 DEF Fail, Return

\* Launching the containers.
LEMMA LaunchRecord ==
    ASSUME CmdType, NEW p \in Procs, NEW label \in ResumeLabels, Launch(p, label)
    PROVE  /\ OwnCmd(p) /\ Same(p) /\ cmd'[p].pc = "run" /\ cmd'[p].label = label
           /\ cmd'[p].result = cmd[p].result /\ cmd'[p].cleanup = cmd[p].cleanup
           /\ cmd'[p].kerr = cmd[p].kerr
<1>1. cmd[p] \in Commands
  BY DEF CmdType
<1> DEFINE r == [cmd[p] EXCEPT !.pc = "run", !.label = label]
<1>2. r \in Commands /\ cmd' = [cmd EXCEPT ![p] = r]
  BY <1>1 DEF Commands, Phases, Launch, CmdType
<1>3. OwnCmd(p) /\ cmd'[p] = r
  BY <1>2, UpdateOwn
<1> QED
  BY <1>1, <1>3 DEF Commands, Same

\* The check, the scratch network, and the steps of the pinning and of the set-up.
LEMMA CreateRecords ==
    ASSUME CmdType, NEW p \in Procs
    PROVE  /\ Check(p) =>
                 /\ OwnCmd(p)
                 /\ \/ Ended(p, "err", cmd[p].cleanup)
                    \/ /\ Same(p) /\ Existing(Name(p)) = {} /\ cmd'[p].pc = "probe"
                       /\ cmd'[p].label = cmd[p].label /\ cmd'[p].result = cmd[p].result
                       /\ cmd'[p].cleanup = "due" /\ cmd'[p].kerr = cmd[p].kerr
           /\ ScratchCreated(p) => OwnCmd(p) /\ Moved(p, "scratch")
           /\ Record(p) => OwnCmd(p) /\ Moved(p, "unplug") /\ cmd'[p].i = cmd[p].i
           /\ Unplug(p) => OwnCmd(p) /\ Moved(p, "plug") /\ cmd'[p].i = cmd[p].i
           /\ Plug(p) => OwnCmd(p) /\ Moved(p, "pin") /\ cmd'[p].i = cmd[p].i + 1
           /\ PlugFails(p) => OwnCmd(p) /\ Moved(p, "recover") /\ cmd'[p].i = cmd[p].i
           /\ ListForActions(p) => OwnCmd(p) /\ Moved(p, "setup")
           /\ ExportFails(p) =>
                 OwnCmd(p) /\ (Moved(p, "export") \/ Ended(p, "err", cmd[p].cleanup))
<1>1. cmd[p] \in Commands /\ cmd[p].cleanup \in {"none", "due", "done", "failed"}
      /\ cmd[p].i \in Nat
  BY DEF CmdType, Commands
<1>2. ASSUME Check(p)
      PROVE  /\ OwnCmd(p)
             /\ \/ Ended(p, "err", cmd[p].cleanup)
                \/ /\ Same(p) /\ Existing(Name(p)) = {} /\ cmd'[p].pc = "probe"
                   /\ cmd'[p].label = cmd[p].label /\ cmd'[p].result = cmd[p].result
                   /\ cmd'[p].cleanup = "due" /\ cmd'[p].kerr = cmd[p].kerr
  <2>1. CASE Return(p, "err")
    BY <1>1, <2>1, FinishRecord DEF Return, Results
  <2>2. CASE /\ Existing(Name(p)) = {}
             /\ cmd' = [cmd EXCEPT ![p].pc = "probe", ![p].cleanup = "due"]
    <3> DEFINE r == [cmd[p] EXCEPT !.pc = "probe", !.cleanup = "due"]
    <3>1. r \in Commands /\ cmd' = [cmd EXCEPT ![p] = r]
      BY <1>1, <2>2 DEF Commands, Phases, CmdType
    <3>2. r.op = cmd[p].op /\ r.cluster = cmd[p].cluster /\ r.alone = cmd[p].alone
          /\ r.pc = "probe" /\ r.label = cmd[p].label /\ r.result = cmd[p].result
          /\ r.cleanup = "due" /\ r.kerr = cmd[p].kerr
      BY <1>1 DEF Commands
    <3> HIDE DEF r
    <3>3. OwnCmd(p) /\ cmd'[p] = r
      BY <3>1, UpdateOwn
    <3> QED
      BY <2>2, <3>2, <3>3 DEF Same
  <2> QED
    BY <1>2, <2>1, <2>2 DEF Check
<1>3. ASSUME NEW pc \in Phases, cmd' = [cmd EXCEPT ![p].pc = pc]
      PROVE  OwnCmd(p) /\ Moved(p, pc) /\ cmd'[p].i = cmd[p].i
  <2> DEFINE r == [cmd[p] EXCEPT !.pc = pc]
  <2>1. r \in Commands /\ cmd' = [cmd EXCEPT ![p] = r]
    BY <1>1, <1>3 DEF Commands, CmdType
  <2>2. OwnCmd(p) /\ cmd'[p] = r
    BY <2>1, UpdateOwn
  <2> QED
    BY <1>1, <2>2 DEF Commands, Moved, Same
<1>4. ASSUME Plug(p) PROVE OwnCmd(p) /\ Moved(p, "pin") /\ cmd'[p].i = cmd[p].i + 1
  <2> DEFINE r == [cmd[p] EXCEPT !.pc = "pin", !.i = cmd[p].i + 1]
  <2>1. cmd[p].i + 1 \in Nat
    BY <1>1
  <2>2. r \in Commands /\ cmd' = [cmd EXCEPT ![p] = r]
    BY <1>1, <1>4, <2>1 DEF Commands, Phases, CmdType, Plug
  <2>3. OwnCmd(p) /\ cmd'[p] = r
    BY <2>2, UpdateOwn
  <2> QED
    BY <1>1, <2>3 DEF Commands, Moved, Same
<1>5. ASSUME ListForActions(p) PROVE OwnCmd(p) /\ Moved(p, "setup")
  <2> DEFINE r == [cmd[p] EXCEPT !.pc = "setup", !.listed = Existing(Name(p))]
  <2>1. Existing(Name(p)) \in SUBSET AllNodes
    BY DEF Existing
  <2>2. r \in Commands /\ cmd' = [cmd EXCEPT ![p] = r]
    BY <1>1, <1>5, <2>1 DEF Commands, Phases, CmdType, ListForActions
  <2>3. OwnCmd(p) /\ cmd'[p] = r
    BY <2>2, UpdateOwn
  <2> QED
    BY <1>1, <2>3 DEF Commands, Moved, Same
<1>6. ASSUME ExportFails(p)
      PROVE  OwnCmd(p) /\ (Moved(p, "export") \/ Ended(p, "err", cmd[p].cleanup))
  <2>1. CASE Return(p, "err")
    BY <1>1, <2>1, FinishRecord DEF Return, Results
  <2>2. CASE cmd' = [cmd EXCEPT ![p].i = @ + 1]
    <3> DEFINE r == [cmd[p] EXCEPT !.i = cmd[p].i + 1]
    <3>1. cmd[p].i + 1 \in Nat
      BY <1>1
    <3>2. r \in Commands /\ cmd' = [cmd EXCEPT ![p] = r]
      BY <1>1, <2>2, <3>1 DEF Commands, CmdType
    <3>3. OwnCmd(p) /\ cmd'[p] = r
      BY <3>2, UpdateOwn
    <3> QED
      BY <1>1, <1>6, <3>3 DEF Commands, Moved, Same, ExportFails, At
  <2> QED
    BY <1>6, <2>1, <2>2 DEF ExportFails
<1>7. ASSUME ScratchCreated(p) PROVE OwnCmd(p) /\ Moved(p, "scratch")
  BY <1>3, <1>7 DEF ScratchCreated, Phases
<1>8. ASSUME Record(p) PROVE OwnCmd(p) /\ Moved(p, "unplug") /\ cmd'[p].i = cmd[p].i
  BY <1>3, <1>8 DEF Record, Phases
<1>9. ASSUME Unplug(p) PROVE OwnCmd(p) /\ Moved(p, "plug") /\ cmd'[p].i = cmd[p].i
  BY <1>3, <1>9 DEF Unplug, Phases
<1>10. ASSUME PlugFails(p) PROVE OwnCmd(p) /\ Moved(p, "recover") /\ cmd'[p].i = cmd[p].i
  BY <1>3, <1>10 DEF PlugFails, Phases
<1> QED
  BY <1>2, <1>4, <1>5, <1>6, <1>7, <1>8, <1>9, <1>10

\* The steps of a deletion.
LEMMA DeleteRecords ==
    ASSUME CmdType, flying \in [Procs -> SUBSET AllNodes], NEW p \in Procs
    PROVE  /\ List(p) =>
                 /\ OwnCmd(p) /\ Same(p) /\ cmd'[p].pc = "unkube"
                 /\ cmd'[p].listed = Existing(Name(p)) /\ cmd'[p].late = flying[p]
                 /\ cmd'[p].result = cmd[p].result /\ cmd'[p].cleanup = cmd[p].cleanup
                 /\ cmd'[p].kerr = cmd[p].kerr
           /\ ListFails(p) => OwnCmd(p) /\ Ended(p, "err", "failed")
           /\ Unkube(p) => /\ OwnCmd(p) /\ Moved(p, "rm")
                           /\ cmd'[p].listed = cmd[p].listed /\ cmd'[p].late = cmd[p].late
           /\ UnkubeFails(p) =>
                 /\ OwnCmd(p) /\ Same(p) /\ cmd'[p].pc = "rm" /\ cmd'[p].kerr
                 /\ cmd'[p].listed = cmd[p].listed /\ cmd'[p].late = cmd[p].late
                 /\ cmd'[p].result = cmd[p].result /\ cmd'[p].cleanup = cmd[p].cleanup
           /\ Rm(p) => /\ OwnCmd(p)
                       /\ \/ cmd[p].op = "create" /\ Ended(p, "err", "done")
                          \/ cmd[p].op # "create" /\ cmd[p].kerr /\ Ended(p, "err", "done")
                          \/ cmd[p].op # "create" /\ ~cmd[p].kerr /\ Ended(p, "ok", "done")
           /\ RmFails(p) => OwnCmd(p) /\ Ended(p, "err", "failed")
           /\ Kill(p) => OwnCmd(p) /\ Ended(p, "killed", cmd[p].cleanup)
<1>1. cmd[p] \in Commands /\ cmd[p].cleanup \in {"none", "due", "done", "failed"}
  BY DEF CmdType, Commands
<1>2. ASSUME List(p)
      PROVE  /\ OwnCmd(p) /\ Same(p) /\ cmd'[p].pc = "unkube"
             /\ cmd'[p].listed = Existing(Name(p)) /\ cmd'[p].late = flying[p]
             /\ cmd'[p].result = cmd[p].result /\ cmd'[p].cleanup = cmd[p].cleanup
             /\ cmd'[p].kerr = cmd[p].kerr
  <2> DEFINE r == [cmd[p] EXCEPT !.listed = Existing(Name(p)), !.late = flying[p], !.pc = "unkube"]
  <2>1. Existing(Name(p)) \in SUBSET AllNodes /\ flying[p] \in SUBSET AllNodes
    BY DEF Existing
  <2>2. r \in Commands /\ cmd' = [cmd EXCEPT ![p] = r]
    BY <1>1, <1>2, <2>1 DEF Commands, Phases, CmdType, List
  <2>3. OwnCmd(p) /\ cmd'[p] = r
    BY <2>2, UpdateOwn
  <2> QED
    BY <1>1, <2>3 DEF Commands, Same
<1>3. ASSUME Unkube(p)
      PROVE  /\ OwnCmd(p) /\ Moved(p, "rm")
             /\ cmd'[p].listed = cmd[p].listed /\ cmd'[p].late = cmd[p].late
  <2>1. Goto(p, "rm")
    BY <1>3 DEF Unkube
  <2>2. cmd'[p] = [cmd[p] EXCEPT !.pc = "rm", !.i = 1]
    BY <2>1 DEF Goto, CmdType
  <2>3. cmd'[p].listed = cmd[p].listed /\ cmd'[p].late = cmd[p].late
    BY <1>1, <2>2 DEF Commands
  <2> QED
    BY <2>1, <2>3, GotoRecord DEF Phases
<1>4. ASSUME UnkubeFails(p)
      PROVE  /\ OwnCmd(p) /\ Same(p) /\ cmd'[p].pc = "rm" /\ cmd'[p].kerr
             /\ cmd'[p].listed = cmd[p].listed /\ cmd'[p].late = cmd[p].late
             /\ cmd'[p].result = cmd[p].result /\ cmd'[p].cleanup = cmd[p].cleanup
  <2> DEFINE r == [cmd[p] EXCEPT !.pc = "rm", !.kerr = TRUE]
  <2>1. r \in Commands /\ cmd' = [cmd EXCEPT ![p] = r]
    BY <1>1, <1>4 DEF Commands, Phases, CmdType, UnkubeFails
  <2>2. OwnCmd(p) /\ cmd'[p] = r
    BY <2>1, UpdateOwn
  <2> QED
    BY <1>1, <2>2 DEF Commands, Same
<1>5. ASSUME Rm(p)
      PROVE  /\ OwnCmd(p)
             /\ \/ cmd[p].op = "create" /\ Ended(p, "err", "done")
                \/ cmd[p].op # "create" /\ cmd[p].kerr /\ Ended(p, "err", "done")
                \/ cmd[p].op # "create" /\ ~cmd[p].kerr /\ Ended(p, "ok", "done")
  <2>1. Deleted(p, IF cmd[p].kerr THEN "err" ELSE "ok")
    BY <1>5 DEF Rm
  <2>2. CASE cmd[p].op = "create" \/ cmd[p].kerr
    <3>1. Finish(p, "err", "done")
      BY <2>1, <2>2 DEF Deleted
    <3> QED
      BY <2>2, <3>1, FinishRecord DEF Results
  <2>3. CASE cmd[p].op # "create" /\ ~cmd[p].kerr
    <3>1. Finish(p, "ok", "done")
      BY <2>1, <2>3 DEF Deleted
    <3> QED
      BY <2>3, <3>1, FinishRecord DEF Results
  <2> QED
    BY <2>2, <2>3
<1>6. ASSUME Kill(p) PROVE OwnCmd(p) /\ Ended(p, "killed", cmd[p].cleanup)
  BY <1>1, <1>6, FinishRecord DEF Kill, Return, Results
<1>7. ASSUME ListFails(p) \/ RmFails(p) PROVE OwnCmd(p) /\ Ended(p, "err", "failed")
  BY <1>7, FinishRecord DEF ListFails, RmFails, Results
<1> QED
  BY <1>2, <1>3, <1>4, <1>5, <1>6, <1>7

-----------------------------------------------------------------------------
(* The steps of a command leave the other clusters and the other processes alone. *)

ContainerType == container \in [Clusters -> [AllNodes -> Containers \cup {Absent}]]

\* What a step makes of the containers: those of one cluster change, and are its nodes'.
OwnContainers(p) ==
    /\ ContainerType'
    /\ \A c \in Clusters \ {Name(p)} : container'[c] = container[c]
    /\ \A n \in AllNodes : container'[Name(p)][n] # Absent => n \in Nodes(Name(p))
\* ... and of the rest of the state.
OwnData(p) ==
    /\ OwnContainers(p)
    /\ flying' \in [Procs -> SUBSET AllNodes] /\ flying'[p] \subseteq Nodes(Name(p))
    /\ \A q \in Procs \ {p} : flying'[q] = flying[q]
    /\ scratch' \subseteq Procs /\ leaked' \in BOOLEAN /\ kubeconfig' \subseteq Clusters
    /\ \A c \in Clusters \ {Name(p)} : c \in kubeconfig' <=> c \in kubeconfig
Frame(p) == OwnCmd(p) /\ Same(p) /\ OwnData(p) /\ (~At(p, "idle") \/ flying[p] # {})

\* The nodes of a cluster are nodes; its control planes are different ones.
LEMMA NodeFacts ==
    ASSUME TypeOK, NEW p \in Procs
    PROVE  /\ cmd[p] \in Commands /\ Name(p) \in Clusters /\ Nodes(Name(p)) \subseteq AllNodes
           /\ CPSet(Name(p)) \subseteq Nodes(Name(p))
           /\ DOMAIN CPs[Name(p)] = 1 .. Len(CPs[Name(p)]) /\ Len(CPs[Name(p)]) \in Nat
           /\ Len(CPs[Name(p)]) >= 1
           /\ \A k \in DOMAIN CPs[Name(p)] : CPs[Name(p)][k] \in CPSet(Name(p))
           /\ \A j, k \in DOMAIN CPs[Name(p)] : CPs[Name(p)][j] = CPs[Name(p)][k] => j = k
<1>1. cmd[p] \in Commands /\ Name(p) \in Clusters
  BY DEF TypeOK, Commands, Name
<1>2. Nodes(Name(p)) \subseteq AllNodes /\ CPSet(Name(p)) \subseteq Nodes(Name(p))
  BY <1>1 DEF AllNodes, Nodes
<1>3. CPs[Name(p)] \in Seq(CPSet(Name(p))) /\ Len(CPs[Name(p)]) >= 1
      /\ \A j, k \in DOMAIN CPs[Name(p)] : CPs[Name(p)][j] = CPs[Name(p)][k] => j = k
  BY <1>1, NodesAssumption
<1>4. \A k \in DOMAIN CPs[Name(p)] : CPs[Name(p)][k] \in CPSet(Name(p))
  BY DEF CPSet
<1> QED
  BY <1>1, <1>2, <1>3, <1>4

\* A step that leaves the containers.
LEMMA KeepContainers ==
    ASSUME TypeOK, OnlyNodes, NEW p \in Procs, UNCHANGED container
    PROVE  OwnContainers(p)
BY NodeFacts DEF TypeOK, OnlyNodes, Existing, OwnContainers, ContainerType

\* Writing one container of a node of the cluster.
LEMMA WriteContainer ==
    ASSUME TypeOK, OnlyNodes, NEW p \in Procs, NEW n \in Nodes(Name(p)), NEW x \in Containers,
           container' = [container EXCEPT ![Name(p)][n] = x]
    PROVE  /\ OwnContainers(p) /\ container'[Name(p)][n] = x /\ x # Absent
           /\ \A m \in AllNodes \ {n} : container'[Name(p)][m] = container[Name(p)][m]
<1>1. Name(p) \in Clusters /\ n \in AllNodes
  BY NodeFacts
<1>2. ContainerType /\ container[Name(p)] \in [AllNodes -> Containers \cup {Absent}]
  BY <1>1 DEF TypeOK, ContainerType
<1> DEFINE f == [container[Name(p)] EXCEPT ![n] = x]
<1>3. f \in [AllNodes -> Containers \cup {Absent}] /\ f[n] = x
      /\ \A m \in AllNodes \ {n} : f[m] = container[Name(p)][m]
  BY <1>1, <1>2
<1>4. container' = [container EXCEPT ![Name(p)] = f]
  OBVIOUS
<1> HIDE DEF f
<1>5. ContainerType' /\ container'[Name(p)] = f
      /\ \A c \in Clusters \ {Name(p)} : container'[c] = container[c]
  BY <1>1, <1>2, <1>3, <1>4 DEF ContainerType
<1>6. \A m \in AllNodes : container'[Name(p)][m] # Absent => m \in Nodes(Name(p))
  BY <1>1, <1>3, <1>5 DEF OnlyNodes, Existing
<1>7. x # Absent
  BY AbsentAssumption
<1> QED
  BY <1>3, <1>5, <1>6, <1>7 DEF OwnContainers

\* Removing some containers of the cluster.
LEMMA RemoveFrame ==
    ASSUME TypeOK, OnlyNodes, NEW p \in Procs, NEW gone, RemoveContainers(p, gone)
    PROVE  /\ OwnContainers(p)
           /\ \A m \in AllNodes : container'[Name(p)][m] =
                 IF m \in gone THEN Absent ELSE container[Name(p)][m]
<1>1. Name(p) \in Clusters
  BY NodeFacts
<1>2. ContainerType /\ container[Name(p)] \in [AllNodes -> Containers \cup {Absent}]
  BY <1>1 DEF TypeOK, ContainerType
<1> DEFINE f == [m \in AllNodes |-> IF m \in gone THEN Absent ELSE container[Name(p)][m]]
<1>3. f \in [AllNodes -> Containers \cup {Absent}]
      /\ \A m \in AllNodes : f[m] = IF m \in gone THEN Absent ELSE container[Name(p)][m]
  BY <1>2
<1>4. container' = [container EXCEPT ![Name(p)] = f]
  BY DEF RemoveContainers
<1> HIDE DEF f
<1>5. ContainerType' /\ container'[Name(p)] = f
      /\ \A c \in Clusters \ {Name(p)} : container'[c] = container[c]
  BY <1>1, <1>2, <1>3, <1>4 DEF ContainerType
<1>6. \A m \in AllNodes : container'[Name(p)][m] # Absent => m \in Nodes(Name(p))
  BY <1>1, <1>3, <1>5 DEF OnlyNodes, Existing
<1> QED
  BY <1>3, <1>5, <1>6 DEF OwnContainers

\* A command whose cluster and record a step leaves has come through the same.
LEMMA ProgressUntouched ==
    ASSUME NEW q \in Procs, Progress(q), cmd'[q] = cmd[q], flying'[q] = flying[q],
           container'[Name(q)] = container[Name(q)],
           Name(q) \in kubeconfig' <=> Name(q) \in kubeconfig
    PROVE  Progress(q)'
<1>1. Existing(Name(q))' = Existing(Name(q)) /\ Name(q)' = Name(q)
  BY DEF Existing, Name
<1>2. Complete(q)'
  BY <1>1 DEF Progress, Complete, Done, At, Name
<1>3. Handed(q)'
  <2>1. \A k : Pinned(q, k)' = Pinned(q, k)
    BY DEF Pinned
  <2>2. Resumable(Name(q)) => Resumable(Name(q))'
    BY <1>1 DEF Resumable
  <2>3. At(q, "run")' = At(q, "run") /\ Fresh(cmd[q].label)' = Fresh(cmd[q].label)
        /\ Done(q, "create", {"ok", "stopped"})' = Done(q, "create", {"ok", "stopped"})
        /\ CPSet(Name(q))' = CPSet(Name(q)) /\ HA(Name(q))' = HA(Name(q))
    BY <1>1 DEF At, Fresh, Done, CPSet, HA
  <2>4. /\ At(q, "run")' => \A n \in CPSet(Name(q))' \cap Existing(Name(q))' :
                               container'[Name(q)'][n] = Fresh(cmd[q].label)'
        /\ cmd'[q].pc \in {"probe", "scratch"} /\ cmd'[q].label # "" =>
              /\ HA(Name(q))' /\ cmd'[q].label = "ip-pinned"
              /\ \A n \in CPSet(Name(q))' : container'[Name(q)'][n] = Fresh("ip-pinned")
        /\ cmd'[q].pc \in {"pin", "unplug", "plug"} =>
              \A k \in DOMAIN CPs[Name(q)'] : container'[Name(q)'][CPs[Name(q)'][k]] = Pinned(q, k)'
    BY <1>1, <2>1, <2>3 DEF Progress, Handed
  <2>5. \/ cmd'[q].pc \in {"nodes", "setup", "export"}
        \/ Done(q, "create", {"ok", "stopped"})'
        => Resumable(Name(q))'
    BY <2>2, <2>3 DEF Progress, Handed
  <2> QED
    BY <2>4, <2>5 DEF Handed
<1>4. Listed(q)'
  BY <1>1 DEF Progress, Listed, At
<1>5. Kubeconfig(q)'
  BY <1>1 DEF Progress, Kubeconfig, Done, At
<1> QED
  BY <1>2, <1>3, <1>4, <1>5 DEF Progress

\* What a command keeps true, it keeps true for all: no other process whose command is
\* alone works on its cluster.
LEMMA FrameKeepsInv ==
    ASSUME ProvisionInv, NEW p \in Procs, Frame(p), PhaseOf(p)', cmd[p].alone => Progress(p)'
    PROVE  ProvisionInv'
<1>1. TypeOK'
  BY DEF Frame, OwnCmd, OwnData, OwnContainers, ContainerType, CmdType, TypeOK
<1>2. \A q \in Procs : cmd'[q].cluster = cmd[q].cluster /\ cmd'[q].alone = cmd[q].alone
  BY DEF Frame, OwnCmd, Same
<1>3. Name(p) \in Clusters /\ \A q \in Procs : Name(q) \in Clusters
  BY NodeFacts DEF ProvisionInv
<1>4. OnlyNodes'
  <2>1. ASSUME NEW c \in Clusters PROVE Existing(c)' \subseteq Nodes(c)
    <3>1. CASE c = Name(p)
      BY <3>1 DEF Frame, OwnData, OwnContainers, Existing
    <3>2. CASE c # Name(p)
      <4>1. container'[c] = container[c]
        BY <3>2 DEF Frame, OwnData, OwnContainers
      <4>2. Existing(c)' = Existing(c)
        BY <4>1 DEF Existing
      <4> QED
        BY <4>2 DEF ProvisionInv, OnlyNodes
    <3> QED
      BY <3>1, <3>2
  <2>2. ASSUME NEW q \in Procs PROVE flying'[q] \subseteq Nodes(cmd'[q].cluster)
    <3>1. CASE q = p
      BY <1>2, <3>1 DEF Frame, OwnData, Name
    <3>2. CASE q # p
      BY <1>2, <3>2 DEF Frame, OwnData, Name, ProvisionInv, OnlyNodes
    <3> QED
      BY <3>1, <3>2
  <2> QED
    BY <2>1, <2>2 DEF OnlyNodes, Name, Nodes, CPSet
<1>5. ASSUME NEW r \in Procs, NEW q \in Procs, r # q, cmd[r].alone, cmd[q].cluster = cmd[r].cluster
      PROVE  q # p /\ At(q, "idle") /\ flying[q] = {}
  BY <1>5 DEF Frame, ProvisionInv, AloneInv, Name
<1>6. AloneInv'
  BY <1>2, <1>5 DEF Frame, OwnCmd, OwnData, AloneInv, Name, At
<1>7. ASSUME NEW q \in Procs
      PROVE  PhaseOf(q)' /\ (cmd'[q].alone => Progress(q)')
  <2>1. CASE q = p
    BY <1>2, <2>1
  <2>2. CASE q # p
    <3>1. cmd'[q] = cmd[q] /\ flying'[q] = flying[q]
      BY <2>2 DEF Frame, OwnCmd, OwnData
    <3>2. PhaseOf(q) /\ (cmd[q].alone => Progress(q))
      BY DEF ProvisionInv
    <3>3. PhaseOf(q)'
      BY <3>1, <3>2 DEF PhaseOf, At, Name
    <3>4. ASSUME cmd[q].alone PROVE Progress(q)'
      <4>1. Name(q) # Name(p)
        BY <1>5, <2>2, <3>4 DEF Name
      <4>2. container'[Name(q)] = container[Name(q)]
            /\ (Name(q) \in kubeconfig' <=> Name(q) \in kubeconfig)
        BY <1>3, <4>1 DEF Frame, OwnData, OwnContainers
      <4> QED
        BY <3>1, <3>2, <3>4, <4>2, ProgressUntouched
    <3> QED
      BY <3>1, <3>3, <3>4
  <2> QED
    BY <2>1, <2>2
<1> QED
  BY <1>1, <1>4, <1>6, <1>7 DEF ProvisionInv

-----------------------------------------------------------------------------
(* Each step keeps what its own command has come through. *)

Kept(p) == Frame(p) /\ PhaseOf(p)' /\ (cmd[p].alone => Progress(p)')

\* A step that touches nothing shared but the containers of its cluster.
LEMMA QuietFrame ==
    ASSUME ProvisionInv, NEW p \in Procs, OwnCmd(p), Same(p), OwnContainers(p),
           UNCHANGED <<flying, probe, kubeconfig>>, ~At(p, "idle")
    PROVE  Frame(p)
BY DEF ProvisionInv, TypeOK, OnlyNodes, Frame, OwnData, probe

\* A command that returns without success claims nothing, unless its cleanup is done.
LEMMA EndedKeeps ==
    ASSUME ProvisionInv, NEW p \in Procs, Frame(p), NEW r, NEW cl, Ended(p, r, cl),
           r \notin {"ok", "stopped"}, cl # "done"
    PROVE  Kept(p)
<1>1. PhaseOf(p)'
  BY DEF Ended, PhaseOf, At
<1>2. Progress(p)'
  <2>1. Complete(p)'
    BY DEF Ended, Complete, Done, At
  <2>2. Handed(p)'
    BY DEF Ended, Handed, Done, At
  <2>3. Listed(p)'
    BY DEF Ended, Listed, At
  <2>4. Kubeconfig(p)'
    BY DEF Ended, Kubeconfig, Done, At
  <2> QED
    BY <2>1, <2>2, <2>3, <2>4 DEF Progress
<1> QED
  BY <1>1, <1>2 DEF Kept

\* A creation that fails returns, or goes on to its cleanup.
LEMMA FailedKeeps ==
    ASSUME ProvisionInv, NEW p \in Procs, Frame(p), Failed(p), ~At(p, "idle"), ~At(p, "rm")
    PROVE  Kept(p)
<1>1. cmd[p].cleanup # "done" /\ PhaseOf(p)
  BY DEF ProvisionInv, PhaseOf
<1>2. CASE Ended(p, "err", cmd[p].cleanup)
  BY <1>1, <1>2, EndedKeeps
<1>3. CASE Moved(p, "list")
  <2>1. PhaseOf(p)'
    BY <1>1, <1>3 DEF Moved, Same, PhaseOf, At, DeletePhases
  <2>2. ASSUME cmd[p].alone PROVE Progress(p)'
    <3>1. ~cmd[p].kerr
      BY <2>2 DEF ProvisionInv, Progress, Kubeconfig
    <3>2. Complete(p)'
      BY <1>3 DEF Moved, Complete, Done, At
    <3>3. Handed(p)'
      BY <1>3 DEF Moved, Handed, Done, At
    <3>4. Listed(p)'
      BY <1>3 DEF Moved, Listed, At
    <3>5. Kubeconfig(p)'
      BY <1>3, <3>1 DEF Moved, Kubeconfig, Done, At
    <3> QED
      BY <3>2, <3>3, <3>4, <3>5 DEF Progress
  <2> QED
    BY <2>1, <2>2 DEF Kept
<1> QED
  BY <1>2, <1>3 DEF Failed

\* The failures, and a kill.
LEMMA FailuresKeep ==
    ASSUME ProvisionInv, NEW p \in Procs,
           PrepareFails(p) \/ RecordFails(p) \/ UnplugFails(p) \/ SetupFails(p)
              \/ ListFails(p) \/ Kill(p)
    PROVE  Kept(p)
<1>1. TypeOK /\ OnlyNodes /\ CmdType /\ flying \in [Procs -> SUBSET AllNodes] /\ PhaseOf(p)
  BY DEF ProvisionInv, TypeOK, CmdType
<1>2. OwnContainers(p)
  BY <1>1, KeepContainers DEF PrepareFails, RecordFails, UnplugFails, SetupFails, ListFails, Kill
<1>3. CASE PrepareFails(p) \/ RecordFails(p) \/ UnplugFails(p) \/ SetupFails(p)
  <2>1. OwnCmd(p) /\ Failed(p) /\ ~At(p, "idle") /\ ~At(p, "rm")
    BY <1>1, <1>3, FailRecord DEF PrepareFails, RecordFails, UnplugFails, SetupFails, At
  <2>2. Frame(p)
    BY <1>2, <1>3, <2>1, QuietFrame
       DEF PrepareFails, RecordFails, UnplugFails, SetupFails, Failed, Moved, Ended
  <2> QED
    BY <2>1, <2>2, FailedKeeps
<1>4. CASE ListFails(p)
  <2>1. OwnCmd(p) /\ Ended(p, "err", "failed") /\ ~At(p, "idle")
    BY <1>1, <1>4, DeleteRecords DEF ListFails, At
  <2>2. Frame(p)
    BY <1>2, <1>4, <2>1, QuietFrame DEF ListFails, Ended
  <2> QED
    BY <2>1, <2>2, EndedKeeps
<1>5. CASE Kill(p)
  <2>1. OwnCmd(p) /\ Ended(p, "killed", cmd[p].cleanup) /\ ~At(p, "idle")
    BY <1>1, <1>5, DeleteRecords DEF Kill
  <2>2. scratch' \subseteq Procs /\ leaked' \in BOOLEAN
    BY <1>1, <1>5 DEF Kill, TypeOK
  <2>3. Frame(p)
    BY <1>1, <1>2, <1>5, <2>1, <2>2 DEF Kill, Frame, OwnData, Ended, OnlyNodes, TypeOK
  <2>4. cmd[p].cleanup # "done"
    BY <1>1, <2>1 DEF PhaseOf
  <2> QED
    BY <2>1, <2>3, <2>4, EndedKeeps
<1> QED
  BY <1>3, <1>4, <1>5

\* The check for an existing cluster, and the scratch network.
LEMMA ChecksKeep ==
    ASSUME ProvisionInv, NEW p \in Procs, Check(p) \/ ScratchCreated(p)
    PROVE  Kept(p)
<1>1. TypeOK /\ OnlyNodes /\ CmdType /\ PhaseOf(p) /\ (cmd[p].alone => Progress(p))
  BY DEF ProvisionInv, TypeOK, CmdType
<1>2. OwnContainers(p)
  BY <1>1, KeepContainers DEF Check, ScratchCreated
<1>3. CASE Check(p)
  <2>1. OwnCmd(p) /\ At(p, "check") /\ ~At(p, "idle")
    BY <1>1, <1>3, CreateRecords DEF Check, At
  <2>2. CASE Ended(p, "err", cmd[p].cleanup)
    <3>1. Frame(p)
      BY <1>2, <1>3, <2>1, <2>2, QuietFrame DEF Check, Ended
    <3> QED
      BY <1>1, <2>1, <2>2, <3>1, EndedKeeps DEF PhaseOf
  <2>3. CASE /\ Same(p) /\ Existing(Name(p)) = {} /\ cmd'[p].pc = "probe"
             /\ cmd'[p].label = cmd[p].label /\ cmd'[p].result = cmd[p].result
             /\ cmd'[p].cleanup = "due" /\ cmd'[p].kerr = cmd[p].kerr
    <3>1. Frame(p)
      BY <1>2, <1>3, <2>1, <2>3, QuietFrame DEF Check
    <3>2. flying'[p] = {} /\ container' = container
      BY <1>1, <1>3, <2>1 DEF Check, PhaseOf, At, DeletePhases
    <3>3. PhaseOf(p)'
      BY <1>1, <2>1, <2>3, <3>2 DEF PhaseOf, At, Same, DeletePhases
    <3>4. Existing(Name(p))' = {}
      BY <2>3, <3>2 DEF Existing, Same, Name
    <3>5. ASSUME cmd[p].alone PROVE Progress(p)'
      <4>1. cmd[p].label = "" /\ ~cmd[p].kerr
        BY <1>1, <2>1, <3>5 DEF Progress, Complete, Kubeconfig, At
      <4>2. Complete(p)'
        BY <2>3, <3>4, <4>1 DEF Complete, Done, At
      <4>3. Handed(p)'
        BY <2>3, <4>1 DEF Handed, Done, At
      <4>4. Listed(p)' /\ Kubeconfig(p)'
        BY <2>3, <4>1 DEF Listed, Kubeconfig, Done, At
      <4> QED
        BY <4>2, <4>3, <4>4 DEF Progress
    <3> QED
      BY <3>1, <3>3, <3>5 DEF Kept
  <2> QED
    BY <1>1, <1>3, <2>2, <2>3, CreateRecords
<1>4. CASE ScratchCreated(p)
  <2>1. OwnCmd(p) /\ Moved(p, "scratch") /\ At(p, "probe") /\ HA(Name(p)) /\ ~At(p, "idle")
    BY <1>1, <1>4, CreateRecords DEF ScratchCreated, At
  <2>2. Frame(p)
    BY <1>1, <1>2, <1>4, <2>1 DEF ScratchCreated, Frame, OwnData, Moved, OnlyNodes, TypeOK
  <2>3. flying'[p] = {} /\ container' = container
    BY <1>1, <1>4, <2>1 DEF ScratchCreated, PhaseOf, At, DeletePhases
  <2>4. PhaseOf(p)'
    BY <1>1, <2>1, <2>3 DEF PhaseOf, At, Moved, Same, DeletePhases
  <2>5. Existing(Name(p))' = Existing(Name(p)) /\ Name(p)' = Name(p)
    BY <2>1, <2>3 DEF Existing, Moved, Same, Name
  <2>6. ASSUME cmd[p].alone PROVE Progress(p)'
    <3>1. Complete(p)'
      BY <1>1, <2>1, <2>3, <2>5, <2>6 DEF Progress, Complete, Done, At, Moved
    <3>2. Handed(p)'
      <4>1. cmd[p].label # "" =>
               /\ HA(Name(p)) /\ cmd[p].label = "ip-pinned"
               /\ \A n \in CPSet(Name(p)) : container[Name(p)][n] = Fresh("ip-pinned")
        BY <1>1, <2>1, <2>6 DEF Progress, Handed, At
      <4>2. cmd'[p].label # "" =>
               /\ HA(Name(p))' /\ cmd'[p].label = "ip-pinned"
               /\ \A n \in CPSet(Name(p))' : container'[Name(p)'][n] = Fresh("ip-pinned")
        BY <2>1, <2>3, <2>5, <4>1 DEF Moved, HA, CPSet
      <4> QED
        BY <2>1, <4>2 DEF Handed, Done, At, Moved
    <3>3. Listed(p)' /\ Kubeconfig(p)'
      BY <1>1, <2>1, <2>6 DEF Progress, Listed, Kubeconfig, Done, At, Moved
    <3> QED
      BY <3>1, <3>2, <3>3 DEF Progress
  <2> QED
    BY <2>2, <2>4, <2>6 DEF Kept
<1> QED
  BY <1>3, <1>4

\* Launching the containers of a cluster that has none.
LEMMA LaunchKeeps ==
    ASSUME ProvisionInv, NEW p \in Procs, cmd[p].pc \in {"probe", "scratch"},
           cmd[p].alone => cmd[p].label = "", NEW label \in ResumeLabels, Launch(p, label),
           UNCHANGED <<container, kubeconfig>>, scratch' \subseteq Procs, leaked' \in BOOLEAN
    PROVE  Kept(p)
<1>1. TypeOK /\ OnlyNodes /\ CmdType /\ PhaseOf(p) /\ (cmd[p].alone => Progress(p))
  BY DEF ProvisionInv, TypeOK, CmdType
<1>2. /\ OwnCmd(p) /\ Same(p) /\ cmd'[p].pc = "run" /\ cmd'[p].label = label
      /\ cmd'[p].result = cmd[p].result /\ cmd'[p].cleanup = cmd[p].cleanup
      /\ cmd'[p].kerr = cmd[p].kerr
  BY <1>1, LaunchRecord
<1>3. Name(p) \in Clusters /\ Nodes(Name(p)) \subseteq AllNodes
  BY <1>1, NodeFacts
<1>4. /\ flying' \in [Procs -> SUBSET AllNodes] /\ flying'[p] = Nodes(Name(p))
      /\ \A q \in Procs \ {p} : flying'[q] = flying[q]
  BY <1>1, <1>3 DEF Launch, TypeOK
<1>5. Frame(p)
  <2>1. OwnContainers(p)
    BY <1>1, KeepContainers
  <2> QED
    BY <1>1, <1>2, <1>4, <2>1 DEF Frame, OwnData, TypeOK, At
<1>6. PhaseOf(p)'
  BY <1>1, <1>2 DEF PhaseOf, At, Same, DeletePhases
<1>7. Existing(Name(p))' = Existing(Name(p)) /\ Name(p)' = Name(p)
      /\ Nodes(Name(p))' = Nodes(Name(p))
  BY <1>2 DEF Existing, Same, Name, Nodes, CPSet
<1>8. ASSUME cmd[p].alone PROVE Progress(p)'
  <2>1. Existing(Name(p)) = {} /\ ~cmd[p].kerr
    BY <1>1, <1>8 DEF Progress, Complete, Kubeconfig, At
  <2>2. Complete(p)'
    BY <1>2, <1>4, <1>7, <2>1 DEF Complete, Done, At
  <2>3. Handed(p)'
    BY <1>2, <1>7, <2>1 DEF Handed, Done, At
  <2>4. Listed(p)' /\ Kubeconfig(p)'
    BY <1>2, <2>1 DEF Listed, Kubeconfig, Done, At
  <2> QED
    BY <2>2, <2>3, <2>4 DEF Progress
<1> QED
  BY <1>5, <1>6, <1>8 DEF Kept

\* A control plane of a cluster whose nodes keep their addresses.
PinnedCP(file, net) == [label |-> "ip-pinned", file |-> file, net |-> net]

\* What recording, unplugging and plugging make of it.
LEMMA PinnedCPTurns ==
    ASSUME NEW y
    PROVE  /\ y = PinnedCP(FALSE, "dynamic") => [y EXCEPT !.file = TRUE] = PinnedCP(TRUE, "dynamic")
           /\ y = PinnedCP(TRUE, "dynamic") => [y EXCEPT !.net = "detached"] = PinnedCP(TRUE, "detached")
           /\ y = PinnedCP(TRUE, "detached") => [y EXCEPT !.net = "pinned"] = PinnedCP(TRUE, "pinned")
<1>1. ASSUME NEW t, NEW f, y = PinnedCP(f, "dynamic")
      PROVE  [y EXCEPT !.file = t] = PinnedCP(t, "dynamic")
  BY <1>1 DEF PinnedCP
<1>2. ASSUME NEW t, y = PinnedCP(t, "dynamic")
      PROVE  [y EXCEPT !.net = "detached"] = PinnedCP(t, "detached")
  BY <1>2 DEF PinnedCP
<1>3. ASSUME NEW t, y = PinnedCP(t, "detached")
      PROVE  [y EXCEPT !.net = "pinned"] = PinnedCP(t, "pinned")
  BY <1>3 DEF PinnedCP
<1> QED
  BY <1>1, <1>2, <1>3

\* A control plane before, in and after its turn.
LEMMA PinStates ==
    ASSUME NEW i \in Nat, NEW pc, NEW k \in Nat
    PROVE  /\ Fresh("ip-pinned") = PinnedCP(FALSE, "dynamic")
           /\ k < i => PinState(i, pc, k) = PinnedCP(TRUE, "pinned")
           /\ k > i => PinState(i, pc, k) = PinnedCP(FALSE, "dynamic")
           /\ pc = "pin" => PinState(i, pc, i) = PinnedCP(FALSE, "dynamic")
           /\ pc = "unplug" => PinState(i, pc, i) = PinnedCP(TRUE, "dynamic")
           /\ pc = "plug" => PinState(i, pc, i) = PinnedCP(TRUE, "detached")
<1>1. ASSUME NEW file \in BOOLEAN, NEW net, NEW j \in Nat,
             (j < i \/ (j = i /\ pc \in {"unplug", "plug"})) = file,
             (IF j < i THEN "pinned" ELSE IF j = i /\ pc = "plug" THEN "detached" ELSE "dynamic") = net
      PROVE  PinState(i, pc, j) = PinnedCP(file, net)
  BY <1>1 DEF PinState, PinnedCP
<1>2. Fresh("ip-pinned") = PinnedCP(FALSE, "dynamic")
  BY DEF Fresh, PinnedCP
<1>3. ~(i < i)
  OBVIOUS
<1>4. k < i => PinState(i, pc, k) = PinnedCP(TRUE, "pinned")
  BY <1>1
<1>5. ASSUME k > i PROVE PinState(i, pc, k) = PinnedCP(FALSE, "dynamic")
  <2>1. ~(k < i) /\ k # i
    BY <1>5
  <2> QED
    BY <1>1, <2>1
<1>6. pc = "pin" => PinState(i, pc, i) = PinnedCP(FALSE, "dynamic")
  BY <1>1, <1>3
<1>7. pc = "unplug" => PinState(i, pc, i) = PinnedCP(TRUE, "dynamic")
  BY <1>1, <1>3
<1>8. pc = "plug" => PinState(i, pc, i) = PinnedCP(TRUE, "detached")
  BY <1>1, <1>3
<1> QED
  BY <1>2, <1>4, <1>5, <1>6, <1>7, <1>8

\* Fresh control planes may be handed over as they are.
LEMMA FreshResumable ==
    ASSUME NEW c, NEW label, \A n \in CPSet(c) : container[c][n] = Fresh(label)
    PROVE  Resumable(c)
<1>1. \A n \in CPSet(c) : container[c][n].file = FALSE /\ container[c][n].net = "dynamic"
  BY DEF Fresh
<1> QED
  BY <1>1 DEF Resumable

\* The verdict of a probe.
LEMMA VerdictKeeps ==
    ASSUME ProvisionInv, NEW p \in Procs, cmd[p].pc \in {"probe", "scratch"},
           NEW verdict \in {"ip-pinned", "cert-regen"}, Verdict(p, verdict),
           UNCHANGED <<container, kubeconfig>>, scratch' \subseteq Procs, leaked' \in BOOLEAN
    PROVE  Kept(p)
<1>1. TypeOK /\ OnlyNodes /\ CmdType /\ PhaseOf(p) /\ (cmd[p].alone => Progress(p))
  BY DEF ProvisionInv, TypeOK, CmdType
<1>2. CASE cmd[p].label = ""
  BY <1>2, LaunchKeeps DEF Verdict, ResumeLabels
<1>3. CASE cmd[p].label # ""
  <2> DEFINE pc == IF verdict = "ip-pinned" THEN "pin" ELSE "nodes"
  <2>1. Goto(p, pc) /\ UNCHANGED flying /\ pc \in {"pin", "nodes"} /\ pc \in Phases
    BY <1>3 DEF Verdict, Phases
  <2> HIDE DEF pc
  <2>2. OwnCmd(p) /\ Moved(p, pc) /\ cmd'[p].i = 1
    BY <1>1, <2>1, GotoRecord
  <2>3. flying'[p] = {} /\ container' = container
    BY <1>1, <2>1 DEF PhaseOf, DeletePhases
  <2>4. Frame(p)
    <3>1. OwnContainers(p)
      BY <1>1, KeepContainers
    <3> QED
      BY <1>1, <2>1, <2>2, <2>3, <3>1 DEF Frame, OwnData, TypeOK, OnlyNodes, At, Moved
  <2>5. PhaseOf(p)'
    BY <1>1, <2>1, <2>2, <2>3 DEF PhaseOf, At, Moved, Same, DeletePhases
  <2>6. Existing(Name(p))' = Existing(Name(p)) /\ Name(p)' = Name(p)
        /\ Nodes(Name(p))' = Nodes(Name(p))
    BY <2>2, <2>3 DEF Existing, Moved, Same, Name, Nodes, CPSet
  <2>7. ASSUME cmd[p].alone PROVE Progress(p)'
    <3>1. /\ Existing(Name(p)) = Nodes(Name(p)) /\ ~cmd[p].kerr
          /\ \A n \in CPSet(Name(p)) : container[Name(p)][n] = Fresh("ip-pinned")
      BY <1>1, <1>3, <2>7 DEF Progress, Complete, Handed, Kubeconfig, At
    <3>2. Complete(p)'
      BY <2>1, <2>2, <2>3, <2>6, <3>1 DEF Complete, Done, At, Moved
    <3>3. Handed(p)'
      <4>1. Resumable(Name(p))'
        <5>1. Resumable(Name(p))
          BY <3>1, FreshResumable
        <5> QED
          BY <2>3, <2>6, <5>1 DEF Resumable, CPSet
      <4>2. ASSUME pc = "pin", NEW k \in DOMAIN CPs[Name(p)]
            PROVE  container'[Name(p)][CPs[Name(p)][k]] = Pinned(p, k)'
        <5>1. k \in Nat /\ k >= 1 /\ CPs[Name(p)][k] \in CPSet(Name(p))
          BY <1>1, NodeFacts
        <5>2. Pinned(p, k)' = Fresh("ip-pinned")
          <6>1. Pinned(p, k)' = PinState(1, "pin", k)
            BY <2>2, <4>2 DEF Pinned, Moved
          <6>2. k = 1 \/ k > 1
            BY <5>1
          <6> QED
            BY <5>1, <6>1, <6>2, PinStates
        <5> QED
          BY <2>3, <3>1, <5>1, <5>2
      <4> QED
        BY <2>1, <2>2, <2>6, <4>1, <4>2 DEF Handed, Done, At, Moved
    <3>4. Listed(p)' /\ Kubeconfig(p)'
      BY <2>1, <2>2, <3>1 DEF Listed, Kubeconfig, Done, At, Moved
    <3> QED
      BY <3>2, <3>3, <3>4 DEF Progress
  <2> QED
    BY <2>4, <2>5, <2>7 DEF Kept
<1> QED
  BY <1>2, <1>3

\* The probe, and the creation of a cluster that needs none.
LEMMA ProbeKeeps ==
    ASSUME ProvisionInv, NEW p \in Procs, SkipProbe(p) \/ ScratchRefused(p) \/ ProbeEnds(p)
    PROVE  Kept(p)
<1>1. scratch \subseteq Procs /\ leaked \in BOOLEAN
  BY DEF ProvisionInv, TypeOK
<1>2. CASE SkipProbe(p)
  <2>1. cmd[p].alone => cmd[p].label = ""
    BY <1>2 DEF SkipProbe, ProvisionInv, Progress, Handed, At
  <2> QED
    BY <1>1, <1>2, <2>1, LaunchKeeps DEF SkipProbe, ResumeLabels, probe, At
<1>3. CASE ScratchRefused(p)
  BY <1>1, <1>3, VerdictKeeps DEF ScratchRefused, probe, At
<1>4. CASE ProbeEnds(p)
  <2>1. PICK verdict \in {"ip-pinned", "cert-regen"}, leak \in BOOLEAN :
           Verdict(p, verdict) /\ leaked' = (leaked \/ leak)
    BY <1>4 DEF ProbeEnds
  <2>2. scratch' \subseteq Procs /\ leaked' \in BOOLEAN
    BY <1>1, <1>4, <2>1 DEF ProbeEnds
  <2> QED
    BY <1>4, <2>1, <2>2, VerdictKeeps DEF ProbeEnds, At
<1> QED
  BY <1>2, <1>3, <1>4

\* The container a `run` creates.
LEMMA CreatedType ==
    ASSUME TypeOK, NEW p \in Procs, NEW n
    PROVE  /\ Created(p, n) \in Containers
           /\ n \in CPSet(Name(p)) => Created(p, n) = Fresh(cmd[p].label)
<1>1. cmd[p].label \in ResumeLabels
  BY DEF TypeOK, Commands
<1> QED
  BY <1>1 DEF Created, Containers, ResumeLabels, Fresh

\* A `run` that ends has created its container, or not: only a failed one may not have.
RunEnded(p, n) ==
    /\ n \in flying[p] /\ flying' = [flying EXCEPT ![p] = @ \ {n}]
    /\ \/ container[Name(p)][n] = Absent /\ container' = [container EXCEPT ![Name(p)][n] = Created(p, n)]
       \/ UNCHANGED container
    /\ UNCHANGED <<probe, kubeconfig>>

\* What a `run` that ends leaves.
LEMMA RunEndedFacts ==
    ASSUME ProvisionInv, NEW p \in Procs, NEW n, RunEnded(p, n)
    PROVE  /\ OwnData(p) /\ flying'[p] = flying[p] \ {n} /\ n \in AllNodes
           /\ \A m \in AllNodes \ {n} : container'[Name(p)][m] = container[Name(p)][m]
           /\ \/ container' = container
              \/ /\ container'[Name(p)][n] = Created(p, n) /\ container'[Name(p)][n] # Absent
<1>1. TypeOK /\ OnlyNodes
  BY DEF ProvisionInv
<1>2. n \in Nodes(Name(p)) /\ n \in AllNodes /\ flying[p] \subseteq Nodes(Name(p))
  BY <1>1, NodeFacts DEF RunEnded, OnlyNodes
<1>3. Created(p, n) \in Containers
  BY <1>1, CreatedType
<1>4. /\ OwnContainers(p)
      /\ \A m \in AllNodes \ {n} : container'[Name(p)][m] = container[Name(p)][m]
      /\ \/ container' = container
         \/ container'[Name(p)][n] = Created(p, n) /\ container'[Name(p)][n] # Absent
  <2>1. CASE UNCHANGED container
    BY <1>1, <2>1, KeepContainers
  <2>2. CASE container' = [container EXCEPT ![Name(p)][n] = Created(p, n)]
    <3> DEFINE x == Created(p, n)
    <3>1. x \in Containers /\ container' = [container EXCEPT ![Name(p)][n] = x]
      BY <1>3, <2>2
    <3> HIDE DEF x
    <3>2. /\ OwnContainers(p) /\ container'[Name(p)][n] = x /\ x # Absent
          /\ \A m \in AllNodes \ {n} : container'[Name(p)][m] = container[Name(p)][m]
      BY <1>1, <1>2, <3>1, WriteContainer
    <3> QED
      BY <3>2 DEF x
  <2> QED
    BY <2>1, <2>2 DEF RunEnded
<1>5. /\ flying' \in [Procs -> SUBSET AllNodes] /\ flying'[p] = flying[p] \ {n}
      /\ \A q \in Procs \ {p} : flying'[q] = flying[q]
  BY <1>1 DEF RunEnded, TypeOK
<1> QED
  BY <1>1, <1>2, <1>4, <1>5 DEF OwnData, RunEnded, TypeOK, probe

\* A `run` that ends while its command goes on, or after it returned.
LEMMA RunEndedKeeps ==
    ASSUME ProvisionInv, NEW p \in Procs, NEW n, RunEnded(p, n), UNCHANGED cmd,
           ~At(p, "run") \/ container'[Name(p)][n] # Absent
    PROVE  Kept(p)
<1>1. TypeOK /\ OnlyNodes /\ PhaseOf(p) /\ (cmd[p].alone => Progress(p))
  BY DEF ProvisionInv
<1>2. /\ OwnData(p) /\ flying'[p] = flying[p] \ {n} /\ n \in AllNodes
      /\ \A m \in AllNodes \ {n} : container'[Name(p)][m] = container[Name(p)][m]
      /\ \/ container' = container
         \/ container'[Name(p)][n] = Created(p, n) /\ container'[Name(p)][n] # Absent
  BY RunEndedFacts
<1>3. Frame(p)
  BY <1>1, <1>2 DEF Frame, OwnCmd, CmdType, Same, TypeOK, RunEnded
<1>4. PhaseOf(p)'
  BY <1>1, <1>2 DEF PhaseOf, At, Name
<1>5. n \in flying[p] /\ cmd[p].pc \in {"idle", "run"} \cup DeletePhases
  BY <1>1 DEF RunEnded, PhaseOf
<1>6. /\ Existing(Name(p))' \subseteq Existing(Name(p)) \cup {n}
      /\ Existing(Name(p)) \subseteq Existing(Name(p))'
      /\ container'[Name(p)][n] # Absent => n \in Existing(Name(p))'
  BY <1>2 DEF Existing, Name
<1>7. ASSUME cmd[p].alone PROVE Progress(p)'
  <2>1. Complete(p) /\ Handed(p) /\ Listed(p) /\ Kubeconfig(p)
    BY <1>1, <1>7 DEF Progress
  <2>2. ~Done(p, "create", {"ok", "stopped"})
    BY <1>5, <2>1 DEF Complete
  <2>3. Complete(p)'
    <3>1. At(p, "run") => Existing(Name(p))' \cup flying'[p] = Nodes(Name(p))
      <4>1. ASSUME At(p, "run")
            PROVE  Existing(Name(p)) \cup flying[p] = Nodes(Name(p)) /\ n \in Existing(Name(p))'
        BY <1>6, <2>1, <4>1 DEF Complete
      <4> QED
        BY <1>2, <1>5, <1>6, <4>1
    <3> QED
      BY <1>5, <2>1, <2>2, <3>1 DEF Complete, Done, At, Name, DeletePhases, Nodes, CPSet
  <2>4. Handed(p)'
    <3>1. ASSUME At(p, "run"), NEW m \in CPSet(Name(p)) \cap Existing(Name(p))'
          PROVE  container'[Name(p)][m] = Fresh(cmd[p].label)
      <4>1. \A k \in CPSet(Name(p)) \cap Existing(Name(p)) : container[Name(p)][k] = Fresh(cmd[p].label)
        BY <2>1, <3>1 DEF Handed
      <4>2. m \in AllNodes /\ container'[Name(p)][m] # Absent
        BY <3>1 DEF Existing, Name
      <4>3. CASE container' = container \/ m # n
        BY <1>2, <4>1, <4>2, <4>3 DEF Existing
      <4>4. CASE m = n /\ container'[Name(p)][n] = Created(p, n)
        BY <1>1, <4>4, CreatedType
      <4> QED
        BY <1>2, <4>3, <4>4
    <3>2. At(p, "run")' => \A m \in CPSet(Name(p))' \cap Existing(Name(p))' :
                              container'[Name(p)'][m] = Fresh(cmd'[p].label)
      BY <3>1 DEF At, Name, CPSet
    <3> QED
      BY <1>5, <2>2, <3>2 DEF Handed, Done, At, DeletePhases
  <2>5. Listed(p)'
    BY <1>2, <1>5, <1>6, <2>1 DEF Listed, At
  <2>6. Kubeconfig(p)'
    BY <2>1 DEF Kubeconfig, Done, At, Name, RunEnded
  <2> QED
    BY <2>3, <2>4, <2>5, <2>6 DEF Progress
<1> QED
  BY <1>3, <1>4, <1>7 DEF Kept

\* The ends of the `run`s.
LEMMA RunsKeep ==
    ASSUME ProvisionInv, NEW p \in Procs, RunSucceeds(p) \/ RunFails(p)
    PROVE  Kept(p)
<1>1. TypeOK /\ CmdType
  BY DEF ProvisionInv, TypeOK, CmdType
<1>2. CASE RunSucceeds(p)
  <2>1. PICK n \in flying[p] :
           /\ container[Name(p)][n] = Absent
           /\ container' = [container EXCEPT ![Name(p)][n] = Created(p, n)]
           /\ flying' = [flying EXCEPT ![p] = @ \ {n}]
    BY <1>2 DEF RunSucceeds
  <2>2. RunEnded(p, n) /\ UNCHANGED cmd
    BY <1>2, <2>1 DEF RunSucceeds, RunEnded
  <2>3. container'[Name(p)][n] # Absent
    <3>1. n \in AllNodes /\ Name(p) \in Clusters /\ Created(p, n) # Absent
      BY <1>1, <2>1, CreatedType, AbsentAssumption, NodeFacts DEF TypeOK
    <3>2. container \in [Clusters -> [AllNodes -> Containers \cup {Absent}]]
      BY <1>1 DEF TypeOK
    <3>3. container'[Name(p)][n] = Created(p, n)
      BY <2>1, <3>1, <3>2
    <3> QED
      BY <3>1, <3>3
  <2> QED
    BY <2>2, <2>3, RunEndedKeeps
<1>3. CASE RunFails(p)
  <2>1. PICK n \in flying[p] :
           /\ flying' = [flying EXCEPT ![p] = @ \ {n}]
           /\ \/ UNCHANGED container
              \/ /\ container[Name(p)][n] = Absent
                 /\ container' = [container EXCEPT ![Name(p)][n] = Created(p, n)]
    BY <1>3 DEF RunFails
  <2>2. RunEnded(p, n) /\ FirstError(p)
    BY <1>3, <2>1 DEF RunFails, RunEnded
  <2>3. CASE At(p, "run")
    <3>1. OwnCmd(p) /\ Failed(p)
      BY <1>1, <2>2, <2>3, FailRecord DEF FirstError
    <3>2. Frame(p)
      BY <2>2, <2>3, <3>1, RunEndedFacts DEF Frame, Failed, Moved, Ended, At
    <3> QED
      BY <2>3, <3>1, <3>2, FailedKeeps DEF At
  <2>4. CASE ~At(p, "run")
    BY <2>2, <2>4, RunEndedKeeps DEF FirstError
  <2> QED
    BY <2>3, <2>4
<1> QED
  BY <1>2, <1>3

\* All containers have been run.
LEMMA AllRunKeeps ==
    ASSUME ProvisionInv, NEW p \in Procs, AllRun(p)
    PROVE  Kept(p)
<1>1. TypeOK /\ OnlyNodes /\ CmdType /\ PhaseOf(p) /\ (cmd[p].alone => Progress(p))
  BY DEF ProvisionInv, TypeOK, CmdType
<1> DEFINE again == HA(Name(p)) /\ cmd[p].label = "ip-pinned"
           pc == IF again THEN "probe" ELSE "nodes"
<1>2. Goto(p, pc) /\ pc \in {"probe", "nodes"} /\ pc \in Phases
      /\ (pc = "probe" => HA(Name(p)) /\ cmd[p].label = "ip-pinned")
  BY DEF AllRun, Phases
<1> HIDE DEF pc
<1>3. OwnCmd(p) /\ Moved(p, pc)
  BY <1>1, <1>2, GotoRecord
<1>4. At(p, "run") /\ flying[p] = {} /\ flying' = flying /\ container' = container
  BY DEF AllRun
<1>5. Frame(p)
  BY <1>1, <1>3, <1>4, KeepContainers, QuietFrame DEF AllRun, Moved, At
<1>6. PhaseOf(p)'
  BY <1>1, <1>2, <1>3, <1>4 DEF PhaseOf, At, Moved, Same, DeletePhases
<1>7. Existing(Name(p))' = Existing(Name(p)) /\ Name(p)' = Name(p)
      /\ Nodes(Name(p))' = Nodes(Name(p)) /\ CPSet(Name(p))' = CPSet(Name(p))
      /\ HA(Name(p))' = HA(Name(p))
  BY <1>3, <1>4 DEF Existing, Moved, Same, Name, Nodes, CPSet, HA
<1>8. ASSUME cmd[p].alone PROVE Progress(p)'
  <2>1. Existing(Name(p)) = Nodes(Name(p)) /\ ~cmd[p].kerr
    BY <1>1, <1>4, <1>8 DEF Progress, Complete, Kubeconfig, At
  <2>2. \A n \in CPSet(Name(p)) : container[Name(p)][n] = Fresh(cmd[p].label)
    BY <1>1, <1>4, <1>8, <2>1 DEF Progress, Handed, Nodes
  <2>3. Complete(p)'
    BY <1>2, <1>3, <1>4, <1>7, <2>1 DEF Complete, Done, At, Moved
  <2>4. Handed(p)'
    <3>1. Resumable(Name(p))'
      <4>1. Resumable(Name(p))
        BY <2>2, FreshResumable
      <4> QED
        BY <1>4, <1>7, <4>1 DEF Resumable
    <3>2. pc = "probe" => /\ HA(Name(p))' /\ cmd'[p].label = "ip-pinned"
                          /\ \A n \in CPSet(Name(p))' : container'[Name(p)'][n] = Fresh("ip-pinned")
      BY <1>2, <1>3, <1>4, <1>7, <2>2 DEF Moved
    <3> QED
      BY <1>2, <1>3, <3>1, <3>2 DEF Handed, Done, At, Moved
  <2>5. Listed(p)' /\ Kubeconfig(p)'
    BY <1>2, <1>3, <2>1 DEF Listed, Kubeconfig, Done, At, Moved
  <2> QED
    BY <2>3, <2>4, <2>5 DEF Progress
<1> QED
  BY <1>5, <1>6, <1>8 DEF Kept

\* Changing the container of the control plane that is being pinned.
LEMMA PinWrite ==
    ASSUME TypeOK, OnlyNodes, NEW p \in Procs, cmd[p].i \in DOMAIN CPs[Name(p)],
           Pinning(p) # Absent, NEW x \in Containers, SetPinning(p, x)
    PROVE  /\ OwnContainers(p) /\ container'[Name(p)][PinNode(p)] = x
           /\ \A m \in AllNodes \ {PinNode(p)} : container'[Name(p)][m] = container[Name(p)][m]
           /\ \A m \in AllNodes : container'[Name(p)][m] # Absent <=> container[Name(p)][m] # Absent
           /\ Pinning(p) \in Containers
<1>1. PinNode(p) \in Nodes(Name(p)) /\ PinNode(p) \in AllNodes /\ Name(p) \in Clusters
  BY NodeFacts DEF PinNode
<1>2. /\ OwnContainers(p) /\ container'[Name(p)][PinNode(p)] = x /\ x # Absent
      /\ \A m \in AllNodes \ {PinNode(p)} : container'[Name(p)][m] = container[Name(p)][m]
  BY <1>1, WriteContainer DEF SetPinning
<1>3. Pinning(p) \in Containers
  BY <1>1 DEF Pinning, TypeOK
<1>4. container[Name(p)][PinNode(p)] # Absent
  BY DEF Pinning
<1> QED
  BY <1>1, <1>2, <1>3, <1>4

\* The pinning goes on, when each control plane is as its turn says.
LEMMA PinStepKeeps ==
    ASSUME ProvisionInv, NEW p \in Procs, cmd[p].pc \in {"pin", "unplug", "plug"},
           NEW pc \in {"pin", "unplug", "plug"}, OwnCmd(p), Moved(p, pc),
           pc \in {"unplug", "plug"} => cmd'[p].i \in DOMAIN CPs[Name(p)],
           OwnContainers(p), UNCHANGED <<flying, probe, kubeconfig>>,
           \A m \in AllNodes : container'[Name(p)][m] # Absent <=> container[Name(p)][m] # Absent,
           cmd[p].alone => \A k \in DOMAIN CPs[Name(p)] :
                              container'[Name(p)][CPs[Name(p)][k]] = Pinned(p, k)'
    PROVE  Kept(p)
<1>1. PhaseOf(p) /\ (cmd[p].alone => Progress(p))
  BY DEF ProvisionInv
<1>2. Frame(p)
  BY QuietFrame DEF Moved, At
<1>3. Name(p)' = Name(p) /\ Existing(Name(p))' = Existing(Name(p))
      /\ Nodes(Name(p))' = Nodes(Name(p)) /\ flying'[p] = {}
  BY <1>1 DEF Existing, Moved, Same, Name, Nodes, CPSet, PhaseOf, DeletePhases
<1>4. PhaseOf(p)'
  BY <1>1, <1>3 DEF PhaseOf, At, Moved, Same, DeletePhases
<1>5. ASSUME cmd[p].alone PROVE Progress(p)'
  <2>1. Existing(Name(p)) = Nodes(Name(p)) /\ ~cmd[p].kerr
    BY <1>1, <1>5 DEF Progress, Complete, Kubeconfig, At
  <2>2. Complete(p)'
    BY <1>3, <2>1 DEF Complete, Done, At, Moved
  <2>3. Handed(p)'
    BY <1>3, <1>5 DEF Handed, Done, At, Moved
  <2>4. Listed(p)' /\ Kubeconfig(p)'
    BY <2>1 DEF Listed, Kubeconfig, Done, At, Moved
  <2> QED
    BY <2>2, <2>3, <2>4 DEF Progress
<1> QED
  BY <1>2, <1>4, <1>5 DEF Kept

\* One control plane is pinned: its address recorded, it unplugged and plugged again.
LEMMA PinsKeep ==
    ASSUME ProvisionInv, NEW p \in Procs, Record(p) \/ Unplug(p) \/ Plug(p)
    PROVE  Kept(p)
<1> DEFINE cps == CPs[Name(p)]
<1>1. TypeOK /\ OnlyNodes /\ CmdType /\ PhaseOf(p) /\ (cmd[p].alone => Progress(p))
  BY DEF ProvisionInv, TypeOK, CmdType
<1>2. cmd[p].pc \in {"pin", "unplug", "plug"} /\ cmd[p].i \in DOMAIN cps /\ cmd[p].i \in Nat
      /\ Pinning(p) # Absent
  BY <1>1, NodeFacts DEF Record, Unplug, Plug, At, PhaseOf, Connected, NetOf, Commands
<1>3. \A k \in DOMAIN cps : /\ k \in Nat /\ cps[k] \in AllNodes
                            /\ k # cmd[p].i => cps[k] # PinNode(p)
      /\ PinNode(p) = cps[cmd[p].i]
  BY <1>1, <1>2, NodeFacts DEF PinNode
<1>4. cmd[p].alone => \A k \in DOMAIN cps : container[Name(p)][cps[k]] = Pinned(p, k)
  BY <1>1, <1>2 DEF Progress, Handed
<1>5. Name(p) \in Clusters /\ PinNode(p) \in AllNodes /\ Pinning(p) \in Containers
  BY <1>1, <1>2, <1>3, NodeFacts DEF Pinning, TypeOK
<1>6. cmd[p].alone => Pinning(p) = Pinned(p, cmd[p].i)
  BY <1>2, <1>3, <1>4 DEF Pinning
<1>7. CASE Record(p)
  <2> DEFINE x == [Pinning(p) EXCEPT !.file = TRUE]
  <2>1. x \in Containers /\ SetPinning(p, x) /\ At(p, "pin")
    BY <1>5, <1>7 DEF Record, Containers
  <2>2. ASSUME cmd[p].alone
        PROVE  x = PinnedCP(TRUE, "dynamic")
    <3>1. Pinning(p) = PinnedCP(FALSE, "dynamic")
      BY <1>2, <1>6, <2>1, <2>2, PinStates DEF Pinned, At
    <3> QED
      BY <3>1, PinnedCPTurns
  <2> HIDE DEF x
  <2>3. /\ OwnContainers(p) /\ container'[Name(p)][PinNode(p)] = x
        /\ \A m \in AllNodes \ {PinNode(p)} : container'[Name(p)][m] = container[Name(p)][m]
        /\ \A m \in AllNodes : container'[Name(p)][m] # Absent <=> container[Name(p)][m] # Absent
    BY <1>1, <1>2, <2>1, PinWrite
  <2>4. OwnCmd(p) /\ Moved(p, "unplug") /\ cmd'[p].i = cmd[p].i
    BY <1>1, <1>7, CreateRecords
  <2>5. ASSUME cmd[p].alone, NEW k \in DOMAIN cps
        PROVE  container'[Name(p)][cps[k]] = Pinned(p, k)'
    <3>1. CASE k = cmd[p].i
      <4>1. Pinned(p, k)' = PinnedCP(TRUE, "dynamic")
        BY <1>2, <2>4, <3>1, PinStates DEF Pinned, Moved
      <4> QED
        BY <1>3, <2>2, <2>3, <2>5, <3>1, <4>1
    <3>2. CASE k # cmd[p].i
      <4>1. Pinned(p, k)' = Pinned(p, k)
        <5>1. k < cmd[p].i \/ k > cmd[p].i
          BY <1>2, <1>3, <3>2
        <5> QED
          BY <1>2, <1>3, <2>4, <5>1, PinStates DEF Pinned
      <4> QED
        BY <1>3, <1>4, <2>3, <2>5, <3>2, <4>1
    <3> QED
      BY <3>1, <3>2
  <2> QED
    BY <1>2, <1>7, <2>3, <2>4, <2>5, PinStepKeeps DEF Record
<1>8. CASE Unplug(p)
  <2> DEFINE x == [Pinning(p) EXCEPT !.net = "detached"]
  <2>1. x \in Containers /\ SetPinning(p, x) /\ At(p, "unplug")
    BY <1>5, <1>8 DEF Unplug, Containers
  <2>2. ASSUME cmd[p].alone
        PROVE  x = PinnedCP(TRUE, "detached")
    <3>1. Pinning(p) = PinnedCP(TRUE, "dynamic")
      BY <1>2, <1>6, <2>1, <2>2, PinStates DEF Pinned, At
    <3> QED
      BY <3>1, PinnedCPTurns
  <2> HIDE DEF x
  <2>3. /\ OwnContainers(p) /\ container'[Name(p)][PinNode(p)] = x
        /\ \A m \in AllNodes \ {PinNode(p)} : container'[Name(p)][m] = container[Name(p)][m]
        /\ \A m \in AllNodes : container'[Name(p)][m] # Absent <=> container[Name(p)][m] # Absent
    BY <1>1, <1>2, <2>1, PinWrite
  <2>4. OwnCmd(p) /\ Moved(p, "plug") /\ cmd'[p].i = cmd[p].i
    BY <1>1, <1>8, CreateRecords
  <2>5. ASSUME cmd[p].alone, NEW k \in DOMAIN cps
        PROVE  container'[Name(p)][cps[k]] = Pinned(p, k)'
    <3>1. CASE k = cmd[p].i
      <4>1. Pinned(p, k)' = PinnedCP(TRUE, "detached")
        BY <1>2, <2>4, <3>1, PinStates DEF Pinned, Moved
      <4> QED
        BY <1>3, <2>2, <2>3, <2>5, <3>1, <4>1
    <3>2. CASE k # cmd[p].i
      <4>1. Pinned(p, k)' = Pinned(p, k)
        <5>1. k < cmd[p].i \/ k > cmd[p].i
          BY <1>2, <1>3, <3>2
        <5> QED
          BY <1>2, <1>3, <2>4, <5>1, PinStates DEF Pinned
      <4> QED
        BY <1>3, <1>4, <2>3, <2>5, <3>2, <4>1
    <3> QED
      BY <3>1, <3>2
  <2> QED
    BY <1>2, <1>8, <2>3, <2>4, <2>5, PinStepKeeps DEF Unplug
<1>9. CASE Plug(p)
  <2> DEFINE x == [Pinning(p) EXCEPT !.net = "pinned"]
  <2>1. x \in Containers /\ SetPinning(p, x) /\ At(p, "plug")
    BY <1>5, <1>9 DEF Plug, Containers
  <2>2. ASSUME cmd[p].alone
        PROVE  x = PinnedCP(TRUE, "pinned")
    <3>1. Pinning(p) = PinnedCP(TRUE, "detached")
      BY <1>2, <1>6, <2>1, <2>2, PinStates DEF Pinned, At
    <3> QED
      BY <3>1, PinnedCPTurns
  <2> HIDE DEF x
  <2>3. /\ OwnContainers(p) /\ container'[Name(p)][PinNode(p)] = x
        /\ \A m \in AllNodes \ {PinNode(p)} : container'[Name(p)][m] = container[Name(p)][m]
        /\ \A m \in AllNodes : container'[Name(p)][m] # Absent <=> container[Name(p)][m] # Absent
    BY <1>1, <1>2, <2>1, PinWrite
  <2>4. OwnCmd(p) /\ Moved(p, "pin") /\ cmd'[p].i = cmd[p].i + 1
    BY <1>1, <1>9, CreateRecords
  <2>5. ASSUME cmd[p].alone, NEW k \in DOMAIN cps
        PROVE  container'[Name(p)][cps[k]] = Pinned(p, k)'
    <3>1. CASE k = cmd[p].i
      <4>1. k < cmd'[p].i
        BY <1>2, <2>4, <3>1
      <4>2. Pinned(p, k)' = PinnedCP(TRUE, "pinned")
        <5>1. Pinned(p, k)' = PinState(cmd[p].i + 1, "pin", k)
          BY <2>4 DEF Pinned, Moved
        <5>2. k \in Nat /\ cmd[p].i + 1 \in Nat /\ k < cmd[p].i + 1
          BY <1>2, <1>3, <3>1
        <5> QED
          BY <5>1, <5>2, PinStates
      <4> QED
        BY <1>3, <2>2, <2>3, <2>5, <3>1, <4>2
    <3>2. CASE k # cmd[p].i
      <4>1. \/ k < cmd[p].i /\ k < cmd[p].i + 1
            \/ k > cmd[p].i /\ k = cmd[p].i + 1
            \/ k > cmd[p].i /\ k > cmd[p].i + 1
        BY <1>2, <1>3, <3>2
      <4>2. Pinned(p, k)' = Pinned(p, k)
        <5>1. Pinned(p, k)' = PinState(cmd[p].i + 1, "pin", k) /\ cmd[p].i + 1 \in Nat
          BY <1>2, <2>4 DEF Pinned, Moved
        <5> QED
          BY <1>2, <1>3, <4>1, <5>1, PinStates DEF Pinned
      <4> QED
        BY <1>3, <1>4, <2>3, <2>5, <3>2, <4>2
    <3> QED
      BY <3>1, <3>2
  <2> QED
    BY <1>2, <1>9, <2>3, <2>4, <2>5, PinStepKeeps DEF Plug
<1> QED
  BY <1>7, <1>8, <1>9

\* A pin that fails, and the connection without its address.
LEMMA PinFailuresKeep ==
    ASSUME ProvisionInv, NEW p \in Procs, PlugFails(p) \/ Recover(p)
    PROVE  Kept(p)
<1>1. TypeOK /\ OnlyNodes /\ CmdType /\ PhaseOf(p) /\ (cmd[p].alone => Progress(p))
  BY DEF ProvisionInv, TypeOK, CmdType
<1>2. CASE PlugFails(p)
  <2>1. OwnCmd(p) /\ Moved(p, "recover") /\ cmd'[p].i = cmd[p].i /\ At(p, "plug")
    BY <1>1, <1>2, CreateRecords DEF PlugFails
  <2>2. Frame(p)
    BY <1>1, <1>2, <2>1, KeepContainers, QuietFrame DEF PlugFails, Moved, At
  <2>3. flying'[p] = {} /\ Name(p)' = Name(p)
    BY <1>1, <1>2, <2>1 DEF PlugFails, PhaseOf, At, DeletePhases, Moved, Same, Name
  <2>4. PhaseOf(p)'
    BY <1>1, <2>1, <2>3 DEF PhaseOf, At, Moved, Same, DeletePhases
  <2>5. ASSUME cmd[p].alone PROVE Progress(p)'
    <3>1. ~cmd[p].kerr
      BY <1>1, <2>1, <2>5 DEF Progress, Kubeconfig, At
    <3>2. Complete(p)'
      BY <2>1 DEF Moved, Complete, Done, At
    <3>3. Handed(p)'
      BY <2>1 DEF Moved, Handed, Done, At
    <3>4. Listed(p)' /\ Kubeconfig(p)'
      BY <2>1, <3>1 DEF Moved, Listed, Kubeconfig, Done, At
    <3> QED
      BY <3>2, <3>3, <3>4 DEF Progress
  <2> QED
    BY <2>2, <2>4, <2>5 DEF Kept
<1>3. CASE Recover(p)
  <2>1. OwnCmd(p) /\ Failed(p) /\ At(p, "recover") /\ cmd[p].i \in DOMAIN CPs[Name(p)]
    BY <1>1, <1>3, FailRecord DEF Recover, PhaseOf, At
  <2>2. OwnContainers(p)
    <3>1. CASE UNCHANGED container
      BY <1>1, <3>1, KeepContainers
    <3>2. CASE /\ NetOf(p) = "detached"
               /\ SetPinning(p, [Pinning(p) EXCEPT !.net = "dynamic"])
      <4>1. Pinning(p) # Absent
        BY <3>2 DEF NetOf
      <4>2. Pinning(p) \in Containers
        <5>1. Name(p) \in Clusters /\ PinNode(p) \in AllNodes
          BY <1>1, <2>1, NodeFacts DEF PinNode
        <5> QED
          BY <1>1, <4>1, <5>1 DEF Pinning, TypeOK
      <4> DEFINE x == [Pinning(p) EXCEPT !.net = "dynamic"]
      <4>3. x \in Containers /\ SetPinning(p, x)
        BY <3>2, <4>2 DEF Containers
      <4> HIDE DEF x
      <4> QED
        BY <1>1, <2>1, <4>1, <4>3, PinWrite
    <3> QED
      BY <1>3, <3>1, <3>2 DEF Recover
  <2>3. Frame(p)
    BY <1>3, <2>1, <2>2, QuietFrame DEF Recover, Failed, Moved, Ended, At
  <2> QED
    BY <2>1, <2>3, FailedKeeps DEF At
<1> QED
  BY <1>2, <1>3

\* All control planes are pinned.
LEMMA AllPinnedKeeps ==
    ASSUME ProvisionInv, NEW p \in Procs, AllPinned(p)
    PROVE  Kept(p)
<1>1. TypeOK /\ OnlyNodes /\ CmdType /\ PhaseOf(p) /\ (cmd[p].alone => Progress(p))
  BY DEF ProvisionInv, TypeOK, CmdType
<1>2. OwnCmd(p) /\ Moved(p, "nodes") /\ At(p, "pin")
  BY <1>1, GotoRecord DEF AllPinned, Phases
<1>3. Frame(p)
  BY <1>1, <1>2, KeepContainers, QuietFrame DEF AllPinned, Moved, At
<1>4. Name(p)' = Name(p) /\ Existing(Name(p))' = Existing(Name(p)) /\ container' = container
      /\ Nodes(Name(p))' = Nodes(Name(p)) /\ CPSet(Name(p))' = CPSet(Name(p)) /\ flying'[p] = {}
  BY <1>1, <1>2
     DEF AllPinned, Existing, Moved, Same, Name, Nodes, CPSet, PhaseOf, At, DeletePhases
<1>5. PhaseOf(p)'
  BY <1>1, <1>2, <1>4 DEF PhaseOf, At, Moved, Same, DeletePhases
<1>6. ASSUME cmd[p].alone PROVE Progress(p)'
  <2>1. Existing(Name(p)) = Nodes(Name(p)) /\ ~cmd[p].kerr
    BY <1>1, <1>2, <1>6 DEF Progress, Complete, Kubeconfig, At
  <2>2. ASSUME NEW n \in CPSet(Name(p))
        PROVE  container[Name(p)][n] = PinnedCP(TRUE, "pinned")
    <3>1. PICK k \in DOMAIN CPs[Name(p)] : n = CPs[Name(p)][k]
      BY DEF CPSet
    <3>2. cmd[p].i \in Nat /\ cmd[p].i > Len(CPs[Name(p)])
      BY <1>1, NodeFacts DEF AllPinned, Commands
    <3>3. k < cmd[p].i
      BY <1>1, <3>1, <3>2, NodeFacts
    <3>4. container[Name(p)][n] = Pinned(p, k)
      BY <1>1, <1>2, <1>6, <3>1 DEF Progress, Handed, At
    <3> QED
      <4>1. k \in Nat /\ cmd[p].i \in Nat
        BY <1>1, <3>1, <3>2, NodeFacts
      <4> QED
        BY <3>2, <3>3, <3>4, <4>1, PinStates DEF Pinned
  <2>3. Resumable(Name(p))
    <3>1. \A n \in CPSet(Name(p)) : /\ container[Name(p)][n].label = "ip-pinned"
                                   /\ container[Name(p)][n].file = TRUE
                                   /\ container[Name(p)][n].net = "pinned"
      BY <2>2 DEF PinnedCP
    <3> QED
      BY <3>1 DEF Resumable
  <2>4. Resumable(Name(p))'
    BY <1>4, <2>3 DEF Resumable
  <2>5. Complete(p)'
    BY <1>2, <1>4, <2>1 DEF Complete, Done, At, Moved
  <2>6. Handed(p)'
    BY <1>2, <2>4 DEF Handed, Done, At, Moved
  <2>7. Listed(p)' /\ Kubeconfig(p)'
    BY <1>2, <2>1 DEF Listed, Kubeconfig, Done, At, Moved
  <2> QED
    BY <2>5, <2>6, <2>7 DEF Progress
<1> QED
  BY <1>3, <1>5, <1>6 DEF Kept

\* A complete cluster stays one while it is set up, and when its creation returns.
LEMMA CompleteKeeps ==
    ASSUME ProvisionInv, NEW p \in Procs, cmd[p].pc \in {"nodes", "setup", "export"}, Frame(p),
           UNCHANGED <<container, flying>>,
           \/ Moved(p, "setup") \/ Moved(p, "export")
           \/ Ended(p, "stopped", cmd[p].cleanup)
           \/ Ended(p, "ok", cmd[p].cleanup) /\ Name(p) \in kubeconfig'
    PROVE  Kept(p)
<1>1. PhaseOf(p) /\ (cmd[p].alone => Progress(p))
  BY DEF ProvisionInv
<1>2. Name(p)' = Name(p) /\ Existing(Name(p))' = Existing(Name(p)) /\ Same(p)
      /\ Nodes(Name(p))' = Nodes(Name(p)) /\ CPSet(Name(p))' = CPSet(Name(p)) /\ flying'[p] = {}
  BY <1>1 DEF Existing, Frame, Same, Name, Nodes, CPSet, PhaseOf, DeletePhases
<1>3. cmd[p].op # "delete" /\ cmd[p].cleanup # "done"
  BY <1>1 DEF PhaseOf, DeletePhases, At
<1>4. cmd'[p].pc \in {"setup", "export", "idle"}
  BY DEF Moved, Ended
<1>5. PhaseOf(p)'
  BY <1>1, <1>2, <1>3, <1>4 DEF PhaseOf, At, Moved, Ended, Same
<1>6. ASSUME cmd[p].alone PROVE Progress(p)'
  <2>1. Existing(Name(p)) = Nodes(Name(p)) /\ Resumable(Name(p)) /\ ~cmd[p].kerr
    BY <1>1, <1>6 DEF Progress, Complete, Handed, Kubeconfig, At
  <2>2. Resumable(Name(p))'
    BY <1>2, <2>1 DEF Resumable
  <2>3. Complete(p)'
    BY <1>2, <1>4, <2>1 DEF Complete, At
  <2>4. Handed(p)'
    BY <1>4, <2>2 DEF Handed, At
  <2>5. Listed(p)'
    BY <1>3, <1>4 DEF Listed, At, Moved, Ended
  <2>6. Kubeconfig(p)'
    BY <1>2, <1>3, <1>4, <2>1 DEF Kubeconfig, Done, At, Moved, Ended, Same
  <2> QED
    BY <2>3, <2>4, <2>5, <2>6 DEF Progress
<1> QED
  BY <1>5, <1>6 DEF Kept

\* Kubernetes is set up, and the kubeconfig exported.
LEMMA SetupKeeps ==
    ASSUME ProvisionInv, NEW p \in Procs,
           ListForActions(p) \/ SetUp(p) \/ Export(p) \/ ExportFails(p)
    PROVE  Kept(p)
<1>1. TypeOK /\ OnlyNodes /\ CmdType /\ PhaseOf(p)
      /\ cmd[p].cleanup \in {"none", "due", "done", "failed"}
  BY DEF ProvisionInv, TypeOK, CmdType, Commands
<1>2. OwnContainers(p)
  BY <1>1, KeepContainers DEF ListForActions, SetUp, Export, ExportFails
<1>3. CASE ListForActions(p)
  <2>1. OwnCmd(p) /\ Moved(p, "setup")
    BY <1>1, <1>3, CreateRecords
  <2>2. Frame(p)
    BY <1>2, <1>3, <2>1, QuietFrame DEF ListForActions, Moved, At
  <2> QED
    BY <1>3, <2>1, <2>2, CompleteKeeps DEF ListForActions, At
<1>4. CASE SetUp(p)
  <2>1. OwnCmd(p) /\ (Moved(p, "export") \/ Ended(p, "stopped", cmd[p].cleanup))
    <3>1. CASE Return(p, "stopped")
      BY <1>1, <3>1, FinishRecord DEF Return, Results
    <3>2. CASE Goto(p, "export")
      BY <1>1, <3>2, GotoRecord DEF Phases
    <3> QED
      BY <1>4, <3>1, <3>2 DEF SetUp
  <2>2. Frame(p)
    BY <1>2, <1>4, <2>1, QuietFrame DEF SetUp, Moved, Ended, At
  <2> QED
    BY <1>4, <2>1, <2>2, CompleteKeeps DEF SetUp, At
<1>5. CASE Export(p)
  <2>1. OwnCmd(p) /\ Ended(p, "ok", cmd[p].cleanup)
    BY <1>1, <1>5, FinishRecord DEF Export, Return, Results
  <2>2. Name(p) \in Clusters
    BY <1>1, NodeFacts
  <2>3. Frame(p)
    BY <1>1, <1>2, <1>5, <2>1, <2>2
       DEF Export, Frame, OwnData, Ended, OnlyNodes, TypeOK, probe, At
  <2> QED
    BY <1>5, <2>1, <2>3, CompleteKeeps DEF Export, At
<1>6. CASE ExportFails(p)
  <2>1. OwnCmd(p) /\ (Moved(p, "export") \/ Ended(p, "err", cmd[p].cleanup))
    BY <1>1, <1>6, CreateRecords
  <2>2. Frame(p)
    BY <1>2, <1>6, <2>1, QuietFrame DEF ExportFails, Moved, Ended, At
  <2>3. CASE Moved(p, "export")
    BY <1>6, <2>2, <2>3, CompleteKeeps DEF ExportFails, At
  <2>4. CASE Ended(p, "err", cmd[p].cleanup)
    <3>1. cmd[p].cleanup # "done"
      BY <1>1, <1>6 DEF ExportFails, PhaseOf, At
    <3> QED
      BY <2>2, <2>4, <3>1, EndedKeeps
  <2> QED
    BY <2>1, <2>3, <2>4
<1> QED
  BY <1>3, <1>4, <1>5, <1>6

\* The steps of a deletion, and of the cleanup.
LEMMA ListKeeps ==
    ASSUME ProvisionInv, NEW p \in Procs, List(p)
    PROVE  Kept(p)
<1>1. TypeOK /\ OnlyNodes /\ CmdType /\ PhaseOf(p) /\ (cmd[p].alone => Progress(p))
      /\ flying \in [Procs -> SUBSET AllNodes]
  BY DEF ProvisionInv, TypeOK, CmdType
<1>2. /\ OwnCmd(p) /\ Same(p) /\ cmd'[p].pc = "unkube"
      /\ cmd'[p].listed = Existing(Name(p)) /\ cmd'[p].late = flying[p]
      /\ cmd'[p].result = cmd[p].result /\ cmd'[p].cleanup = cmd[p].cleanup
      /\ cmd'[p].kerr = cmd[p].kerr
  BY <1>1, DeleteRecords
<1>3. At(p, "list") /\ flying' = flying /\ container' = container
  BY DEF List
<1>4. Frame(p)
  BY <1>1, <1>2, <1>3, KeepContainers, QuietFrame DEF List, At
<1>5. Existing(Name(p))' = Existing(Name(p))
  BY <1>2, <1>3 DEF Existing, Same, Name
<1>6. PhaseOf(p)'
  BY <1>1, <1>2, <1>3 DEF PhaseOf, At, Same, DeletePhases
<1>7. ASSUME cmd[p].alone PROVE Progress(p)'
  <2>1. ~cmd[p].kerr
    BY <1>1, <1>3, <1>7 DEF Progress, Kubeconfig, At
  <2>2. Complete(p)' /\ Handed(p)'
    BY <1>2 DEF Complete, Handed, Done, At
  <2>3. Listed(p)'
    BY <1>2, <1>3, <1>5 DEF Listed, At
  <2>4. Kubeconfig(p)'
    BY <1>2, <2>1 DEF Kubeconfig, Done, At
  <2> QED
    BY <2>2, <2>3, <2>4 DEF Progress
<1> QED
  BY <1>4, <1>6, <1>7 DEF Kept

LEMMA UnkubeKeeps ==
    ASSUME ProvisionInv, NEW p \in Procs, Unkube(p) \/ UnkubeFails(p)
    PROVE  Kept(p)
<1>1. TypeOK /\ OnlyNodes /\ CmdType /\ PhaseOf(p) /\ (cmd[p].alone => Progress(p))
      /\ flying \in [Procs -> SUBSET AllNodes]
  BY DEF ProvisionInv, TypeOK, CmdType
<1>2. At(p, "unkube") /\ flying' = flying /\ container' = container
  BY DEF Unkube, UnkubeFails
<1>3. /\ OwnCmd(p) /\ Same(p) /\ cmd'[p].pc = "rm"
      /\ cmd'[p].listed = cmd[p].listed /\ cmd'[p].late = cmd[p].late
      /\ cmd'[p].result = cmd[p].result /\ cmd'[p].cleanup = cmd[p].cleanup
      /\ cmd'[p].kerr \/ Name(p) \notin kubeconfig'
  BY <1>1, DeleteRecords DEF Moved, Unkube
<1>4. Frame(p)
  <2>1. OwnContainers(p)
    BY <1>1, <1>2, KeepContainers
  <2> QED
    BY <1>1, <1>2, <1>3, <2>1
       DEF Unkube, UnkubeFails, Frame, OwnData, OnlyNodes, TypeOK, probe, At
<1>5. Existing(Name(p))' = Existing(Name(p)) /\ Name(p)' = Name(p)
  BY <1>2, <1>3 DEF Existing, Same, Name
<1>6. PhaseOf(p)'
  BY <1>1, <1>2, <1>3 DEF PhaseOf, At, Same, DeletePhases
<1>7. ASSUME cmd[p].alone PROVE Progress(p)'
  <2>1. Existing(Name(p)) \subseteq cmd[p].listed \cup cmd[p].late /\ flying[p] \subseteq cmd[p].late
    BY <1>1, <1>2, <1>7 DEF Progress, Listed, At
  <2>2. Complete(p)' /\ Handed(p)'
    BY <1>3 DEF Complete, Handed, Done, At
  <2>3. Listed(p)'
    BY <1>2, <1>3, <1>5, <2>1 DEF Listed, At
  <2>4. Kubeconfig(p)'
    BY <1>3, <1>5 DEF Kubeconfig, Done, At
  <2> QED
    BY <2>2, <2>3, <2>4 DEF Progress
<1> QED
  BY <1>4, <1>6, <1>7 DEF Kept

LEMMA RmKeeps ==
    ASSUME ProvisionInv, NEW p \in Procs, Rm(p) \/ RmFails(p)
    PROVE  Kept(p)
<1>1. TypeOK /\ OnlyNodes /\ CmdType /\ PhaseOf(p) /\ (cmd[p].alone => Progress(p))
      /\ flying \in [Procs -> SUBSET AllNodes]
  BY DEF ProvisionInv, TypeOK, CmdType
<1>2. At(p, "rm") /\ ~At(p, "idle") /\ UNCHANGED <<flying, probe, kubeconfig>>
  BY DEF Rm, RmFails, At
<1>3. PICK gone : /\ RemoveContainers(p, gone)
                  /\ Rm(p) => gone = cmd[p].listed
  <2>1. CASE Rm(p)
    BY <2>1 DEF Rm
  <2>2. CASE ~Rm(p)
    BY <2>2 DEF RmFails
  <2> QED
    BY <2>1, <2>2
<1>4. /\ OwnContainers(p)
      /\ \A m \in AllNodes : container'[Name(p)][m] =
            IF m \in gone THEN Absent ELSE container[Name(p)][m]
  BY <1>1, <1>3, RemoveFrame
<1>5. CASE RmFails(p)
  <2>1. OwnCmd(p) /\ Ended(p, "err", "failed")
    BY <1>1, <1>5, DeleteRecords
  <2>2. Frame(p)
    BY <1>2, <1>4, <2>1, QuietFrame DEF Ended
  <2> QED
    BY <2>1, <2>2, EndedKeeps
<1>6. CASE Rm(p)
  <2>1. /\ OwnCmd(p)
        /\ \/ cmd[p].op = "create" /\ Ended(p, "err", "done")
           \/ cmd[p].op # "create" /\ cmd[p].kerr /\ Ended(p, "err", "done")
           \/ cmd[p].op # "create" /\ ~cmd[p].kerr /\ Ended(p, "ok", "done")
    BY <1>1, <1>6, DeleteRecords
  <2>2. Same(p) /\ cmd'[p].pc = "idle" /\ cmd'[p].late = cmd[p].late /\ ~cmd'[p].kerr
        /\ (cmd[p].op = "create" \/ cmd[p].kerr => cmd'[p].result = "err")
        /\ cmd'[p].result \in {"err", "ok"}
    BY <2>1 DEF Ended
  <2>3. Frame(p)
    BY <1>2, <1>4, <2>1, <2>2, QuietFrame
  <2>4. PhaseOf(p)'
    BY <2>2 DEF PhaseOf, At
  <2>5. ASSUME cmd[p].alone PROVE Progress(p)'
    <3>1. /\ Existing(Name(p)) \subseteq cmd[p].listed \cup cmd[p].late
          /\ flying[p] \subseteq cmd[p].late
          /\ ~cmd[p].kerr => Name(p) \notin kubeconfig
      BY <1>1, <1>2, <2>5 DEF Progress, Listed, Kubeconfig, At
    <3>2. Name(p)' = Name(p)
      BY <2>2 DEF Same, Name
    <3>3. ASSUME NEW m \in Existing(Name(p))' PROVE m \in cmd[p].late
      <4>1. m \in AllNodes /\ container'[Name(p)][m] # Absent
        BY <3>2, <3>3 DEF Existing
      <4>2. m \in Existing(Name(p)) /\ m \notin cmd[p].listed
        BY <1>3, <1>4, <1>6, <4>1 DEF Existing
      <4> QED
        BY <3>1, <4>2
    <3>4. Complete(p)' /\ Handed(p)'
      BY <2>2 DEF Complete, Handed, Done, At, Same
    <3>5. Listed(p)'
      BY <1>2, <2>2, <3>1, <3>3 DEF Listed, At
    <3>6. Kubeconfig(p)'
      BY <1>2, <2>2, <3>1, <3>2 DEF Kubeconfig, Done, At, Same
    <3> QED
      BY <3>4, <3>5, <3>6 DEF Progress
  <2> QED
    BY <2>3, <2>4, <2>5 DEF Kept
<1> QED
  BY <1>5, <1>6

-----------------------------------------------------------------------------
(* A command begins: those on its cluster are no longer alone. *)

\* What a command is when it begins.
Fledgling(command) ==
    /\ command \in Commands
    /\ \/ command.op = "create" /\ command.pc = "check"
       \/ command.op = "delete" /\ command.pc = "list"
    /\ command.label = "" /\ command.result = "none" /\ command.cleanup = "none" /\ ~command.kerr

LEMMA BeginKeepsInv ==
    ASSUME ProvisionInv, NEW p \in Procs, NEW command, Fledgling(command), Begin(p, command)
    PROVE  ProvisionInv'
<1> DEFINE c == command.cluster
           a == BusyOn(c) = {}
           r == [command EXCEPT !.alone = a]
<1>1. TypeOK /\ OnlyNodes /\ AloneInv /\ cmd \in [Procs -> Commands] /\ c \in Clusters
  BY DEF ProvisionInv, TypeOK, Fledgling, Commands
<1>2. /\ At(p, "idle") /\ flying[p] = {}
      /\ UNCHANGED <<container, flying, scratch, leaked, kubeconfig>>
      /\ cmd' = [q \in Procs |-> IF q = p THEN r
                                 ELSE IF cmd[q].cluster = c THEN [cmd[q] EXCEPT !.alone = FALSE]
                                 ELSE cmd[q]]
  BY DEF Begin, probe
<1>3. \A q \in Procs : a /\ cmd[q].cluster = c => At(q, "idle") /\ flying[q] = {}
  BY DEF BusyOn
<1>4. a \in BOOLEAN
  OBVIOUS
<1> HIDE DEF a
<1>5. /\ r \in Commands /\ r.cluster = c /\ r.alone = a /\ r.op = command.op /\ r.pc = command.pc
      /\ r.label = command.label /\ r.result = command.result /\ r.cleanup = command.cleanup
      /\ r.kerr = command.kerr
  BY <1>4 DEF Fledgling, Commands
<1> HIDE DEF r, c
<1>6. cmd'[p] = r
  BY <1>2
<1>7. ASSUME NEW q \in Procs, q # p
      PROVE  /\ cmd'[q] \in Commands /\ cmd'[q].cluster = cmd[q].cluster /\ cmd'[q].pc = cmd[q].pc
             /\ cmd'[q].op = cmd[q].op /\ cmd'[q].result = cmd[q].result
             /\ cmd'[q].cleanup = cmd[q].cleanup /\ cmd'[q].i = cmd[q].i
             /\ cmd'[q].alone => cmd[q].cluster # c /\ cmd'[q] = cmd[q]
  <2>1. cmd[q] \in Commands
    BY <1>1
  <2>2. CASE cmd[q].cluster = c
    <3>1. cmd'[q] = [cmd[q] EXCEPT !.alone = FALSE]
      BY <1>2, <1>7, <2>2
    <3> QED
      BY <2>1, <3>1 DEF Commands
  <2>3. CASE cmd[q].cluster # c
    <3>1. cmd'[q] = cmd[q]
      BY <1>2, <1>7, <2>3
    <3> QED
      BY <2>1, <2>3, <3>1
  <2> QED
    BY <2>2, <2>3
<1>8. TypeOK'
  <2>1. \A q \in Procs : cmd'[q] \in Commands
    BY <1>5, <1>6, <1>7
  <2>2. cmd' \in [Procs -> Commands]
    BY <1>2, <2>1
  <2> QED
    BY <1>1, <1>2, <2>2 DEF TypeOK
<1>9. OnlyNodes'
  <2>1. \A d \in Clusters : Existing(d)' = Existing(d)
    BY <1>2 DEF Existing
  <2>2. ASSUME NEW q \in Procs PROVE flying'[q] \subseteq Nodes(cmd'[q].cluster)
    BY <1>1, <1>2, <1>7 DEF OnlyNodes, Name
  <2> QED
    BY <1>1, <2>1, <2>2 DEF OnlyNodes, Name, Nodes, CPSet
<1>10. AloneInv'
  <2>1. ASSUME NEW s \in Procs, NEW q \in Procs, s # q, cmd'[s].alone,
               cmd'[q].cluster = cmd'[s].cluster
        PROVE  cmd'[q].pc = "idle" /\ flying'[q] = {}
    <3>1. CASE s = p
      BY <1>2, <1>3, <1>5, <1>6, <1>7, <2>1, <3>1 DEF At
    <3>2. CASE s # p
      <4>1. cmd[s].alone /\ cmd[s].cluster # c /\ cmd'[s] = cmd[s]
        BY <1>7, <2>1, <3>2
      <4>2. q # p
        BY <1>5, <1>6, <2>1, <4>1
      <4> QED
        BY <1>1, <1>2, <1>7, <2>1, <4>1, <4>2 DEF AloneInv, Name, At
    <3> QED
      BY <3>1, <3>2
  <2> QED
    BY <2>1 DEF AloneInv, Name, At
<1>11. ASSUME NEW q \in Procs
       PROVE  PhaseOf(q)' /\ (cmd'[q].alone => Progress(q)')
  <2>1. CASE q = p
    <3>1. cmd'[q] = r /\ flying'[q] = {} /\ r.pc \in {"check", "list"} /\ r.op \in {"create", "delete"}
          /\ (r.op = "delete" => r.pc = "list") /\ r.label = "" /\ r.result = "none"
          /\ r.cleanup = "none" /\ ~r.kerr
      BY <1>2, <1>5, <1>6, <2>1 DEF Fledgling
    <3>2. PhaseOf(q)'
      BY <3>1 DEF PhaseOf, At, DeletePhases
    <3>3. Complete(q)'
      BY <3>1 DEF Complete, Done, At
    <3>4. Handed(q)' /\ Listed(q)'
      BY <3>1 DEF Handed, Listed, Done, At
    <3>5. Kubeconfig(q)'
      BY <3>1 DEF Kubeconfig, Done, At
    <3> QED
      BY <3>2, <3>3, <3>4, <3>5 DEF Progress
  <2>2. CASE q # p
    <3>1. PhaseOf(q) /\ (cmd[q].alone => Progress(q))
      BY DEF ProvisionInv
    <3>2. PhaseOf(q)'
      BY <1>2, <1>7, <2>2, <3>1 DEF PhaseOf, At, Name
    <3>3. ASSUME cmd'[q].alone PROVE Progress(q)'
      <4>1. cmd'[q] = cmd[q]
        BY <1>7, <2>2, <3>3
      <4> QED
        BY <1>2, <3>1, <3>3, <4>1, ProgressUntouched
    <3> QED
      BY <3>2, <3>3
  <2> QED
    BY <2>1, <2>2
<1> QED
  BY <1>8, <1>9, <1>10, <1>11 DEF ProvisionInv

-----------------------------------------------------------------------------
(* The invariant, and what follows. *)

LEMMA InitInv == Init => ProvisionInv
<1> SUFFICES ASSUME Init PROVE ProvisionInv
  OBVIOUS
<1>1. \A c \in Clusters : New("none", c) \in Commands
  BY NewType
<1>2. cmd \in [Procs -> Commands] /\ \A p \in Procs : \E c \in Clusters : cmd[p] = New("none", c)
  BY <1>1 DEF Init
<1>3. TypeOK
  BY <1>2 DEF Init, TypeOK
<1>4. (\A p \in Procs : flying[p] = {}) /\ \A c \in Clusters : Existing(c) = {}
  BY DEF Init, Existing
<1>5. ASSUME NEW p \in Procs
      PROVE  /\ At(p, "idle") /\ cmd[p].op = "none" /\ cmd[p].cleanup = "none" /\ ~cmd[p].kerr
  <2>1. PICK c \in Clusters : cmd[p] = New("none", c)
    BY <1>2
  <2>2. New("none", c).pc = "idle" /\ New("none", c).op = "none"
        /\ New("none", c).cleanup = "none" /\ New("none", c).kerr = FALSE
    BY DEF New
  <2> QED
    BY <2>1, <2>2 DEF At
<1>6. OnlyNodes /\ AloneInv
  BY <1>4, <1>5 DEF OnlyNodes, AloneInv
<1>7. ASSUME NEW p \in Procs PROVE PhaseOf(p) /\ Progress(p)
  <2>1. PhaseOf(p)
    BY <1>5 DEF PhaseOf, At
  <2>2. Complete(p)
    BY <1>5 DEF Complete, Done, At
  <2>3. Handed(p) /\ Listed(p)
    BY <1>5 DEF Handed, Listed, Done, At
  <2>4. Kubeconfig(p)
    BY <1>5 DEF Kubeconfig, Done, At
  <2> QED
    BY <2>1, <2>2, <2>3, <2>4 DEF Progress
<1> QED
  BY <1>3, <1>6, <1>7 DEF ProvisionInv

LEMMA NextKeepsInv ==
    ASSUME ProvisionInv, Next
    PROVE  ProvisionInv'
<1> PICK p \in Procs : Create(p) \/ Delete(p) \/ Kill(p)
  BY DEF Next
<1>1. ASSUME Kept(p) PROVE ProvisionInv'
  BY <1>1, FrameKeepsInv DEF Kept
<1>2. CASE StartCreate(p)
  <2>1. PICK c \in Clusters, retain \in BOOLEAN, stop \in BOOLEAN :
           Begin(p, [New("create", c) EXCEPT !.pc = "check", !.retain = retain, !.stop = stop])
    BY <1>2 DEF StartCreate
  <2> DEFINE command == [New("create", c) EXCEPT !.pc = "check", !.retain = retain, !.stop = stop]
  <2>2. New("create", c) \in Commands
    BY NewType
  <2>3. command \in Commands
    BY <2>2 DEF Commands, Phases
  <2>4. Fledgling(command)
    BY <2>3 DEF Fledgling, New
  <2> QED
    BY <2>1, <2>4, BeginKeepsInv
<1>3. CASE StartDelete(p)
  <2>1. PICK c \in Clusters : Begin(p, [New("delete", c) EXCEPT !.pc = "list"])
    BY <1>3 DEF StartDelete
  <2> DEFINE command == [New("delete", c) EXCEPT !.pc = "list"]
  <2>2. New("delete", c) \in Commands
    BY NewType
  <2>3. command \in Commands
    BY <2>2 DEF Commands, Phases
  <2>4. Fledgling(command)
    BY <2>3 DEF Fledgling, New
  <2> QED
    BY <2>1, <2>4, BeginKeepsInv
<1>4. CASE PrepareFails(p) \/ RecordFails(p) \/ UnplugFails(p) \/ SetupFails(p)
           \/ ListFails(p) \/ Kill(p)
  BY <1>1, <1>4, FailuresKeep
<1>5. CASE Check(p) \/ ScratchCreated(p)
  BY <1>1, <1>5, ChecksKeep
<1>6. CASE SkipProbe(p) \/ ScratchRefused(p) \/ ProbeEnds(p)
  BY <1>1, <1>6, ProbeKeeps
<1>7. CASE RunSucceeds(p) \/ RunFails(p)
  BY <1>1, <1>7, RunsKeep
<1>8. CASE AllRun(p)
  BY <1>1, <1>8, AllRunKeeps
<1>9. CASE Record(p) \/ Unplug(p) \/ Plug(p)
  BY <1>1, <1>9, PinsKeep
<1>10. CASE PlugFails(p) \/ Recover(p)
  BY <1>1, <1>10, PinFailuresKeep
<1>11. CASE AllPinned(p)
  BY <1>1, <1>11, AllPinnedKeeps
<1>12. CASE ListForActions(p) \/ SetUp(p) \/ Export(p) \/ ExportFails(p)
  BY <1>1, <1>12, SetupKeeps
<1>13. CASE List(p)
  BY <1>1, <1>13, ListKeeps
<1>14. CASE Unkube(p) \/ UnkubeFails(p)
  BY <1>1, <1>14, UnkubeKeeps
<1>15. CASE Rm(p) \/ RmFails(p)
  BY <1>1, <1>15, RmKeeps
<1> QED
  BY <1>2, <1>3, <1>4, <1>5, <1>6, <1>7, <1>8, <1>9, <1>10, <1>11, <1>12, <1>13, <1>14, <1>15
     DEF Create, Delete

\* A step that changes nothing.
LEMMA StutterKeepsInv ==
    ASSUME ProvisionInv, UNCHANGED vars
    PROVE  ProvisionInv'
<1>1. /\ cmd' = cmd /\ flying' = flying /\ container' = container /\ kubeconfig' = kubeconfig
      /\ scratch' = scratch /\ leaked' = leaked
  BY DEF vars
<1>2. TypeOK' /\ OnlyNodes' /\ AloneInv'
  BY <1>1 DEF ProvisionInv, TypeOK, OnlyNodes, AloneInv, Existing, Name, At
<1>3. ASSUME NEW p \in Procs
      PROVE  PhaseOf(p)' /\ (cmd'[p].alone => Progress(p)')
  <2>1. PhaseOf(p)'
    BY <1>1 DEF ProvisionInv, PhaseOf, At, Name
  <2>2. cmd[p].alone => Progress(p)'
    BY <1>1, ProgressUntouched DEF ProvisionInv
  <2> QED
    BY <1>1, <2>1, <2>2
<1> QED
  BY <1>2, <1>3 DEF ProvisionInv

\* The inductive invariant.
THEOREM ProvisionInvariant == Spec => []ProvisionInv
<1>1. ProvisionInv /\ [Next]_vars => ProvisionInv'
  BY NextKeepsInv, StutterKeepsInv
<1> QED
  BY <1>1, InitInv, PTL DEF Spec

\* The variables keep their types.
THEOREM ProvisionTypes == Spec => []TypeOK
<1>1. ProvisionInv => TypeOK
  BY DEF ProvisionInv
<1> QED
  BY <1>1, ProvisionInvariant, PTL

\* A creation that reports success has created every node of its cluster.
THEOREM CreationsAreComplete == Spec => []CreatedIsComplete
<1>1. ProvisionInv => CreatedIsComplete
  BY DEF ProvisionInv, Progress, Complete, CreatedIsComplete, Done
<1> QED
  BY <1>1, ProvisionInvariant, PTL

\* A created cluster is one that pause and resume start from: its control planes are all
\* pinned or none is, only under the label that says so, and all are on the network.
THEOREM CreationsHandOver == Spec => []CreatedForResume
<1>1. ProvisionInv => CreatedForResume
  BY DEF ProvisionInv, Progress, Handed, CreatedForResume, Done, Resumable
<1> QED
  BY <1>1, ProvisionInvariant, PTL

\* A deletion or a cleanup whose calls succeed leaves only the containers of `run` calls
\* that had not ended when the nodes were listed.
THEOREM DeletionsLeaveInFlight == Spec => []LeftoversWereInFlight
<1>1. ProvisionInv => LeftoversWereInFlight
  BY DEF ProvisionInv, Progress, Listed, LeftoversWereInFlight
<1> QED
  BY <1>1, ProvisionInvariant, PTL

\* The kubeconfig names a cluster after its creation, and no longer after its deletion.
THEOREM KubeconfigAlwaysFollows == Spec => []KubeconfigFollows
<1>1. ProvisionInv => KubeconfigFollows
  BY DEF ProvisionInv, Progress, Kubeconfig, KubeconfigFollows, Done
<1> QED
  BY <1>1, ProvisionInvariant, PTL
=============================================================================
