---------------------------- MODULE ProjectRoot ----------------------------
(***************************************************************************)
(* Which planning directory a command works in, given where it is started: *)
(* the main worktree of a linked one, the nearest directory above that     *)
(* owns the start directory, and the workstream that is active.  All locks *)
(* and all files of PlanningPhases lie in what is found here.              *)
(*                                                                         *)
(* A path is a sequence of directories, from the one a command is started  *)
(* in upwards, to the file system's root or below the home directory.  The *)
(* flag multiRepo of a configuration asks for what is tried without it     *)
(* next, and is left out, as is GSD_PROJECT.                               *)
(***************************************************************************)
EXTENDS Integers, Sequences

NoWorkstream == ""

\* planning: it has a .planning; git: a .git; lists: its sub_repos name the directory
\* below it on this path; active: the workstream pointer kept for it.
Folders == [planning : BOOLEAN, git : BOOLEAN, lists : BOOLEAN, active : STRING]
IsPath(path) == path \in Seq(Folders) /\ path # <<>>

\* isInsideGitRepo: from the start directory up to the candidate.
InsideGitRepo(path, candidate) == \E i \in 1..candidate : path[i].git

Owns(path, candidate) ==
    path[candidate].planning /\ (path[candidate].lists \/ InsideGitRepo(path, candidate))
Owners(path) == {candidate \in 2..Len(path) : Owns(path, candidate)}

\* The start directory if it has a .planning or nobody owns it.
FindProjectRoot(path) ==
    IF path[1].planning \/ Owners(path) = {} THEN 1
    ELSE CHOOSE owner \in Owners(path) : \A other \in Owners(path) : owner <= other

Above(path, k) == SubSeq(path, k, Len(path))

-----------------------------------------------------------------------------
\* A start: the path, and that of the main worktree, <<>> outside a linked one.
ResolveWorktreeRoot(start) ==
    IF start.path[1].planning \/ start.main = <<>> THEN start.path ELSE start.main

\* --ws, or else the pointer kept for the directory the root is then searched from.
ActiveWorkstream(start, ws) ==
    IF ws # NoWorkstream THEN ws ELSE ResolveWorktreeRoot(start)[1].active

\* What main() works on: a path, the place of the root on it, and a workstream.
PlanningDir(start, ws) ==
    LET path == ResolveWorktreeRoot(start)
    IN  [path |-> path, root |-> FindProjectRoot(path), ws |-> ActiveWorkstream(start, ws)]

-----------------------------------------------------------------------------
(* Properties, for one path; the theorems are in PlanningLookupProofs. *)

\* A project's root is its own root: a command that was started there works in the
\* same directory, and takes the same lock, as one that was led there.
RootIsOwnRoot(path) == FindProjectRoot(Above(path, FindProjectRoot(path))) = 1

\* Below a directory that is owned by a project further up, a command ends up in
\* that project or in a nearer one: it makes no new .planning.
NoPlanningInside(path, k) ==
    FindProjectRoot(Above(path, k)) > 1 =>
        /\ path[FindProjectRoot(path)].planning
        /\ FindProjectRoot(path) <= k - 1 + FindProjectRoot(Above(path, k))

\* Without a .planning in between and with a .git that is not below the upper one of
\* two start directories, both lead to the same root.
SameRootBelow(path, k) ==
    (\A i \in 1..k : ~path[i].planning) /\ (\A i \in 1..(k - 1) : ~path[i].git)
        /\ FindProjectRoot(Above(path, k)) > 1
        => FindProjectRoot(path) = k - 1 + FindProjectRoot(Above(path, k))

\* A pointer is only kept for directories with a .planning, so a command that is led
\* to its root from elsewhere never sees the workstream that is active there.
PointerOfStart(start) ==
    (\A i \in DOMAIN ResolveWorktreeRoot(start) :
        ResolveWorktreeRoot(start)[i].active # NoWorkstream => ResolveWorktreeRoot(start)[i].planning)
    /\ PlanningDir(start, NoWorkstream).root # 1
        => PlanningDir(start, NoWorkstream).ws = NoWorkstream
=============================================================================
