---------------------------- MODULE MCLifecycle ----------------------------
(* Instances of Lifecycle for TLC. *)
EXTENDS Lifecycle, TLC

CONSTANTS cp1, cp2, w1, lb1, a1, a2, a3, a4

TwoCPs    == <<cp1, cp2>>
OneWorker == <<w1>>
NoNodes   == <<>>
OneLB     == <<lb1>>

\* Addresses are only compared with one another.
Symmetry     == Permutations(Addresses)
ProcSymmetry == Permutations(Addresses) \cup Permutations(Procs)
=============================================================================
