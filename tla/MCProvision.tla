---------------------------- MODULE MCProvision ----------------------------
(* Instances of Provision for TLC. *)
EXTENDS Provision, TLC

CONSTANTS c1, c2, cp1, cp2, lb1

\* Every cluster has two control planes ...
TwoCPs   == [c \in Clusters |-> <<cp1, cp2>>]
\* ... or all but c2.
LoneC2   == [c \in Clusters |-> IF c = c2 THEN <<cp1>> ELSE <<cp1, cp2>>]
WithLB   == [c \in Clusters |-> {lb1}]
WithoutLB == [c \in Clusters |-> {}]

\* Processes are only compared with one another.
Symmetry == Permutations(Procs)
=============================================================================
