---------------------------- MODULE MCPortableResume ----------------------------
(* Small instances of PortableResume for TLC.                              *)
EXTENDS PortableResume, TLC

CONSTANTS a, b, c, shared, alone

(* Every process on a machine of its own; machines are interchangeable.     *)
OwnClone        == [p \in Process |-> p]
MachineSymmetry == Permutations(Process)

(* a and b in two worktrees of one clone, c on another machine.             *)
Worktrees == [p \in Process |-> IF p = c THEN alone ELSE shared]
=================================================================================
