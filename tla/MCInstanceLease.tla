-------------------------- MODULE MCInstanceLease --------------------------
(* Instances of InstanceLease for TLC.                                      *)
EXTENDS InstanceLease, TLC

ProcessSymmetry == Permutations(Process)
=============================================================================
