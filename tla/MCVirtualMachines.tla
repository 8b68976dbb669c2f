------------------------- MODULE MCVirtualMachines --------------------------
(* An instance of VirtualMachines for TLC: a host for two machines.        *)
EXTENDS VirtualMachines, TLC

CONSTANTS w1, w2

AnyWorker == Permutations(Workers)
=============================================================================
