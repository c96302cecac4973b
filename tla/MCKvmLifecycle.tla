--------------------------- MODULE MCKvmLifecycle ---------------------------
(* Instances of KvmLifecycle for TLC.  Runtimes are interchangeable, so the  *)
(* runs that check no liveness declare them a symmetry set.                  *)
EXTENDS KvmLifecycle, TLC

VmSymmetry == Permutations(Vm)
=============================================================================
