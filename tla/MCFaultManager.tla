--------------------------- MODULE MCFaultManager ---------------------------
(* Finite instances of FaultManager. *)
EXTENDS FaultManager

DeviceSymmetry == Permutations(Uids)
=============================================================================
