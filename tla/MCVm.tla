-------------------------------- MODULE MCVm --------------------------------
(* A small instance of Vm for TLC. *)
EXTENDS Vm, TLC

Symmetry == Permutations(Proc)
=============================================================================
