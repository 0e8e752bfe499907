------------------------------- MODULE MCFiles ------------------------------
(* A small instance of Files for TLC: one file of one block. *)
EXTENDS Files, TLC

CONSTANT text

MCImage == text :> <<1>>

Symmetry == Permutations(Proc)
=============================================================================
