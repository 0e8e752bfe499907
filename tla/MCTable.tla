------------------------------ MODULE MCTable -------------------------------
(* A small instance of ProcTable for TLC. *)
EXTENDS ProcTable
=============================================================================
