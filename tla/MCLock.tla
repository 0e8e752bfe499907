------------------------------- MODULE MCLock -------------------------------
(* A small instance of Lock for TLC. *)
EXTENDS Lock
=============================================================================
