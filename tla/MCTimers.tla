------------------------------ MODULE MCTimers ------------------------------
(* A small instance of Timers for TLC. *)
EXTENDS Timers
=============================================================================
