--------------------------- MODULE MCPhiloMonitor ---------------------------
(* The monitor and its philosophers for TLC. *)
EXTENDS PhiloMonitor
=============================================================================
