------------------------------- MODULE MCCpu --------------------------------
(* A user word, a word of kernel memory and one that is a device.  A multiplication *)
(* takes 3 clocks instead of 16: nothing else runs meanwhile.                       *)
EXTENDS Cpu
=============================================================================
