------------------------------- MODULE MCHeap -------------------------------
(* A small instance of Heap for TLC. *)
EXTENDS Heap
=============================================================================
