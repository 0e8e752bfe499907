------------------------------- MODULE MCProc -------------------------------
(* Small instances of Proc for TLC. *)
EXTENDS Proc, TLC

CONSTANTS idle, init, u1, u2, u3

TwoUsers == {u1, u2}
ThreeUsers == {u1, u2, u3}

\* User slots are interchangeable (used by the safety runs only).
UserSymmetry == Permutations(Users)
=============================================================================
