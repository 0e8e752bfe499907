------------------------------- MODULE SemSpec ------------------------------
(***************************************************************************)
(* What a counting semaphore promises: a down() that has returned took one *)
(* of the permits, an up() gives one back.                                 *)
(***************************************************************************)
EXTENDS Integers

CONSTANTS Thread, Permits

VARIABLES free,    \* permits nobody has
          inside   \* the threads whose down() has returned

semVars == <<free, inside>>

SemInit == free = Permits /\ inside = {}

Enter(t) ==
    /\ t \notin inside /\ free > 0
    /\ free' = free - 1
    /\ inside' = inside \cup {t}

Leave(t) ==
    /\ t \in inside
    /\ free' = free + 1
    /\ inside' = inside \ {t}

SemSafety == SemInit /\ [][\E t \in Thread : Enter(t) \/ Leave(t)]_semVars
=============================================================================
