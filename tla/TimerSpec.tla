----------------------------- MODULE TimerSpec ------------------------------
(***************************************************************************)
(* What the kernel's timer list promises its users: a timer set for t      *)
(* ticks is taken off by the t-th tick after that, at no other tick, unless*)
(* its owner deletes it first.  Timers (the delta list of sched.c)         *)
(* implements this, and Proc uses no more than this.                       *)
(***************************************************************************)
EXTENDS Naturals

CONSTANTS Owner,   \* whoever may set a timer, one each
          MaxTime  \* bound: the longest time a timer is set for

VARIABLES rem,   \* ticks left, 0 when none is set
          due,   \* expired at this tick, still to be fired
          busy   \* TRUE while a tick is handled

timerVars == <<rem, due, busy>>

TimerInit == rem = [p \in Owner |-> 0] /\ due = {} /\ busy = FALSE

Set(p, t) ==
    /\ ~busy /\ rem[p] = 0
    /\ rem' = [rem EXCEPT ![p] = t]
    /\ UNCHANGED <<due, busy>>

Cancel(p) ==
    /\ ~busy
    /\ rem' = [rem EXCEPT ![p] = 0]
    /\ UNCHANGED <<due, busy>>

Tick ==
    /\ ~busy
    /\ rem' = [p \in Owner |-> IF rem[p] > 0 THEN rem[p] - 1 ELSE 0]
    /\ due' = {p \in Owner : rem[p] = 1}
    /\ busy' = TRUE

Fire(p) ==
    /\ busy /\ p \in due
    /\ due' = due \ {p}
    /\ UNCHANGED <<rem, busy>>

TickDone ==
    /\ busy /\ due = {}
    /\ busy' = FALSE
    /\ UNCHANGED <<rem, due>>

TimerNext ==
    \/ \E p \in Owner : (\E t \in 1..MaxTime : Set(p, t)) \/ Cancel(p) \/ Fire(p)
    \/ Tick
    \/ TickDone

TimerSafety == TimerInit /\ [][TimerNext]_timerVars
=============================================================================
