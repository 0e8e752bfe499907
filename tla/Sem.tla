-------------------------------- MODULE Sem ---------------------------------
(***************************************************************************)
(* The kernel semaphore of sem.c on the wait queue of wait.c, as operators *)
(* on records [value, queue].  up and down run with interrupts off, each in*)
(* one step.  A thread that down() put on a queue has blocked until up()   *)
(* takes it off: the semaphore is handed to it, its value stays 0.         *)
(***************************************************************************)
EXTENDS Integers, Sequences

\* sem_init
sem_init(v) == [value |-> v, queue |-> <<>>]

\* __down by thread t, up to its schedule().
down(s, t) ==
    IF s.value > 0 THEN [s EXCEPT !.value = @ - 1]
                   ELSE [s EXCEPT !.queue = Append(@, t)]

\* __up: the first waiter gets the semaphore, the value rises only without one.
up_WakesLast(s) ==
    IF s.queue = <<>> THEN [s EXCEPT !.value = @ + 1]
                      ELSE [s EXCEPT !.queue = SubSeq(@, 1, Len(@) - 1)]
up(s) ==
    IF s.queue = <<>> THEN [s EXCEPT !.value = @ + 1]
                      ELSE [s EXCEPT !.queue = Tail(@)]

\* t sleeps on s.
Blocked(s, t) == \E i \in DOMAIN s.queue : s.queue[i] = t
=============================================================================
