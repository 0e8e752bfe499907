-------------------------------- MODULE Lock --------------------------------
(***************************************************************************)
(* Threads that use one kernel semaphore as the kernel does (lock_mm,      *)
(* lock_files, lock_sin, lock_sfs_fs, lock_vdev_list, lock_disk0): down,   *)
(* critical section, up; and do_kill, which may hit a thread that sleeps in*)
(* __down.                                                                 *)
(*                                                                         *)
(* A thread may be switched out between any two steps.  That is more than  *)
(* lab8 does (trap() reschedules only on the way to user mode), and what   *)
(* sem.c is written for.                                                   *)
(***************************************************************************)
EXTENDS Sem, FiniteSets

CONSTANTS Thread,
          Permits   \* sem_init's value: 1 for every lock of the kernel

ASSUME LockAssumption == IsFiniteSet(Thread) /\ Permits \in Nat \ {0}

VARIABLES
    sem,      \* the semaphore
    at,       \* "out", "down": in __down's schedule(), "in", "panic"
    wait_state, \* proc->wait_state; "none" when RUNNABLE
    flags,    \* wait->wakeup_flags
    exiting   \* PF_EXITING

lockVars == <<sem, at, wait_state, flags, exiting>>

-----------------------------------------------------------------------------
\* down() without waiting; also try_down() that succeeds.
DownAtOnce(t) ==
    /\ at[t] = "out" /\ sem.value > 0
    /\ sem' = down(sem, t)
    /\ at' = [at EXCEPT ![t] = "in"]
    /\ UNCHANGED <<wait_state, flags, exiting>>

\* __down up to its schedule(): wait_current_set.
DownWaits(t) ==
    /\ at[t] = "out" /\ sem.value <= 0
    /\ sem' = down(sem, t)
    /\ at' = [at EXCEPT ![t] = "down"]
    /\ wait_state' = [wait_state EXCEPT ![t] = "WT_KSEM"]
    /\ flags' = [flags EXCEPT ![t] = "WT_INTERRUPTED"]
    /\ UNCHANGED exiting

\* __down after its schedule(): wait_current_del, and down()'s assertion that the
\* wait ended with WT_KSEM.
DownReturns(t) ==
    /\ at[t] = "down" /\ wait_state[t] = "none"
    /\ sem' = IF Blocked(sem, t) THEN [sem EXCEPT !.queue = SelectSeq(@, LAMBDA x : x # t)]
              ELSE sem
    /\ at' = [at EXCEPT ![t] = IF flags[t] = "WT_KSEM" THEN "in" ELSE "panic"]
    /\ UNCHANGED <<wait_state, flags, exiting>>

\* The threads a step from sem to s takes off the queue.
Off(s) == {u \in Thread : Blocked(sem, u) /\ ~Blocked(s, u)}

\* up() by t, which leaves s: wakeup_wait gives the waiter WT_KSEM and wakes it;
\* __up's assertion on its wait_state.
UpTo(t, s) ==
    /\ at[t] = "in"
    /\ sem' = s
    /\ at' = [at EXCEPT ![t] = IF \A u \in Off(s) : wait_state[u] = "WT_KSEM"
                               THEN "out" ELSE "panic"]
    /\ wait_state' = [u \in Thread |-> IF u \in Off(s) THEN "none" ELSE wait_state[u]]
    /\ flags' = [u \in Thread |-> IF u \in Off(s) THEN "WT_KSEM" ELSE flags[u]]
    /\ UNCHANGED exiting

Up_WakesAll(t) ==
    UpTo(t, IF sem.queue = <<>> THEN up(sem) ELSE [sem EXCEPT !.queue = <<>>])
Up(t) == UpTo(t, up(sem))

\* do_kill(t) wakes a thread only from a wait with the bit WT_INTERRUPTED.
Interruptible_Any(t) == wait_state[t] # "none"
Interruptible(t) == wait_state[t] \in {"WT_CHILD", "WT_TIMER", "WT_KBD"}

DoKill(t) ==
    /\ t \notin exiting
    /\ exiting' = exiting \cup {t}
    /\ wait_state' = [wait_state EXCEPT ![t] = IF Interruptible(t) THEN "none" ELSE @]
    /\ UNCHANGED <<sem, at, flags>>

-----------------------------------------------------------------------------
LockInit ==
    /\ sem = sem_init(Permits)
    /\ at = [t \in Thread |-> "out"]
    /\ wait_state = [t \in Thread |-> "none"]
    /\ flags = [t \in Thread |-> "WT_INTERRUPTED"]
    /\ exiting = {}

LockNext ==
    \E t \in Thread :
        DownAtOnce(t) \/ DownWaits(t) \/ DownReturns(t) \/ Up(t) \/ DoKill(t)

LockSpec == LockInit /\ [][LockNext]_lockVars

\* A runnable thread gets the CPU (module Proc) and critical sections end.
LockFairSpec == LockSpec /\ \A t \in Thread : WF_lockVars(DownReturns(t)) /\ WF_lockVars(Up(t))

-----------------------------------------------------------------------------
\* Threads that own the semaphore but have not returned from down() yet.
Granted == {t \in Thread : at[t] = "down" /\ flags[t] = "WT_KSEM"}
Inside == {t \in Thread : at[t] = "in"}

\* At most Permits threads are between down() and up(): mutual exclusion for the
\* locks of the kernel, where Permits is 1.
Exclusion == Cardinality(Inside) <= Permits

\* First come, first served: a waiter is not taken off the queue before one that
\* came earlier.
Fifo ==
    [][\A i, j \in DOMAIN sem.queue :
          i < j /\ Blocked(sem', sem.queue[i]) => Blocked(sem', sem.queue[j])]_lockVars

\* sem.c implements SemSpec: the permit of a thread that has been handed the
\* semaphore counts as free until its down() returns.
Counter == INSTANCE SemSpec WITH
    free   <- sem.value + Cardinality(Granted),
    inside <- Inside

CounterSafety == Counter!SemSafety

\* Every down() returns with the semaphore: nobody is overtaken for ever, and a
\* thread killed while it waits does not trip the assertions of sem.c.
DownEnds == \A t \in Thread : (at[t] = "down") ~> (at[t] = "in")
=============================================================================
