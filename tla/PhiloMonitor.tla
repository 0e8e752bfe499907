---------------------------- MODULE PhiloMonitor ----------------------------
(***************************************************************************)
(* The Hoare monitor of monitor.c and its only client, the philosophers of *)
(* check_sync.c with condition variables.  A monitor is three kinds of     *)
(* semaphore: mutex to enter, cv[k].sem to wait for a condition, next for  *)
(* signallers that have given the monitor to the thread they woke.         *)
(* A thread may be switched out between any two steps.                     *)
(***************************************************************************)
EXTENDS Sem, FiniteSets

CONSTANTS N,      \* philosophers, and condition variables
          TIMES   \* meals of each

ASSUME MonitorAssumption == N \in Nat /\ N > 2 /\ TIMES \in Nat \ {0}

Phil == 0..(N - 1)
LEFT(i) == (i - 1 + N) % N
RIGHT(i) == (i + 1) % N

VARIABLES
    state_condvar,
    mutex, next, cv,   \* the semaphores; cv[k] is cv[k].sem
    next_count, count, \* count[k] is cv[k].count
    pc, test, iter     \* where thread i is, phi_test_condvar's argument, meals

vars == <<state_condvar, mutex, next, cv, next_count, count, pc, test, iter>>

Asleep(i) == Blocked(mutex, i) \/ Blocked(next, i) \/ \E k \in Phil : Blocked(cv[k], i)

At(i, l) == pc[i] = l /\ ~Asleep(i)

Goto(i, l) == pc' = [pc EXCEPT ![i] = l]

-----------------------------------------------------------------------------
(* monitor.c *)

\* Leaving the monitor, for good or in cond_wait: to a signaller, if one waits.
GiveUp_Mutex == mutex' = up(mutex) /\ UNCHANGED next
GiveUp ==
    IF next_count > 0 THEN next' = up(next) /\ UNCHANGED mutex
                      ELSE mutex' = up(mutex) /\ UNCHANGED next

\* After phi_test_condvar(LEFT) comes phi_test_condvar(RIGHT); after the others
\* the end of phi_put_forks_condvar, or the check in phi_take_forks_condvar.
TestReturns(i) ==
    /\ test' = [test EXCEPT ![i] = IF @ = LEFT(i) THEN RIGHT(i) ELSE @]
    /\ Goto(i, IF test[i] = LEFT(i) THEN "test" ELSE IF test[i] = i THEN "check" ELSE "leave")

\* cond_signal(cv[test[i]]) step by step.
SignalNobody(k) == count[k] <= 0

SignalBegins(i) ==
    /\ At(i, "signal")
    /\ IF SignalNobody(test[i])
         THEN TestReturns(i) /\ UNCHANGED next_count
         ELSE next_count' = next_count + 1 /\ Goto(i, "sig_up") /\ UNCHANGED test
    /\ UNCHANGED <<state_condvar, mutex, next, cv, count, iter>>

SignalUps(i) ==
    /\ At(i, "sig_up")
    /\ cv' = [cv EXCEPT ![test[i]] = up(@)]
    /\ Goto(i, "sig_down")
    /\ UNCHANGED <<state_condvar, mutex, next, next_count, count, test, iter>>

SignalDowns_NoWait(i) ==
    /\ At(i, "sig_down")
    /\ Goto(i, "sig_end")
    /\ UNCHANGED <<state_condvar, mutex, next, cv, next_count, count, test, iter>>
SignalDowns(i) ==
    /\ At(i, "sig_down")
    /\ next' = down(next, i)
    /\ Goto(i, "sig_end")
    /\ UNCHANGED <<state_condvar, mutex, cv, next_count, count, test, iter>>

SignalEnds(i) ==
    /\ At(i, "sig_end")
    /\ next_count' = next_count - 1
    /\ TestReturns(i)
    /\ UNCHANGED <<state_condvar, mutex, next, cv, count, iter>>

\* cond_wait(cv[i]) step by step.
WaitCounts(i) ==
    /\ At(i, "wait")
    /\ count' = [count EXCEPT ![i] = @ + 1]
    /\ Goto(i, "wait_up")
    /\ UNCHANGED <<state_condvar, mutex, next, cv, next_count, test, iter>>

WaitGivesUp(i) ==
    /\ At(i, "wait_up")
    /\ GiveUp
    /\ Goto(i, "wait_down")
    /\ UNCHANGED <<state_condvar, cv, next_count, count, test, iter>>

WaitDowns(i) ==
    /\ At(i, "wait_down")
    /\ cv' = [cv EXCEPT ![i] = down(@, i)]
    /\ Goto(i, "wait_end")
    /\ UNCHANGED <<state_condvar, mutex, next, next_count, count, test, iter>>

WaitEnds_NoCount(i) ==
    /\ At(i, "wait_end")
    /\ Goto(i, "leave")
    /\ UNCHANGED <<state_condvar, mutex, next, cv, next_count, count, test, iter>>
WaitEnds(i) ==
    /\ At(i, "wait_end")
    /\ count' = [count EXCEPT ![i] = @ - 1]
    /\ Goto(i, "leave")
    /\ UNCHANGED <<state_condvar, mutex, next, cv, next_count, test, iter>>

-----------------------------------------------------------------------------
(* check_sync.c *)

\* The loop of philosopher_using_condvar, around its first do_sleep.
Think(i) ==
    /\ At(i, "think")
    /\ iter' = [iter EXCEPT ![i] = @ + 1]
    /\ Goto(i, IF iter[i] < TIMES THEN "take" ELSE "quit")
    /\ UNCHANGED <<state_condvar, mutex, next, cv, next_count, count, test>>

\* down(&mtp->mutex) of phi_take_forks_condvar and phi_put_forks_condvar.
EnterMonitor(i) ==
    /\ \/ At(i, "take") /\ Goto(i, "hungry")
       \/ At(i, "eat") /\ Goto(i, "thinking")
    /\ mutex' = down(mutex, i)
    /\ UNCHANGED <<state_condvar, next, cv, next_count, count, test, iter>>

SetHungry(i) ==
    /\ At(i, "hungry")
    /\ state_condvar' = [state_condvar EXCEPT ![i] = "HUNGRY"]
    /\ test' = [test EXCEPT ![i] = i]
    /\ Goto(i, "test")
    /\ UNCHANGED <<mutex, next, cv, next_count, count, iter>>

FirstTest(i) == LEFT(i)

SetThinking(i) ==
    /\ At(i, "thinking")
    /\ state_condvar' = [state_condvar EXCEPT ![i] = "THINKING"]
    /\ test' = [test EXCEPT ![i] = FirstTest(i)]
    /\ Goto(i, "test")
    /\ UNCHANGED <<mutex, next, cv, next_count, count, iter>>

\* phi_test_condvar
MayEat(k) ==
    /\ state_condvar[k] = "HUNGRY"
    /\ state_condvar[LEFT(k)] # "EATING"
    /\ state_condvar[RIGHT(k)] # "EATING"

PhiTest_OnlyOwn(i) ==
    /\ At(i, "test")
    /\ IF MayEat(test[i])
         THEN /\ state_condvar' = [state_condvar EXCEPT ![i] = IF test[i] = i THEN "EATING" ELSE @]
              /\ Goto(i, "signal") /\ UNCHANGED test
         ELSE TestReturns(i) /\ UNCHANGED state_condvar
    /\ UNCHANGED <<mutex, next, cv, next_count, count, iter>>
PhiTest(i) ==
    /\ At(i, "test")
    /\ IF MayEat(test[i])
         THEN /\ state_condvar' = [state_condvar EXCEPT ![test[i]] = "EATING"]
              /\ Goto(i, "signal") /\ UNCHANGED test
         ELSE TestReturns(i) /\ UNCHANGED state_condvar
    /\ UNCHANGED <<mutex, next, cv, next_count, count, iter>>

\* phi_take_forks_condvar: wait unless eating already.
CheckEating(i) ==
    /\ At(i, "check")
    /\ Goto(i, IF state_condvar[i] # "EATING" THEN "wait" ELSE "leave")
    /\ UNCHANGED <<state_condvar, mutex, next, cv, next_count, count, test, iter>>

LeaveMonitor(i) ==
    /\ At(i, "leave")
    /\ GiveUp
    /\ Goto(i, IF test[i] = i THEN "eat" ELSE "think")
    /\ UNCHANGED <<state_condvar, cv, next_count, count, test, iter>>

-----------------------------------------------------------------------------
Init ==
    /\ state_condvar = [i \in Phil |-> "THINKING"]
    /\ mutex = sem_init(1)
    /\ next = sem_init(0)
    /\ cv = [i \in Phil |-> sem_init(0)]
    /\ next_count = 0
    /\ count = [i \in Phil |-> 0]
    /\ pc = [i \in Phil |-> "think"]
    /\ test = [i \in Phil |-> i]
    /\ iter = [i \in Phil |-> 0]

Step(i) ==
    \/ Think(i) \/ EnterMonitor(i) \/ SetHungry(i) \/ SetThinking(i) \/ PhiTest(i)
    \/ CheckEating(i) \/ LeaveMonitor(i)
    \/ SignalBegins(i) \/ SignalUps(i) \/ SignalDowns(i) \/ SignalEnds(i)
    \/ WaitCounts(i) \/ WaitGivesUp(i) \/ WaitDowns(i) \/ WaitEnds(i)

AllQuit == \A i \in Phil : pc[i] = "quit"

Next == (\E i \in Phil : Step(i)) \/ (AllQuit /\ UNCHANGED vars)

Spec == Init /\ [][Next]_vars

\* A runnable thread gets the CPU (module Proc); do_sleep returns.
FairSpec == Spec /\ \A i \in Phil : WF_vars(Step(i))

-----------------------------------------------------------------------------
\* Threads that run inside the monitor, on its data.  A signaller about to sleep on
\* next (sig_down) and a waiter about to sleep on its condition (wait_down) have
\* given it up.
Active ==
    {i \in Phil : ~Asleep(i) /\ pc[i] \in {"hungry", "thinking", "test", "signal", "sig_up",
                     "sig_end", "check", "wait", "wait_up", "wait_end", "leave"}}

\* monitor.h: "Only one process at a time may be be active in a monitor", also
\* while control goes from a signaller to a waiter and back.
OneActive == Cardinality(Active) <= 1

\* phi_take_forks_condvar does not look again after cond_wait: the condition it
\* waited for still holds when it gets the monitor.
ConditionHolds == \A i \in Phil : At(i, "wait_end") => state_condvar[i] = "EATING"

\* next_count and cv[k].count are what cond_wait and cond_signal take them for:
\* the signallers to give the monitor back to, and the waiters to wake.
CountsExact ==
    /\ next_count = Cardinality({i \in Phil : pc[i] \in {"sig_up", "sig_down", "sig_end"}})
    /\ \A k \in Phil :
         count[k] = Cardinality({i \in {k} : pc[i] \in {"wait_up", "wait_down", "wait_end"}})

\* Everyone has his TIMES meals and quits.
EveryoneDines == <>AllQuit
=============================================================================
